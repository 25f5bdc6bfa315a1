-------------------------- MODULE SegmentLog_proofs --------------------------
(***************************************************************************)
(* The safety of one segment, for every region size, roll size, set of     *)
(* payload sizes and set of readers, and any number of records and crashes *)
(* the bounds admit.  IInv is proved inductive, one lemma for each group   *)
(* of actions that touch the same state; the theorems follow from it.      *)
(***************************************************************************)
EXTENDS SegmentLogInv, TLAPS

-----------------------------------------------------------------------------
(* Offset arithmetic, for every region size and roll size the code accepts *)

\* align_up returns the least multiple of ALIGN not below its argument.
LEMMA AlignUpFacts ==
  ASSUME NEW x \in Nat
  PROVE  /\ AlignUp(x) \in Nat
         /\ x <= AlignUp(x) /\ AlignUp(x) < x + ALIGN
         /\ AlignUp(x) % ALIGN = 0
BY DEF AlignUp, ALIGN

\* align_up from an aligned position pads what is added to it and nothing else.
LEMMA AlignUpShift ==
  ASSUME NEW p \in Nat, p % ALIGN = 0, NEW x \in Nat
  PROVE  AlignUp(p + x) = p + AlignUp(x)
BY DEF AlignUp, ALIGN

\* align_up leaves an aligned position alone.
LEMMA AlignUpAligned ==
  ASSUME NEW x \in Nat, x % ALIGN = 0
  PROVE  AlignUp(x) = x
BY DEF AlignUp, ALIGN

\* The slot after a record at an aligned slot is aligned and past the record's payload; the
\* two ways the code computes it (commit's align_up of the whole record, open_file's of the
\* payload alone) agree.
LEMMA NextSlotFacts ==
  ASSUME NEW p \in Nat, p % ALIGN = 0, NEW len \in Nat
  PROVE  /\ NextSlot(p, len) \in Nat /\ NextSlot(p, len) % ALIGN = 0
         /\ p + HEADER_SLOT + len <= NextSlot(p, len)
         /\ NextSlot(p, len) = p + AlignUp(HEADER_SLOT + len)
         /\ NextSlot(p, len) = p + HEADER_SLOT + AlignUp(len)
BY DEF AlignUp, NextSlot, ALIGN, HEADER_SLOT

\* An offset into a region, and what it leaves of the region.
LEMMA OffsetFacts ==
  ASSUME NEW p \in Nat
  PROVE  /\ Offset(p) \in Nat /\ Offset(p) < RegionSize
         /\ Leftover(p) \in Nat /\ Leftover(p) = RegionSize - Offset(p)
BY RegionSizeAssumption DEF Offset, Leftover, FIRST_RECORD, ROLL_TOTAL, HEADER_SLOT, ROLL_PAYLOAD

\* Quotient and remainder by the region size are what they should be.
LEMMA RegionDivision ==
  ASSUME NEW p \in Nat
  PROVE  /\ Region(p) \in Nat
         /\ p = Region(p) * RegionSize + Offset(p)
BY RegionSizeAssumption DEF Region, Offset, FIRST_RECORD, ROLL_TOTAL, HEADER_SLOT, ROLL_PAYLOAD

\* Multiplication is monotone.
LEMMA TimesMonotone ==
  ASSUME NEW a \in Nat, NEW b \in Nat, a <= b, NEW n \in Nat
  PROVE  a * n <= b * n
<1> DEFINE c == b - a
<1>1. c \in Nat /\ b = a + c
  OBVIOUS
<1>2. c * n \in Nat /\ a * n \in Nat
  BY <1>1
<1>3. (a + c) * n = a * n + c * n
  BY <1>1
<1> HIDE DEF c
<1>4. QED
  BY <1>1, <1>2, <1>3

\* A sum of whole regions and less than a region lies in the region after those, at that offset.
LEMMA OffsetUnique ==
  ASSUME NEW k \in Nat, NEW o \in Nat, o < RegionSize
  PROVE  Offset(k * RegionSize + o) = o /\ Region(k * RegionSize + o) = k
<1> DEFINE R == RegionSize
           p == k * R + o
           m == Region(p)
           oo == Offset(p)
<1>0. R \in Nat
  BY RegionSizeAssumption
<1>1. k * R \in Nat /\ p \in Nat
  BY <1>0
<1>2. m \in Nat /\ oo \in Nat /\ oo < R /\ p = m * R + oo
  BY <1>1, RegionDivision, OffsetFacts
<1>3. m * R \in Nat /\ k * R \in Nat
  BY <1>0, <1>2
<1>4. (m + 1) * R = m * R + R /\ (k + 1) * R = k * R + R
  BY <1>0, <1>2
<1>5. m < k => (m + 1) * R <= k * R
  BY <1>0, <1>2, TimesMonotone
<1>6. k < m => (k + 1) * R <= m * R
  BY <1>0, <1>2, TimesMonotone
<1>7. p = k * R + o
  OBVIOUS
<1> HIDE DEF m, oo, R, p
<1>8. ~(m < k) /\ ~(k < m)
  <2> DEFINE mr == m * R
             kr == k * R
             mr1 == (m + 1) * R
             kr1 == (k + 1) * R
  <2>1. /\ mr \in Nat /\ kr \in Nat /\ mr1 = mr + R /\ kr1 = kr + R
        /\ p = mr + oo /\ p = kr + o
        /\ (m < k => mr1 <= kr) /\ (k < m => kr1 <= mr)
    BY <1>2, <1>3, <1>4, <1>5, <1>6, <1>7
  <2> HIDE DEF mr, kr, mr1, kr1
  <2>2. o < R
    BY DEF R
  <2>3. QED
    BY <1>0, <1>2, <2>1, <2>2
<1>9. m = k
  BY <1>2, <1>8
<1>10. oo = o
  BY <1>2, <1>3, <1>7, <1>9
<1>11. QED
  BY <1>9, <1>10 DEF m, oo, p, R

\* Inside a region, offsets add up and the region stays.
LEMMA OffsetShift ==
  ASSUME NEW p \in Nat, NEW d \in Nat, Offset(p) + d < RegionSize
  PROVE  Offset(p + d) = Offset(p) + d /\ Region(p + d) = Region(p)
<1>1. Region(p) \in Nat /\ Offset(p) \in Nat /\ p = Region(p) * RegionSize + Offset(p)
  BY RegionDivision, OffsetFacts
<1>2. p + d = Region(p) * RegionSize + (Offset(p) + d)
  <2> DEFINE kr == Region(p) * RegionSize
  <2>1. kr \in Nat
    BY <1>1, RegionSizeAssumption
  <2> HIDE DEF kr
  <2>2. p = kr + Offset(p)
    BY <1>1 DEF kr
  <2>3. p + d = kr + (Offset(p) + d)
    BY <1>1, <2>1, <2>2
  <2>4. QED
    BY <2>3 DEF kr
<1>3. /\ Offset(Region(p) * RegionSize + (Offset(p) + d)) = Offset(p) + d
      /\ Region(Region(p) * RegionSize + (Offset(p) + d)) = Region(p)
  BY <1>1, OffsetUnique
<1>4. QED
  BY <1>2, <1>3

\* Every region starts on an ALIGN boundary.
LEMMA RegionAligned ==
  ASSUME NEW k \in Nat
  PROVE  k * RegionSize \in Nat /\ (k * RegionSize) % ALIGN = 0
<1> DEFINE e == RegionSize \div 8
<1>1. e \in Nat /\ RegionSize = 8 * e
  BY RegionSizeAssumption DEF ALIGN
<1> HIDE DEF e
<1>2. k * RegionSize = 8 * (k * e) /\ k * e \in Nat
  BY <1>1
<1>3. QED
  <2> DEFINE n == k * e
  <2>1. n \in Nat /\ k * RegionSize = 8 * n
    BY <1>2
  <2> HIDE DEF n
  <2>2. QED
    BY <2>1 DEF ALIGN

\* A region starts at a file offset, a multiple of the region size.
LEMMA RegionStartFacts ==
  ASSUME NEW p \in Nat
  PROVE  RegionStart(p) \in Nat /\ RegionStart(p) = Region(p) * RegionSize
<1> DEFINE kr == Region(p) * RegionSize
<1>1. kr \in Nat /\ Offset(p) \in Nat /\ p = kr + Offset(p)
  BY RegionDivision, RegionAligned, OffsetFacts
<1> HIDE DEF kr
<1>2. RegionStart(p) = kr
  BY <1>1 DEF RegionStart
<1>3. QED
  BY <1>1, <1>2 DEF kr

\* A later position is in the same region or a later one.
LEMMA RegionMonotone ==
  ASSUME NEW p \in Nat, NEW q \in Nat, p <= q
  PROVE  Region(p) <= Region(q)
<1> DEFINE m == Region(p)
           k == Region(q)
           R == RegionSize
           mr == m * R
           kr == k * R
           kr1 == (k + 1) * R
<1>1. /\ m \in Nat /\ k \in Nat /\ R \in Nat
      /\ p = mr + Offset(p) /\ q = kr + Offset(q)
      /\ Offset(p) \in Nat /\ Offset(q) \in Nat /\ Offset(q) < R
  BY RegionDivision, OffsetFacts, RegionSizeAssumption
<1>2. mr \in Nat /\ kr \in Nat /\ kr1 = kr + R
  BY <1>1
<1>3. k < m => kr1 <= mr
  BY <1>1, TimesMonotone
<1> HIDE DEF m, k, R, mr, kr, kr1
<1>4. ~(k < m)
  BY <1>1, <1>2, <1>3
<1>5. QED
  BY <1>1, <1>4 DEF m, k

\* A segment is created with a length.
LEMMA PreallocationFacts == PreallocationLen \in Nat
<1>1. FileRollSize % RegionSize \in Nat /\ FileRollSize % RegionSize < RegionSize
  BY FileRollSizeAssumption, OffsetFacts DEF Offset
<1>2. QED
  BY <1>1, RegionSizeAssumption, FileRollSizeAssumption DEF PreallocationLen

\* The next region starts past a slot with room for a Roll, aligned, and has such room.
LEMMA NextRegionFacts ==
  ASSUME NEW p \in Nat, RollFits(p)
  PROVE  /\ p + Leftover(p) \in Nat /\ p + ROLL_TOTAL <= p + Leftover(p)
         /\ (p + Leftover(p)) % ALIGN = 0
         /\ Offset(p + Leftover(p)) = 0 /\ RollFits(p + Leftover(p))
         /\ p + Leftover(p) = (Region(p) + 1) * RegionSize
         /\ Region(p + Leftover(p)) = Region(p) + 1
<1> DEFINE k == Region(p) + 1
<1>1. /\ Offset(p) \in Nat /\ Leftover(p) \in Nat /\ Leftover(p) = RegionSize - Offset(p)
      /\ RegionSize \in Nat /\ ROLL_TOTAL = 56 /\ RegionSize >= 264 /\ Leftover(p) >= ROLL_TOTAL
  BY OffsetFacts, RegionSizeAssumption
  DEF RollFits, FIRST_RECORD, ROLL_TOTAL, HEADER_SLOT, ROLL_PAYLOAD
<1>2. k \in Nat /\ p + Leftover(p) = k * RegionSize
  <2> DEFINE m == Region(p)
             mr == m * RegionSize
             kr == (m + 1) * RegionSize
  <2>1. m \in Nat /\ p = mr + Offset(p)
    BY RegionDivision
  <2>2. mr \in Nat /\ kr = mr + RegionSize
    BY <1>1, <2>1
  <2> HIDE DEF mr, kr
  <2>3. p + Leftover(p) = kr
    BY <1>1, <2>1, <2>2
  <2>4. QED
    BY <2>1, <2>3 DEF kr
<1>2a. p + Leftover(p) = (Region(p) + 1) * RegionSize
  BY <1>2
<1>2b. k = Region(p) + 1
  OBVIOUS
<1> HIDE DEF k
<1>3. (p + Leftover(p)) % ALIGN = 0
  BY <1>2, RegionAligned
<1>4. Offset(p + Leftover(p)) = 0 /\ Region(p + Leftover(p)) = k
  <2>1. k * RegionSize \in Nat /\ k * RegionSize + 0 = k * RegionSize
    BY <1>2, RegionAligned
  <2>2. Offset(k * RegionSize + 0) = 0 /\ Region(k * RegionSize + 0) = k
    BY <1>1, <1>2, OffsetUnique
  <2>3. QED
    BY <1>2, <2>1, <2>2
<1>5. RollFits(p + Leftover(p))
  BY <1>1, <1>4 DEF RollFits, Leftover
<1>6. QED
  BY <1>1, <1>2a, <1>2b, <1>3, <1>4, <1>5

-----------------------------------------------------------------------------
(* The operators on headers *)

\* Writing a header replaces the headers it overlaps and leaves the others alone.
LEMMA PutHeaderFacts ==
  ASSUME NEW s, DOMAIN s \subseteq Nat, s \in [DOMAIN s -> Header],
         NEW p \in Nat, NEW h \in Header
  PROVE  LET t == PutHeader(s, p, h)
         IN /\ DOMAIN t \subseteq Nat /\ t \in [DOMAIN t -> Header]
            /\ p \in DOMAIN t /\ t[p] = h
            /\ \A q \in DOMAIN s : q + HEADER_SLOT <= p \/ p + HEADER_SLOT <= q =>
                 q \in DOMAIN t /\ t[q] = s[q]
            /\ \A q \in DOMAIN t : q # p => q \in DOMAIN s /\ t[q] = s[q]
BY DEF PutHeader, HEADER_SLOT

\* Writing payload bytes removes the headers it overlaps and leaves the others alone.
LEMMA ClobberFacts ==
  ASSUME NEW s, DOMAIN s \subseteq Nat, s \in [DOMAIN s -> Header],
         NEW from \in Nat, NEW to \in Nat
  PROVE  LET t == Clobber(s, from, to)
         IN /\ DOMAIN t \subseteq Nat /\ t \in [DOMAIN t -> Header]
            /\ \A q \in DOMAIN s : q + HEADER_SLOT <= from \/ to <= q =>
                 q \in DOMAIN t /\ t[q] = s[q]
            /\ \A q \in DOMAIN t : q \in DOMAIN s /\ t[q] = s[q]
BY DEF Clobber, HEADER_SLOT

\* Committing a header sets its flag and nothing else.
LEMMA SetCommittedFacts ==
  ASSUME NEW s, DOMAIN s \subseteq Nat, s \in [DOMAIN s -> Header], NEW p \in DOMAIN s
  PROVE  LET t == SetCommitted(s, p)
         IN /\ DOMAIN t = DOMAIN s /\ t \in [DOMAIN t -> Header]
            /\ t[p].committed /\ t[p].type = s[p].type
            /\ t[p].len = s[p].len /\ t[p].meta = s[p].meta
            /\ \A q \in DOMAIN s : q # p => t[q] = s[q]
BY DEF SetCommitted, Header

\* The headers the writer stores are headers.
LEMMA HeaderTypesOK ==
  /\ Preinstalled \in Header /\ ~Preinstalled.committed /\ Preinstalled.type = "User"
  /\ StagedRoll \in Header /\ ~StagedRoll.committed /\ StagedRoll.type = "Roll"
  /\ \A len \in Nat : /\ StagedSkip(len) \in Header /\ ~StagedSkip(len).committed
                      /\ StagedSkip(len).type = "Skip" /\ StagedSkip(len).len = len
  /\ \A len \in Nat, meta \in {0, 1} :
       /\ StagedUser(len, meta) \in Header /\ ~StagedUser(len, meta).committed
       /\ StagedUser(len, meta).type = "User" /\ StagedUser(len, meta).len = len
BY DEF Header, HeaderTypes, Preinstalled, StagedRoll, StagedSkip, StagedUser,
       ROLL_PAYLOAD

-----------------------------------------------------------------------------
(* The chain *)

\* The last slot of the chain is the one not passed.
LEMMA LastSlot ==
  ASSUME TypeOK, ChainOK, NEW p \in DOMAIN chain, ~Passed(p), NEW q \in DOMAIN chain
  PROVE  /\ p \in Nat /\ q \in Nat /\ q <= p
         /\ q # p => q + HEADER_SLOT <= p
         /\ ~Passed(q) => q = p
BY DEF TypeOK, ChainOK, HEADER_SLOT

\* Rewriting the last slot with a record that is still not passed, and laying or removing
\* pre-installed headers off the chain, keeps the chain.
LEMMA ChainKept ==
  ASSUME TypeOK, ChainOK, chain' = chain,
         NEW t \in DOMAIN chain, ~Passed(t), t \in DOMAIN slots', ~Passed(t)',
         \A q \in DOMAIN chain : q # t => q \in DOMAIN slots' /\ slots'[q] = slots[q],
         \A q \in DOMAIN slots' : q \notin DOMAIN chain => slots'[q] = Preinstalled
  PROVE  /\ ChainOK'
         /\ \A q \in DOMAIN chain : Passed(q)' <=> Passed(q)
<1>1. \A q \in DOMAIN chain : Passed(q)' <=> Passed(q)
  BY DEF Passed, Committed, IsHeader, ChainOK
<1>2. \A q \in DOMAIN chain : Passed(q) => After(q)' = After(q) /\ UsersAt(q)' = UsersAt(q)
  BY DEF After, UsersAt
<1>3. QED
  BY <1>1, <1>2 DEF ChainOK

\* Committing the last slot's record, whose next slot is laid, adds that slot to the chain.
LEMMA ChainGrows ==
  ASSUME TypeOK, ChainOK,
         NEW t \in DOMAIN chain, ~slots[t].committed, slots[t].type # "Roll",
         NEW u \in Nat, u = After(t), Laid(u),
         t + HEADER_SLOT <= u, u % ALIGN = 0, RollFits(u),
         slots' = SetCommitted(slots, t), chain' = Extend(chain, t, u, UsersAt(t))
  PROVE  /\ ChainOK'
         /\ DOMAIN chain' \subseteq Nat /\ chain' \in [DOMAIN chain' -> Nat]
         /\ \A q \in DOMAIN chain : /\ q \in DOMAIN chain' /\ chain'[q] = chain[q]
                                    /\ Passed(q) => Passed(q)'
         /\ u \in DOMAIN chain' /\ ~slots'[u].committed /\ chain'[u] = chain[t] + UsersAt(t)
         /\ Passed(t)'
<1>1. /\ t \in Nat /\ t \in DOMAIN slots /\ u # t /\ u \in DOMAIN slots
      /\ slots[u] = Preinstalled /\ ~Passed(t)
  BY DEF TypeOK, ChainOK, Laid, HEADER_SLOT, Passed, Committed
<1>2. \A q \in DOMAIN chain : q \in Nat /\ q <= t /\ (q # t => q + HEADER_SLOT <= t /\ Passed(q))
  BY <1>1, LastSlot
<1>3. u \notin DOMAIN chain /\ (\A q \in DOMAIN chain : q + HEADER_SLOT <= u)
  BY <1>1, <1>2 DEF HEADER_SLOT
<1>4. /\ DOMAIN slots' = DOMAIN slots
      /\ slots'[t].committed /\ slots'[t].type = slots[t].type /\ slots'[t].len = slots[t].len
      /\ \A q \in DOMAIN slots : q # t => slots'[q] = slots[q]
  BY <1>1, SetCommittedFacts DEF TypeOK
<1>5. /\ DOMAIN chain' = DOMAIN chain \cup {u}
      /\ chain'[u] = chain[t] + UsersAt(t)
      /\ \A q \in DOMAIN chain : chain'[q] = chain[q]
  BY <1>3 DEF Extend
<1>6. UsersAt(t) \in Nat
  BY DEF UsersAt
<1>7. DOMAIN chain' \subseteq Nat /\ chain' \in [DOMAIN chain' -> Nat]
  <2>1. chain' = [x \in DOMAIN chain \cup {u} |-> IF x = u THEN chain[t] + UsersAt(t) ELSE chain[x]]
    BY DEF Extend
  <2>2. chain[t] + UsersAt(t) \in Nat
    BY <1>6 DEF TypeOK
  <2>3. \A x \in DOMAIN chain : chain[x] \in Nat
    BY DEF TypeOK
  <2>4. QED
    BY <2>1, <2>2, <2>3, <1>5 DEF TypeOK
<1>8. Passed(t)' /\ After(t)' = u /\ UsersAt(t)' = UsersAt(t)
  BY <1>1, <1>4 DEF Passed, Committed, IsHeader, After, UsersAt
<1>9. \A q \in DOMAIN chain : q # t =>
        /\ Passed(q)' /\ After(q)' = After(q) /\ UsersAt(q)' = UsersAt(q)
        /\ After(q) \in DOMAIN chain /\ chain[After(q)] = chain[q] + UsersAt(q)
  BY <1>2, <1>4 DEF Passed, Committed, IsHeader, After, UsersAt, ChainOK
<1>10. ~slots'[u].committed /\ ~Passed(u)'
  BY <1>1, <1>4, HeaderTypesOK DEF Passed, Committed, IsHeader
<1>11. ChainOK'
  <2>1. 0 \in DOMAIN chain' /\ chain'[0] = 0
    BY <1>5 DEF ChainOK
  <2>2. \A p \in DOMAIN chain' : p \in DOMAIN slots' /\ p % ALIGN = 0 /\ RollFits(p)
    BY <1>1, <1>4, <1>5 DEF ChainOK
  <2>3. \A p \in DOMAIN chain' : Passed(p)' =>
          After(p)' \in DOMAIN chain' /\ chain'[After(p)'] = chain'[p] + UsersAt(p)'
    BY <1>5, <1>8, <1>9, <1>10
  <2>4. \A p \in DOMAIN chain' : ~Passed(p)' => \A q \in DOMAIN chain' : q <= p
    <3>1. \A q \in DOMAIN chain' : q <= u
      BY <1>3, <1>2, <1>5 DEF HEADER_SLOT
    <3>2. \A p \in DOMAIN chain' : ~Passed(p)' => p = u
      BY <1>5, <1>8, <1>9
    <3>3. QED
      BY <3>1, <3>2
  <2>5. \A p, q \in DOMAIN chain' : p < q => p + HEADER_SLOT <= q
    <3>1. \A p, q \in DOMAIN chain : p < q => p + HEADER_SLOT <= q
      BY DEF ChainOK
    <3>2. QED
      BY <1>2, <1>3, <1>5, <3>1 DEF HEADER_SLOT
  <2>6. \A p \in DOMAIN slots' : p \notin DOMAIN chain' => slots'[p] = Preinstalled
    BY <1>4, <1>5 DEF ChainOK
  <2>7. QED
    BY <2>1, <2>2, <2>3, <2>4, <2>5, <2>6 DEF ChainOK
<1>12. QED
  BY <1>5, <1>7, <1>8, <1>9, <1>10, <1>11

-----------------------------------------------------------------------------
(* The readers, while the writer moves *)

\* What a writer's step may do to the file under a reader: the chain only grows and not past
\* a published successor, passed records stay passed, the position only advances.
Advances ==
  /\ \A q \in DOMAIN chain : /\ q \in DOMAIN chain' /\ chain'[q] = chain[q]
                             /\ Passed(q) => Passed(q)'
  /\ succ = "published" => succ' = "published" /\ chain' = chain
  /\ wp <= wp'
  /\ UNCHANGED readerVars

\* Such a step keeps what the readers rely on.
LEMMA ReadersKept ==
  ASSUME TypeOK, wp' \in Nat, Advances, NEW r \in Readers, ReaderOK(r)
  PROVE  ReaderOK(r)'
<1>1. /\ rpc'[r] = rpc[r] /\ rpos'[r] = rpos[r] /\ rindex'[r] = rindex[r] /\ rwalk'[r] = rwalk[r]
      /\ rpos[r] \in Int /\ wp \in Nat
  BY DEF Advances, readerVars, TypeOK
<1>2. rpc[r] = "live_count" => rpos[r] <= wp' - HEADER_SLOT
  BY <1>1 DEF Advances, ReaderOK, HEADER_SLOT
<1>3. rpc[r] \in {"live_newer", "live_slot"} =>
        (rpos[r] \in DOMAIN chain' /\ ~Passed(rpos[r])' => rindex[r] = chain'[rpos[r]])
  BY <1>1 DEF Advances, ReaderOK, Passed, Committed, IsHeader
<1>4. QED
  BY <1>1, <1>2, <1>3 DEF Advances, ReaderOK

-----------------------------------------------------------------------------
(* Steps of the writer that store nothing a reader sees *)

\* With the file, the chain and the readers as they were, only the writer's part is left.
LEMMA FileKept ==
  ASSUME IInv, UNCHANGED <<slots, count, wp, succ, readerVars, chain>>
  PROVE  ChainOK' /\ PairOK' /\ \A r \in Readers : ReaderOK(r)'
<1>1. ChainOK'
  BY DEF IInv, ChainOK, Passed, Committed, IsHeader, After, UsersAt
<1>2. PairOK'
  BY DEF IInv, PairOK, Passed, CommittedType, Committed, IsHeader
<1>3. TypeOK /\ wp' \in Nat /\ Advances
  BY DEF IInv, TypeOK, Advances, Passed, Committed, IsHeader
<1>4. QED
  BY <1>1, <1>2, <1>3, ReadersKept DEF IInv

\* try_reserve's checks, commit's refusal, the failures, and the calls that only begin.
LEMMA CallSteps ==
  ASSUME IInv,
         \/ \E size \in Sizes : TryReserve(size)
         \/ ReserveRollFile \/ ReserveSkip
         \/ \E len \in Sizes : CommitTooLong(len)
         \/ SkipFails \/ RollFile \/ RollFails
  PROVE  IInv'
<1> USE DEF fileVars, writerVars, Goto
<1>1. UNCHANGED <<slots, count, wp, fileLen, succ, succBase, readerVars, chain>>
  BY DEF TryReserve, ReserveRollFile, ReserveSkip, CommitTooLong, SkipFails, RollFile, RollFails
<1>2. UNCHANGED <<next, walk, crashes>>
  BY DEF TryReserve, ReserveRollFile, ReserveSkip, CommitTooLong, SkipFails, RollFile, RollFails
<1>3. /\ pc \in {"idle", "reserve", "skip", "roll"}
      /\ pc' \in {"idle", "reserve", "skip", "roll"}
      /\ pending' = NoSize \/ (pending' = pending /\ pc' \in {"idle", "reserve"})
      /\ pending' # NoSize => pc \in {"idle", "reserve"}
      /\ arg' \in Nat
  <2>1. arg \in Nat /\ (pc \notin {"idle", "reserve"} => pending = NoSize)
    BY DEF IInv, TypeOK, WriterOK
  <2>2. CASE \E size \in Sizes : TryReserve(size)
    BY <2>1, <2>2, SizesAssumption DEF TryReserve
  <2>3. CASE ReserveRollFile \/ ReserveSkip \/ \E len \in Sizes : CommitTooLong(len)
    BY <2>1, <2>3 DEF ReserveRollFile, ReserveSkip, CommitTooLong
  <2>4. CASE SkipFails \/ RollFile \/ RollFails
    BY <2>1, <2>4 DEF SkipFails, RollFile, RollFails
  <2>5. QED
    BY <2>2, <2>3, <2>4
<1>4. TypeOK'
  BY <1>1, <1>2, <1>3 DEF IInv, TypeOK, WriterPc, readerVars
<1>5. WriterOK'
  BY <1>1, <1>2, <1>3
  DEF IInv, WriterOK, WritingPc, PublishingPc, RolledPc, Passed, CommittedType, Committed, IsHeader,
      HasRoom, Laid, NextRegion, SkipLen
<1>6. QED
  BY <1>1, <1>4, <1>5, FileKept DEF IInv

\* A crash loses the writer's own variables.
LEMMA CrashStep ==
  ASSUME IInv, Crash
  PROVE  IInv'
<1>1. UNCHANGED <<slots, count, wp, fileLen, succ, succBase, readerVars, chain>>
  BY DEF Crash, fileVars
<1>2. TypeOK'
  BY DEF IInv, Crash, TypeOK, WriterPc, fileVars, readerVars, Walk, WalkStart
<1>3. WriterOK'
  BY DEF Crash, WriterOK, WritingPc, PublishingPc, RolledPc
<1>4. QED
  BY <1>1, <1>2, <1>3, FileKept DEF IInv

\* What a walk does at a record it passes.
LEMMA WalkFacts ==
  ASSUME TypeOK, ChainOK, NEW w \in Walk, WalkGoes(w)
  PROVE  /\ WalkNext(w) \in Walk
         /\ w.pos \in DOMAIN chain /\ w.users = chain[w.pos] =>
              WalkNext(w).pos \in DOMAIN chain /\ WalkNext(w).users = chain[WalkNext(w).pos]
<1>1. /\ w.pos \in Nat /\ w.users \in Nat /\ Passed(w.pos)
      /\ w.pos \in DOMAIN slots /\ slots[w.pos].len \in Nat
  BY DEF Walk, WalkGoes, Passed, TypeOK, Committed, IsHeader, Header
<1>2. After(w.pos) \in Nat
  BY <1>1, AlignUpFacts DEF After, NextSlot, HEADER_SLOT
<1>3. UsersAt(w.pos) \in Nat
  BY DEF UsersAt
<1>4. QED
  BY <1>1, <1>2, <1>3 DEF WalkNext, Walk, ChainOK

\* The two walks of a recovery, and the decisions at their ends.
LEMMA WalkSteps ==
  ASSUME IInv, WalkStep \/ RecountEnds \/ OpenStranded \/ StrandedEnds
  PROVE  IInv'
<1> USE DEF fileVars, writerVars, Goto
<1>1. UNCHANGED <<slots, count, wp, fileLen, succ, succBase, readerVars, chain>>
  BY DEF WalkStep, RecountEnds, OpenStranded, StrandedEnds
<1>2. TypeOK /\ ChainOK /\ WriterOK /\ PairOK
  BY DEF IInv
<1>3. CASE WalkStep
  <2>1. WalkNext(walk) \in Walk
    BY <1>2, <1>3, WalkFacts DEF WalkStep, TypeOK
  <2>2. TypeOK'
    BY <1>1, <1>2, <1>3, <2>1 DEF WalkStep, TypeOK, readerVars
  <2>3. pc = "recount" => walk'.pos \in DOMAIN chain /\ walk'.users = chain[walk'.pos]
    BY <1>2, <1>3, WalkFacts DEF WalkStep, TypeOK, WriterOK
  <2>4. WriterOK'
    BY <1>1, <1>2, <1>3, <2>3
    DEF WalkStep, WriterOK, WritingPc, PublishingPc, RolledPc, Passed, CommittedType, Committed,
        IsHeader
  <2>5. QED
    BY <1>1, <2>2, <2>4, FileKept DEF IInv
<1>4. CASE RecountEnds
  <2>1. TypeOK'
    BY <1>1, <1>2, <1>4 DEF RecountEnds, TypeOK, readerVars, WriterPc
  <2>2. WriterOK'
    BY <1>1, <1>2, <1>4
    DEF RecountEnds, WriterOK, WritingPc, PublishingPc, RolledPc, Passed, CommittedType, Committed,
        IsHeader
  <2>3. QED
    BY <1>1, <2>1, <2>2, FileKept DEF IInv
<1>5. CASE OpenStranded
  <2>1. RegionStart(StrandedEarliest) \in Nat
    <3>1. StrandedEarliest \in Nat
      BY <1>2 DEF StrandedEarliest, TypeOK, HEADER_SLOT, ROLL_TOTAL, ROLL_PAYLOAD
    <3>2. QED
      BY <3>1, RegionStartFacts
  <2>2. TypeOK'
    BY <1>1, <1>2, <1>5, <2>1 DEF OpenStranded, TypeOK, readerVars, WriterPc, Walk
  <2>3. WriterOK'
    BY <1>1, <1>2, <1>5 DEF OpenStranded, WriterOK, WritingPc, PublishingPc, RolledPc
  <2>4. QED
    BY <1>1, <2>2, <2>3, FileKept DEF IInv
<1>6. CASE StrandedEnds
  <2>1. walk.pos \in Nat /\ walk' = WalkStart /\ next' = walk.pos
        /\ pc' \in {"gone", "finish_wp", "finish_commit", "refused"}
    BY <1>2, <1>6 DEF StrandedEnds, TypeOK, Walk
  <2>2. TypeOK'
    BY <1>1, <1>2, <1>6, <2>1 DEF StrandedEnds, TypeOK, readerVars, WriterPc, Walk, WalkStart
  <2>3. succ = "published" /\ pending = NoSize
    BY <1>2, <1>6 DEF StrandedEnds, WriterOK, RolledPc
  <2>4. pc' \in {"finish_wp", "finish_commit"} =>
          /\ walk.pos \in DOMAIN slots /\ slots[walk.pos].type = "Roll"
          /\ wp = walk.pos + HEADER_SLOT
          /\ pc' = "finish_wp" <=> slots[walk.pos].committed
    BY <1>6 DEF StrandedEnds, Committed, IsHeader
  <2>5. pc' \in {"finish_wp", "finish_commit"} => walk.pos \in DOMAIN chain
    BY <1>2, <2>4, HeaderTypesOK DEF ChainOK
  <2>6. pc' = "finish_wp" => count = chain[walk.pos]
    <3>1. pc' = "finish_wp" => ~Passed(walk.pos) /\ wp - HEADER_SLOT = walk.pos
      BY <2>1, <2>4 DEF Passed, HEADER_SLOT
    <3>2. ASSUME pc' = "finish_wp", NEW t \in DOMAIN chain, CommittedType(t, "Roll"),
                 wp = t + ROLL_TOTAL + HEADER_SLOT
          PROVE  FALSE
      <4>1. ~Passed(t)
        BY <3>2 DEF Passed, CommittedType
      <4>2. t = walk.pos
        BY <1>2, <2>5, <3>1, <3>2, <4>1, LastSlot
      <4>3. QED
        BY <2>1, <2>4, <3>2, <4>2 DEF ROLL_TOTAL, HEADER_SLOT, ROLL_PAYLOAD
    <3>3. QED
      BY <1>2, <3>1, <3>2 DEF PairOK
  <2>7. WriterOK'
    BY <1>1, <1>2, <1>6, <2>1, <2>3, <2>4, <2>5, <2>6
    DEF WriterOK, WritingPc, PublishingPc, RolledPc, CommittedType, Committed, IsHeader, StrandedEnds
  <2>8. QED
    BY <1>1, <2>2, <2>7, FileKept DEF IInv
<1>7. QED
  BY <1>3, <1>4, <1>5, <1>6

-----------------------------------------------------------------------------
(* The open after a crash *)

\* open_file resumes at the slot the position names, or steps over the one record there.
LEMMA OpenSteps ==
  ASSUME IInv, OpenAdopt \/ OpenOrphan
  PROVE  IInv'
<1> USE DEF Goto
<1>1. UNCHANGED <<slots, count, wp, succ, succBase, readerVars, chain>>
  BY DEF OpenAdopt, OpenOrphan
<1>2. TypeOK /\ ChainOK /\ WriterOK /\ PairOK
  BY DEF IInv
<1>3. /\ pc = "down" /\ succ = "none"
      /\ UNCHANGED <<pending, arg, crashes>> /\ pending = NoSize
      /\ fileLen' = OpenLen
  BY <1>2 DEF OpenAdopt, OpenOrphan, WriterOK
<1>4. /\ OpenSlot \in DOMAIN chain /\ OpenSlot \in Nat /\ wp = OpenSlot + HEADER_SLOT
      /\ ~Passed(OpenSlot) => count = chain[OpenSlot]
      /\ ~CommittedType(OpenSlot, "Roll")
  BY <1>2, <1>3 DEF PairOK, OpenSlot, TypeOK, HEADER_SLOT
<1>5. OpenLen \in Nat
  <2>1. Region(OpenSlot) + 1 \in Nat
    BY <1>4, RegionDivision
  <2>2. (Region(OpenSlot) + 1) * RegionSize \in Nat
    BY <2>1, RegionAligned
  <2>3. PreallocationLen \in Nat
    BY PreallocationFacts
  <2>4. QED
    BY <1>2, <2>2, <2>3 DEF OpenLen, TypeOK
<1>6. CASE OpenAdopt
  <2>1. TypeOK'
    BY <1>1, <1>2, <1>3, <1>4, <1>5, <1>6 DEF OpenAdopt, TypeOK, readerVars, WriterPc
  <2>2. ~Passed(OpenSlot) /\ ~slots[OpenSlot].committed
    BY <1>2, <1>4, <1>6 DEF OpenAdopt, Passed, Committed, IsHeader, ChainOK
  <2>3. WriterOK'
    BY <1>1, <1>3, <1>4, <1>6, <2>2
    DEF OpenAdopt, WriterOK, WritingPc, PublishingPc, RolledPc
  <2>4. QED
    BY <1>1, <2>1, <2>3, FileKept DEF IInv
<1>7. CASE OpenOrphan
  <2> DEFINE u == OpenSlot + HEADER_SLOT + AlignUp(slots[OpenSlot].len)
  <2>1. \/ pc' = "recount" /\ next' = u /\ HasPreinstall(u)
        \/ pc' = "refused" /\ next' = next
    BY <1>7 DEF OpenOrphan, Recoverable
  <2>2. /\ OpenSlot \in DOMAIN slots /\ slots[OpenSlot].committed
        /\ OpenSlot % ALIGN = 0 /\ slots[OpenSlot].len \in Nat
    BY <1>2, <1>4, <1>7 DEF OpenOrphan, Committed, IsHeader, TypeOK, ChainOK, Header
  <2>3. Passed(OpenSlot)
    BY <1>4, <1>7 DEF OpenOrphan, Passed, CommittedType
  <2>4. u = After(OpenSlot) /\ u \in Nat
    BY <1>4, <2>2, NextSlotFacts DEF After
  <2>5. u \in DOMAIN chain
    BY <1>2, <1>4, <2>3, <2>4 DEF ChainOK
  <2>6. walk' = WalkStart /\ WalkStart \in Walk /\ WalkStart.pos = 0 /\ WalkStart.users = 0
    BY <1>7 DEF OpenOrphan, WalkStart, Walk
  <2>7. TypeOK'
    BY <1>1, <1>2, <1>3, <1>5, <2>1, <2>4, <2>6 DEF TypeOK, readerVars, WriterPc
  <2>8. HasPreinstall(u) => ~slots[u].committed
    BY HeaderTypesOK DEF HasPreinstall
  <2>9. wp - HEADER_SLOT \in DOMAIN chain /\ Passed(wp - HEADER_SLOT)
    BY <1>4, <2>3 DEF OpenSlot
  <2>10. WriterOK'
    <3>1. CASE pc' = "refused"
      BY <1>3, <3>1 DEF WriterOK, WritingPc, PublishingPc, RolledPc
    <3>2. CASE pc' = "recount" /\ next' = u /\ HasPreinstall(u)
      <4> HIDE DEF u
      <4>1. next' \in DOMAIN chain' /\ ~slots'[next'].committed
        BY <1>1, <2>5, <2>8, <3>2
      <4>2. (wp - HEADER_SLOT \in DOMAIN chain /\ Passed(wp - HEADER_SLOT))'
        BY <1>1, <2>9 DEF Passed, Committed, IsHeader
      <4>3. walk'.pos \in DOMAIN chain' /\ walk'.users = chain'[walk'.pos]
        BY <1>1, <1>2, <2>6 DEF ChainOK
      <4>4. QED
        BY <1>1, <1>3, <3>2, <4>1, <4>2, <4>3 DEF WriterOK, WritingPc, PublishingPc, RolledPc
    <3>3. QED
      BY <2>1, <3>1, <3>2
  <2>11. QED
    BY <1>1, <2>7, <2>10, FileKept DEF IInv
<1>8. QED
  BY <1>6, <1>7

-----------------------------------------------------------------------------
(* Stores to the count and the position *)

\* The position, or the count, stored by a writer or a recovery that is past a record.
LEMMA PublishSteps ==
  ASSUME IInv, PublishCount \/ PublishWp \/ SkipWp \/ RecoverCount \/ RecoverWp
  PROVE  IInv'
<1> USE DEF Goto
<1>1. TypeOK /\ ChainOK /\ WriterOK /\ PairOK
  BY DEF IInv
<1>2. UNCHANGED <<slots, fileLen, succ, succBase, next, pending, arg, crashes, readerVars, chain>>
  BY DEF PublishCount, PublishWp, SkipWp, RecoverCount, RecoverWp
<1>3. /\ pc \in PublishingPc /\ pc # "recount" /\ succ # "published" /\ pending = NoSize
      /\ next \in DOMAIN chain /\ next \in Nat /\ ~slots[next].committed /\ ~Passed(next)
      /\ wp - HEADER_SLOT \in DOMAIN chain /\ Passed(wp - HEADER_SLOT)
  BY <1>1 DEF PublishCount, PublishWp, SkipWp, RecoverCount, RecoverWp, WriterOK, PublishingPc,
              WritingPc, TypeOK, Passed, Committed
<1>4. wp <= next + HEADER_SLOT
  BY <1>1, <1>3, LastSlot DEF TypeOK, HEADER_SLOT
<1>5. CASE PublishCount \/ RecoverCount
  <2>1. /\ wp' = wp /\ walk' = walk /\ count' \in Nat
        /\ pc' \in {"wp", "recover_wp"} /\ count' = chain[next]
    BY <1>1, <1>5 DEF PublishCount, RecoverCount, TypeOK, WriterOK, Walk
  <2>2. TypeOK'
    BY <1>1, <1>2, <2>1 DEF TypeOK, WriterPc, readerVars
  <2>3. ChainOK'
    BY <1>1, <1>2 DEF ChainOK, Passed, Committed, IsHeader, After, UsersAt
  <2>4. (wp - HEADER_SLOT \in DOMAIN chain /\ Passed(wp - HEADER_SLOT))'
    BY <1>2, <1>3, <2>1 DEF Passed, Committed, IsHeader
  <2>5. WriterOK'
    BY <1>2, <1>3, <2>1, <2>4 DEF WriterOK, WritingPc, PublishingPc, RolledPc
  <2>6. PairOK'
    BY <2>4 DEF PairOK, Passed, CommittedType
  <2>7. Advances /\ wp' \in Nat
    BY <1>1, <1>2, <2>1 DEF Advances, TypeOK, Passed, Committed, IsHeader
  <2>8. QED
    BY <1>1, <2>2, <2>3, <2>5, <2>6, <2>7, ReadersKept DEF IInv
<1>6. CASE PublishWp \/ SkipWp \/ RecoverWp
  <2>1. /\ wp' = next + HEADER_SLOT /\ wp' \in Nat /\ count' = count /\ count = chain[next]
        /\ pc' \in {"idle", "reserve"} /\ walk' \in Walk
    BY <1>1, <1>3, <1>6 DEF PublishWp, SkipWp, RecoverWp, TypeOK, WriterOK, Walk, WalkStart, HEADER_SLOT
  <2>2. TypeOK'
    BY <1>1, <1>2, <2>1 DEF TypeOK, WriterPc, readerVars
  <2>3. ChainOK'
    BY <1>1, <1>2 DEF ChainOK, Passed, Committed, IsHeader, After, UsersAt
  <2>4. WriterOK'
    BY <1>2, <1>3, <2>1 DEF WriterOK, WritingPc, PublishingPc, RolledPc
  <2>5. wp' - HEADER_SLOT = next
    BY <1>3, <2>1 DEF HEADER_SLOT
  <2>6. PairOK'
    BY <1>2, <1>3, <2>1, <2>5 DEF PairOK, CommittedType, Committed, IsHeader
  <2>7. Advances
    BY <1>1, <1>2, <1>4, <2>1 DEF Advances, Passed, Committed, IsHeader
  <2>8. QED
    BY <1>1, <2>1, <2>2, <2>3, <2>4, <2>6, <2>7, ReadersKept DEF IInv
<1>7. QED
  BY <1>5, <1>6

\* The position moved past a committed Roll, by the writer that rolled or by a recovery.
LEMMA RolledSteps ==
  ASSUME IInv, RollWp \/ FinishWp
  PROVE  IInv'
<1> USE DEF Goto
<1>1. TypeOK /\ ChainOK /\ WriterOK /\ PairOK
  BY DEF IInv
<1>2. /\ UNCHANGED <<slots, count, fileLen, succ, succBase, next, pending, arg, walk, crashes>>
      /\ UNCHANGED <<readerVars, chain>>
      /\ pc' = "gone" /\ pending = NoSize
  BY <1>1 DEF RollWp, FinishWp, WriterOK
<1>3. /\ next \in DOMAIN chain /\ next \in Nat /\ CommittedType(next, "Roll")
      /\ wp = next + HEADER_SLOT /\ count = chain[next] /\ succ = "published"
  BY <1>1 DEF RollWp, FinishWp, WriterOK, RolledPc, TypeOK
<1>4. wp' = next + ROLL_TOTAL + HEADER_SLOT /\ wp' \in Nat /\ wp <= wp'
  BY <1>3 DEF RollWp, FinishWp, ROLL_TOTAL, HEADER_SLOT, ROLL_PAYLOAD
<1>5. TypeOK'
  BY <1>1, <1>2, <1>4 DEF TypeOK, WriterPc, readerVars
<1>6. ChainOK'
  BY <1>1, <1>2 DEF ChainOK, Passed, Committed, IsHeader, After, UsersAt
<1>7. WriterOK'
  BY <1>2 DEF WriterOK, WritingPc, PublishingPc, RolledPc
<1>8. PairOK'
  BY <1>2, <1>3, <1>4 DEF PairOK, CommittedType, Committed, IsHeader
<1>9. Advances
  BY <1>1, <1>2, <1>4 DEF Advances, Passed, Committed, IsHeader
<1>10. QED
  BY <1>1, <1>4, <1>5, <1>6, <1>7, <1>8, <1>9, ReadersKept DEF IInv

-----------------------------------------------------------------------------
(* The successor, and the length of the file *)

\* roll_file's installation and publication of the successor, discard_unpublished_tail, and
\* the growth of the file.
LEMMA SuccessorSteps ==
  ASSUME IInv, RollInstall \/ RollPublish \/ DiscardUnpublished \/ SkipGrow
  PROVE  IInv'
<1> USE DEF Goto
<1>1. TypeOK /\ ChainOK /\ WriterOK /\ PairOK
  BY DEF IInv
<1>2. /\ UNCHANGED <<slots, count, wp, next, pending, arg, walk, crashes>>
      /\ UNCHANGED <<readerVars, chain>>
  BY DEF RollInstall, RollPublish, DiscardUnpublished, SkipGrow, writerVars
<1>3. ChainOK'
  BY <1>1, <1>2 DEF ChainOK, Passed, Committed, IsHeader, After, UsersAt
<1>4. pc # "down" => next \in DOMAIN chain /\ next \in Nat /\ RollFits(next) /\ next % ALIGN = 0
  BY <1>1 DEF RollInstall, RollPublish, DiscardUnpublished, SkipGrow, WriterOK, WritingPc, TypeOK,
              ChainOK
<1>5. fileLen' \in Nat
  <2>1. pc # "down" => NextRegion \in Nat
    BY <1>4, NextRegionFacts DEF NextRegion
  <2>2. pc # "down" => (Region(NextRegion) + 1) \in Nat
    BY <2>1, RegionDivision
  <2>3. pc # "down" => (Region(NextRegion) + 1) * RegionSize \in Nat
    BY <2>2, RegionAligned
  <2>4. QED
    BY <1>1, <2>3 DEF RollInstall, RollPublish, DiscardUnpublished, SkipGrow, TypeOK
<1>6. TypeOK'
  BY <1>1, <1>2, <1>5 DEF RollInstall, RollPublish, DiscardUnpublished, SkipGrow, TypeOK, WriterPc,
                          readerVars, writerVars
<1>7. succ = "published" => succ' = "published"
  BY <1>1 DEF RollInstall, RollPublish, DiscardUnpublished, SkipGrow, WriterOK, WritingPc
<1>8. PairOK'
  BY <1>1, <1>2, <1>7 DEF PairOK, Passed, CommittedType, Committed, IsHeader
<1>9. WriterOK'
  BY <1>1, <1>2, <1>4 DEF RollInstall, RollPublish, DiscardUnpublished, SkipGrow, WriterOK, WritingPc,
                    PublishingPc, RolledPc, writerVars
<1>10. Advances /\ wp' \in Nat
  BY <1>1, <1>2, <1>7 DEF Advances, Passed, Committed, IsHeader, TypeOK
<1>11. QED
  BY <1>1, <1>3, <1>6, <1>8, <1>9, <1>10, ReadersKept DEF IInv

-----------------------------------------------------------------------------
(* Headers and payload written at, or past, the last slot *)

\* A step of a writer at the last slot that stores headers or payload, commits nothing a
\* reader passes, and keeps the count and the position.
LEMMA WritesKept ==
  ASSUME IInv, pc \in WritingPc \cup {"finish_commit"},
         UNCHANGED <<count, wp, succ, readerVars, chain>>,
         next \in DOMAIN slots', ~Passed(next)',
         CommittedType(next, "Roll")' => succ = "published",
         \A q \in DOMAIN chain : q # next => q \in DOMAIN slots' /\ slots'[q] = slots[q],
         \A q \in DOMAIN slots' : q \notin DOMAIN chain => slots'[q] = Preinstalled,
         next' = next
  PROVE  /\ ChainOK' /\ PairOK'
         /\ \A r \in Readers : ReaderOK(r)'
<1>1. TypeOK /\ ChainOK /\ WriterOK /\ PairOK
  BY DEF IInv
<1>2. next \in DOMAIN chain /\ next \in Nat /\ ~Passed(next) /\ wp = next + HEADER_SLOT
  BY <1>1 DEF WriterOK, Passed, Committed, TypeOK
<1>3. next \in DOMAIN slots' /\ ~Passed(next)'
  OBVIOUS
<1>4. ChainOK' /\ \A q \in DOMAIN chain : Passed(q)' <=> Passed(q)
  <2> DEFINE t == next
  <2>1. ~(slots'[t].committed /\ slots'[t].type # "Roll")
    BY DEF Passed, Committed, IsHeader
  <2>2. QED
    BY <1>1, <1>2, <2>1, ChainKept DEF Passed, Committed, IsHeader
<1>5. wp - HEADER_SLOT = next
  BY <1>2 DEF HEADER_SLOT
<1>6. PairOK'
  <2>1. count = chain[next]
    <3>1. ~CommittedType(next, "Roll")
      BY <1>1 DEF WriterOK, CommittedType, Committed
    <3>2. ASSUME NEW t \in DOMAIN chain, CommittedType(t, "Roll") PROVE FALSE
      <4>1. ~Passed(t)
        BY <3>2 DEF Passed, CommittedType
      <4>2. t = next
        BY <1>1, <1>2, <4>1, LastSlot
      <4>3. QED
        BY <3>1, <3>2, <4>2
    <3>3. QED
      BY <1>1, <1>2, <1>5, <3>2 DEF PairOK
  <2>2. QED
    BY <1>2, <1>5, <2>1 DEF PairOK
<1>7. Advances /\ wp' \in Nat
  BY <1>1, <1>4 DEF Advances, TypeOK
<1>8. QED
  BY <1>1, <1>4, <1>6, <1>7, ReadersKept DEF IInv

\* A pre-installed header laid past the last slot.
LEMMA LayAhead ==
  ASSUME TypeOK, ChainOK, next \in DOMAIN chain, ~Passed(next),
         NEW u \in Nat, next + HEADER_SLOT <= u, slots' = PutHeader(slots, u, Preinstalled)
  PROVE  /\ DOMAIN slots' \subseteq Nat /\ slots' \in [DOMAIN slots' -> Header]
         /\ u \in DOMAIN slots' /\ slots'[u] = Preinstalled
         /\ \A q \in DOMAIN chain : q \in DOMAIN slots' /\ slots'[q] = slots[q]
         /\ \A q \in DOMAIN slots' : q \notin DOMAIN chain => slots'[q] = Preinstalled
<1>1. /\ DOMAIN slots' \subseteq Nat /\ slots' \in [DOMAIN slots' -> Header]
      /\ u \in DOMAIN slots' /\ slots'[u] = Preinstalled
      /\ \A q \in DOMAIN slots : q + HEADER_SLOT <= u \/ u + HEADER_SLOT <= q =>
           q \in DOMAIN slots' /\ slots'[q] = slots[q]
      /\ \A q \in DOMAIN slots' : q # u => q \in DOMAIN slots /\ slots'[q] = slots[q]
  <2> DEFINE h == Preinstalled
  <2>1. h \in Header
    BY HeaderTypesOK
  <2> HIDE DEF h
  <2>2. QED
    BY <2>1, PutHeaderFacts DEF TypeOK, h
<1>2. \A q \in DOMAIN chain : q \in DOMAIN slots /\ q + HEADER_SLOT <= u
  BY LastSlot DEF ChainOK, HEADER_SLOT
<1>3. QED
  BY <1>1, <1>2 DEF ChainOK

\* The last slot rewritten.
LEMMA WriteLast ==
  ASSUME TypeOK, ChainOK, next \in DOMAIN chain, ~Passed(next),
         NEW h \in Header, slots' = PutHeader(slots, next, h)
  PROVE  /\ DOMAIN slots' \subseteq Nat /\ slots' \in [DOMAIN slots' -> Header]
         /\ next \in DOMAIN slots' /\ slots'[next] = h
         /\ \A q \in DOMAIN chain : q # next => q \in DOMAIN slots' /\ slots'[q] = slots[q]
         /\ \A q \in DOMAIN slots' : q \notin DOMAIN chain => slots'[q] = Preinstalled
         /\ \A u \in DOMAIN slots : next + HEADER_SLOT <= u =>
              u \in DOMAIN slots' /\ slots'[u] = slots[u]
<1>1. /\ DOMAIN slots' \subseteq Nat /\ slots' \in [DOMAIN slots' -> Header]
      /\ next \in DOMAIN slots' /\ slots'[next] = h
      /\ \A q \in DOMAIN slots : q + HEADER_SLOT <= next \/ next + HEADER_SLOT <= q =>
           q \in DOMAIN slots' /\ slots'[q] = slots[q]
      /\ \A q \in DOMAIN slots' : q # next => q \in DOMAIN slots /\ slots'[q] = slots[q]
  BY PutHeaderFacts DEF TypeOK
<1>2. \A q \in DOMAIN chain : q \in DOMAIN slots /\ (q # next => q + HEADER_SLOT <= next)
  BY LastSlot DEF ChainOK
<1>3. QED
  BY <1>1, <1>2 DEF ChainOK

\* Where a writer at the last slot stands, and where the slots it lays are.
LEMMA AtLast ==
  ASSUME IInv, pc \in WritingPc \cup {"finish_commit"}
  PROVE  /\ TypeOK /\ ChainOK /\ WriterOK
         /\ next \in DOMAIN chain /\ next \in Nat /\ next \in DOMAIN slots
         /\ ~slots[next].committed /\ ~Passed(next)
         /\ next % ALIGN = 0 /\ RollFits(next)
         /\ \A len \in Nat : NextSlot(next, len) \in Nat /\ next + HEADER_SLOT + len <= NextSlot(next, len)
         /\ NextRegion \in Nat /\ next + HEADER_SLOT <= NextRegion
         /\ SkipLen \in Nat
<1>1. TypeOK /\ ChainOK /\ WriterOK
  BY DEF IInv
<1>2. /\ next \in DOMAIN chain /\ next \in Nat /\ next \in DOMAIN slots
      /\ ~slots[next].committed /\ ~Passed(next)
      /\ next % ALIGN = 0 /\ RollFits(next)
  BY <1>1 DEF WriterOK, TypeOK, ChainOK, Passed, Committed
<1>3. \A len \in Nat : NextSlot(next, len) \in Nat /\ next + HEADER_SLOT + len <= NextSlot(next, len)
  BY <1>2, NextSlotFacts
<1>4. NextRegion \in Nat /\ next + HEADER_SLOT <= NextRegion
  BY <1>2, NextRegionFacts DEF NextRegion, ROLL_TOTAL, HEADER_SLOT, ROLL_PAYLOAD
<1>5. SkipLen \in Nat
  BY <1>2, OffsetFacts DEF SkipLen, RollFits, ROLL_TOTAL, HEADER_SLOT, ROLL_PAYLOAD
<1>6. QED
  BY <1>1, <1>2, <1>3, <1>4, <1>5

\* Slots laid ahead: by a reservation, by a short commit, and before a Skip.
LEMMA LaySteps ==
  ASSUME IInv, ReserveGrant \/ CommitRelay \/ SkipPreinstall
  PROVE  IInv'
<1> USE DEF Goto
<1>1. /\ UNCHANGED <<count, wp, fileLen, succ, succBase, walk, crashes, readerVars, chain>>
      /\ next' = next
  BY DEF ReserveGrant, CommitRelay, SkipPreinstall
<1>2. pc \in WritingPc /\ arg \in Nat
  BY DEF ReserveGrant, CommitRelay, SkipPreinstall, WritingPc, IInv, TypeOK
<1>3. /\ TypeOK /\ ChainOK /\ WriterOK
      /\ next \in DOMAIN chain /\ next \in Nat /\ next \in DOMAIN slots
      /\ ~slots[next].committed /\ ~Passed(next)
      /\ NextSlot(next, arg) \in Nat /\ next + HEADER_SLOT <= NextSlot(next, arg)
      /\ NextRegion \in Nat /\ next + HEADER_SLOT <= NextRegion
  <2>1. next + HEADER_SLOT + arg <= NextSlot(next, arg) => next + HEADER_SLOT <= NextSlot(next, arg)
    BY <1>2, AtLast DEF HEADER_SLOT
  <2>2. QED
    BY <1>2, <2>1, AtLast
<1>4. PICK u \in Nat : /\ next + HEADER_SLOT <= u /\ slots' = PutHeader(slots, u, Preinstalled)
                       /\ pc \in {"reserve", "relay"} => u = NextSlot(next, arg)
                       /\ pc = "skip_preinstall" => u = NextRegion
  BY <1>3 DEF ReserveGrant, CommitRelay, SkipPreinstall
<1>5. /\ DOMAIN slots' \subseteq Nat /\ slots' \in [DOMAIN slots' -> Header]
      /\ u \in DOMAIN slots' /\ slots'[u] = Preinstalled
      /\ \A q \in DOMAIN chain : q \in DOMAIN slots' /\ slots'[q] = slots[q]
      /\ \A q \in DOMAIN slots' : q \notin DOMAIN chain => slots'[q] = Preinstalled
  BY <1>3, <1>4, LayAhead
<1>6. slots'[next] = slots[next] /\ next \in DOMAIN slots' /\ ~Passed(next)' /\ ~CommittedType(next, "Roll")'
  BY <1>1, <1>3, <1>5 DEF Passed, CommittedType, Committed
<1>7. ChainOK' /\ PairOK' /\ \A r \in Readers : ReaderOK(r)'
  BY <1>1, <1>2, <1>5, <1>6, WritesKept
<1>8. /\ pc' \in {"idle", "commit", "skip_stage"}
      /\ pending' = IF pc = "reserve" THEN arg ELSE NoSize
      /\ arg' = IF pc = "reserve" THEN 0 ELSE arg
      /\ pc = "reserve" <=> pc' = "idle"
      /\ pc = "relay" <=> pc' = "commit"
      /\ pc = "skip_preinstall" <=> pc' = "skip_stage"
      /\ pc = "reserve" => ~MustSkip(next, arg)
  <2>1. pc \notin {"idle", "reserve"} => pending = NoSize
    BY <1>3 DEF WriterOK
  <2>2. QED
    BY <2>1 DEF ReserveGrant, CommitRelay, SkipPreinstall
<1>9. TypeOK'
  BY <1>1, <1>2, <1>3, <1>5, <1>8 DEF TypeOK, WriterPc, readerVars
<1>10. wp = next + HEADER_SLOT /\ count = chain[next] /\ succ # "published"
  BY <1>2, <1>3, <1>8 DEF WriterOK, WritingPc
<1>11. CASE ReserveGrant
  <2>1. pc = "reserve" /\ HasRoom(next, arg)
    <3>1. Offset(next) + NeededTotal(arg) <= RegionSize
      <4>1. Offset(next) \in Nat /\ RegionSize \in Nat /\ NeededTotal(arg) \in Nat
        <5>1. HEADER_SLOT + arg \in Nat
          BY <1>2 DEF HEADER_SLOT
        <5>2. QED
          BY <1>3, <5>1, OffsetFacts, RegionSizeAssumption, AlignUpFacts
          DEF NeededTotal, ROLL_TOTAL, HEADER_SLOT, ROLL_PAYLOAD
      <4>2. ~(Offset(next) + NeededTotal(arg) > RegionSize)
        BY <1>8, <1>11 DEF ReserveGrant, MustSkip
      <4>3. QED
        BY <4>1, <4>2
    <3>2. QED
      BY <1>11, <3>1 DEF ReserveGrant, HasRoom
  <2>2. Laid(NextSlot(next, pending))' /\ HasRoom(next, pending)'
    BY <1>1, <1>4, <1>5, <1>8, <2>1 DEF Laid, HasRoom
  <2>3. WriterOK'
    BY <1>1, <1>5, <1>6, <1>8, <1>10, <1>3, <2>1, <2>2
    DEF WriterOK, WritingPc, PublishingPc, RolledPc
  <2>4. QED
    BY <1>7, <1>9, <2>3 DEF IInv
<1>12. CASE CommitRelay
  <2>1. /\ pc = "relay" /\ HasRoom(next, arg)
        /\ slots'[next].type = "User" /\ slots'[next].len = arg
    BY <1>3, <1>6, <1>12 DEF CommitRelay, WriterOK
  <2>2. Laid(NextSlot(next, arg))'
    BY <1>1, <1>4, <1>5, <1>8, <2>1 DEF Laid
  <2>3. WriterOK'
    BY <1>1, <1>5, <1>6, <1>8, <1>10, <1>3, <2>1, <2>2
    DEF WriterOK, WritingPc, PublishingPc, RolledPc, HasRoom
  <2>4. QED
    BY <1>7, <1>9, <2>3 DEF IInv
<1>13. CASE SkipPreinstall
  <2>1. pc = "skip_preinstall"
    BY <1>13 DEF SkipPreinstall
  <2>2. Laid(NextRegion)'
    BY <1>1, <1>4, <1>5, <2>1 DEF Laid, NextRegion
  <2>3. WriterOK'
    BY <1>1, <1>5, <1>6, <1>8, <1>10, <1>3, <2>1, <2>2
    DEF WriterOK, WritingPc, PublishingPc, RolledPc
  <2>4. QED
    BY <1>7, <1>9, <2>3 DEF IInv
<1>14. QED
  BY <1>11, <1>12, <1>13

\* The caller's payload: it lies between the last slot's header and the slot laid after it.
LEMMA FillStep ==
  ASSUME IInv, FillPayload
  PROVE  IInv'
<1>1. /\ UNCHANGED <<count, wp, fileLen, succ, succBase, readerVars, chain>>
      /\ UNCHANGED <<pc, next, pending, arg, walk, crashes>>
      /\ pc = "idle" /\ pending # NoSize
  BY DEF FillPayload, writerVars
<1>2. pending \in Nat /\ HasRoom(next, pending) /\ Laid(NextSlot(next, pending))
  BY <1>1 DEF IInv, TypeOK, WriterOK
<1>3. /\ TypeOK /\ ChainOK /\ WriterOK
      /\ next \in DOMAIN chain /\ next \in Nat /\ next \in DOMAIN slots
      /\ ~slots[next].committed /\ ~Passed(next)
      /\ NextSlot(next, pending) \in Nat /\ next + HEADER_SLOT + pending <= NextSlot(next, pending)
  BY <1>1, <1>2, AtLast DEF WritingPc
<1>4. /\ DOMAIN slots' \subseteq Nat /\ slots' \in [DOMAIN slots' -> Header]
      /\ \A q \in DOMAIN slots : q + HEADER_SLOT <= next + HEADER_SLOT
                                 \/ next + HEADER_SLOT + pending <= q =>
           q \in DOMAIN slots' /\ slots'[q] = slots[q]
      /\ \A q \in DOMAIN slots' : q \in DOMAIN slots /\ slots'[q] = slots[q]
  <2>1. next + HEADER_SLOT \in Nat /\ next + HEADER_SLOT + pending \in Nat
    BY <1>2, <1>3 DEF HEADER_SLOT
  <2>2. slots' = Clobber(slots, next + HEADER_SLOT, next + HEADER_SLOT + pending)
    BY DEF FillPayload
  <2>3. DOMAIN slots \subseteq Nat /\ slots \in [DOMAIN slots -> Header]
    BY <1>3 DEF TypeOK
  <2>4. QED
    BY <2>1, <2>2, <2>3, ClobberFacts
<1>5. \A q \in DOMAIN chain : q \in DOMAIN slots' /\ slots'[q] = slots[q]
  <2>1. \A q \in DOMAIN chain : q \in DOMAIN slots /\ q + HEADER_SLOT <= next + HEADER_SLOT
    BY <1>3, LastSlot DEF ChainOK, HEADER_SLOT
  <2>2. QED
    BY <1>4, <2>1
<1>6. \A q \in DOMAIN slots' : q \notin DOMAIN chain => slots'[q] = Preinstalled
  BY <1>3, <1>4 DEF ChainOK
<1>7. /\ next \in DOMAIN slots' /\ slots'[next] = slots[next]
      /\ ~Passed(next)' /\ ~CommittedType(next, "Roll")'
  BY <1>1, <1>3, <1>5 DEF Passed, CommittedType, Committed
<1>8. ChainOK' /\ PairOK' /\ \A r \in Readers : ReaderOK(r)'
  BY <1>1, <1>5, <1>6, <1>7, WritesKept DEF WritingPc
<1>9. TypeOK'
  BY <1>1, <1>3, <1>4 DEF TypeOK, readerVars
<1>10. Laid(NextSlot(next, pending))'
  BY <1>1, <1>2, <1>3, <1>4 DEF Laid
<1>11. WriterOK'
  BY <1>1, <1>2, <1>3, <1>7, <1>10 DEF WriterOK, WritingPc, PublishingPc, RolledPc, HasRoom
<1>12. QED
  BY <1>8, <1>9, <1>11 DEF IInv

\* A header staged at the last slot, uncommitted, with the slot after it already laid.
LEMMA StageSteps ==
  ASSUME IInv, (\E len \in Sizes, meta \in Metas : CommitHeader(len, meta)) \/ SkipStage
  PROVE  IInv'
<1> USE DEF Goto
<1>1. /\ UNCHANGED <<count, wp, fileLen, succ, succBase, walk, crashes, readerVars, chain>>
      /\ next' = next /\ pc \in {"idle", "skip_stage"}
  BY DEF CommitHeader, SkipStage
<1>2. /\ TypeOK /\ ChainOK /\ WriterOK
      /\ next \in DOMAIN chain /\ next \in Nat /\ next \in DOMAIN slots
      /\ ~slots[next].committed /\ ~Passed(next)
      /\ \A len \in Nat : NextSlot(next, len) \in Nat /\ next + HEADER_SLOT + len <= NextSlot(next, len)
      /\ NextRegion \in Nat /\ next + HEADER_SLOT <= NextRegion /\ SkipLen \in Nat
  BY <1>1, AtLast DEF WritingPc
<1>3. PICK h \in Header : /\ slots' = PutHeader(slots, next, h) /\ ~h.committed
                          /\ SkipStage => h.type = "Skip" /\ h.len = SkipLen
                          /\ ~SkipStage => h.type = "User" /\ h.len = arg'
  <2>1. CASE SkipStage
    <3>1. slots' = PutHeader(slots, next, StagedSkip(SkipLen)) /\ pc = "skip_stage"
      BY <2>1 DEF SkipStage
    <3>2. QED
      BY <1>2, <2>1, <3>1, HeaderTypesOK
  <2>2. CASE ~SkipStage
    <3>1. PICK len \in Sizes, meta \in Metas : CommitHeader(len, meta)
      BY <2>2
    <3>2. slots' = PutHeader(slots, next, StagedUser(len, meta)) /\ arg' = len
      BY <3>1 DEF CommitHeader
    <3>3. len \in Nat /\ meta \in {0, 1}
      BY SizesAssumption
    <3>4. QED
      BY <2>2, <3>2, <3>3, HeaderTypesOK
  <2>3. QED
    BY <2>1, <2>2
<1>4. /\ DOMAIN slots' \subseteq Nat /\ slots' \in [DOMAIN slots' -> Header]
      /\ next \in DOMAIN slots' /\ slots'[next] = h
      /\ \A q \in DOMAIN chain : q # next => q \in DOMAIN slots' /\ slots'[q] = slots[q]
      /\ \A q \in DOMAIN slots' : q \notin DOMAIN chain => slots'[q] = Preinstalled
      /\ \A u \in DOMAIN slots : next + HEADER_SLOT <= u =>
           u \in DOMAIN slots' /\ slots'[u] = slots[u]
  BY <1>2, <1>3, WriteLast
<1>5. ~Passed(next)' /\ ~CommittedType(next, "Roll")'
  BY <1>1, <1>3, <1>4 DEF Passed, CommittedType, Committed
<1>6. ChainOK' /\ PairOK' /\ \A r \in Readers : ReaderOK(r)'
  BY <1>1, <1>4, <1>5, WritesKept DEF WritingPc
<1>7. wp = next + HEADER_SLOT /\ count = chain[next] /\ succ # "published"
  BY <1>1, <1>2 DEF WriterOK, WritingPc
<1>8. CASE SkipStage
  <2>1. /\ pc = "skip_stage" /\ pc' = "skip_commit" /\ arg' = arg
        /\ pending' = pending /\ pending = NoSize /\ Laid(NextRegion)
    BY <1>2, <1>8 DEF SkipStage, WriterOK
  <2>2. TypeOK'
    BY <1>1, <1>2, <1>4, <2>1 DEF TypeOK, WriterPc, readerVars
  <2>3. Laid(NextRegion)' /\ SkipLen' = SkipLen
    BY <1>1, <1>2, <1>4, <2>1 DEF Laid, NextRegion, SkipLen
  <2>4. WriterOK'
    BY <1>1, <1>2, <1>3, <1>4, <1>7, <1>8, <2>1, <2>3 DEF WriterOK, WritingPc, PublishingPc, RolledPc
  <2>5. QED
    BY <1>6, <2>2, <2>4 DEF IInv
<1>9. CASE ~SkipStage
  <2>1. PICK len \in Sizes, meta \in Metas : CommitHeader(len, meta)
    BY <1>9
  <2>2. /\ pc = "idle" /\ arg' = len /\ pending' = NoSize
        /\ pending # NoSize /\ len <= pending
        /\ pc' = IF len < pending THEN "relay" ELSE "commit"
        /\ len \in Nat
    BY <2>1, SizesAssumption DEF CommitHeader
  <2>3. pending \in Nat /\ HasRoom(next, pending) /\ Laid(NextSlot(next, pending))
    BY <1>2, <2>2 DEF WriterOK, TypeOK
  <2>4. TypeOK'
    BY <1>1, <1>2, <1>4, <2>2 DEF TypeOK, WriterPc, readerVars
  <2>5. HasRoom(next, len)
    <3>1. AlignUp(HEADER_SLOT + len) \in Nat /\ AlignUp(HEADER_SLOT + pending) \in Nat
          /\ AlignUp(HEADER_SLOT + len) <= AlignUp(HEADER_SLOT + pending)
      BY <2>2, <2>3 DEF AlignUp, ALIGN, HEADER_SLOT
    <3>2. Offset(next) \in Nat /\ RegionSize \in Nat
      BY <1>2, OffsetFacts, RegionSizeAssumption
    <3>3. QED
      BY <2>3, <3>1, <3>2 DEF HasRoom, NeededTotal, ROLL_TOTAL, HEADER_SLOT, ROLL_PAYLOAD
  <2>6. pc' = "commit" => Laid(NextSlot(next, len))'
    <3>1. pc' = "commit" => len = pending
      BY <2>2, <2>3
    <3>2. next + HEADER_SLOT <= NextSlot(next, pending)
      BY <1>2, <2>3 DEF HEADER_SLOT
    <3>3. QED
      BY <1>1, <1>4, <2>3, <3>1, <3>2 DEF Laid
  <2>7. WriterOK'
    BY <1>1, <1>2, <1>3, <1>4, <1>7, <1>9, <2>2, <2>5, <2>6
    DEF WriterOK, WritingPc, PublishingPc, RolledPc, HasRoom
  <2>8. QED
    BY <1>6, <2>4, <2>7 DEF IInv
<1>10. QED
  BY <1>8, <1>9

\* The Roll staged, uncommitted, body and header; then committed, after its successor is
\* published, by its writer or by a recovery.
LEMMA RollSteps ==
  ASSUME IInv, RollStage \/ RollCommit \/ FinishCommit
  PROVE  IInv'
<1> USE DEF Goto
<1>1. /\ UNCHANGED <<count, wp, fileLen, succ, succBase, walk, crashes, readerVars, chain>>
      /\ next' = next /\ pending' = pending /\ arg' = arg
      /\ pc \in {"roll_stage", "roll_commit", "finish_commit"}
  BY DEF RollStage, RollCommit, FinishCommit
<1>2. /\ TypeOK /\ ChainOK /\ WriterOK
      /\ next \in DOMAIN chain /\ next \in Nat /\ next \in DOMAIN slots
      /\ ~slots[next].committed /\ ~Passed(next)
  BY <1>1, AtLast DEF WritingPc
<1>3. pending = NoSize /\ wp = next + HEADER_SLOT
  BY <1>1, <1>2 DEF WriterOK, WritingPc
<1>4. CASE RollStage
  <2> DEFINE s == Clobber(slots, next + HEADER_SLOT, next + ROLL_TOTAL)
  <2>1. pc = "roll_stage" /\ pc' = "roll_publish" /\ slots' = PutHeader(s, next, StagedRoll)
    BY <1>4 DEF RollStage
  <2>2. /\ DOMAIN s \subseteq Nat /\ s \in [DOMAIN s -> Header]
        /\ \A q \in DOMAIN slots : q + HEADER_SLOT <= next + HEADER_SLOT \/ next + ROLL_TOTAL <= q =>
             q \in DOMAIN s /\ s[q] = slots[q]
        /\ \A q \in DOMAIN s : q \in DOMAIN slots /\ s[q] = slots[q]
    <3>1. next + HEADER_SLOT \in Nat /\ next + ROLL_TOTAL \in Nat
      BY <1>2 DEF HEADER_SLOT, ROLL_TOTAL, ROLL_PAYLOAD
    <3>2. DOMAIN slots \subseteq Nat /\ slots \in [DOMAIN slots -> Header]
      BY <1>2 DEF TypeOK
    <3>3. QED
      BY <3>1, <3>2, ClobberFacts
  <2> HIDE DEF s
  <2>3. /\ DOMAIN slots' \subseteq Nat /\ slots' \in [DOMAIN slots' -> Header]
        /\ next \in DOMAIN slots' /\ slots'[next] = StagedRoll
        /\ \A q \in DOMAIN s : q + HEADER_SLOT <= next \/ next + HEADER_SLOT <= q =>
             q \in DOMAIN slots' /\ slots'[q] = s[q]
        /\ \A q \in DOMAIN slots' : q # next => q \in DOMAIN s /\ slots'[q] = s[q]
    <3> DEFINE h == StagedRoll
    <3>1. h \in Header
      BY HeaderTypesOK
    <3> HIDE DEF h
    <3>2. slots' = PutHeader(s, next, h)
      BY <2>1 DEF h
    <3>3. QED
      BY <1>2, <2>2, <3>1, <3>2, PutHeaderFacts DEF h
  <2>4. \A q \in DOMAIN chain : q # next => q \in DOMAIN slots' /\ slots'[q] = slots[q]
    <3>1. \A q \in DOMAIN chain : q # next => /\ q \in DOMAIN slots /\ q + HEADER_SLOT <= next
                                              /\ q + HEADER_SLOT <= next + HEADER_SLOT
      BY <1>2, LastSlot DEF ChainOK, HEADER_SLOT
    <3>2. QED
      BY <2>2, <2>3, <3>1
  <2>5. \A q \in DOMAIN slots' : q \notin DOMAIN chain => slots'[q] = Preinstalled
    BY <1>2, <2>2, <2>3 DEF ChainOK
  <2>6. ~slots'[next].committed /\ slots'[next].type = "Roll"
    BY <2>3, HeaderTypesOK
  <2>7. ~Passed(next)' /\ ~CommittedType(next, "Roll")'
    BY <1>1, <2>6 DEF Passed, CommittedType, Committed
  <2>8. ChainOK' /\ PairOK' /\ \A r \in Readers : ReaderOK(r)'
    BY <1>1, <2>1, <2>3, <2>4, <2>5, <2>7, WritesKept DEF WritingPc
  <2>9. TypeOK'
    BY <1>1, <1>2, <2>1, <2>3 DEF TypeOK, WriterPc, readerVars
  <2>10. count = chain[next] /\ succ # "published"
    BY <1>2, <2>1 DEF WriterOK, WritingPc
  <2>11. WriterOK'
    BY <1>1, <1>2, <1>3, <2>1, <2>6, <2>10 DEF WriterOK, WritingPc, PublishingPc, RolledPc
  <2>12. QED
    BY <2>8, <2>9, <2>11 DEF IInv
<1>5. CASE RollCommit \/ FinishCommit
  <2>1. /\ pc \in {"roll_commit", "finish_commit"} /\ pc' \in {"roll_wp", "finish_wp"}
        /\ slots' = SetCommitted(slots, next)
    BY <1>5 DEF RollCommit, FinishCommit
  <2>2. succ = "published" /\ slots[next].type = "Roll"
    BY <1>2, <2>1 DEF WriterOK, RolledPc
  <2>3. /\ DOMAIN slots' = DOMAIN slots /\ slots' \in [DOMAIN slots' -> Header]
        /\ slots'[next].committed /\ slots'[next].type = "Roll"
        /\ \A q \in DOMAIN slots : q # next => slots'[q] = slots[q]
    BY <1>2, <2>1, <2>2, SetCommittedFacts DEF TypeOK
  <2>4. /\ \A q \in DOMAIN chain : q # next => q \in DOMAIN slots' /\ slots'[q] = slots[q]
        /\ \A q \in DOMAIN slots' : q \notin DOMAIN chain => slots'[q] = Preinstalled
    BY <1>2, <2>3 DEF ChainOK
  <2>5. ~Passed(next)' /\ CommittedType(next, "Roll")'
    BY <1>1, <1>2, <2>3 DEF Passed, CommittedType, Committed, IsHeader
  <2>6. ChainOK' /\ PairOK' /\ \A r \in Readers : ReaderOK(r)'
    BY <1>1, <1>2, <2>1, <2>2, <2>3, <2>4, <2>5, WritesKept DEF WritingPc
  <2>7. TypeOK'
    BY <1>1, <1>2, <2>1, <2>3 DEF TypeOK, WriterPc, readerVars
  <2>8. count' = chain'[next]
    <3>1. wp' - HEADER_SLOT = next
      BY <1>1, <1>2, <1>3 DEF HEADER_SLOT
    <3>2. ~\E t \in DOMAIN chain' : wp' = t + ROLL_TOTAL + HEADER_SLOT /\ CommittedType(t, "Roll")'
      <4> SUFFICES ASSUME NEW t \in DOMAIN chain', wp' = t + ROLL_TOTAL + HEADER_SLOT,
                          CommittedType(t, "Roll")'
                   PROVE  FALSE
        OBVIOUS
      <4>1. TypeOK' /\ ~Passed(t)' /\ t \in Nat
        BY <2>7 DEF Passed, CommittedType, TypeOK
      <4>2. t = next
        BY <1>1, <1>2, <2>4, <4>1, LastSlot DEF Passed, Committed, IsHeader, ChainOK
      <4>3. QED
        BY <1>1, <1>2, <1>3, <4>2 DEF ROLL_TOTAL, HEADER_SLOT, ROLL_PAYLOAD
    <3>3. QED
      BY <1>1, <2>5, <2>6, <3>1, <3>2 DEF PairOK
  <2>9. WriterOK'
    BY <1>1, <1>2, <1>3, <2>1, <2>2, <2>5, <2>8 DEF WriterOK, WritingPc, PublishingPc, RolledPc
  <2>10. QED
    BY <2>6, <2>7, <2>9 DEF IInv
<1>6. QED
  BY <1>4, <1>5

-----------------------------------------------------------------------------
(* The commit of a record, where the chain grows *)

\* The slot after the record about to be committed is laid, apart, aligned and has room for a
\* Roll: a user record leaves that room in its region, a Skip ends the region.
LEMMA CommitGrows ==
  ASSUME IInv, CommitFlag \/ SkipCommit
  PROVE  \E u \in Nat : /\ u = After(next) /\ Laid(u)
                       /\ next + HEADER_SLOT <= u /\ u % ALIGN = 0 /\ RollFits(u)
                       /\ chain' = Extend(chain, next, u, UsersAt(next))
                       /\ next' = u /\ arg' \in Nat /\ slots[next].type # "Roll"
                       /\ pc' = (IF UsersAt(next) = 1 THEN "count" ELSE "skip_wp")
                       /\ UsersAt(next) \in {0, 1}
<1> USE DEF Goto
<1>1. /\ UNCHANGED <<count, wp, fileLen, succ, succBase, walk, crashes, readerVars>>
      /\ pending' = pending /\ pc \in {"commit", "skip_commit"}
      /\ slots' = SetCommitted(slots, next)
  BY DEF CommitFlag, SkipCommit
<1>2. /\ TypeOK /\ ChainOK /\ WriterOK
      /\ next \in DOMAIN chain /\ next \in Nat /\ next \in DOMAIN slots
      /\ ~slots[next].committed /\ ~Passed(next)
      /\ next % ALIGN = 0 /\ RollFits(next)
      /\ \A len \in Nat : NextSlot(next, len) \in Nat /\ next + HEADER_SLOT + len <= NextSlot(next, len)
      /\ NextRegion \in Nat /\ next + HEADER_SLOT <= NextRegion /\ SkipLen \in Nat
  BY <1>1, AtLast DEF WritingPc
<1>3. /\ pending = NoSize /\ wp = next + HEADER_SLOT /\ count = chain[next]
      /\ succ # "published" /\ arg \in Nat /\ chain[next] \in Nat
  BY <1>1, <1>2 DEF WriterOK, WritingPc, TypeOK
<1>4. CASE CommitFlag
  <2> DEFINE u == NextSlot(next, arg)
  <2>1. /\ pc = "commit" /\ pc' = "count" /\ next' = u /\ arg' = 0
        /\ chain' = Extend(chain, next, u, 1)
    BY <1>4 DEF CommitFlag
  <2>2. HasRoom(next, arg) /\ Laid(u) /\ slots[next].type = "User" /\ slots[next].len = arg
    BY <1>2, <2>1 DEF WriterOK
  <2>3. UsersAt(next) = 1 /\ u = After(next)
    BY <2>2 DEF UsersAt, After
  <2>4. /\ u \in Nat /\ u % ALIGN = 0 /\ next + HEADER_SLOT + arg <= u
        /\ u = next + AlignUp(HEADER_SLOT + arg)
    BY <1>2, <1>3, NextSlotFacts
  <2>5. next + HEADER_SLOT <= u
    BY <1>2, <1>3, <2>4 DEF HEADER_SLOT
  <2>6. RollFits(u)
    <3> DEFINE d == AlignUp(HEADER_SLOT + arg)
    <3>1. d \in Nat
      <4>1. HEADER_SLOT + arg \in Nat
        BY <1>3 DEF HEADER_SLOT
      <4>2. QED
        BY <4>1, AlignUpFacts
    <3>2. Offset(next) + (d + ROLL_TOTAL) <= RegionSize
      BY <2>2 DEF HasRoom, NeededTotal
    <3> HIDE DEF d
    <3>3. Offset(next) \in Nat /\ RegionSize \in Nat /\ Offset(next) + d < RegionSize
      BY <1>2, <3>1, <3>2, OffsetFacts, RegionSizeAssumption DEF ROLL_TOTAL, HEADER_SLOT, ROLL_PAYLOAD
    <3>4. Offset(u) = Offset(next) + d
      BY <1>2, <2>4, <3>1, <3>3, OffsetShift DEF d
    <3>5. QED
      BY <3>1, <3>2, <3>3, <3>4 DEF RollFits, Leftover, ROLL_TOTAL, HEADER_SLOT, ROLL_PAYLOAD
  <2> HIDE DEF u
  <2>7. QED
    BY <2>1, <2>2, <2>3, <2>4, <2>5, <2>6
<1>5. CASE SkipCommit
  <2>1. /\ pc = "skip_commit" /\ pc' = "skip_wp" /\ next' = NextRegion /\ arg' = arg
        /\ chain' = Extend(chain, next, NextRegion, 0)
    BY <1>5 DEF SkipCommit
  <2>2. Laid(NextRegion) /\ slots[next].type = "Skip" /\ slots[next].len = SkipLen
    BY <1>2, <2>1 DEF WriterOK
  <2>3. NextRegion % ALIGN = 0 /\ RollFits(NextRegion)
    BY <1>2, NextRegionFacts DEF NextRegion
  <2>4. UsersAt(next) = 0
    BY <2>2 DEF UsersAt
  <2>5. NextRegion = After(next)
    <3>1. next + HEADER_SLOT + SkipLen = NextRegion
      <4>1. next \in Nat /\ Leftover(next) \in Nat
        BY <1>2, OffsetFacts
      <4>2. QED
        BY <4>1 DEF SkipLen, NextRegion, HEADER_SLOT
    <3>2. QED
      BY <1>2, <2>2, <2>3, <3>1, AlignUpAligned DEF After, NextSlot
  <2>6. QED
    BY <1>2, <1>3, <2>1, <2>2, <2>3, <2>4, <2>5
<1>6. QED
  BY <1>4, <1>5

\* A commit is followed by the publication of the count and the position; until then the
\* position names the record just committed.
LEMMA CommitSteps ==
  ASSUME IInv, CommitFlag \/ SkipCommit
  PROVE  IInv'
<1> USE DEF Goto
<1>1. /\ UNCHANGED <<count, wp, fileLen, succ, succBase, walk, crashes, readerVars>>
      /\ pending' = pending /\ pc \in {"commit", "skip_commit"}
      /\ slots' = SetCommitted(slots, next)
  BY DEF CommitFlag, SkipCommit
<1>2. /\ TypeOK /\ ChainOK /\ WriterOK
      /\ next \in DOMAIN chain /\ next \in Nat /\ next \in DOMAIN slots
      /\ ~slots[next].committed /\ ~Passed(next)
      /\ next % ALIGN = 0 /\ RollFits(next)
      /\ \A len \in Nat : NextSlot(next, len) \in Nat /\ next + HEADER_SLOT + len <= NextSlot(next, len)
      /\ NextRegion \in Nat /\ next + HEADER_SLOT <= NextRegion /\ SkipLen \in Nat
  BY <1>1, AtLast DEF WritingPc
<1>3. /\ pending = NoSize /\ wp = next + HEADER_SLOT /\ count = chain[next]
      /\ succ # "published" /\ arg \in Nat /\ chain[next] \in Nat
  BY <1>1, <1>2 DEF WriterOK, WritingPc, TypeOK
<1>4. PICK u \in Nat : /\ u = After(next) /\ Laid(u)
                       /\ next + HEADER_SLOT <= u /\ u % ALIGN = 0 /\ RollFits(u)
                       /\ chain' = Extend(chain, next, u, UsersAt(next))
                       /\ next' = u /\ arg' \in Nat /\ slots[next].type # "Roll"
                       /\ pc' = (IF UsersAt(next) = 1 THEN "count" ELSE "skip_wp")
                       /\ UsersAt(next) \in {0, 1}
  BY CommitGrows
<1>5. /\ ChainOK'
      /\ DOMAIN chain' \subseteq Nat /\ chain' \in [DOMAIN chain' -> Nat]
      /\ \A q \in DOMAIN chain : /\ q \in DOMAIN chain' /\ chain'[q] = chain[q]
                                 /\ Passed(q) => Passed(q)'
      /\ u \in DOMAIN chain' /\ ~slots'[u].committed /\ chain'[u] = chain[next] + UsersAt(next)
      /\ slots'[next].committed /\ slots'[next].type # "Roll" /\ next \in DOMAIN slots'
  <2> DEFINE t == next
  <2>1. t \in DOMAIN chain /\ ~slots[t].committed /\ slots[t].type # "Roll" /\ u = After(t)
        /\ t + HEADER_SLOT <= u
        /\ slots' = SetCommitted(slots, t) /\ chain' = Extend(chain, t, u, UsersAt(t))
    BY <1>1, <1>2, <1>4
  <2>2. /\ ChainOK'
        /\ DOMAIN chain' \subseteq Nat /\ chain' \in [DOMAIN chain' -> Nat]
        /\ \A q \in DOMAIN chain : /\ q \in DOMAIN chain' /\ chain'[q] = chain[q]
                                   /\ Passed(q) => Passed(q)'
        /\ u \in DOMAIN chain' /\ ~slots'[u].committed /\ chain'[u] = chain[t] + UsersAt(t)
    BY <1>2, <1>4, <2>1, ChainGrows
  <2>3. slots'[t].committed /\ slots'[t].type # "Roll" /\ t \in DOMAIN slots'
    BY <1>2, <2>1, SetCommittedFacts DEF TypeOK
  <2>4. QED
    BY <2>2, <2>3
<1>6. DOMAIN slots' \subseteq Nat /\ slots' \in [DOMAIN slots' -> Header]
  BY <1>1, <1>2, SetCommittedFacts DEF TypeOK
<1>7. TypeOK'
  BY <1>1, <1>2, <1>4, <1>5, <1>6 DEF TypeOK, WriterPc, readerVars
<1>8. wp' - HEADER_SLOT = next
  BY <1>1, <1>2, <1>3 DEF HEADER_SLOT
<1>9. (wp - HEADER_SLOT \in DOMAIN chain /\ Passed(wp - HEADER_SLOT))'
  BY <1>2, <1>5, <1>8 DEF Passed, Committed, IsHeader
<1>10. PairOK'
  BY <1>9 DEF PairOK, Passed, CommittedType
<1>11. pc' = "count" => count' + 1 = chain'[u]
  BY <1>1, <1>3, <1>4, <1>5
<1>12. pc' = "skip_wp" => count' = chain'[u]
  BY <1>1, <1>3, <1>4, <1>5
<1>13. WriterOK'
  BY <1>1, <1>3, <1>4, <1>5, <1>9, <1>11, <1>12 DEF WriterOK, WritingPc, PublishingPc, RolledPc
<1>14. Advances /\ wp' \in Nat
  BY <1>1, <1>2, <1>3, <1>5 DEF Advances, TypeOK
<1>15. QED
  BY <1>2, <1>5, <1>7, <1>10, <1>13, <1>14, ReadersKept DEF IInv

-----------------------------------------------------------------------------
(* Readers *)

\* A reader's step changes nothing but that reader.
LEMMA OnlyReader ==
  ASSUME IInv, UNCHANGED <<fileVars, writerVars, chain>>
  PROVE  ChainOK' /\ WriterOK' /\ PairOK'
<1> USE DEF fileVars, writerVars
<1>1. ChainOK'
  BY DEF IInv, ChainOK, Passed, Committed, IsHeader, After, UsersAt
<1>2. WriterOK'
  BY DEF IInv, WriterOK, WritingPc, PublishingPc, RolledPc, Passed, CommittedType, Committed,
         IsHeader, HasRoom, Laid, NextRegion, SkipLen
<1>3. PairOK'
  BY DEF IInv, PairOK, Passed, CommittedType, Committed, IsHeader
<1>4. QED
  BY <1>1, <1>2, <1>3

\* The other readers' parts of the invariant are as they were.
LEMMA OtherReaders ==
  ASSUME TypeOK, NEW r \in Readers, NEW q \in Readers, q # r, ReaderOK(q),
         UNCHANGED <<fileVars, writerVars, chain>>,
         rpc'[q] = rpc[q], rpos'[q] = rpos[q], rindex'[q] = rindex[q], rwalk'[q] = rwalk[q]
  PROVE  ReaderOK(q)'
BY DEF ReaderOK, fileVars, Passed, Committed, IsHeader

\* Any reader's step: joining from the start, the stages of a Live open, the scan.
LEMMA ReaderSteps ==
  ASSUME IInv, NEW r \in Readers,
         OpenLateJoin(r) \/ LiveLoadWp(r) \/ LiveStep(r) \/ ReaderStep(r)
  PROVE  IInv'
<1> USE DEF RGoto, LiveStep, ReaderStep
<1>1. TypeOK /\ ChainOK /\ WriterOK /\ PairOK /\ ReaderOK(r)
  BY DEF IInv
<1>2. UNCHANGED <<fileVars, writerVars, chain>>
  BY DEF OpenLateJoin, LiveLoadWp, LiveLoadCount, LiveStale, LiveNewest, LiveStarts, LiveRetry,
         LiveWalk, LiveWalkStep, LiveWalkEnds, ReadRecord, ReadRoll
<1>3. /\ rpos[r] \in Int /\ rindex[r] \in Nat /\ rwalk[r] \in Walk /\ rpc[r] \in ReaderPc
      /\ wp \in Nat /\ count \in Nat /\ DOMAIN chain \subseteq Nat
      /\ UNCHANGED <<slots, count, wp, succ>>
  BY <1>1, <1>2 DEF TypeOK, fileVars
<1> DEFINE Sets(a, b, c, d) ==
             /\ rpc' = [rpc EXCEPT ![r] = a] /\ rpos' = [rpos EXCEPT ![r] = b]
             /\ rindex' = [rindex EXCEPT ![r] = c] /\ rwalk' = [rwalk EXCEPT ![r] = d]
<1>4. ASSUME NEW a \in ReaderPc, NEW b \in Int, NEW c \in Nat, NEW d \in Walk, Sets(a, b, c, d),
             /\ a = "scan" => b \in DOMAIN chain /\ c = chain[b]
             /\ a \in {"live_count", "live_newer"} => b \in DOMAIN chain \/ succ = "published"
             /\ a = "live_count" => b <= wp - HEADER_SLOT
             /\ a \in {"live_newer", "live_slot"} =>
                  (b \in DOMAIN chain /\ ~Passed(b) => c = chain[b])
             /\ a \in {"live_slot", "live_walk"} => b \in DOMAIN chain
             /\ a = "live_walk" => d.pos \in DOMAIN chain /\ d.users = chain[d.pos]
      PROVE  IInv'
  <2>1. TypeOK'
    BY <1>1, <1>2, <1>4 DEF TypeOK, fileVars, writerVars
  <2>2. rpc'[r] = a /\ rpos'[r] = b /\ rindex'[r] = c /\ rwalk'[r] = d
    BY <1>1, <1>4 DEF TypeOK
  <2>3. ReaderOK(r)'
    BY <1>2, <1>3, <1>4, <2>2 DEF ReaderOK, Passed, Committed, IsHeader
  <2>4. ASSUME NEW q \in Readers, q # r PROVE ReaderOK(q)'
    <3>1. rpc'[q] = rpc[q] /\ rpos'[q] = rpos[q] /\ rindex'[q] = rindex[q] /\ rwalk'[q] = rwalk[q]
      BY <1>1, <1>4, <2>4 DEF TypeOK
    <3>2. QED
      BY <1>1, <1>2, <2>4, <3>1, OtherReaders DEF IInv
  <2>5. QED
    BY <1>2, <2>1, <2>3, <2>4, OnlyReader DEF IInv
<1> HIDE DEF Sets
<1>5. rwalk = [rwalk EXCEPT ![r] = rwalk[r]] /\ rpos = [rpos EXCEPT ![r] = rpos[r]]
      /\ rindex = [rindex EXCEPT ![r] = rindex[r]] /\ rpc = [rpc EXCEPT ![r] = rpc[r]]
  BY <1>1 DEF TypeOK
<1>6. 0 \in DOMAIN chain /\ chain[0] = 0 /\ WalkStart \in Walk /\ WalkStart.pos = 0 /\ WalkStart.users = 0
  BY <1>1 DEF ChainOK, WalkStart, Walk
<1>7. CASE OpenLateJoin(r)
  <2> DEFINE z == 0
  <2>1. Sets("scan", z, z, rwalk[r])
    BY <1>5, <1>7 DEF OpenLateJoin, Sets
  <2>2. z \in Int /\ z \in Nat /\ z \in DOMAIN chain /\ z = chain[z]
    BY <1>6
  <2> HIDE DEF z
  <2>3. QED
    BY <1>3, <1>4, <2>1, <2>2 DEF ReaderPc
<1>8. CASE LiveLoadWp(r)
  <2>1. Sets("live_count", wp - HEADER_SLOT, rindex[r], rwalk[r])
    BY <1>5, <1>8 DEF LiveLoadWp, Sets
  <2>2. wp - HEADER_SLOT \in DOMAIN chain \/ succ = "published"
    BY <1>1 DEF PairOK
  <2>3. wp - HEADER_SLOT \in Int /\ wp - HEADER_SLOT <= wp - HEADER_SLOT
    BY <1>3 DEF HEADER_SLOT
  <2>4. QED
    BY <1>3, <1>4, <2>1, <2>2, <2>3 DEF ReaderPc, LivePc
<1>9. CASE LiveLoadCount(r)
  <2>1. Sets("live_newer", rpos[r], count, rwalk[r]) /\ rpc[r] = "live_count"
    BY <1>5, <1>9 DEF LiveLoadCount, Sets
  <2>2. ASSUME rpos[r] \in DOMAIN chain, ~Passed(rpos[r]) PROVE count = chain[rpos[r]]
    <3>1. rpos[r] <= wp - HEADER_SLOT
      BY <1>1, <2>1 DEF ReaderOK
    <3>2. CASE wp - HEADER_SLOT \in DOMAIN chain /\ (~Passed(wp - HEADER_SLOT) => count = chain[wp - HEADER_SLOT])
      <4>1. wp - HEADER_SLOT <= rpos[r]
        BY <1>1, <2>2, <3>2, LastSlot
      <4>2. wp - HEADER_SLOT = rpos[r]
        BY <1>3, <3>1, <4>1 DEF HEADER_SLOT
      <4>3. QED
        BY <2>2, <3>2, <4>2
    <3>3. CASE \E t \in DOMAIN chain : CommittedType(t, "Roll") /\ count = chain[t]
      <4>1. PICK t \in DOMAIN chain : CommittedType(t, "Roll") /\ count = chain[t]
        BY <3>3
      <4>2. ~Passed(t)
        BY <4>1 DEF Passed, CommittedType
      <4>3. t = rpos[r]
        BY <1>1, <2>2, <4>2, LastSlot
      <4>4. QED
        BY <4>1, <4>3
    <3>4. QED
      BY <1>1, <3>2, <3>3 DEF PairOK
  <2>3. rpos[r] \in DOMAIN chain \/ succ = "published"
    BY <1>1, <2>1 DEF ReaderOK
  <2>4. QED
    BY <1>3, <1>4, <2>1, <2>2, <2>3 DEF ReaderPc, LivePc
<1>10. CASE LiveStale(r)
  <2>1. Sets("stale", 0, 0, rwalk[r])
    BY <1>5, <1>10 DEF LiveStale, Sets
  <2>2. QED
    BY <1>3, <1>4, <2>1 DEF ReaderPc
<1>11. CASE LiveNewest(r)
  <2>1. Sets("live_slot", rpos[r], rindex[r], rwalk[r]) /\ rpc[r] = "live_newer" /\ succ # "published"
    BY <1>5, <1>11 DEF LiveNewest, Sets
  <2>2. /\ rpos[r] \in DOMAIN chain
        /\ rpos[r] \in DOMAIN chain /\ ~Passed(rpos[r]) => rindex[r] = chain[rpos[r]]
    BY <1>1, <2>1 DEF ReaderOK
  <2>3. QED
    BY <1>3, <1>4, <2>1, <2>2 DEF ReaderPc, LivePc
<1>12. CASE LiveStarts(r)
  <2>1. Sets("scan", rpos[r], rindex[r], rwalk[r]) /\ rpc[r] = "live_slot" /\ ~Passed(rpos[r])
    BY <1>5, <1>12 DEF LiveStarts, Sets, Passed, CommittedType
  <2>2. rpos[r] \in DOMAIN chain /\ rindex[r] = chain[rpos[r]]
    BY <1>1, <2>1 DEF ReaderOK
  <2>3. QED
    BY <1>3, <1>4, <2>1, <2>2 DEF ReaderPc
<1>13. CASE LiveRetry(r)
  <2>1. Sets("live_again", rpos[r], rindex[r], rwalk[r])
    BY <1>5, <1>13 DEF LiveRetry, Sets
  <2>2. QED
    BY <1>3, <1>4, <2>1 DEF ReaderPc, LivePc
<1>14. CASE LiveWalk(r)
  <2>1. Sets("live_walk", rpos[r], rindex[r], WalkStart) /\ rpc[r] = "live_slot"
    BY <1>5, <1>14 DEF LiveWalk, Sets
  <2>2. rpos[r] \in DOMAIN chain
    BY <1>1, <2>1 DEF ReaderOK
  <2>3. QED
    BY <1>3, <1>4, <1>6, <2>1, <2>2 DEF ReaderPc, LivePc
<1>15. CASE LiveWalkStep(r)
  <2>1. /\ Sets("live_walk", rpos[r], rindex[r], WalkNext(rwalk[r])) /\ rpc[r] = "live_walk"
        /\ WalkGoes(rwalk[r])
    BY <1>5, <1>15 DEF LiveWalkStep, Sets
  <2>2. /\ rpos[r] \in DOMAIN chain
        /\ rwalk[r].pos \in DOMAIN chain /\ rwalk[r].users = chain[rwalk[r].pos]
    BY <1>1, <2>1 DEF ReaderOK
  <2>3. /\ WalkNext(rwalk[r]) \in Walk /\ WalkNext(rwalk[r]).pos \in DOMAIN chain
        /\ WalkNext(rwalk[r]).users = chain[WalkNext(rwalk[r]).pos]
    BY <1>1, <1>3, <2>1, <2>2, WalkFacts
  <2>4. QED
    BY <1>3, <1>4, <2>1, <2>2, <2>3 DEF ReaderPc, LivePc
<1>16. CASE LiveWalkEnds(r)
  <2>1. rpc[r] = "live_walk"
    BY <1>16 DEF LiveWalkEnds
  <2>2. /\ rpos[r] \in DOMAIN chain /\ rwalk[r].users \in Nat
        /\ rwalk[r].pos \in DOMAIN chain /\ rwalk[r].users = chain[rwalk[r].pos]
    BY <1>1, <1>3, <2>1 DEF ReaderOK, Walk
  <2>3. CASE rwalk[r].pos = rpos[r]
    <3>1. Sets("scan", rpos[r], rwalk[r].users, WalkStart)
      BY <1>5, <1>16, <2>3 DEF LiveWalkEnds, Sets
    <3>2. QED
      BY <1>3, <1>4, <1>6, <2>2, <2>3, <3>1 DEF ReaderPc
  <2>4. CASE rwalk[r].pos # rpos[r]
    <3>1. Sets("error", rpos[r], rindex[r], WalkStart)
      BY <1>5, <1>16, <2>4 DEF LiveWalkEnds, Sets
    <3>2. QED
      BY <1>3, <1>4, <1>6, <3>1 DEF ReaderPc
  <2>5. QED
    BY <2>3, <2>4
<1>17. CASE ReadRecord(r)
  <2> DEFINE p == rpos[r]
  <2>1. /\ Sets("scan", After(p), rindex[r] + UsersAt(p), rwalk[r])
        /\ rpc[r] = "scan" /\ Passed(p)
    <3>1. rindex' = [rindex EXCEPT ![r] = rindex[r] + UsersAt(p)]
      BY <1>1, <1>17 DEF ReadRecord, TypeOK
    <3>2. rpc' = [rpc EXCEPT ![r] = "scan"]
      BY <1>5, <1>17 DEF ReadRecord
    <3>3. QED
      BY <1>5, <1>17, <3>1, <3>2 DEF ReadRecord, Sets, Passed
  <2>2. p \in DOMAIN chain /\ rindex[r] = chain[p]
    BY <1>1, <2>1 DEF ReaderOK
  <2>3. After(p) \in DOMAIN chain /\ chain[After(p)] = chain[p] + UsersAt(p)
    BY <1>1, <2>1, <2>2 DEF ChainOK
  <2>4. rindex[r] + UsersAt(p) \in Nat
    BY <1>3 DEF UsersAt
  <2>5. After(p) \in Int
    BY <1>3, <2>3
  <2> HIDE DEF p
  <2>6. QED
    BY <1>3, <1>4, <2>1, <2>2, <2>3, <2>4, <2>5 DEF ReaderPc
<1>18. CASE ReadRoll(r)
  <2>1. Sets("followed", rpos[r], rindex[r], rwalk[r]) \/ Sets("error", rpos[r], rindex[r], rwalk[r])
    BY <1>5, <1>18 DEF ReadRoll, Sets
  <2>2. QED
    BY <1>3, <1>4, <2>1 DEF ReaderPc
<1>19. QED
  BY <1>7, <1>8, <1>9, <1>10, <1>11, <1>12, <1>13, <1>14, <1>15, <1>16, <1>17, <1>18

-----------------------------------------------------------------------------
(* The theorems *)

\* A segment just published satisfies the invariant.
LEMMA InitInv == Init => IInv
<1> SUFFICES ASSUME Init PROVE IInv
  OBVIOUS
<1>1. DOMAIN slots = {0, FIRST_RECORD} /\ slots[0] = ChannelRecord /\ slots[FIRST_RECORD] = Preinstalled
      /\ DOMAIN chain = {0, FIRST_RECORD} /\ chain[0] = 0 /\ chain[FIRST_RECORD] = 0
  BY DEF Init, FIRST_RECORD
<1>2. TypeOK
  <2>1. ChannelRecord \in Header /\ Preinstalled \in Header
    BY HeaderTypesOK DEF ChannelRecord, Header, HeaderTypes, FIRST_RECORD, HEADER_SLOT
  <2>2. slots \in [DOMAIN slots -> Header] /\ chain \in [DOMAIN chain -> Nat]
    BY <1>1, <2>1 DEF Init
  <2>3. QED
    BY <1>1, <2>2, PreallocationFacts
    DEF Init, TypeOK, WriterPc, ReaderPc, Walk, WalkStart, NoSize, FIRST_RECORD, HEADER_SLOT
<1>3. RollFits(0) /\ RollFits(FIRST_RECORD)
  <2>1. 0 * RegionSize + 0 = 0 /\ 0 * RegionSize + FIRST_RECORD = FIRST_RECORD
    BY RegionSizeAssumption DEF FIRST_RECORD
  <2>2. Offset(0 * RegionSize + 0) = 0 /\ Offset(0 * RegionSize + FIRST_RECORD) = FIRST_RECORD
    BY RegionSizeAssumption, OffsetUnique DEF FIRST_RECORD, ROLL_TOTAL, HEADER_SLOT, ROLL_PAYLOAD
  <2>3. QED
    BY <2>1, <2>2, RegionSizeAssumption
    DEF RollFits, Leftover, FIRST_RECORD, ROLL_TOTAL, HEADER_SLOT, ROLL_PAYLOAD
<1>4. /\ Passed(0) /\ After(0) = FIRST_RECORD /\ UsersAt(0) = 0 /\ ~Passed(FIRST_RECORD)
      /\ ~slots[FIRST_RECORD].committed
  BY <1>1 DEF Passed, Committed, IsHeader, After, UsersAt, ChannelRecord, Preinstalled, NextSlot,
              AlignUp, ALIGN, FIRST_RECORD, HEADER_SLOT
<1>5. ChainOK
  BY <1>1, <1>3, <1>4 DEF ChainOK, FIRST_RECORD, ALIGN, HEADER_SLOT
<1>6. WriterOK
  BY <1>1, <1>4 DEF Init, WriterOK, WritingPc, PublishingPc, RolledPc
<1>7. wp - HEADER_SLOT = FIRST_RECORD
  BY DEF Init, FIRST_RECORD, HEADER_SLOT
<1>8. PairOK
  BY <1>1, <1>4, <1>7 DEF Init, PairOK, CommittedType, Committed
<1>9. \A r \in Readers : ReaderOK(r)
  BY DEF Init, ReaderOK
<1>10. QED
  BY <1>2, <1>5, <1>6, <1>8, <1>9 DEF IInv

\* Every step keeps it.
LEMMA NextInv == IInv /\ [Next]_vars => IInv'
<1> SUFFICES ASSUME IInv, [Next]_vars PROVE IInv'
  OBVIOUS
<1>1. CASE WriterStep
  BY <1>1, CallSteps, WalkSteps, PublishSteps, RolledSteps, SuccessorSteps, LaySteps, StageSteps,
     RollSteps, CommitSteps DEF WriterStep
<1>2. CASE CallerStep
  BY <1>2, CallSteps, WalkSteps, OpenSteps, SuccessorSteps, FillStep, StageSteps DEF CallerStep
<1>3. CASE Crash
  BY <1>3, CrashStep
<1>4. CASE \E r \in Readers : OpenLateJoin(r) \/ LiveLoadWp(r) \/ LiveStep(r) \/ ReaderStep(r)
  BY <1>4, ReaderSteps
<1>5. CASE UNCHANGED vars
  <2>1. UNCHANGED <<slots, count, wp, fileLen, succ, succBase, readerVars, chain>> /\ UNCHANGED writerVars
    BY <1>5 DEF vars, fileVars
  <2>2. TypeOK'
    BY <2>1 DEF IInv, TypeOK, readerVars, writerVars
  <2>3. WriterOK'
    BY <1>5, OnlyReader DEF vars
  <2>4. QED
    BY <2>1, <2>2, <2>3, FileKept DEF IInv
<1>6. QED
  BY <1>1, <1>2, <1>3, <1>4, <1>5 DEF Next

\* The inductive invariant holds of every behaviour of a segment, its writers and readers.
THEOREM Invariant == Spec => []IInv
BY InitInv, NextInv, PTL DEF Spec

\* Every variable keeps its type.
THEOREM TypeCorrect == Spec => []TypeOK
<1>1. IInv => TypeOK
  BY DEF IInv
<1>2. QED
  BY <1>1, Invariant, PTL

\* A scanning reader's position() is exact, however it joined and whatever the writers and
\* their crashes do meanwhile.
THEOREM ReadersExact == Spec => []ReaderExact
<1>1. IInv => ReaderExact
  BY DEF IInv, ReaderExact, ReaderOK
<1>2. QED
  BY <1>1, Invariant, PTL

\* The code's walk over the headers visits the slots of the chain, with their counts, and
\* stops only at the last.
THEOREM WalksExact == Spec => []ChainIsWalk
<1>1. IInv => ChainIsWalk
  BY DEF IInv, ChainIsWalk, ChainOK, Passed
<1>2. QED
  BY <1>1, Invariant, PTL

\* roll_file never finds that its Roll does not fit.
THEOREM RollAlwaysFits == Spec => []RollHasRoom
<1>1. IInv => RollHasRoom
  BY DEF IInv, RollHasRoom, WriterOK
<1>2. QED
  BY <1>1, Invariant, PTL

=============================================================================
