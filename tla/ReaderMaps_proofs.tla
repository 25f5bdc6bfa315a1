------------------------- MODULE ReaderMaps_proofs -------------------------
(* What a reader's mappings are for every layout of a channel, every limit of *)
(* a batch and any number of crashes and failed calls: they are of the files  *)
(* its Rolls name (MappedIsRead), its records are given once and in order     *)
(* (GivenOnce), and Unmap::AtFileRoll keeps what it says (KeptUntilRoll).     *)
(*                                                                            *)
(* The invariant is stated of a reader x, of the attempts m made at each      *)
(* segment and of the segment w being written.  Whatever the reader or its    *)
(* helper has is of a segment that is w or before it, whose attempts are      *)
(* over: a writer's step leaves all of it as it is.                           *)
EXTENDS ReaderMaps, SequenceTheorems, TLAPS

-----------------------------------------------------------------------------
(* The inductive invariant *)

Position == [seq : Seqs, reg : Nat, off : Nat]
RegionRec == [seq : Seqs, reg : Nat, file : Nat]
FileRec == [seq : Seqs, file : Nat]
LentRec == [map : Nat, pos : Position]
OwnedRec == [region : RegionRec, pos : Position]
ReaderRec ==
  [pc : {"idle", "scan", "open", "tell", "store_region", "store_sequence"},
   call : {"", "single", "batch"}, max : Nat,
   at : Position, file : Nat, position : Nat, given : Nat,
   maps : Seq(RegionRec), held : SUBSET RegionRec,
   batch : Seq(LentRec), out : Seq(OwnedRec),
   scan : Position, scanFile : Nat, scanPosition : Nat, crossed : BOOLEAN, ahead : BOOLEAN,
   tell : [seq : Seqs, reg : Nat] \cup {Nothing}]
SharedRec ==
  [wantSeq : Seqs, wantReg : Nat, rolled : FileRec \cup {Nothing},
   ready : RegionRec \cup {Nothing}, next : FileRec \cup {Nothing}]
HelperRec ==
  [pc : {"top", "load_sequence", "load_region", "map", "put", "stopped"},
   segment : FileRec \cup {Nothing}, upcoming : FileRec \cup {Nothing},
   opened : FileRec \cup {Nothing}, done : [seq : Seqs, reg : Nat] \cup {Nothing},
   seq : Seqs, reg : Nat]

\* A position is of a record of its region, or of the Skip or the Roll after the last of them.
Valid(p) ==
  p \in Position /\ p.reg < Len(Layout[p.seq]) /\ Index(p) <= Layout[p.seq][p.reg + 1]

\* The disk: a name is of the last attempt at its segment, and every segment up to the one being
\* written has been made.
DiskOK ==
  /\ Valid(wpos) /\ made \in [Seqs -> Nat] /\ named \in [Seqs -> Nat]
  /\ \A s \in Seqs : /\ named[s] = NoFile \/ named[s] = made[s]
                     /\ s <= wpos.seq => made[s] # NoFile

RegionOf(p, m) == Region(p.seq, p.reg, m[p.seq])

\* The position a reader reads at.
Cur(x) == IF x.call = "batch" THEN x.scan ELSE x.at

\* A reader in the middle of moving to the next region, one that has moved to a segment, and a
\* batch that has not ended.
Moving(x) == x.pc \in {"store_region", "store_sequence"} /\ x.tell.reg > 0
Done(x) == x.pc = "tell" \/ (x.pc \in {"store_region", "store_sequence"} /\ x.tell.reg = 0)
Scanning(x) == x.call = "batch" /\ ~Done(x)

\* Where the reader is, and where its scan is.
PlaceOK(x, m, w) ==
  /\ Valid(x.at) /\ x.at.seq <= w /\ x.file = m[x.at.seq]
  /\ Valid(x.scan) /\ x.scan.seq <= w /\ x.scanFile = m[x.scan.seq]
  /\ x.position = Index(x.at) /\ x.given = x.position
  /\ (x.call = "") <=> (x.pc = "idle")
  /\ x.pc = "idle" => x.scan = x.at /\ x.scanPosition = x.position
  /\ x.pc = "idle" => ~x.crossed /\ ~x.ahead
  /\ x.pc = "open" => Kind(Cur(x)) = "Roll" /\ Cur(x).seq < w
  /\ x.pc \in {"store_region", "store_sequence"} =>
       x.tell # Nothing /\ x.tell.seq = Cur(x).seq
  /\ Moving(x) => x.tell.reg = Cur(x).reg + 1 /\ Kind(Cur(x)) = "Skip"
  /\ (x.call = "batch" /\ Done(x)) => x.scan = x.at
  /\ Scanning(x) => /\ x.scanPosition = Index(x.scan)
                    /\ x.scanPosition = x.position + Len(x.batch)
                    /\ ~x.crossed => x.scan.seq = x.at.seq

\* Its mappings are of the files that Rolls name.
FilesOK(x, m, w) ==
  x.maps # <<>> /\ \A i \in DOMAIN x.maps : x.maps[i].seq <= w /\ x.maps[i].file = m[x.maps[i].seq]

\* What it has mapped: the last is the region it is in, or the one it is moving to; the first of
\* a batch's is the one to return to.
MapsOK(x, m, w) ==
  /\ FilesOK(x, m, w)
  /\ Last(x.maps) = IF Moving(x) THEN Region(Cur(x).seq, Cur(x).reg + 1, m[Cur(x).seq])
                    ELSE RegionOf(Cur(x), m)
  /\ Scanning(x) => x.maps[1] = RegionOf(x.at, m)

\* The records it has lent, the first of which has some index ...
LentOK(x, m, first) ==
  \A i \in DOMAIN x.batch :
    /\ x.batch[i].map \in DOMAIN x.maps
    /\ x.maps[x.batch[i].map] = RegionOf(x.batch[i].pos, m)
    /\ Kind(x.batch[i].pos) = "User"
    /\ Index(x.batch[i].pos) = first + i - 1

\* ... and those it has handed over.
OwnedOK(x, m, w) ==
  \A i \in DOMAIN x.out :
    /\ x.out[i].pos.seq <= w
    /\ x.out[i].region = RegionOf(x.out[i].pos, m)
    /\ Kind(x.out[i].pos) = "User"
    /\ Index(x.out[i].pos) = x.position - Len(x.out) + i - 1

GivenOK(x, m, w) ==
  /\ LentOK(x, m, IF Scanning(x) THEN x.position ELSE x.position - Len(x.batch))
  /\ OwnedOK(x, m, w)
  /\ x.call = "single" => x.batch = <<>>
  /\ x.batch = <<>> \/ x.out = <<>>
  /\ x.call = "batch" => x.out = <<>>

\* The regions of a segment up to a position are among some regions.
UpTo(p, m, S) == \A i \in 0..p.reg : Region(p.seq, i, m[p.seq]) \in S

Mapped(x) == {x.maps[j] : j \in DOMAIN x.maps}

\* What it has kept.
KeptOK(x, m) ==
  /\ \A k \in x.held : k.seq = x.at.seq \/ x.pc = "tell"
  /\ Unmap = "AtFileRoll" =>
       /\ x.pc = "tell" => UpTo(x.at, m, Mapped(x))
       /\ ~Scanning(x) => UpTo(x.at, m, x.held \cup Mapped(x))
       /\ Scanning(x) => UpTo(x.at, m, x.held \cup {x.maps[1]})
       /\ Scanning(x) /\ ~x.crossed => UpTo(x.scan, m, x.held \cup Mapped(x))
       /\ Scanning(x) /\ x.crossed => UpTo(x.scan, m, Mapped(x))

ReaderOK(x, m, w) ==
  x \in ReaderRec /\ PlaceOK(x, m, w) /\ MapsOK(x, m, w) /\ GivenOK(x, m, w) /\ KeptOK(x, m)

\* A reader that may return to its caller.
Settled(x, m, w) ==
  /\ x \in ReaderRec
  /\ Valid(x.at) /\ x.at.seq <= w /\ x.file = m[x.at.seq]
  /\ x.position = Index(x.at) /\ x.given = x.position
  /\ FilesOK(x, m, w) /\ Last(x.maps) = RegionOf(x.at, m)
  /\ LentOK(x, m, x.position - Len(x.batch)) /\ OwnedOK(x, m, w)
  /\ x.batch = <<>> \/ x.out = <<>>
  /\ \A k \in x.held : k.seq = x.at.seq
  /\ Unmap = "AtFileRoll" => UpTo(x.at, m, x.held \cup Mapped(x))

\* A file, or nothing, that is the one its Roll names.
FileOK(f, m, w) == f = Nothing \/ (f.seq <= w /\ f.file = m[f.seq])

\* What the helper has opened of a segment is what its Roll names.
Confirmed(y, s, m) == y.upcoming.seq = s => y.upcoming.file = m[s]

\* The helper y and what it shares with the reader, z.  A segment it has opened may not be the
\* one that is published: it is, if the reader took it.
SharedOK(y, z, m, w) ==
  /\ y \in HelperRec /\ z \in SharedRec
  /\ FileOK(z.ready, m, w) /\ FileOK(y.segment, m, w)
  /\ z.rolled # Nothing =>
       /\ z.rolled.seq <= w
       /\ IF z.rolled.file = NoFile THEN Confirmed(y, z.rolled.seq, m)
          ELSE z.rolled.file = m[z.rolled.seq]
  /\ y.pc = "map" => y.segment.seq = y.seq
  /\ IF y.pc = "put"
     THEN y.opened # Nothing /\ y.opened.seq # z.next.seq /\ y.upcoming \in {Nothing, y.opened}
     ELSE z.next # Nothing => y.upcoming \in {Nothing, z.next}

AheadOK(x, y, m) == x.ahead => Confirmed(y, Cur(x).seq, m)

Inv ==
  /\ DiskOK
  /\ ReaderOK(r, made, wpos.seq)
  /\ SharedOK(h, shared, made, wpos.seq)
  /\ AheadOK(r, h, made)

-----------------------------------------------------------------------------
(* Positions *)

\* What is written to a region of a segment.
LEMMA LayoutFacts ==
  ASSUME NEW s \in Seqs
  PROVE  /\ s \in Nat /\ Layout[s] \in Seq(Nat) /\ Len(Layout[s]) \in Nat \ {0}
         /\ Base(s) \in Nat
         /\ \A g \in Nat : g < Len(Layout[s]) =>
              /\ First(s, g) \in Nat /\ Layout[s][g + 1] \in Nat /\ First(s, g) <= Layout[s][g + 1]
<1>1. MaxSeq \in Nat /\ s \in Nat /\ s <= MaxSeq
  BY LayoutAssumption DEF Seqs
<1>2. \A t \in Seqs : Layout[t] \in Seq(Nat) /\ Len(Layout[t]) \in Nat \ {0}
  <2>1. ASSUME NEW t \in Seqs PROVE Layout[t] \in Seq(Nat) /\ Len(Layout[t]) \in 1..FileRegions
    BY LayoutAssumption DEF Seqs
  <2> QED
    BY <2>1
<1>3. \A t \in Seqs : \A i \in 1..Len(Layout[t]) : Layout[t][i] \in Nat
  BY <1>2
<1>4. Base(s) \in Nat
  <2>1. CASE s = 0
    BY <2>1 DEF Base
  <2>2. CASE s # 0
    <3>1. s - 1 \in Seqs
      BY <1>1, <2>2 DEF Seqs
    <3>2. Len(Layout[s - 1]) \in 1..Len(Layout[s - 1])
      BY <1>2, <3>1
    <3>3. Layout[s - 1][Len(Layout[s - 1])] \in Nat
      BY <1>3, <3>1, <3>2
    <3> QED
      BY <2>2, <3>3 DEF Base, Last
  <2> QED
    BY <2>1, <2>2
<1>5. ASSUME NEW g \in Nat, g < Len(Layout[s])
      PROVE  /\ First(s, g) \in Nat /\ Layout[s][g + 1] \in Nat /\ First(s, g) <= Layout[s][g + 1]
  <2>1. g + 1 \in 1..Len(Layout[s]) /\ (g # 0 => g \in 1..Len(Layout[s])) /\ (g + 1) - 1 = g
    BY <1>2, <1>5
  <2>2. First(s, g) \in Nat /\ Layout[s][g + 1] \in Nat
    BY <1>3, <1>4, <2>1 DEF First
  <2>3. \A i \in DOMAIN Layout[s] : First(s, i - 1) <= Layout[s][i]
    BY LayoutAssumption DEF Seqs
  <2>4. g + 1 \in DOMAIN Layout[s]
    BY <1>2, <2>1
  <2>5. First(s, (g + 1) - 1) <= Layout[s][g + 1]
    BY <2>3, <2>4
  <2> QED
    BY <2>1, <2>2, <2>5
<1> QED
  BY <1>1, <1>2, <1>4, <1>5

\* The start of a segment.
LEMMA ValidStart ==
  ASSUME NEW s \in Seqs
  PROVE  /\ Valid(Start(s)) /\ Index(Start(s)) = Base(s)
         /\ Start(s).seq = s /\ Start(s).reg = 0 /\ Start(s) \in Position
<1>1. Start(s) \in Position /\ Start(s).seq = s /\ Start(s).reg = 0 /\ Start(s).off = 0
  BY DEF Start, Position
<1>2. Base(s) \in Nat /\ 0 < Len(Layout[s]) /\ First(s, 0) <= Layout[s][0 + 1] /\ First(s, 0) = Base(s)
  BY LayoutFacts DEF First
<1>3. Index(Start(s)) = Base(s)
  BY <1>1, <1>2 DEF Index
<1> QED
  BY <1>1, <1>2, <1>3 DEF Valid

\* A position's index, and the kinds there are.
LEMMA ValidFacts ==
  ASSUME NEW p, Valid(p)
  PROVE  /\ p \in Position /\ p.seq \in Seqs /\ p.seq \in Nat /\ p.reg \in Nat /\ p.off \in Nat
         /\ Len(Layout[p.seq]) \in Nat /\ p.reg + 1 <= Len(Layout[p.seq])
         /\ First(p.seq, p.reg) \in Nat /\ Layout[p.seq][p.reg + 1] \in Nat
         /\ Index(p) \in Nat /\ Index(p) = First(p.seq, p.reg) + p.off
         /\ Kind(p) \in {"User", "Skip", "Roll"}
         /\ Kind(p) = "User" <=> Index(p) < Layout[p.seq][p.reg + 1]
         /\ Kind(p) # "User" => Index(p) = Layout[p.seq][p.reg + 1]
         /\ Kind(p) = "Skip" => p.reg + 1 < Len(Layout[p.seq])
         /\ Kind(p) = "Roll" => p.reg + 1 = Len(Layout[p.seq])
<1>1. p \in Position /\ p.reg < Len(Layout[p.seq]) /\ Index(p) <= Layout[p.seq][p.reg + 1]
  BY DEF Valid
<1>2. p.seq \in Seqs /\ p.reg \in Nat /\ p.off \in Nat
  BY <1>1 DEF Position
<1>3. /\ p.seq \in Nat /\ Len(Layout[p.seq]) \in Nat
      /\ First(p.seq, p.reg) \in Nat /\ Layout[p.seq][p.reg + 1] \in Nat
  BY <1>1, <1>2, LayoutFacts
<1>4. Index(p) \in Nat /\ Index(p) = First(p.seq, p.reg) + p.off
  BY <1>2, <1>3 DEF Index
<1> QED
  BY <1>1, <1>2, <1>3, <1>4 DEF Kind

\* The position after a user record ...
LEMMA AfterUser ==
  ASSUME NEW p, Valid(p), Kind(p) = "User"
  PROVE  /\ Valid(After(p)) /\ After(p) \in Position
         /\ After(p).seq = p.seq /\ After(p).reg = p.reg
         /\ After(p).off = p.off + 1 /\ Index(After(p)) = Index(p) + 1
<1>1. After(p) = [p EXCEPT !.off = @ + 1]
  BY DEF After
<1>2. p \in Position /\ p.off \in Nat
  BY ValidFacts
<1>3. After(p) \in Position /\ After(p).seq = p.seq /\ After(p).reg = p.reg /\ After(p).off = p.off + 1
  BY <1>1, <1>2 DEF Position
<1>4. Index(After(p)) = Index(p) + 1
  BY <1>3, ValidFacts DEF Index
<1>5. /\ p.reg < Len(Layout[p.seq]) /\ Index(p) + 1 <= Layout[p.seq][p.reg + 1]
  BY ValidFacts
<1>6. Valid(After(p))
  BY <1>3, <1>4, <1>5 DEF Valid
<1> QED
  BY <1>3, <1>4, <1>6

\* ... after a Skip ...
LEMMA AfterSkip ==
  ASSUME NEW p, Valid(p), Kind(p) = "Skip"
  PROVE  /\ Valid(After(p)) /\ After(p) \in Position
         /\ After(p).seq = p.seq /\ After(p).reg = p.reg + 1
         /\ After(p).off = 0 /\ Index(After(p)) = Index(p)
<1>1. After(p) = [p EXCEPT !.reg = @ + 1, !.off = 0]
  BY DEF After
<1>2. p \in Position /\ p.reg \in Nat
  BY ValidFacts
<1>3. After(p) \in Position /\ After(p).seq = p.seq /\ After(p).reg = p.reg + 1 /\ After(p).off = 0
  <2>1. PICK n \in Nat : n = p.reg + 1
    BY <1>2
  <2>2. PICK q : q = [p EXCEPT !.reg = n, !.off = 0]
    OBVIOUS
  <2>3. q = After(p)
    BY <1>1, <2>1, <2>2
  <2>4. q \in Position
    BY <1>2, <2>2 DEF Position
  <2>5. q.seq = p.seq /\ q.reg = n /\ q.off = 0
    BY <1>2, <2>2 DEF Position
  <2> QED
    BY <2>1, <2>3, <2>4, <2>5
<1>4. PICK s \in Seqs, g \in Nat : s = p.seq /\ g = p.reg + 1 /\ g < Len(Layout[s]) /\ g # 0
  BY <1>2, ValidFacts
<1>5. First(s, g) = Layout[s][g] /\ First(s, g) \in Nat /\ First(s, g) <= Layout[s][g + 1]
  BY <1>4, LayoutFacts DEF First
<1>6. Index(After(p)) = Layout[p.seq][p.reg + 1]
  BY <1>3, <1>4, <1>5 DEF Index
<1>7. Index(After(p)) = Index(p)
  BY <1>6, ValidFacts
<1> QED
  BY <1>3, <1>4, <1>5, <1>6, <1>7 DEF Valid

\* ... and after a Roll.
LEMMA AfterRoll ==
  ASSUME NEW p, Valid(p), Kind(p) = "Roll", p.seq + 1 \in Seqs
  PROVE  /\ After(p) = Start(p.seq + 1) /\ Base(p.seq + 1) = Index(p)
<1>1. After(p) = Start(p.seq + 1)
  BY DEF After
<1>2. p.seq \in Nat /\ p.reg + 1 = Len(Layout[p.seq]) /\ Index(p) = Layout[p.seq][p.reg + 1]
  BY ValidFacts
<1>3. Base(p.seq + 1) = Last(Layout[p.seq])
  <2>1. p.seq + 1 # 0 /\ (p.seq + 1) - 1 = p.seq
    BY <1>2
  <2> QED
    BY <2>1 DEF Base
<1> QED
  BY <1>1, <1>2, <1>3 DEF Last

\* A Roll is committed when the writer has left its segment.
LEMMA RollCommitted ==
  ASSUME NEW p, Valid(p), Valid(wpos), Committed(p), Kind(p) = "Roll"
  PROVE  p.seq < wpos.seq
<1>1. CASE p.seq = wpos.seq /\ p.reg < wpos.reg
  BY <1>1, ValidFacts
<1>2. CASE p.seq = wpos.seq /\ p.reg = wpos.reg /\ p.off < wpos.off
  <2>1. Index(p) < Index(wpos)
    BY <1>2, ValidFacts
  <2>2. Index(wpos) <= Layout[p.seq][p.reg + 1]
    BY <1>2 DEF Valid
  <2>3. Index(p) = Layout[p.seq][p.reg + 1] /\ Index(p) \in Nat
    BY ValidFacts
  <2>4. Index(wpos) \in Nat
    BY ValidFacts
  <2> QED
    BY <2>1, <2>2, <2>3, <2>4
<1> QED
  BY <1>1, <1>2 DEF Committed

-----------------------------------------------------------------------------
(* What the steps of a call do to the reader *)

\* Between two calls.
LEMMA IdleFacts ==
  ASSUME NEW x \in ReaderRec, NEW y, y = Idle(x)
  PROVE  /\ y \in ReaderRec
         /\ y.pc = "idle" /\ y.call = "" /\ y.scan = x.at /\ y.scanFile = x.file
         /\ y.scanPosition = x.position /\ y.crossed = FALSE /\ y.ahead = FALSE
         /\ y.at = x.at /\ y.file = x.file /\ y.position = x.position /\ y.given = x.given
         /\ y.maps = x.maps /\ y.held = x.held /\ y.batch = x.batch /\ y.out = x.out
<1> QED
  BY DEF Idle, ReaderRec

\* The types of a reader's fields.
LEMMA ReaderTypes ==
  ASSUME NEW x \in ReaderRec
  PROVE  /\ x.pc \in {"idle", "scan", "open", "tell", "store_region", "store_sequence"}
         /\ x.call \in {"", "single", "batch"} /\ x.max \in Nat
         /\ x.at \in Position /\ x.file \in Nat /\ x.position \in Nat /\ x.given \in Nat
         /\ x.maps \in Seq(RegionRec) /\ x.held \subseteq RegionRec
         /\ x.batch \in Seq(LentRec) /\ x.out \in Seq(OwnedRec)
         /\ x.scan \in Position /\ x.scanFile \in Nat /\ x.scanPosition \in Nat
         /\ x.crossed \in BOOLEAN /\ x.ahead \in BOOLEAN
         /\ x.tell \in [seq : Seqs, reg : Nat] \cup {Nothing}
<1> QED
  BY DEF ReaderRec

\* The types of what it has mapped, lent and handed over.
LEMMA ItemTypes ==
  ASSUME NEW x \in ReaderRec
  PROVE  /\ \A i \in DOMAIN x.maps : x.maps[i] \in RegionRec
         /\ \A i \in DOMAIN x.batch : x.batch[i] \in LentRec
         /\ \A i \in DOMAIN x.out : x.out[i] \in OwnedRec
         /\ DOMAIN x.maps = 1..Len(x.maps) /\ Len(x.maps) \in Nat
         /\ DOMAIN x.batch = 1..Len(x.batch) /\ Len(x.batch) \in Nat
         /\ DOMAIN x.out = 1..Len(x.out) /\ Len(x.out) \in Nat
<1>1. x.maps \in Seq(RegionRec) /\ x.batch \in Seq(LentRec) /\ x.out \in Seq(OwnedRec)
  BY ReaderTypes
<1>2. ASSUME NEW S, NEW s \in Seq(S)
      PROVE  (\A i \in DOMAIN s : s[i] \in S) /\ DOMAIN s = 1..Len(s) /\ Len(s) \in Nat
  OBVIOUS
<1> QED
  BY <1>1, <1>2

\* A region.
LEMMA RegionFacts ==
  ASSUME NEW s, NEW i, NEW f
  PROVE  /\ Region(s, i, f).seq = s /\ Region(s, i, f).reg = i /\ Region(s, i, f).file = f
         /\ (s \in Seqs /\ i \in Nat /\ f \in Nat) => Region(s, i, f) \in RegionRec
<1> QED
  BY DEF Region, RegionRec

\* A region left is kept while its segment is being read.
LEMMA RetireFacts ==
  ASSUME NEW x \in ReaderRec, x.maps # <<>>, NEW y, y = RetireAllButLast(x)
  PROVE  /\ y \in ReaderRec /\ y.maps \in Seq(RegionRec)
         /\ Len(y.maps) = 1 /\ DOMAIN y.maps = {1} /\ y.maps # <<>>
         /\ Last(y.maps) = Last(x.maps) /\ y.maps[1] = Last(x.maps)
         /\ Mapped(y) = {Last(x.maps)} /\ Last(x.maps) \in Mapped(x)
         /\ \A k \in y.held : k \in x.held \/ (k \in Mapped(x) /\ k.seq = x.at.seq)
         /\ Unmap = "AtFileRoll" =>
              \A k \in x.held \cup Mapped(x) :
                k.seq = x.at.seq => k \in y.held \cup {Last(x.maps)}
         /\ y.pc = x.pc /\ y.call = x.call /\ y.max = x.max /\ y.at = x.at /\ y.file = x.file
         /\ y.position = x.position /\ y.given = x.given /\ y.batch = x.batch /\ y.out = x.out
         /\ y.scan = x.scan /\ y.scanFile = x.scanFile /\ y.scanPosition = x.scanPosition
         /\ y.crossed = x.crossed /\ y.ahead = x.ahead /\ y.tell = x.tell
<1>1. x.maps \in Seq(RegionRec) /\ x.held \subseteq RegionRec
  BY ReaderTypes
<1>2. Len(x.maps) \in Nat \ {0} /\ DOMAIN x.maps = 1..Len(x.maps)
  BY <1>1, EmptySeq
<1>3. PICK k : k = Last(x.maps)
  OBVIOUS
<1>4. k \in RegionRec /\ k \in Mapped(x)
  BY <1>1, <1>2, <1>3 DEF Last, Mapped
<1>5. PICK left : left = {x.maps[i] : i \in 1..(Len(x.maps) - 1)}
  OBVIOUS
<1>6. left \subseteq RegionRec /\ left \subseteq Mapped(x)
  BY <1>1, <1>2, <1>5 DEF Mapped
<1>7. Mapped(x) \subseteq left \cup {k}
  BY <1>2, <1>3, <1>5 DEF Mapped, Last
<1>8. PICK kept : kept = x.held \cup {e \in left : Unmap = "AtFileRoll" /\ e.seq = x.at.seq}
  OBVIOUS
<1>9. kept \subseteq RegionRec
  BY <1>1, <1>6, <1>8
<1>10. PICK ms : ms = <<k>>
  OBVIOUS
<1>11. ms \in Seq(RegionRec) /\ Len(ms) = 1 /\ DOMAIN ms = {1} /\ ms # <<>> /\ ms[1] = k /\ Last(ms) = k
  BY <1>4, <1>10 DEF Last
<1>12. y = [x EXCEPT !.maps = ms, !.held = kept]
  BY <1>3, <1>5, <1>8, <1>10 DEF RetireAllButLast
<1>13. y \in ReaderRec /\ y.maps = ms /\ y.held = kept
  BY <1>9, <1>11, <1>12 DEF ReaderRec
<1>14. /\ y.pc = x.pc /\ y.call = x.call /\ y.max = x.max /\ y.at = x.at /\ y.file = x.file
       /\ y.position = x.position /\ y.given = x.given /\ y.batch = x.batch /\ y.out = x.out
       /\ y.scan = x.scan /\ y.scanFile = x.scanFile /\ y.scanPosition = x.scanPosition
       /\ y.crossed = x.crossed /\ y.ahead = x.ahead /\ y.tell = x.tell
  BY <1>12 DEF ReaderRec
<1>15. Mapped(y) = {k}
  BY <1>11, <1>13 DEF Mapped
<1>16. \A e \in y.held : e \in x.held \/ (e \in Mapped(x) /\ e.seq = x.at.seq)
  BY <1>6, <1>8, <1>13
<1>17. ASSUME Unmap = "AtFileRoll", NEW e \in x.held \cup Mapped(x), e.seq = x.at.seq
       PROVE  e \in y.held \cup {k}
  BY <1>7, <1>8, <1>13, <1>17
<1> QED
  BY <1>3, <1>4, <1>11, <1>13, <1>14, <1>15, <1>16, <1>17

\* A reader that may return does, and is as it should be between two calls.
LEMMA IdleOK ==
  ASSUME NEW m, NEW w, NEW x, Settled(x, m, w), NEW y, y = Idle(x)
  PROVE  ReaderOK(y, m, w) /\ ~y.ahead
<1>1. x \in ReaderRec
  BY DEF Settled
<1>2. /\ y \in ReaderRec
      /\ y.pc = "idle" /\ y.call = "" /\ y.scan = x.at /\ y.scanFile = x.file
      /\ y.scanPosition = x.position /\ ~y.crossed /\ ~y.ahead
      /\ y.at = x.at /\ y.file = x.file /\ y.position = x.position /\ y.given = x.given
      /\ y.maps = x.maps /\ y.held = x.held /\ y.batch = x.batch /\ y.out = x.out
  BY <1>1, IdleFacts
<1>3. ~Scanning(y) /\ ~Moving(y) /\ ~Done(y) /\ Cur(y) = y.at
  BY <1>2 DEF Scanning, Moving, Done, Cur
<1>4. PlaceOK(y, m, w)
  BY <1>2, <1>3 DEF Settled, PlaceOK
<1>5. MapsOK(y, m, w)
  BY <1>2, <1>3 DEF Settled, MapsOK, FilesOK
<1>6. GivenOK(y, m, w)
  <2>1. LentOK(y, m, y.position - Len(y.batch))
    BY <1>2 DEF Settled, LentOK
  <2>2. OwnedOK(y, m, w)
    BY <1>2 DEF Settled, OwnedOK
  <2> QED
    BY <1>2, <1>3, <2>1, <2>2 DEF Settled, GivenOK
<1>7. KeptOK(y, m)
  <2>1. Mapped(y) = Mapped(x)
    BY <1>2 DEF Mapped
  <2> QED
    BY <1>2, <1>3, <2>1 DEF Settled, KeptOK
<1> QED
  BY <1>2, <1>4, <1>5, <1>6, <1>7 DEF ReaderOK

\* It may also let go of what it has left, if it lends nothing.
LEMMA RetireSettled ==
  ASSUME NEW m, NEW w, NEW x, Settled(x, m, w), x.batch = <<>>, NEW y, y = RetireAllButLast(x)
  PROVE  Settled(y, m, w)
<1>1. x \in ReaderRec /\ x.maps # <<>>
  BY DEF Settled, FilesOK
<1>2. /\ y \in ReaderRec /\ DOMAIN y.maps = {1} /\ y.maps # <<>>
      /\ Last(y.maps) = Last(x.maps) /\ y.maps[1] = Last(x.maps)
      /\ Mapped(y) = {Last(x.maps)} /\ Last(x.maps) \in Mapped(x)
      /\ y.at = x.at /\ y.file = x.file
      /\ y.position = x.position /\ y.given = x.given /\ y.batch = x.batch /\ y.out = x.out
  BY <1>1, RetireFacts
<1>3. FilesOK(y, m, w)
  BY <1>2 DEF Settled, FilesOK, Mapped
<1>4. LentOK(y, m, y.position - Len(y.batch)) /\ OwnedOK(y, m, w)
  <2>1. LentOK(y, m, y.position - Len(y.batch))
    BY <1>2 DEF LentOK
  <2>2. OwnedOK(y, m, w)
    BY <1>2 DEF Settled, OwnedOK
  <2> QED
    BY <2>1, <2>2
<1>5. \A k \in y.held : k.seq = y.at.seq
  BY <1>1, <1>2, RetireFacts DEF Settled
<1>6. ASSUME Unmap = "AtFileRoll" PROVE UpTo(y.at, m, y.held \cup Mapped(y))
  <2>1. \A k \in x.held \cup Mapped(x) : k.seq = x.at.seq => k \in y.held \cup {Last(x.maps)}
    BY <1>1, <1>6, RetireFacts
  <2>2. UpTo(x.at, m, x.held \cup Mapped(x))
    BY <1>6 DEF Settled
  <2> QED
    BY <1>2, <2>1, <2>2, RegionFacts DEF UpTo
<1> QED
  BY <1>2, <1>3, <1>4, <1>5, <1>6 DEF Settled

\* The end of a call.
LEMMA ReturnedOK ==
  ASSUME NEW m, NEW w, NEW x, Settled(x, m, w), NEW y, y = Returned(x)
  PROVE  ReaderOK(y, m, w) /\ ~y.ahead
<1>1. CASE x.batch = <<>>
  BY <1>1, RetireSettled, IdleOK DEF Returned
<1>2. CASE x.batch # <<>>
  BY <1>2, IdleOK DEF Returned
<1> QED
  BY <1>1, <1>2

\* Attempts at segments that are not being written, and the writer moving on, are nothing to the
\* reader.
LEMMA ReaderFrame ==
  ASSUME NEW m, NEW w \in Nat, NEW x, ReaderOK(x, m, w), NEW n, NEW v \in Nat, w <= v,
         \A s \in Seqs : s <= w => n[s] = m[s]
  PROVE  ReaderOK(x, n, v)
<1>1. x \in ReaderRec
  BY DEF ReaderOK
<1>2. Valid(x.at) /\ x.at.seq <= w /\ Valid(x.scan) /\ x.scan.seq <= w
  BY DEF ReaderOK, PlaceOK
<1>3. /\ x.at.seq \in Nat /\ x.scan.seq \in Nat /\ x.at.seq <= v /\ x.scan.seq <= v
      /\ n[x.at.seq] = m[x.at.seq] /\ n[x.scan.seq] = m[x.scan.seq]
  <2>1. x.at.seq \in Seqs /\ x.scan.seq \in Seqs /\ x.at.seq \in Nat /\ x.scan.seq \in Nat
    BY <1>2, ValidFacts
  <2> QED
    BY <1>2, <2>1
<1>4. Cur(x) = x.at \/ Cur(x) = x.scan
  BY DEF Cur
<1>5. PlaceOK(x, n, v)
  <2>1. Cur(x).seq \in Nat
    BY <1>3, <1>4
  <2>2. Cur(x).seq < w => Cur(x).seq < v
    BY <2>1
  <2> QED
    BY <1>2, <1>3, <2>2 DEF ReaderOK, PlaceOK
<1>6. RegionOf(x.at, n) = RegionOf(x.at, m) /\ RegionOf(x.scan, n) = RegionOf(x.scan, m)
  BY <1>3 DEF RegionOf
<1>7. \A i \in DOMAIN x.maps : /\ x.maps[i].seq \in Seqs /\ x.maps[i].seq <= w
                               /\ x.maps[i].seq <= v /\ n[x.maps[i].seq] = m[x.maps[i].seq]
  <2> SUFFICES ASSUME NEW i \in DOMAIN x.maps
               PROVE  /\ x.maps[i].seq \in Seqs /\ x.maps[i].seq <= w
                      /\ x.maps[i].seq <= v /\ n[x.maps[i].seq] = m[x.maps[i].seq]
    OBVIOUS
  <2>1. x.maps[i] \in RegionRec
    BY <1>1, ItemTypes
  <2>2. x.maps[i].seq \in Seqs /\ x.maps[i].seq \in Nat
    BY <2>1 DEF RegionRec, Seqs
  <2>3. x.maps[i].seq <= w
    BY DEF ReaderOK, MapsOK, FilesOK
  <2> QED
    BY <2>2, <2>3
<1>8. MapsOK(x, n, v)
  <2>1. FilesOK(x, n, v)
    BY <1>7 DEF ReaderOK, MapsOK, FilesOK
  <2> QED
    BY <1>3, <1>4, <1>6, <2>1 DEF ReaderOK, MapsOK
<1>9. GivenOK(x, n, v)
  <2>1. ASSUME NEW k, LentOK(x, m, k) PROVE LentOK(x, n, k)
    <3>1. ASSUME NEW i \in DOMAIN x.batch
          PROVE  RegionOf(x.batch[i].pos, n) = RegionOf(x.batch[i].pos, m)
      <4>1. x.batch[i].map \in DOMAIN x.maps /\ x.maps[x.batch[i].map] = RegionOf(x.batch[i].pos, m)
        BY <2>1, <3>1 DEF LentOK
      <4>2. x.maps[x.batch[i].map].seq = x.batch[i].pos.seq
        BY <4>1, RegionFacts DEF RegionOf
      <4> QED
        BY <1>7, <4>1, <4>2 DEF RegionOf
    <3> QED
      BY <2>1, <3>1 DEF LentOK
  <2>2. OwnedOK(x, n, v)
    <3>1. OwnedOK(x, m, w)
      BY DEF ReaderOK, GivenOK
    <3>2. ASSUME NEW i \in DOMAIN x.out
          PROVE  x.out[i].pos.seq <= v /\ RegionOf(x.out[i].pos, n) = RegionOf(x.out[i].pos, m)
      <4>1. x.out[i] \in OwnedRec /\ x.out[i].pos.seq <= w
        BY <1>1, <3>1, <3>2, ItemTypes DEF OwnedOK
      <4>2. x.out[i].pos.seq \in Seqs /\ x.out[i].pos.seq \in Nat
        BY <4>1 DEF OwnedRec, Position, Seqs
      <4> QED
        BY <4>1, <4>2 DEF RegionOf
    <3> QED
      BY <3>1, <3>2 DEF OwnedOK
  <2> QED
    BY <2>1, <2>2 DEF ReaderOK, GivenOK
<1>10. KeptOK(x, n)
  <2>1. \A S : /\ UpTo(x.at, m, S) => UpTo(x.at, n, S)
               /\ UpTo(x.scan, m, S) => UpTo(x.scan, n, S)
    BY <1>3 DEF UpTo
  <2> QED
    BY <2>1 DEF ReaderOK, KeptOK
<1> QED
  BY <1>1, <1>5, <1>8, <1>9, <1>10 DEF ReaderOK

\* What is left of a reader's mappings when it lets go of those it has left: it still has kept what
\* it had to, of the segment it is in.
LEMMA RetireKeeps ==
  ASSUME NEW m, NEW w, NEW x \in ReaderRec, FilesOK(x, m, w), NEW y, y = RetireAllButLast(x)
  PROVE  /\ FilesOK(y, m, w)
         /\ (\A k \in x.held : k.seq = x.at.seq) => \A k \in y.held : k.seq = x.at.seq
         /\ (Unmap = "AtFileRoll" /\ UpTo(x.at, m, x.held \cup Mapped(x))) =>
              UpTo(x.at, m, y.held \cup {y.maps[1]})
<1>1. x.maps # <<>>
  BY DEF FilesOK
<1>2. /\ DOMAIN y.maps = {1} /\ y.maps # <<>> /\ y.maps[1] = Last(x.maps)
      /\ Last(x.maps) \in Mapped(x)
  BY <1>1, RetireFacts
<1>3. FilesOK(y, m, w)
  BY <1>2 DEF FilesOK, Mapped
<1>4. ASSUME \A k \in x.held : k.seq = x.at.seq
      PROVE  \A k \in y.held : k.seq = x.at.seq
  BY <1>1, <1>4, RetireFacts
<1>5. ASSUME Unmap = "AtFileRoll", UpTo(x.at, m, x.held \cup Mapped(x))
      PROVE  UpTo(x.at, m, y.held \cup {y.maps[1]})
  <2>1. \A k \in x.held \cup Mapped(x) : k.seq = x.at.seq => k \in y.held \cup {Last(x.maps)}
    BY <1>1, <1>5, RetireFacts
  <2> QED
    BY <1>2, <1>5, <2>1, RegionFacts DEF UpTo
<1> QED
  BY <1>3, <1>4, <1>5

\* A call that is not scanning a batch may return where it is.
LEMMA SettledOf ==
  ASSUME NEW m, NEW w, NEW x, ReaderOK(x, m, w), ~Scanning(x), ~Moving(x), x.pc # "tell"
  PROVE  Settled(x, m, w)
<1>1. Cur(x) = x.at
  BY DEF Cur, Scanning, ReaderOK, PlaceOK
<1>2. \A k \in x.held : k.seq = x.at.seq
  BY DEF ReaderOK, KeptOK
<1>3. LentOK(x, m, x.position - Len(x.batch)) /\ OwnedOK(x, m, w) /\ (x.batch = <<>> \/ x.out = <<>>)
  BY DEF ReaderOK, GivenOK
<1>4. FilesOK(x, m, w) /\ Last(x.maps) = RegionOf(x.at, m)
  BY <1>1 DEF ReaderOK, MapsOK
<1>5. Unmap = "AtFileRoll" => UpTo(x.at, m, x.held \cup Mapped(x))
  BY DEF ReaderOK, KeptOK
<1>6. /\ x \in ReaderRec /\ Valid(x.at) /\ x.at.seq <= w /\ x.file = m[x.at.seq]
      /\ x.position = Index(x.at) /\ x.given = x.position
  BY DEF ReaderOK, PlaceOK
<1> QED
  BY <1>2, <1>3, <1>4, <1>5, <1>6 DEF Settled

\* Whatever the helper is held to, it was.
Follows(x, y) == y.ahead => x.ahead /\ Cur(y).seq = Cur(x).seq

\* A batch that ends moves the reader to the end of its scan.
LEMMA MovedFacts ==
  ASSUME NEW x \in ReaderRec, NEW z,
         z = [x EXCEPT !.at = x.scan, !.position = x.scanPosition, !.file = x.scanFile,
                       !.given = @ + Len(x.batch)]
  PROVE  /\ z \in ReaderRec /\ z.at = x.scan /\ z.position = x.scanPosition
         /\ z.file = x.scanFile /\ z.given = x.given + Len(x.batch)
         /\ z.pc = x.pc /\ z.call = x.call /\ z.maps = x.maps /\ z.held = x.held
         /\ z.batch = x.batch /\ z.out = x.out /\ z.scan = x.scan /\ z.scanFile = x.scanFile
         /\ z.scanPosition = x.scanPosition /\ z.crossed = x.crossed /\ z.ahead = x.ahead
         /\ z.tell = x.tell
<1>1. PICK n : n = x.given + Len(x.batch)
  OBVIOUS
<1>2. n \in Nat
  <2>1. x.given \in Nat /\ Len(x.batch) \in Nat
    BY ReaderTypes, ItemTypes
  <2> QED
    BY <1>1, <2>1
<1>3. z = [x EXCEPT !.at = x.scan, !.position = x.scanPosition, !.file = x.scanFile, !.given = n]
  BY <1>1
<1>4. z \in ReaderRec /\ z.at = x.scan /\ z.position = x.scanPosition /\ z.file = x.scanFile /\ z.given = n
  BY <1>2, <1>3 DEF ReaderRec
<1>5. /\ z.pc = x.pc /\ z.call = x.call /\ z.maps = x.maps /\ z.held = x.held
      /\ z.batch = x.batch /\ z.out = x.out /\ z.scan = x.scan /\ z.scanFile = x.scanFile
      /\ z.scanPosition = x.scanPosition /\ z.crossed = x.crossed /\ z.ahead = x.ahead
      /\ z.tell = x.tell
  BY <1>3 DEF ReaderRec
<1> QED
  BY <1>1, <1>4, <1>5

\* What it has lent and mapped is what it had.
LEMMA MovedGiven ==
  ASSUME NEW m, NEW w, NEW x, ReaderOK(x, m, w), Scanning(x), ~Moving(x),
         NEW z \in ReaderRec, z.at = x.scan, z.position = x.scanPosition,
         z.file = x.scanFile, z.given = x.given + Len(x.batch),
         z.maps = x.maps, z.batch = x.batch, z.out = x.out
  PROVE  /\ Valid(z.at) /\ z.at.seq <= w /\ z.file = m[z.at.seq]
         /\ z.position = Index(z.at) /\ z.given = z.position
         /\ FilesOK(z, m, w) /\ Last(z.maps) = RegionOf(z.at, m) /\ Mapped(z) = Mapped(x)
         /\ LentOK(z, m, z.position - Len(z.batch)) /\ OwnedOK(z, m, w) /\ z.out = <<>>
<1>1. x \in ReaderRec /\ x.call = "batch" /\ Cur(x) = x.scan
  BY DEF ReaderOK, Scanning, Cur
<1>2. /\ Valid(x.scan) /\ x.scan.seq <= w /\ x.scanFile = m[x.scan.seq]
      /\ x.scanPosition = Index(x.scan) /\ x.scanPosition = x.position + Len(x.batch)
      /\ x.given = x.position
  BY DEF ReaderOK, PlaceOK
<1>3. x.position \in Nat /\ Len(x.batch) \in Nat
  BY <1>1, ReaderTypes, ItemTypes
<1>4. z.given = z.position /\ z.position - Len(z.batch) = x.position
  BY <1>2, <1>3
<1>5. FilesOK(z, m, w) /\ Last(z.maps) = RegionOf(z.at, m) /\ Mapped(z) = Mapped(x)
  BY <1>1 DEF ReaderOK, MapsOK, FilesOK, Mapped
<1>6. LentOK(z, m, x.position)
  BY DEF ReaderOK, GivenOK, LentOK
<1>7. z.out = <<>> /\ OwnedOK(z, m, w)
  BY <1>1 DEF ReaderOK, GivenOK, OwnedOK
<1> QED
  BY <1>2, <1>4, <1>5, <1>6, <1>7

\* In the same segment it may return ...
LEMMA MovedSettled ==
  ASSUME NEW m, NEW w, NEW x, ReaderOK(x, m, w), Scanning(x), ~Moving(x), ~x.crossed,
         NEW z \in ReaderRec, z.at = x.scan, z.position = x.scanPosition,
         z.file = x.scanFile, z.given = x.given + Len(x.batch),
         z.maps = x.maps, z.held = x.held, z.batch = x.batch, z.out = x.out
  PROVE  Settled(z, m, w)
<1>1. x.scan.seq = x.at.seq
  BY DEF ReaderOK, PlaceOK
<1>2. \A k \in z.held : k.seq = z.at.seq
  <2>1. x.pc # "tell"
    BY DEF Scanning, Done
  <2> QED
    BY <1>1, <2>1 DEF ReaderOK, KeptOK
<1>3. Mapped(z) = Mapped(x)
  BY DEF Mapped
<1>4. Unmap = "AtFileRoll" => UpTo(z.at, m, z.held \cup Mapped(z))
  BY <1>3 DEF ReaderOK, KeptOK
<1> QED
  BY <1>2, <1>4, MovedGiven DEF Settled

\* ... in another one it has to tell the helper.
LEMMA MovedTells ==
  ASSUME NEW m, NEW w, NEW x, ReaderOK(x, m, w), Scanning(x), ~Moving(x), x.crossed,
         NEW z \in ReaderRec, z.at = x.scan, z.position = x.scanPosition,
         z.file = x.scanFile, z.given = x.given + Len(x.batch),
         z.maps = x.maps, z.held = x.held, z.batch = x.batch, z.out = x.out,
         z.pc = "tell", z.call = x.call, z.scan = x.scan, z.scanFile = x.scanFile,
         z.ahead = x.ahead
  PROVE  ReaderOK(z, m, w) /\ Follows(x, z)
<1>1. x.call = "batch" /\ Cur(x) = x.scan /\ Cur(z) = x.scan
  BY DEF Scanning, Cur
<1>2. Done(z) /\ ~Scanning(z) /\ ~Moving(z)
  BY DEF Done, Scanning, Moving
<1>3. /\ Valid(z.at) /\ z.at.seq <= w /\ z.file = m[z.at.seq]
      /\ z.position = Index(z.at) /\ z.given = z.position
      /\ FilesOK(z, m, w) /\ Last(z.maps) = RegionOf(z.at, m) /\ Mapped(z) = Mapped(x)
      /\ LentOK(z, m, z.position - Len(z.batch)) /\ OwnedOK(z, m, w) /\ z.out = <<>>
  BY MovedGiven
<1>4. PlaceOK(z, m, w)
  BY <1>1, <1>2, <1>3 DEF PlaceOK
<1>5. MapsOK(z, m, w)
  BY <1>1, <1>2, <1>3 DEF MapsOK
<1>6. GivenOK(z, m, w)
  BY <1>1, <1>2, <1>3 DEF GivenOK
<1>7. KeptOK(z, m)
  <2>1. Unmap = "AtFileRoll" => UpTo(z.at, m, Mapped(z))
    BY <1>3 DEF ReaderOK, KeptOK
  <2>2. \A S, T : UpTo(z.at, m, S) => UpTo(z.at, m, T \cup S)
    BY DEF UpTo
  <2> QED
    BY <1>2, <2>1, <2>2 DEF KeptOK
<1>8. Follows(x, z)
  BY <1>1 DEF Follows
<1> QED
  BY <1>4, <1>5, <1>6, <1>7, <1>8 DEF ReaderOK

\* try_read_batch commits the scan.
LEMMA FinishedOK ==
  ASSUME NEW m, NEW w, NEW x, ReaderOK(x, m, w), Scanning(x), ~Moving(x), NEW y, y = Finished(x)
  PROVE  ReaderOK(y, m, w) /\ Follows(x, y)
<1>1. x \in ReaderRec
  BY DEF ReaderOK
<1>2. PICK z : z = [x EXCEPT !.at = x.scan, !.position = x.scanPosition, !.file = x.scanFile,
                             !.given = @ + Len(x.batch)]
  OBVIOUS
<1>3. /\ z \in ReaderRec /\ z.at = x.scan /\ z.position = x.scanPosition
      /\ z.file = x.scanFile /\ z.given = x.given + Len(x.batch)
      /\ z.pc = x.pc /\ z.call = x.call /\ z.maps = x.maps /\ z.held = x.held
      /\ z.batch = x.batch /\ z.out = x.out /\ z.scan = x.scan /\ z.scanFile = x.scanFile
      /\ z.ahead = x.ahead
  BY <1>1, <1>2, MovedFacts
<1>4. CASE ~x.crossed
  <2>1. y = Returned(z)
    BY <1>2, <1>4 DEF Finished
  <2>2. Settled(z, m, w)
    BY <1>3, <1>4, MovedSettled
  <2>3. ReaderOK(y, m, w) /\ ~y.ahead
    BY <2>1, <2>2, ReturnedOK
  <2> QED
    BY <2>3 DEF Follows
<1>5. CASE x.crossed
  <2>1. y = [z EXCEPT !.pc = "tell"]
    BY <1>2, <1>5 DEF Finished
  <2>2. /\ y \in ReaderRec /\ y.pc = "tell" /\ y.at = z.at /\ y.position = z.position
        /\ y.file = z.file /\ y.given = z.given /\ y.call = z.call /\ y.maps = z.maps
        /\ y.held = z.held /\ y.batch = z.batch /\ y.out = z.out /\ y.scan = z.scan
        /\ y.scanFile = z.scanFile /\ y.ahead = z.ahead
    BY <1>3, <2>1 DEF ReaderRec
  <2>3. /\ y.at = x.scan /\ y.position = x.scanPosition
        /\ y.file = x.scanFile /\ y.given = x.given + Len(x.batch)
        /\ y.call = x.call /\ y.maps = x.maps /\ y.held = x.held
        /\ y.batch = x.batch /\ y.out = x.out /\ y.scan = x.scan /\ y.scanFile = x.scanFile
        /\ y.ahead = x.ahead
    BY <1>3, <2>2
  <2> QED
    BY <1>5, <2>2, <2>3, MovedTells
<1> QED
  BY <1>4, <1>5

\* A single read: the position after a user record, and what is known of it.
LEMMA NextAt ==
  ASSUME NEW m, NEW w, NEW x, ReaderOK(x, m, w), x.pc = "scan", x.call = "single",
         Kind(x.at) = "User"
  PROVE  \E p :
           /\ p = After(x.at)
           /\ p \in Position /\ Valid(p) /\ p.seq = x.at.seq /\ p.reg = x.at.reg
           /\ Index(p) = x.position + 1 /\ x.position = Index(x.at) /\ x.position \in Nat
           /\ x.given = x.position /\ p.seq <= w /\ x.file = m[p.seq]
           /\ FilesOK(x, m, w) /\ Last(x.maps) = RegionOf(x.at, m) /\ RegionOf(x.at, m) = RegionOf(p, m)
           /\ x.batch = <<>> /\ x.maps # <<>>
           /\ \A k \in x.held : k.seq = p.seq
           /\ Unmap = "AtFileRoll" => UpTo(p, m, x.held \cup Mapped(x))
<1> PICK p : p = After(x.at)
  OBVIOUS
<1>1. ~Scanning(x) /\ ~Moving(x) /\ ~Done(x) /\ Cur(x) = x.at
  BY DEF Scanning, Moving, Done, Cur
<1>2. Settled(x, m, w)
  BY <1>1, SettledOf
<1>3. x \in ReaderRec /\ Valid(x.at) /\ x.position = Index(x.at)
  BY <1>2 DEF Settled
<1>4. /\ Valid(p) /\ p \in Position /\ p.seq = x.at.seq /\ p.reg = x.at.reg
      /\ Index(p) = Index(x.at) + 1
  BY <1>3, AfterUser
<1>5. x.batch = <<>>
  BY DEF ReaderOK, GivenOK
<1>6. x.position \in Nat
  BY <1>3, ReaderTypes
<1>7. RegionOf(x.at, m) = RegionOf(p, m)
  BY <1>4 DEF RegionOf
<1>8. Unmap = "AtFileRoll" => UpTo(p, m, x.held \cup Mapped(x))
  BY <1>2, <1>4 DEF Settled, UpTo
<1> WITNESS p
<1> QED
  BY <1>2, <1>3, <1>4, <1>5, <1>6, <1>7, <1>8 DEF Settled, FilesOK

\* A record lent by try_read.
LEMMA TakeRecordOK ==
  ASSUME NEW m, NEW w, NEW x, ReaderOK(x, m, w), x.pc = "scan", x.call = "single",
         Kind(x.at) = "User", x.out = <<>>
  PROVE  \A z : z = [x EXCEPT !.at = After(@), !.position = @ + 1, !.given = @ + 1,
                              !.batch = <<[map |-> Len(x.maps), pos |-> x.at]>>]
                  => Settled(z, m, w)
<1>1. PICK p :
      /\ p = After(x.at)
      /\ p \in Position /\ Valid(p) /\ p.seq = x.at.seq /\ p.reg = x.at.reg
      /\ Index(p) = x.position + 1 /\ x.position = Index(x.at) /\ x.position \in Nat
      /\ x.given = x.position /\ p.seq <= w /\ x.file = m[p.seq]
      /\ FilesOK(x, m, w) /\ Last(x.maps) = RegionOf(x.at, m) /\ RegionOf(x.at, m) = RegionOf(p, m)
      /\ x.maps # <<>>
      /\ \A k \in x.held : k.seq = p.seq
      /\ Unmap = "AtFileRoll" => UpTo(p, m, x.held \cup Mapped(x))
  BY NextAt
<1>3. PICK n \in Nat : n = x.position + 1
  BY <1>1
<1>4. x \in ReaderRec
  BY DEF ReaderOK
<1>5. PICK l : l = [map |-> Len(x.maps), pos |-> x.at]
  OBVIOUS
<1>6. l \in LentRec /\ l.map = Len(x.maps) /\ l.pos = x.at
  BY <1>4, <1>5, ReaderTypes, ItemTypes DEF LentRec
<1>7. PICK b : b = <<l>>
  OBVIOUS
<1>8. b \in Seq(LentRec) /\ Len(b) = 1 /\ DOMAIN b = {1} /\ b[1] = l
  BY <1>6, <1>7
<1> TAKE z
<1> HAVE z = [x EXCEPT !.at = After(@), !.position = @ + 1, !.given = @ + 1,
                       !.batch = <<[map |-> Len(x.maps), pos |-> x.at]>>]
<1>9. z = [x EXCEPT !.at = p, !.position = n, !.given = n, !.batch = b]
  <2>1. n = x.given + 1
    BY <1>1, <1>3
  <2> QED
    BY <1>1, <1>3, <1>5, <1>7, <2>1
<1>10. z \in ReaderRec /\ z.at = p /\ z.position = n /\ z.given = n /\ z.batch = b
  <2>1. p \in Position /\ n \in Nat /\ b \in Seq(LentRec)
    BY <1>1, <1>8
  <2>2. z \in ReaderRec
    BY <1>4, <1>9, <2>1 DEF ReaderRec
  <2>3. z.at = p /\ z.position = n /\ z.given = n /\ z.batch = b
    BY <1>4, <1>9 DEF ReaderRec
  <2> QED
    BY <2>2, <2>3
<1>11. z.file = x.file /\ z.maps = x.maps /\ z.held = x.held /\ z.out = x.out
  BY <1>4, <1>9 DEF ReaderRec
<1>12. LentOK(z, m, z.position - Len(z.batch))
  <2>1. n - 1 = x.position /\ n - 1 + 1 - 1 = Index(x.at)
    BY <1>1, <1>3
  <2>2. Len(x.maps) \in DOMAIN x.maps /\ x.maps[Len(x.maps)] = RegionOf(x.at, m)
    <3>1. Len(x.maps) \in DOMAIN x.maps
      <4>1. x.maps \in Seq(RegionRec)
        BY <1>4, ReaderTypes
      <4> QED
        BY <1>1, <4>1, EmptySeq
    <3> QED
      BY <1>1, <3>1 DEF Last
  <2> QED
    BY <1>6, <1>8, <1>10, <1>11, <2>1, <2>2 DEF LentOK
<1>13. OwnedOK(z, m, w)
  BY <1>11 DEF OwnedOK
<1>14. FilesOK(z, m, w) /\ Mapped(z) = Mapped(x)
  BY <1>1, <1>11 DEF FilesOK, Mapped
<1>15. /\ Valid(z.at) /\ z.at.seq <= w /\ z.file = m[z.at.seq]
       /\ z.position = Index(z.at) /\ z.given = z.position /\ Last(z.maps) = RegionOf(z.at, m)
       /\ \A k \in z.held : k.seq = z.at.seq
       /\ Unmap = "AtFileRoll" => UpTo(z.at, m, z.held \cup Mapped(z))
  <2>1. z.held \cup Mapped(z) = x.held \cup Mapped(x)
    BY <1>11, <1>14
  <2> QED
    BY <1>1, <1>3, <1>10, <1>11, <2>1
<1> QED
  BY <1>10, <1>11, <1>12, <1>13, <1>14, <1>15 DEF Settled

\* A record handed over.
LEMMA TakeOwnedOK ==
  ASSUME NEW m, NEW w, NEW x, ReaderOK(x, m, w), x.pc = "scan", x.call = "single",
         Kind(x.at) = "User"
  PROVE  \A z : z = [x EXCEPT !.at = After(@), !.position = @ + 1, !.given = @ + 1,
                              !.out = Append(@, [region |-> Last(x.maps), pos |-> x.at])]
                  => ReaderOK(z, m, w) /\ Settled(z, m, w) /\ Follows(x, z)
<1>1. PICK p :
      /\ p = After(x.at)
      /\ p \in Position /\ Valid(p) /\ p.seq = x.at.seq /\ p.reg = x.at.reg
      /\ Index(p) = x.position + 1 /\ x.position = Index(x.at) /\ x.position \in Nat
      /\ x.given = x.position /\ p.seq <= w /\ x.file = m[p.seq]
      /\ FilesOK(x, m, w) /\ Last(x.maps) = RegionOf(x.at, m) /\ RegionOf(x.at, m) = RegionOf(p, m)
      /\ x.maps # <<>> /\ x.batch = <<>>
      /\ \A k \in x.held : k.seq = p.seq
      /\ Unmap = "AtFileRoll" => UpTo(p, m, x.held \cup Mapped(x))
  BY NextAt
<1>3. PICK n \in Nat : n = x.position + 1
  BY <1>1
<1>4. x \in ReaderRec /\ x.out \in Seq(OwnedRec) /\ Len(x.out) \in Nat
  <2>1. x \in ReaderRec
    BY DEF ReaderOK
  <2> QED
    BY <2>1, ReaderTypes, ItemTypes
<1>5. PICK l : l = [region |-> Last(x.maps), pos |-> x.at]
  OBVIOUS
<1>6. l \in OwnedRec /\ l.region = RegionOf(x.at, m) /\ l.pos = x.at
  <2>1. Last(x.maps) \in RegionRec
    <3>1. x.maps \in Seq(RegionRec)
      BY <1>4, ReaderTypes
    <3> QED
      BY <1>1, <3>1, EmptySeq DEF Last
  <2>2. x.at \in Position
    BY <1>4, ReaderTypes
  <2> QED
    BY <1>1, <1>5, <2>1, <2>2 DEF OwnedRec
<1>7. PICK b : b = Append(x.out, l)
  OBVIOUS
<1>8. /\ b \in Seq(OwnedRec) /\ Len(b) = Len(x.out) + 1 /\ DOMAIN b = 1..(Len(x.out) + 1)
      /\ b[Len(x.out) + 1] = l /\ \A i \in 1..Len(x.out) : b[i] = x.out[i]
  BY <1>4, <1>6, <1>7
<1> TAKE z
<1> HAVE z = [x EXCEPT !.at = After(@), !.position = @ + 1, !.given = @ + 1,
                       !.out = Append(@, [region |-> Last(x.maps), pos |-> x.at])]
<1>9. z = [x EXCEPT !.at = p, !.position = n, !.given = n, !.out = b]
  <2>1. n = x.given + 1
    BY <1>1, <1>3
  <2> QED
    BY <1>1, <1>3, <1>5, <1>7, <2>1
<1>10. z \in ReaderRec /\ z.at = p /\ z.position = n /\ z.given = n /\ z.out = b
  <2>1. p \in Position /\ n \in Nat /\ b \in Seq(OwnedRec)
    BY <1>1, <1>8
  <2>2. z \in ReaderRec
    BY <1>4, <1>9, <2>1 DEF ReaderRec
  <2>3. z.at = p /\ z.position = n /\ z.given = n /\ z.out = b
    BY <1>4, <1>9 DEF ReaderRec
  <2> QED
    BY <2>2, <2>3
<1>11. /\ z.pc = x.pc /\ z.call = x.call /\ z.file = x.file /\ z.maps = x.maps /\ z.held = x.held
       /\ z.batch = x.batch /\ z.scan = x.scan /\ z.scanFile = x.scanFile /\ z.ahead = x.ahead
  BY <1>4, <1>9 DEF ReaderRec
<1>12. ~Scanning(z) /\ ~Moving(z) /\ ~Done(z) /\ Cur(z) = p /\ Cur(x) = x.at
  BY <1>10, <1>11 DEF Scanning, Moving, Done, Cur
<1>13. OwnedOK(z, m, w)
  <2>1. OwnedOK(x, m, w)
    BY DEF ReaderOK, GivenOK
  <2>2. ASSUME NEW i \in 1..Len(x.out)
        PROVE  /\ z.out[i] = x.out[i] /\ i \in DOMAIN x.out
               /\ z.position - Len(z.out) + i - 1 = x.position - Len(x.out) + i - 1
    BY <1>1, <1>3, <1>4, <1>8, <1>10
  <2>3. z.position - Len(z.out) + (Len(x.out) + 1) - 1 = Index(x.at)
    <3>1. z.position = x.position + 1 /\ Len(z.out) = Len(x.out) + 1
      BY <1>3, <1>8, <1>10
    <3>2. x.position \in Nat /\ Len(x.out) \in Nat /\ Index(x.at) = x.position
      BY <1>1, <1>4
    <3> QED
      BY <3>1, <3>2
  <2>4. x.at.seq <= w
    BY <1>1
  <2>5. DOMAIN z.out = 1..(Len(x.out) + 1) /\ z.out[Len(x.out) + 1] = l
    BY <1>8, <1>10
  <2>6. ASSUME NEW i \in DOMAIN z.out
        PROVE  /\ z.out[i].pos.seq <= w /\ z.out[i].region = RegionOf(z.out[i].pos, m)
               /\ Kind(z.out[i].pos) = "User"
               /\ Index(z.out[i].pos) = z.position - Len(z.out) + i - 1
    <3>1. CASE i \in 1..Len(x.out)
      BY <2>1, <2>2, <3>1 DEF OwnedOK
    <3>2. CASE i = Len(x.out) + 1
      BY <1>6, <2>3, <2>4, <2>5, <3>2
    <3> QED
      BY <1>4, <2>5, <2>6, <3>1, <3>2
  <2> QED
    BY <2>6 DEF OwnedOK
<1>14. FilesOK(z, m, w) /\ Mapped(z) = Mapped(x)
  BY <1>1, <1>11 DEF FilesOK, Mapped
<1>15. PlaceOK(z, m, w)
  <2>1. Valid(x.scan) /\ x.scan.seq <= w /\ x.scanFile = m[x.scan.seq]
    BY DEF ReaderOK, PlaceOK
  <2>2. /\ Valid(z.at) /\ z.at.seq <= w /\ z.file = m[z.at.seq]
        /\ z.position = Index(z.at) /\ z.given = z.position
    BY <1>1, <1>3, <1>10, <1>11
  <2>3. /\ z.pc = "scan" /\ z.call = "single"
        /\ Valid(z.scan) /\ z.scan.seq <= w /\ z.scanFile = m[z.scan.seq]
    BY <1>11, <2>1
  <2> QED
    BY <1>12, <2>2, <2>3 DEF PlaceOK
<1>16. MapsOK(z, m, w)
  BY <1>1, <1>11, <1>12, <1>14 DEF MapsOK
<1>17. GivenOK(z, m, w)
  BY <1>1, <1>11, <1>12, <1>13 DEF GivenOK, LentOK
<1>18. KeptOK(z, m)
  <2>1. z.held \cup Mapped(z) = x.held \cup Mapped(x)
    BY <1>11, <1>14
  <2>2. Unmap = "AtFileRoll" => UpTo(z.at, m, z.held \cup Mapped(z))
    BY <1>1, <1>10, <2>1
  <2> QED
    BY <1>1, <1>10, <1>11, <1>12, <2>2 DEF KeptOK
<1>19. ReaderOK(z, m, w)
  BY <1>10, <1>15, <1>16, <1>17, <1>18 DEF ReaderOK
<1>20. Settled(z, m, w)
  BY <1>11, <1>12, <1>19, SettledOf
<1>21. Follows(x, z)
  BY <1>1, <1>11, <1>12 DEF Follows
<1> QED
  BY <1>19, <1>20, <1>21

\* A record collected by a batch.
LEMMA CollectOK ==
  ASSUME NEW m, NEW w, NEW x, ReaderOK(x, m, w), x.pc = "scan", x.call = "batch",
         Kind(x.scan) = "User"
  PROVE  \A z : z = [x EXCEPT !.batch = Append(@, [map |-> Len(x.maps), pos |-> x.scan]),
                              !.scan = After(@), !.scanPosition = @ + 1]
                  => ReaderOK(z, m, w) /\ Scanning(z) /\ ~Moving(z) /\ Follows(x, z)
<1>1. Scanning(x) /\ ~Moving(x) /\ ~Done(x) /\ Cur(x) = x.scan
  BY DEF Scanning, Moving, Done, Cur
<1>2. /\ x \in ReaderRec /\ Valid(x.at) /\ x.at.seq <= w /\ x.file = m[x.at.seq]
      /\ Valid(x.scan) /\ x.scan.seq <= w /\ x.scanFile = m[x.scan.seq]
      /\ x.position = Index(x.at) /\ x.given = x.position
      /\ x.scanPosition = Index(x.scan) /\ x.scanPosition = x.position + Len(x.batch)
      /\ ~x.crossed => x.scan.seq = x.at.seq
  BY <1>1 DEF ReaderOK, PlaceOK
<1>3. PICK p : p = After(x.scan)
  OBVIOUS
<1>4. /\ p \in Position /\ Valid(p) /\ p.seq = x.scan.seq /\ p.reg = x.scan.reg
      /\ Index(p) = Index(x.scan) + 1
  BY <1>2, <1>3, AfterUser
<1>5. /\ x.batch \in Seq(LentRec) /\ Len(x.batch) \in Nat /\ x.maps \in Seq(RegionRec)
      /\ x.position \in Nat /\ x.scanPosition \in Nat /\ x.scan \in Position
      /\ Len(x.maps) \in Nat /\ DOMAIN x.maps = 1..Len(x.maps)
      /\ DOMAIN x.batch = 1..Len(x.batch)
  BY <1>2, ReaderTypes, ItemTypes
<1>6. PICK n \in Nat : n = x.scanPosition + 1
  BY <1>5
<1>7. PICK l : l = [map |-> Len(x.maps), pos |-> x.scan]
  OBVIOUS
<1>8. l \in LentRec /\ l.map = Len(x.maps) /\ l.pos = x.scan
  BY <1>5, <1>7 DEF LentRec
<1>9. PICK b : b = Append(x.batch, l)
  OBVIOUS
<1>10. /\ b \in Seq(LentRec) /\ Len(b) = Len(x.batch) + 1 /\ DOMAIN b = 1..(Len(x.batch) + 1)
       /\ b[Len(x.batch) + 1] = l /\ \A i \in 1..Len(x.batch) : b[i] = x.batch[i]
  BY <1>5, <1>8, <1>9
<1>11. /\ FilesOK(x, m, w) /\ Last(x.maps) = RegionOf(x.scan, m) /\ x.maps[1] = RegionOf(x.at, m)
       /\ RegionOf(x.scan, m) = RegionOf(p, m)
  BY <1>1, <1>4 DEF ReaderOK, MapsOK, RegionOf
<1> TAKE z
<1> HAVE z = [x EXCEPT !.batch = Append(@, [map |-> Len(x.maps), pos |-> x.scan]),
                       !.scan = After(@), !.scanPosition = @ + 1]
<1>12. z = [x EXCEPT !.batch = b, !.scan = p, !.scanPosition = n]
  BY <1>3, <1>6, <1>7, <1>9
<1>13. z \in ReaderRec /\ z.batch = b /\ z.scan = p /\ z.scanPosition = n
  BY <1>2, <1>4, <1>10, <1>12 DEF ReaderRec
<1>14. /\ z.pc = x.pc /\ z.call = x.call /\ z.at = x.at /\ z.file = x.file
       /\ z.position = x.position /\ z.given = x.given /\ z.maps = x.maps /\ z.held = x.held
       /\ z.out = x.out /\ z.scanFile = x.scanFile /\ z.crossed = x.crossed /\ z.ahead = x.ahead
  BY <1>2, <1>12 DEF ReaderRec
<1>15. Scanning(z) /\ ~Moving(z) /\ ~Done(z) /\ Cur(z) = p
  BY <1>13, <1>14 DEF Scanning, Moving, Done, Cur
<1>16. PlaceOK(z, m, w)
  <2>1. n = Index(p) /\ n = x.position + Len(b)
    <3>1. n = Index(p)
      BY <1>2, <1>4, <1>6
    <3>2. n = (x.position + Len(x.batch)) + 1 /\ Len(b) = Len(x.batch) + 1
      BY <1>2, <1>6, <1>10
    <3>3. x.position \in Nat /\ Len(x.batch) \in Nat
      BY <1>5
    <3> QED
      BY <3>1, <3>2, <3>3
  <2>2. /\ z.scanPosition = Index(z.scan) /\ z.scanPosition = z.position + Len(z.batch)
        /\ Valid(z.scan) /\ z.scan.seq <= w /\ z.scanFile = m[z.scan.seq]
    BY <1>2, <1>4, <1>13, <1>14, <2>1
  <2>3. ~z.crossed => z.scan.seq = z.at.seq
    BY <1>2, <1>4, <1>13, <1>14
  <2>4. z.pc = "scan" /\ z.call = "batch"
    BY <1>14
  <2> QED
    BY <1>2, <1>14, <1>15, <2>2, <2>3, <2>4 DEF PlaceOK
<1>17. MapsOK(z, m, w)
  <2>1. FilesOK(z, m, w)
    BY <1>11, <1>14 DEF FilesOK
  <2> QED
    BY <1>11, <1>14, <1>15, <2>1 DEF MapsOK
<1>18. LentOK(z, m, z.position)
  <2>1. LentOK(x, m, x.position)
    BY <1>1 DEF ReaderOK, GivenOK
  <2>2. Len(x.maps) \in DOMAIN x.maps /\ x.maps[Len(x.maps)] = RegionOf(x.scan, m)
    <3>1. x.maps # <<>>
      BY <1>11 DEF FilesOK
    <3>2. Len(x.maps) \in DOMAIN x.maps
      BY <1>5, <3>1, EmptySeq
    <3> QED
      BY <1>11, <3>2 DEF Last
  <2>3. Index(x.scan) = z.position + (Len(x.batch) + 1) - 1
    BY <1>2, <1>5, <1>14
  <2>4. ASSUME NEW i \in DOMAIN z.batch
        PROVE  /\ z.batch[i].map \in DOMAIN z.maps
               /\ z.maps[z.batch[i].map] = RegionOf(z.batch[i].pos, m)
               /\ Kind(z.batch[i].pos) = "User"
               /\ Index(z.batch[i].pos) = z.position + i - 1
    <3>1. CASE i \in 1..Len(x.batch)
      <4>1. i \in DOMAIN x.batch /\ z.batch[i] = x.batch[i]
        BY <1>5, <1>10, <1>13, <3>1
      <4> QED
        BY <1>14, <2>1, <4>1 DEF LentOK
    <3>2. CASE i = Len(x.batch) + 1
      <4>1. z.batch[i] = l
        BY <1>10, <1>13, <3>2
      <4> QED
        BY <1>8, <1>14, <2>2, <2>3, <3>2, <4>1
    <3> QED
      BY <1>5, <1>10, <1>13, <2>4, <3>1, <3>2
  <2> QED
    BY <2>4 DEF LentOK
<1>19. GivenOK(z, m, w)
  <2>1. x.out = <<>>
    BY DEF ReaderOK, GivenOK
  <2>2. OwnedOK(z, m, w)
    BY <1>14, <2>1 DEF OwnedOK
  <2> QED
    BY <1>14, <1>15, <1>18, <2>1, <2>2 DEF GivenOK
<1>20. KeptOK(z, m)
  <2>1. Mapped(z) = Mapped(x)
    BY <1>14 DEF Mapped
  <2>2. \A S : UpTo(x.scan, m, S) => UpTo(p, m, S)
    BY <1>4 DEF UpTo
  <2>3. (Unmap = "AtFileRoll" /\ ~x.crossed) => UpTo(p, m, x.held \cup Mapped(x))
    BY <1>1, <2>2 DEF ReaderOK, KeptOK
  <2>4. (Unmap = "AtFileRoll" /\ x.crossed) => UpTo(p, m, Mapped(x))
    BY <1>1, <2>2 DEF ReaderOK, KeptOK
  <2>5. Unmap = "AtFileRoll" => UpTo(x.at, m, x.held \cup {x.maps[1]})
    BY <1>1 DEF ReaderOK, KeptOK
  <2>6. \A k \in x.held : k.seq = x.at.seq
    BY DEF ReaderOK, KeptOK
  <2> QED
    BY <1>13, <1>14, <1>15, <2>1, <2>3, <2>4, <2>5, <2>6 DEF KeptOK
<1>21. ReaderOK(z, m, w)
  BY <1>13, <1>16, <1>17, <1>19, <1>20 DEF ReaderOK
<1>22. Follows(x, z)
  BY <1>1, <1>4, <1>14, <1>15 DEF Follows
<1> QED
  BY <1>15, <1>21, <1>22

\* A batch that fails leaves the reader where it was.
LEMMA DiscardedOK ==
  ASSUME NEW m, NEW w, NEW x, ReaderOK(x, m, w), Scanning(x), NEW y, y = Discarded(x)
  PROVE  ReaderOK(y, m, w) /\ ~y.ahead
<1>1. /\ x \in ReaderRec /\ Valid(x.at) /\ x.at.seq <= w /\ x.file = m[x.at.seq]
      /\ x.position = Index(x.at) /\ x.given = x.position
  BY DEF ReaderOK, PlaceOK
<1>2. x.call = "batch" /\ x.pc # "tell"
  BY DEF Scanning, Done
<1>3. FilesOK(x, m, w) /\ x.maps[1] = RegionOf(x.at, m) /\ x.maps # <<>>
  BY DEF ReaderOK, MapsOK, FilesOK
<1>4. PICK k : k = x.maps[1]
  OBVIOUS
<1>5. x.maps \in Seq(RegionRec) /\ Len(x.maps) \in Nat \ {0} /\ 1 \in DOMAIN x.maps /\ k \in RegionRec
  <2>1. x.maps \in Seq(RegionRec)
    BY <1>1, ReaderTypes
  <2>2. Len(x.maps) \in Nat \ {0}
    BY <1>3, <2>1, EmptySeq
  <2> QED
    BY <1>4, <2>1, <2>2
<1>6. PICK ms : ms = SubSeq(x.maps, 1, 1)
  OBVIOUS
<1>7. ms \in Seq(RegionRec) /\ Len(ms) = 1 /\ DOMAIN ms = {1} /\ ms[1] = k /\ ms # <<>> /\ Last(ms) = k
  <2>1. ms \in Seq(RegionRec) /\ Len(ms) = 1 /\ ms[1] = k
    BY <1>4, <1>5, <1>6
  <2>2. DOMAIN ms = {1} /\ ms # <<>>
    BY <2>1
  <2> QED
    BY <2>1, <2>2 DEF Last
<1>8. PICK e : e = <<>>
  OBVIOUS
<1>9. e \in Seq(LentRec)
  BY <1>8
<1>10. PICK z : z = [x EXCEPT !.maps = ms, !.batch = e]
  OBVIOUS
<1>11. y = Idle(z)
  BY <1>6, <1>8, <1>10 DEF Discarded
<1>12. z \in ReaderRec /\ z.maps = ms /\ z.batch = e
  BY <1>1, <1>7, <1>9, <1>10 DEF ReaderRec
<1>13. /\ z.at = x.at /\ z.file = x.file /\ z.position = x.position /\ z.given = x.given
       /\ z.held = x.held /\ z.out = x.out
  BY <1>1, <1>10 DEF ReaderRec
<1>14. FilesOK(z, m, w) /\ Last(z.maps) = RegionOf(z.at, m) /\ Mapped(z) = {x.maps[1]}
  <2>1. Mapped(z) = {k}
    BY <1>7, <1>12 DEF Mapped
  <2>2. FilesOK(z, m, w)
    BY <1>3, <1>4, <1>5, <1>7, <1>12 DEF FilesOK
  <2> QED
    BY <1>3, <1>4, <1>7, <1>12, <1>13, <2>1, <2>2
<1>15. LentOK(z, m, z.position - Len(z.batch)) /\ OwnedOK(z, m, w) /\ z.batch = <<>>
  <2>1. x.out = <<>>
    BY <1>2 DEF ReaderOK, GivenOK
  <2> QED
    BY <1>8, <1>12, <1>13, <2>1 DEF LentOK, OwnedOK
<1>16. \A j \in z.held : j.seq = z.at.seq
  BY <1>2, <1>13 DEF ReaderOK, KeptOK
<1>17. Unmap = "AtFileRoll" => UpTo(z.at, m, z.held \cup Mapped(z))
  BY <1>13, <1>14 DEF ReaderOK, KeptOK
<1>18. Settled(z, m, w)
  BY <1>1, <1>12, <1>13, <1>14, <1>15, <1>16, <1>17 DEF Settled
<1> QED
  BY <1>11, <1>18, IdleOK

\* A region more is mapped.
OneMore(x, y, k) ==
  /\ y.maps # <<>> /\ Last(y.maps) = k /\ y.maps[1] = x.maps[1]
  /\ \A i \in DOMAIN x.maps : i \in DOMAIN y.maps /\ y.maps[i] = x.maps[i]
  /\ \A i \in DOMAIN y.maps : i \in DOMAIN x.maps \/ y.maps[i] = k
  /\ \E i \in DOMAIN y.maps : y.maps[i] = k

\* It is, at the end of maps.
LEMMA AppendFacts ==
  ASSUME NEW x \in ReaderRec, x.maps # <<>>, NEW k \in RegionRec
  PROVE  /\ Append(x.maps, k) \in Seq(RegionRec)
         /\ \A y : y.maps = Append(x.maps, k) => OneMore(x, y, k)
<1>1. x.maps \in Seq(RegionRec)
  BY ReaderTypes
<1>2. Len(x.maps) \in Nat \ {0} /\ DOMAIN x.maps = 1..Len(x.maps)
  BY <1>1, EmptySeq
<1>3. PICK ms : ms = Append(x.maps, k)
  OBVIOUS
<1>4. /\ ms \in Seq(RegionRec) /\ Len(ms) = Len(x.maps) + 1 /\ DOMAIN ms = 1..(Len(x.maps) + 1)
      /\ ms[Len(x.maps) + 1] = k /\ \A i \in 1..Len(x.maps) : ms[i] = x.maps[i]
  BY <1>1, <1>2, <1>3
<1>5. /\ Last(ms) = k /\ ms[1] = x.maps[1]
      /\ \A i \in DOMAIN x.maps : i \in DOMAIN ms /\ ms[i] = x.maps[i]
      /\ \A i \in DOMAIN ms : i \in DOMAIN x.maps \/ ms[i] = k
      /\ \E i \in DOMAIN ms : ms[i] = k
  BY <1>2, <1>4 DEF Last
<1>6. ms # <<>>
  BY <1>2, <1>4
<1> QED
  BY <1>3, <1>4, <1>5, <1>6 DEF OneMore

\* Nothing else changes of what is mapped and lent.
LEMMA AppendMap ==
  ASSUME NEW m, NEW w, NEW x, FilesOK(x, m, w), NEW k, k.seq <= w, k.file = m[k.seq],
         NEW y, OneMore(x, y, k)
  PROVE  FilesOK(y, m, w) /\ Mapped(y) = Mapped(x) \cup {k}
<1>1. FilesOK(y, m, w)
  BY DEF FilesOK, OneMore
<1>2. Mapped(y) \subseteq Mapped(x) \cup {k}
  BY DEF Mapped, OneMore
<1>3. Mapped(x) \subseteq Mapped(y)
  BY DEF Mapped, OneMore
<1>4. k \in Mapped(y)
  BY DEF Mapped, OneMore
<1> QED
  BY <1>1, <1>2, <1>3, <1>4

\* The next region is mapped: the reader is moving to it.
LEMMA MapRegionOK ==
  ASSUME NEW m \in [Seqs -> Nat], NEW w, NEW x, ReaderOK(x, m, w), x.pc = "scan",
         NEW c, c = Cur(x), Kind(c) = "Skip", NEW i, i = c.reg + 1
  PROVE  \A y : y = [x EXCEPT !.pc = "store_region", !.maps = Append(@, Region(c.seq, i, m[c.seq])),
                              !.tell = [seq |-> c.seq, reg |-> i]]
                  => ReaderOK(y, m, w) /\ Follows(x, y)
<1>1. ~Moving(x) /\ ~Done(x) /\ (Scanning(x) <=> x.call = "batch")
  BY DEF Moving, Done, Scanning
<1>2. /\ x \in ReaderRec /\ Valid(x.at) /\ x.at.seq <= w /\ x.file = m[x.at.seq]
      /\ Valid(x.scan) /\ x.scan.seq <= w /\ x.scanFile = m[x.scan.seq]
      /\ x.position = Index(x.at) /\ x.given = x.position /\ x.call # ""
      /\ Scanning(x) => /\ x.scanPosition = Index(x.scan)
                        /\ x.scanPosition = x.position + Len(x.batch)
                        /\ ~x.crossed => x.scan.seq = x.at.seq
  BY DEF ReaderOK, PlaceOK
<1>3. Valid(c) /\ c.seq <= w /\ c.seq \in Seqs /\ c.reg \in Nat
  <2>1. Valid(c) /\ c.seq <= w
    BY <1>2 DEF Cur
  <2> QED
    BY <2>1, ValidFacts
<1>4. i \in Nat /\ i > 0
  BY <1>3
<1>5. PICK k : k = Region(c.seq, i, m[c.seq])
  OBVIOUS
<1>6. k \in RegionRec /\ k.seq = c.seq /\ k.file = m[k.seq] /\ k.seq <= w
  BY <1>3, <1>4, <1>5, RegionFacts
<1>7. PICK t : t = [seq |-> c.seq, reg |-> i]
  OBVIOUS
<1>8. t \in [seq : Seqs, reg : Nat] /\ t.seq = c.seq /\ t.reg = i /\ t # Nothing
  <2>1. t \in [seq : Seqs, reg : Nat] /\ t.seq = c.seq /\ t.reg = i
    BY <1>3, <1>4, <1>7
  <2>2. c.seq # -1
    BY <1>3 DEF Seqs
  <2> QED
    BY <2>1, <2>2 DEF Nothing
<1>9. FilesOK(x, m, w) /\ (Scanning(x) => x.maps[1] = RegionOf(x.at, m))
  BY DEF ReaderOK, MapsOK
<1>10. x.maps # <<>>
  BY <1>9 DEF FilesOK
<1>11. PICK ms \in Seq(RegionRec) : ms = Append(x.maps, k)
  BY <1>2, <1>6, <1>10, AppendFacts
<1> TAKE y
<1> HAVE y = [x EXCEPT !.pc = "store_region", !.maps = Append(@, Region(c.seq, i, m[c.seq])),
                       !.tell = [seq |-> c.seq, reg |-> i]]
<1>12. y = [x EXCEPT !.pc = "store_region", !.maps = ms, !.tell = t]
  BY <1>5, <1>7, <1>11
<1>13. y \in ReaderRec /\ y.pc = "store_region" /\ y.maps = ms /\ y.tell = t
  BY <1>2, <1>8, <1>11, <1>12 DEF ReaderRec
<1>14. /\ y.call = x.call /\ y.at = x.at /\ y.file = x.file /\ y.position = x.position
       /\ y.given = x.given /\ y.held = x.held /\ y.batch = x.batch /\ y.out = x.out
       /\ y.scan = x.scan /\ y.scanFile = x.scanFile /\ y.scanPosition = x.scanPosition
       /\ y.crossed = x.crossed /\ y.ahead = x.ahead
  BY <1>2, <1>12 DEF ReaderRec
<1>15. Moving(y) /\ ~Done(y) /\ (Scanning(y) <=> Scanning(x)) /\ Cur(y) = c
  BY <1>1, <1>4, <1>8, <1>13, <1>14 DEF Moving, Done, Scanning, Cur
<1>16. /\ FilesOK(y, m, w) /\ Last(y.maps) = k /\ y.maps[1] = x.maps[1]
       /\ Mapped(y) = Mapped(x) \cup {k}
       /\ \A f : LentOK(x, m, f) => LentOK(y, m, f)
  <2>1. OneMore(x, y, k)
    BY <1>2, <1>6, <1>10, <1>11, <1>13, AppendFacts
  <2>2. FilesOK(y, m, w) /\ Mapped(y) = Mapped(x) \cup {k}
    BY <1>6, <1>9, <2>1, AppendMap
  <2>3. ASSUME NEW f, LentOK(x, m, f) PROVE LentOK(y, m, f)
    BY <1>14, <2>1, <2>3 DEF LentOK, OneMore
  <2> QED
    BY <2>1, <2>2, <2>3 DEF OneMore
<1>17. PlaceOK(y, m, w)
  BY <1>2, <1>8, <1>13, <1>14, <1>15 DEF PlaceOK
<1>18. MapsOK(y, m, w)
  BY <1>5, <1>9, <1>14, <1>15, <1>16 DEF MapsOK
<1>19. GivenOK(y, m, w)
  <2>1. OwnedOK(y, m, w)
    BY <1>14 DEF ReaderOK, GivenOK, OwnedOK
  <2> QED
    BY <1>14, <1>15, <1>16, <2>1 DEF ReaderOK, GivenOK
<1>20. KeptOK(y, m)
  <2>1. \A p, S : /\ UpTo(p, m, S \cup Mapped(x)) => UpTo(p, m, S \cup Mapped(y))
                  /\ UpTo(p, m, Mapped(x)) => UpTo(p, m, Mapped(y))
    BY <1>16 DEF UpTo
  <2>2. y.pc # "tell" /\ x.pc # "tell"
    BY <1>13
  <2>3. ASSUME Unmap = "AtFileRoll"
        PROVE  /\ ~Scanning(y) => UpTo(y.at, m, y.held \cup Mapped(y))
               /\ Scanning(y) => UpTo(y.at, m, y.held \cup {y.maps[1]})
               /\ Scanning(y) /\ ~y.crossed => UpTo(y.scan, m, y.held \cup Mapped(y))
               /\ Scanning(y) /\ y.crossed => UpTo(y.scan, m, Mapped(y))
    <3>1. /\ ~Scanning(x) => UpTo(x.at, m, x.held \cup Mapped(x))
          /\ Scanning(x) => UpTo(x.at, m, x.held \cup {x.maps[1]})
          /\ Scanning(x) /\ ~x.crossed => UpTo(x.scan, m, x.held \cup Mapped(x))
          /\ Scanning(x) /\ x.crossed => UpTo(x.scan, m, Mapped(x))
      BY <2>3 DEF ReaderOK, KeptOK
    <3> QED
      BY <1>14, <1>15, <1>16, <2>1, <3>1
  <2>4. \A j \in y.held : j.seq = y.at.seq
    BY <1>14, <2>2 DEF ReaderOK, KeptOK
  <2> QED
    BY <2>2, <2>3, <2>4 DEF KeptOK
<1>21. ReaderOK(y, m, w)
  BY <1>13, <1>17, <1>18, <1>19, <1>20 DEF ReaderOK
<1> QED
  BY <1>14, <1>15, <1>21 DEF Follows

\* The reader is at a Roll and has to open the segment it names itself.
LEMMA OpenOK ==
  ASSUME NEW m, NEW w, NEW x, ReaderOK(x, m, w), x.pc = "scan",
         Kind(Cur(x)) = "Roll", Cur(x).seq < w, NEW y, y = [x EXCEPT !.pc = "open"]
  PROVE  ReaderOK(y, m, w) /\ Follows(x, y)
<1>1. x \in ReaderRec /\ x.call # ""
  BY DEF ReaderOK, PlaceOK
<1>2. /\ y \in ReaderRec /\ y.pc = "open" /\ y.call = x.call /\ y.at = x.at /\ y.file = x.file
      /\ y.position = x.position /\ y.given = x.given /\ y.maps = x.maps /\ y.held = x.held
      /\ y.batch = x.batch /\ y.out = x.out /\ y.scan = x.scan /\ y.scanFile = x.scanFile
      /\ y.scanPosition = x.scanPosition /\ y.crossed = x.crossed /\ y.ahead = x.ahead
  BY <1>1 DEF ReaderRec
<1>3. /\ Cur(y) = Cur(x) /\ ~Moving(x) /\ ~Moving(y) /\ ~Done(x) /\ ~Done(y)
      /\ Scanning(y) <=> Scanning(x)
  BY <1>2 DEF Cur, Moving, Done, Scanning
<1>4. PlaceOK(y, m, w)
  BY <1>1, <1>2, <1>3 DEF ReaderOK, PlaceOK
<1>5. MapsOK(y, m, w)
  BY <1>2, <1>3 DEF ReaderOK, MapsOK, FilesOK
<1>6. GivenOK(y, m, w)
  BY <1>2, <1>3 DEF ReaderOK, GivenOK, LentOK, OwnedOK
<1>7. KeptOK(y, m)
  <2>1. Mapped(y) = Mapped(x)
    BY <1>2 DEF Mapped
  <2> QED
    BY <1>2, <1>3, <2>1 DEF ReaderOK, KeptOK
<1> QED
  BY <1>2, <1>3, <1>4, <1>5, <1>6, <1>7 DEF ReaderOK, Follows

\* The segment after a Roll.
LEMMA NextSegment ==
  ASSUME NEW m \in [Seqs -> Nat], NEW w \in Seqs, NEW x, ReaderOK(x, m, w),
         Kind(Cur(x)) = "Roll", Cur(x).seq < w
  PROVE  \E s \in Seqs :
           /\ s = Cur(x).seq + 1 /\ s <= w /\ Cur(x).seq < s /\ Base(s) = Index(Cur(x))
           /\ Base(s) \in Nat /\ Valid(Start(s)) /\ Start(s) \in Position
           /\ Index(Start(s)) = Base(s) /\ Start(s).seq = s /\ Start(s).reg = 0
           /\ Region(s, 0, m[s]) \in RegionRec /\ Region(s, 0, m[s]).seq = s
           /\ Region(s, 0, m[s]).file = m[s] /\ Region(s, 0, m[s]) = RegionOf(Start(s), m)
<1>1. PICK c : c = Cur(x)
  OBVIOUS
<1>2. Valid(c)
  BY <1>1 DEF ReaderOK, PlaceOK, Cur
<1>3. c.seq \in Nat
  BY <1>2, ValidFacts
<1>4. PICK s : s = c.seq + 1
  OBVIOUS
<1>5. s \in Seqs /\ s <= w /\ c.seq < s
  <2>1. w \in Nat /\ MaxSeq \in Nat /\ w <= MaxSeq
    BY LayoutAssumption DEF Seqs
  <2>2. c.seq < w
    BY <1>1
  <2> QED
    BY <1>3, <1>4, <2>1, <2>2 DEF Seqs
<1>6. Base(s) = Index(c)
  BY <1>1, <1>2, <1>4, <1>5, AfterRoll
<1>7. /\ Valid(Start(s)) /\ Start(s) \in Position
      /\ Index(Start(s)) = Base(s) /\ Start(s).seq = s /\ Start(s).reg = 0 /\ Base(s) \in Nat
  BY <1>5, ValidStart, LayoutFacts
<1>8. /\ Region(s, 0, m[s]) \in RegionRec /\ Region(s, 0, m[s]).seq = s
      /\ Region(s, 0, m[s]).file = m[s]
  BY <1>5, RegionFacts
<1>9. Region(s, 0, m[s]) = RegionOf(Start(s), m)
  BY <1>7 DEF RegionOf
<1> QED
  BY <1>1, <1>4, <1>5, <1>6, <1>7, <1>8, <1>9

\* The segment s is entered: a batch or a single read.
InSegment(x, s, file, ahead) ==
  [x EXCEPT !.pc = "scan", !.maps = Append(x.maps, Region(s, 0, file)), !.scan = Start(s),
            !.scanFile = file, !.scanPosition = Base(s), !.crossed = TRUE, !.ahead = ahead]
AtSegment(x, s, file, ahead) ==
  [x EXCEPT !.pc = "tell", !.maps = Append(x.maps, Region(s, 0, file)), !.at = Start(s),
            !.file = file, !.position = Base(s), !.ahead = ahead]
Enters(x, s, file, ahead) ==
  IF x.call = "batch" THEN InSegment(x, s, file, ahead)
  ELSE RetireAllButLast(AtSegment(x, s, file, ahead))

\* A batch goes on in the segment a Roll names ...
LEMMA EnterBatchOK ==
  ASSUME NEW m \in [Seqs -> Nat], NEW w \in Seqs, NEW x, ReaderOK(x, m, w),
         x.pc \in {"scan", "open"}, x.call = "batch", Kind(x.scan) = "Roll", x.scan.seq < w,
         NEW s \in Seqs, s = x.scan.seq + 1
  PROVE  \A a \in BOOLEAN : \A y : y = InSegment(x, s, m[s], a) => ReaderOK(y, m, w) /\ y.ahead = a /\ Cur(y).seq = s
<1>1. Scanning(x) /\ ~Moving(x) /\ ~Done(x) /\ Cur(x) = x.scan
  BY DEF Scanning, Moving, Done, Cur
<1>2. /\ s \in Seqs /\ s <= w /\ x.scan.seq < s /\ Base(s) = Index(x.scan)
      /\ Base(s) \in Nat /\ Valid(Start(s)) /\ Start(s) \in Position
      /\ Index(Start(s)) = Base(s) /\ Start(s).seq = s /\ Start(s).reg = 0
      /\ Region(s, 0, m[s]) \in RegionRec /\ Region(s, 0, m[s]).seq = s
      /\ Region(s, 0, m[s]).file = m[s] /\ Region(s, 0, m[s]) = RegionOf(Start(s), m)
  BY <1>1, NextSegment
<1>3. /\ x \in ReaderRec /\ Valid(x.at) /\ x.at.seq <= w /\ x.file = m[x.at.seq]
      /\ x.position = Index(x.at) /\ x.given = x.position
      /\ x.scanPosition = Index(x.scan) /\ x.scanPosition = x.position + Len(x.batch)
  BY <1>1 DEF ReaderOK, PlaceOK
<1>4. FilesOK(x, m, w) /\ x.maps[1] = RegionOf(x.at, m) /\ x.maps # <<>>
  BY <1>1 DEF ReaderOK, MapsOK, FilesOK
<1>5. PICK k \in RegionRec : k = Region(s, 0, m[s]) /\ k.seq <= w /\ k.file = m[k.seq] /\ k = RegionOf(Start(s), m)
  BY <1>2
<1>6. PICK ms \in Seq(RegionRec) : ms = Append(x.maps, k)
  BY <1>3, <1>4, <1>5, AppendFacts
<1>7. PICK p \in Position, n \in Nat, f \in Nat : p = Start(s) /\ n = Base(s) /\ f = m[s]
  BY <1>2
<1> TAKE a \in BOOLEAN
<1> TAKE y
<1> HAVE y = InSegment(x, s, m[s], a)
<1>8. y = [x EXCEPT !.pc = "scan", !.maps = ms, !.scan = p, !.scanFile = f, !.scanPosition = n,
                    !.crossed = TRUE, !.ahead = a]
  BY <1>5, <1>6, <1>7 DEF InSegment
<1>9. /\ y \in ReaderRec /\ y.pc = "scan" /\ y.maps = ms /\ y.scan = p /\ y.scanFile = f
      /\ y.scanPosition = n /\ y.crossed = TRUE /\ y.ahead = a
  <2>1. PICK t \in BOOLEAN : t = TRUE
    OBVIOUS
  <2>2. y = [x EXCEPT !.pc = "scan", !.maps = ms, !.scan = p, !.scanFile = f, !.scanPosition = n,
                      !.crossed = t, !.ahead = a]
    BY <1>8, <2>1
  <2>3. y \in ReaderRec
    <3>1. PICK u : u = [x EXCEPT !.pc = "scan", !.maps = ms, !.scan = p, !.scanFile = f,
                                 !.scanPosition = n]
      OBVIOUS
    <3>2. u \in ReaderRec
      BY <1>3, <3>1 DEF ReaderRec
    <3>3. y = [u EXCEPT !.crossed = t, !.ahead = a]
      BY <1>3, <2>2, <3>1 DEF ReaderRec
    <3> QED
      BY <3>2, <3>3 DEF ReaderRec
  <2>4. /\ y.pc = "scan" /\ y.maps = ms /\ y.scan = p /\ y.scanFile = f
        /\ y.scanPosition = n /\ y.crossed = t /\ y.ahead = a
    BY <1>3, <2>2 DEF ReaderRec
  <2> QED
    BY <2>1, <2>3, <2>4
<1>10. /\ y.call = x.call /\ y.at = x.at /\ y.file = x.file /\ y.position = x.position
       /\ y.given = x.given /\ y.held = x.held /\ y.batch = x.batch /\ y.out = x.out
  BY <1>3, <1>8 DEF ReaderRec
<1>11. Scanning(y) /\ ~Moving(y) /\ ~Done(y) /\ Cur(y) = p
  BY <1>9, <1>10 DEF Scanning, Moving, Done, Cur
<1>12. OneMore(x, y, k)
  BY <1>3, <1>4, <1>6, <1>9, AppendFacts
<1>13. FilesOK(y, m, w) /\ Mapped(y) = Mapped(x) \cup {k}
  BY <1>4, <1>5, <1>12, AppendMap
<1>14. PlaceOK(y, m, w)
  <2>1. y.scanPosition = Index(y.scan) /\ y.scanPosition = y.position + Len(y.batch)
    <3>1. n = Index(x.scan) /\ Index(p) = n
      BY <1>2, <1>7
    <3>2. y.scanPosition = x.scanPosition /\ Index(y.scan) = y.scanPosition
      BY <1>3, <1>9, <3>1
    <3> QED
      BY <1>3, <1>10, <3>2
  <2>2. Valid(y.scan) /\ y.scan.seq <= w /\ y.scanFile = m[y.scan.seq] /\ y.call = "batch"
    BY <1>2, <1>7, <1>9, <1>10
  <2> QED
    BY <1>3, <1>9, <1>10, <1>11, <2>1, <2>2 DEF PlaceOK
<1>15. MapsOK(y, m, w)
  BY <1>4, <1>5, <1>7, <1>10, <1>11, <1>12, <1>13 DEF MapsOK, OneMore
<1>16. GivenOK(y, m, w)
  <2>1. LentOK(x, m, x.position) /\ x.out = <<>>
    BY <1>1 DEF ReaderOK, GivenOK
  <2>2. LentOK(y, m, x.position)
    <3>1. \A i \in DOMAIN x.maps : i \in DOMAIN y.maps /\ y.maps[i] = x.maps[i]
      BY <1>12 DEF OneMore
    <3>2. ASSUME NEW i \in DOMAIN y.batch
          PROVE  /\ y.batch[i].map \in DOMAIN y.maps
                 /\ y.maps[y.batch[i].map] = RegionOf(y.batch[i].pos, m)
                 /\ Kind(y.batch[i].pos) = "User"
                 /\ Index(y.batch[i].pos) = x.position + i - 1
      <4>1. y.batch = x.batch /\ i \in DOMAIN x.batch
        BY <1>10
      <4>2. /\ x.batch[i].map \in DOMAIN x.maps
            /\ x.maps[x.batch[i].map] = RegionOf(x.batch[i].pos, m)
            /\ Kind(x.batch[i].pos) = "User"
            /\ Index(x.batch[i].pos) = x.position + i - 1
        BY <2>1, <4>1 DEF LentOK
      <4> QED
        BY <3>1, <4>1, <4>2
    <3> QED
      BY <3>2 DEF LentOK
  <2>3. OwnedOK(y, m, w)
    BY <1>10, <2>1 DEF OwnedOK
  <2> QED
    BY <1>10, <1>11, <2>1, <2>2, <2>3 DEF GivenOK
<1>17. KeptOK(y, m)
  <2>1. UpTo(p, m, Mapped(y))
    <3>1. p.seq = s /\ p.reg = 0
      BY <1>2, <1>7
    <3> QED
      BY <1>5, <1>13, <3>1 DEF UpTo
  <2>2. \A j \in y.held : j.seq = y.at.seq
    BY <1>10 DEF ReaderOK, KeptOK
  <2>3. Unmap = "AtFileRoll" => UpTo(y.at, m, y.held \cup {y.maps[1]})
    BY <1>1, <1>10, <1>12 DEF ReaderOK, KeptOK, OneMore
  <2> QED
    BY <1>9, <1>11, <2>1, <2>2, <2>3 DEF KeptOK
<1>18. ReaderOK(y, m, w)
  BY <1>9, <1>14, <1>15, <1>16, <1>17 DEF ReaderOK
<1> QED
  BY <1>2, <1>7, <1>9, <1>11, <1>18

\* ... and a single read enters it for good: what it has left is of the segment before it.
LEMMA EnterSingleOK ==
  ASSUME NEW m \in [Seqs -> Nat], NEW w \in Seqs, NEW x, ReaderOK(x, m, w),
         x.pc \in {"scan", "open"}, x.call = "single", Kind(x.at) = "Roll", x.at.seq < w,
         NEW s \in Seqs, s = x.at.seq + 1
  PROVE  \A a \in BOOLEAN : \A y : y = RetireAllButLast(AtSegment(x, s, m[s], a)) => ReaderOK(y, m, w) /\ y.ahead = a /\ Cur(y).seq = s
<1>1. ~Scanning(x) /\ ~Moving(x) /\ ~Done(x) /\ Cur(x) = x.at
  BY DEF Scanning, Moving, Done, Cur
<1>2. /\ s \in Seqs /\ s <= w /\ x.at.seq < s /\ Base(s) = Index(x.at)
      /\ Base(s) \in Nat /\ Valid(Start(s)) /\ Start(s) \in Position
      /\ Index(Start(s)) = Base(s) /\ Start(s).seq = s /\ Start(s).reg = 0
      /\ Region(s, 0, m[s]) \in RegionRec /\ Region(s, 0, m[s]).seq = s
      /\ Region(s, 0, m[s]).file = m[s] /\ Region(s, 0, m[s]) = RegionOf(Start(s), m)
  BY <1>1, NextSegment
<1>3. /\ x \in ReaderRec /\ Valid(x.scan) /\ x.scan.seq <= w /\ x.scanFile = m[x.scan.seq]
      /\ x.position = Index(x.at) /\ x.given = x.position
  BY <1>1 DEF ReaderOK, PlaceOK
<1>4. FilesOK(x, m, w) /\ x.maps # <<>>
  BY <1>1 DEF ReaderOK, MapsOK, FilesOK
<1>5. PICK k \in RegionRec : k = Region(s, 0, m[s]) /\ k.seq <= w /\ k.file = m[k.seq] /\ k = RegionOf(Start(s), m)
  BY <1>2
<1>6. PICK ms \in Seq(RegionRec) : ms = Append(x.maps, k)
  BY <1>3, <1>4, <1>5, AppendFacts
<1>7. PICK p \in Position, n \in Nat, f \in Nat : p = Start(s) /\ n = Base(s) /\ f = m[s]
  BY <1>2
<1> TAKE a \in BOOLEAN
<1>8. PICK z : z = [x EXCEPT !.pc = "tell", !.maps = ms, !.at = p, !.file = f, !.position = n,
                             !.ahead = a]
  OBVIOUS
<1>9. /\ z \in ReaderRec /\ z.pc = "tell" /\ z.maps = ms /\ z.at = p /\ z.file = f
      /\ z.position = n /\ z.ahead = a
  BY <1>3, <1>8 DEF ReaderRec
<1>10. /\ z.call = x.call /\ z.given = x.given /\ z.batch = x.batch /\ z.out = x.out
       /\ z.scan = x.scan /\ z.scanFile = x.scanFile
  BY <1>3, <1>8 DEF ReaderRec
<1>11. OneMore(x, z, k)
  BY <1>3, <1>4, <1>6, <1>9, AppendFacts
<1>12. FilesOK(z, m, w) /\ z.maps # <<>> /\ Last(z.maps) = k
  <2>1. FilesOK(z, m, w)
    BY <1>4, <1>5, <1>11, AppendMap
  <2> QED
    BY <1>11, <2>1 DEF OneMore
<1> TAKE y
<1> HAVE y = RetireAllButLast(AtSegment(x, s, m[s], a))
<1>13. y = RetireAllButLast(z)
  <2>1. z = AtSegment(x, s, m[s], a)
    BY <1>5, <1>6, <1>7, <1>8 DEF AtSegment
  <2> QED
    BY <2>1
<1>14. /\ y \in ReaderRec /\ DOMAIN y.maps = {1} /\ y.maps # <<>> /\ Last(y.maps) = k
       /\ Mapped(y) = {k}
       /\ y.pc = z.pc /\ y.call = z.call /\ y.at = z.at /\ y.file = z.file
       /\ y.position = z.position /\ y.given = z.given /\ y.batch = z.batch /\ y.out = z.out
       /\ y.scan = z.scan /\ y.scanFile = z.scanFile /\ y.ahead = z.ahead
  BY <1>9, <1>12, <1>13, RetireFacts
<1>15. FilesOK(y, m, w)
  BY <1>9, <1>12, <1>13, RetireKeeps
<1>16. /\ y.pc = "tell" /\ y.call = "single" /\ y.at = p /\ y.file = f /\ y.position = n
       /\ y.ahead = a /\ y.given = x.given /\ y.batch = x.batch /\ y.out = x.out
       /\ y.scan = x.scan /\ y.scanFile = x.scanFile
  BY <1>9, <1>10, <1>14
<1>17. ~Scanning(y) /\ ~Moving(y) /\ Cur(y) = p
  BY <1>16 DEF Scanning, Moving, Cur
<1>18. PlaceOK(y, m, w)
  <2>1. /\ Valid(y.at) /\ y.at.seq <= w /\ y.file = m[y.at.seq]
        /\ y.position = Index(y.at) /\ y.given = y.position
    BY <1>2, <1>3, <1>7, <1>16
  <2> QED
    BY <1>3, <1>16, <1>17, <2>1 DEF PlaceOK
<1>19. MapsOK(y, m, w)
  BY <1>5, <1>7, <1>14, <1>15, <1>17 DEF MapsOK
<1>20. GivenOK(y, m, w)
  <2>1. x.batch = <<>> /\ OwnedOK(x, m, w)
    BY DEF ReaderOK, GivenOK
  <2>2. y.position = x.position
    BY <1>2, <1>3, <1>7, <1>16
  <2>3. OwnedOK(y, m, w)
    BY <1>16, <2>1, <2>2 DEF OwnedOK
  <2>4. y.batch = <<>> /\ y.call = "single"
    BY <1>16, <2>1
  <2>5. ASSUME NEW e PROVE LentOK(y, m, e)
    BY <2>4 DEF LentOK
  <2> QED
    BY <2>3, <2>4, <2>5 DEF GivenOK
<1>21. KeptOK(y, m)
  <2>1. \A S : UpTo(p, m, S \cup {k}) /\ UpTo(p, m, {k})
    <3>1. p.seq = s /\ p.reg = 0
      BY <1>2, <1>7
    <3> QED
      BY <1>5, <3>1 DEF UpTo
  <2>2. UpTo(y.at, m, Mapped(y)) /\ UpTo(y.at, m, y.held \cup Mapped(y))
    BY <1>14, <1>16, <2>1
  <2>3. y.pc = "tell" /\ ~Scanning(y)
    BY <1>16, <1>17
  <2> QED
    BY <2>2, <2>3 DEF KeptOK
<1>22. ReaderOK(y, m, w)
  BY <1>14, <1>18, <1>19, <1>20, <1>21 DEF ReaderOK
<1> QED
  BY <1>2, <1>7, <1>16, <1>17, <1>22

\* What was kept of the old segment is let go.
LEMMA TellRolledOK ==
  ASSUME NEW m, NEW w, NEW x, ReaderOK(x, m, w), x.pc = "tell"
  PROVE  \A y : y = [x EXCEPT !.pc = "store_region", !.held = {},
                              !.tell = [seq |-> x.at.seq, reg |-> 0]]
                  => ReaderOK(y, m, w) /\ Follows(x, y)
<1>1. Done(x) /\ ~Scanning(x) /\ ~Moving(x)
  BY DEF Done, Scanning, Moving
<1>2. /\ x \in ReaderRec /\ Valid(x.at) /\ x.at.seq <= w /\ x.file = m[x.at.seq]
      /\ Valid(x.scan) /\ x.scan.seq <= w /\ x.scanFile = m[x.scan.seq]
      /\ x.position = Index(x.at) /\ x.given = x.position /\ x.call # ""
      /\ x.call = "batch" => x.scan = x.at
  BY <1>1 DEF ReaderOK, PlaceOK
<1>3. PICK t : t = [seq |-> x.at.seq, reg |-> 0]
  OBVIOUS
<1>4. t \in [seq : Seqs, reg : Nat] /\ t.seq = x.at.seq /\ t.reg = 0 /\ t # Nothing
  <2>1. x.at.seq \in Seqs
    BY <1>2, ValidFacts
  <2>2. x.at.seq # -1
    BY <2>1 DEF Seqs
  <2>3. t \in [seq : Seqs, reg : Nat] /\ t.seq = x.at.seq /\ t.reg = 0
    BY <1>3, <2>1
  <2> QED
    BY <2>2, <2>3 DEF Nothing
<1> TAKE y
<1> HAVE y = [x EXCEPT !.pc = "store_region", !.held = {}, !.tell = [seq |-> x.at.seq, reg |-> 0]]
<1>5. y = [x EXCEPT !.pc = "store_region", !.held = {}, !.tell = t]
  BY <1>3
<1>6. y \in ReaderRec /\ y.pc = "store_region" /\ y.held = {} /\ y.tell = t
  BY <1>2, <1>4, <1>5 DEF ReaderRec
<1>7. /\ y.call = x.call /\ y.at = x.at /\ y.file = x.file /\ y.position = x.position
      /\ y.given = x.given /\ y.maps = x.maps /\ y.batch = x.batch /\ y.out = x.out
      /\ y.scan = x.scan /\ y.scanFile = x.scanFile /\ y.ahead = x.ahead
  BY <1>2, <1>5 DEF ReaderRec
<1>8. Done(y) /\ ~Scanning(y) /\ ~Moving(y) /\ Cur(y) = Cur(x) /\ Cur(x) = x.at
  <2>1. y.pc = "store_region" /\ y.tell.reg = 0
    BY <1>4, <1>6
  <2>2. Done(y) /\ ~Moving(y)
    BY <2>1 DEF Done, Moving
  <2> QED
    BY <1>2, <1>7, <2>2 DEF Scanning, Cur
<1>9. PlaceOK(y, m, w)
  BY <1>2, <1>4, <1>6, <1>7, <1>8 DEF PlaceOK
<1>10. MapsOK(y, m, w)
  BY <1>1, <1>7, <1>8 DEF ReaderOK, MapsOK, FilesOK
<1>11. GivenOK(y, m, w)
  BY <1>1, <1>7, <1>8 DEF ReaderOK, GivenOK, LentOK, OwnedOK
<1>12. KeptOK(y, m)
  <2>1. Mapped(y) = Mapped(x)
    BY <1>7 DEF Mapped
  <2>2. Unmap = "AtFileRoll" => UpTo(x.at, m, Mapped(x))
    BY DEF ReaderOK, KeptOK
  <2>3. y.held \cup Mapped(y) = Mapped(x)
    BY <1>6, <2>1
  <2> QED
    BY <1>6, <1>7, <1>8, <2>2, <2>3 DEF KeptOK
<1> QED
  BY <1>6, <1>7, <1>8, <1>9, <1>10, <1>11, <1>12 DEF ReaderOK, Follows

\* The first of MapAhead::moved's two stores.
LEMMA StoreRegionOK ==
  ASSUME NEW m, NEW w, NEW x, ReaderOK(x, m, w), x.pc = "store_region",
         NEW y, y = [x EXCEPT !.pc = "store_sequence"]
  PROVE  ReaderOK(y, m, w) /\ Follows(x, y)
<1>1. x \in ReaderRec
  BY DEF ReaderOK
<1>2. /\ y \in ReaderRec /\ y.pc = "store_sequence" /\ y.call = x.call /\ y.at = x.at
      /\ y.file = x.file /\ y.position = x.position /\ y.given = x.given /\ y.maps = x.maps
      /\ y.held = x.held /\ y.batch = x.batch /\ y.out = x.out /\ y.scan = x.scan
      /\ y.scanFile = x.scanFile /\ y.scanPosition = x.scanPosition /\ y.crossed = x.crossed
      /\ y.ahead = x.ahead /\ y.tell = x.tell
  BY <1>1 DEF ReaderRec
<1>3. /\ Cur(y) = Cur(x) /\ (Moving(y) <=> Moving(x)) /\ (Done(y) <=> Done(x))
      /\ (Scanning(y) <=> Scanning(x))
  BY <1>2 DEF Cur, Moving, Done, Scanning
<1>4. PlaceOK(y, m, w)
  BY <1>2, <1>3 DEF ReaderOK, PlaceOK
<1>5. MapsOK(y, m, w)
  BY <1>2, <1>3 DEF ReaderOK, MapsOK, FilesOK
<1>6. GivenOK(y, m, w)
  BY <1>2, <1>3 DEF ReaderOK, GivenOK, LentOK, OwnedOK
<1>7. KeptOK(y, m)
  <2>1. Mapped(y) = Mapped(x)
    BY <1>2 DEF Mapped
  <2> QED
    BY <1>2, <1>3, <2>1 DEF ReaderOK, KeptOK
<1> QED
  BY <1>2, <1>3, <1>4, <1>5, <1>6, <1>7 DEF ReaderOK, Follows

\* After a roll a single read goes on.
LEMMA ToldRollOK ==
  ASSUME NEW m, NEW w, NEW x, ReaderOK(x, m, w), x.pc = "store_sequence", x.tell.reg = 0,
         x.call # "batch", NEW y, y = [x EXCEPT !.pc = "scan", !.tell = Nothing]
  PROVE  ReaderOK(y, m, w) /\ Follows(x, y)
<1>1. x \in ReaderRec /\ x.call # ""
  BY DEF ReaderOK, PlaceOK
<1>2. /\ y \in ReaderRec /\ y.pc = "scan" /\ y.call = x.call /\ y.at = x.at
      /\ y.file = x.file /\ y.position = x.position /\ y.given = x.given /\ y.maps = x.maps
      /\ y.held = x.held /\ y.batch = x.batch /\ y.out = x.out /\ y.scan = x.scan
      /\ y.scanFile = x.scanFile /\ y.ahead = x.ahead
  BY <1>1 DEF ReaderRec
<1>3. Cur(y) = Cur(x) /\ ~Moving(y) /\ ~Moving(x) /\ ~Scanning(x) /\ ~Scanning(y)
  BY <1>2 DEF Cur, Moving, Scanning
<1>4. PlaceOK(y, m, w)
  BY <1>1, <1>2, <1>3 DEF ReaderOK, PlaceOK
<1>5. MapsOK(y, m, w)
  BY <1>2, <1>3 DEF ReaderOK, MapsOK, FilesOK
<1>6. GivenOK(y, m, w)
  BY <1>2, <1>3 DEF ReaderOK, GivenOK, LentOK, OwnedOK
<1>7. KeptOK(y, m)
  <2>1. Mapped(y) = Mapped(x)
    BY <1>2 DEF Mapped
  <2> QED
    BY <1>2, <1>3, <2>1 DEF ReaderOK, KeptOK
<1> QED
  BY <1>2, <1>3, <1>4, <1>5, <1>6, <1>7 DEF ReaderOK, Follows

\* After a region it is in the next one: a batch ...
LEMMA ToldBatchOK ==
  ASSUME NEW m, NEW w, NEW x, ReaderOK(x, m, w), x.pc = "store_sequence", x.tell.reg # 0,
         x.call = "batch"
  PROVE  \A y : y = [[x EXCEPT !.pc = "scan", !.tell = Nothing] EXCEPT !.scan = After(@)]
                  => ReaderOK(y, m, w) /\ Follows(x, y)
<1>1. x \in ReaderRec /\ x.tell # Nothing
  BY DEF ReaderOK, PlaceOK
<1>2. x.tell.reg \in Nat
  BY <1>1, ReaderTypes
<1>3. Moving(x) /\ ~Done(x) /\ Scanning(x) /\ Cur(x) = x.scan
  BY <1>2 DEF Moving, Done, Scanning, Cur
<1>4. /\ Valid(x.at) /\ x.at.seq <= w /\ x.file = m[x.at.seq]
      /\ Valid(x.scan) /\ x.scan.seq <= w /\ x.scanFile = m[x.scan.seq]
      /\ x.position = Index(x.at) /\ x.given = x.position /\ Kind(x.scan) = "Skip"
      /\ x.scanPosition = Index(x.scan) /\ x.scanPosition = x.position + Len(x.batch)
      /\ ~x.crossed => x.scan.seq = x.at.seq
  BY <1>3 DEF ReaderOK, PlaceOK
<1>5. PICK p : p = After(x.scan)
  OBVIOUS
<1>6. /\ Valid(p) /\ p \in Position /\ p.seq = x.scan.seq /\ p.reg = x.scan.reg + 1
      /\ Index(p) = Index(x.scan)
  BY <1>4, <1>5, AfterSkip
<1>7. PICK k : k = Region(x.scan.seq, x.scan.reg + 1, m[x.scan.seq])
  OBVIOUS
<1>8. /\ FilesOK(x, m, w) /\ Last(x.maps) = k /\ k = RegionOf(p, m) /\ x.maps[1] = RegionOf(x.at, m)
      /\ k \in Mapped(x)
  <2>1. FilesOK(x, m, w) /\ Last(x.maps) = k /\ x.maps[1] = RegionOf(x.at, m) /\ x.maps # <<>>
    BY <1>3, <1>7 DEF ReaderOK, MapsOK, FilesOK
  <2>2. Last(x.maps) \in Mapped(x)
    <3>1. x.maps \in Seq(RegionRec)
      BY <1>1, ReaderTypes
    <3> QED
      BY <2>1, <3>1, EmptySeq DEF Last, Mapped
  <2> QED
    BY <1>6, <1>7, <2>1, <2>2 DEF RegionOf
<1> TAKE y
<1> HAVE y = [[x EXCEPT !.pc = "scan", !.tell = Nothing] EXCEPT !.scan = After(@)]
<1>9. y = [x EXCEPT !.pc = "scan", !.tell = Nothing, !.scan = p]
  BY <1>1, <1>5 DEF ReaderRec
<1>10. y \in ReaderRec /\ y.pc = "scan" /\ y.scan = p
  BY <1>1, <1>6, <1>9 DEF ReaderRec
<1>11. /\ y.call = x.call /\ y.at = x.at /\ y.file = x.file /\ y.position = x.position
       /\ y.given = x.given /\ y.maps = x.maps /\ y.held = x.held /\ y.batch = x.batch
       /\ y.out = x.out /\ y.scanFile = x.scanFile /\ y.scanPosition = x.scanPosition
       /\ y.crossed = x.crossed /\ y.ahead = x.ahead
  BY <1>1, <1>9 DEF ReaderRec
<1>12. ~Moving(y) /\ ~Done(y) /\ Scanning(y) /\ Cur(y) = p
  BY <1>10, <1>11 DEF Moving, Done, Scanning, Cur
<1>13. PlaceOK(y, m, w)
  <2>1. /\ Valid(y.scan) /\ y.scan.seq <= w /\ y.scanFile = m[y.scan.seq]
        /\ y.scanPosition = Index(y.scan) /\ y.scanPosition = y.position + Len(y.batch)
        /\ y.call = "batch"
    BY <1>4, <1>6, <1>10, <1>11
  <2>2. ~y.crossed => y.scan.seq = y.at.seq
    BY <1>4, <1>6, <1>10, <1>11
  <2> QED
    BY <1>4, <1>10, <1>11, <1>12, <2>1, <2>2 DEF PlaceOK
<1>14. MapsOK(y, m, w)
  BY <1>8, <1>11, <1>12 DEF MapsOK, FilesOK
<1>15. GivenOK(y, m, w)
  BY <1>3, <1>11, <1>12 DEF ReaderOK, GivenOK, LentOK, OwnedOK
<1>16. KeptOK(y, m)
  <2>1. Mapped(y) = Mapped(x)
    BY <1>11 DEF Mapped
  <2>2. ASSUME NEW S, UpTo(x.scan, m, S), k \in S PROVE UpTo(p, m, S)
    <3> SUFFICES ASSUME NEW i \in 0..p.reg PROVE Region(p.seq, i, m[p.seq]) \in S
      BY DEF UpTo
    <3>1. x.scan.reg \in Nat
      BY <1>4, ValidFacts
    <3>2. CASE i = x.scan.reg + 1
      BY <1>6, <1>7, <2>2, <3>2
    <3>3. CASE i \in 0..x.scan.reg
      BY <1>6, <2>2, <3>3 DEF UpTo
    <3> QED
      BY <1>6, <3>1, <3>2, <3>3
  <2>3. (Unmap = "AtFileRoll" /\ ~x.crossed) => UpTo(p, m, x.held \cup Mapped(x))
    BY <1>3, <1>8, <2>2 DEF ReaderOK, KeptOK
  <2>4. (Unmap = "AtFileRoll" /\ x.crossed) => UpTo(p, m, Mapped(x))
    BY <1>3, <1>8, <2>2 DEF ReaderOK, KeptOK
  <2>5. Unmap = "AtFileRoll" => UpTo(x.at, m, x.held \cup {x.maps[1]})
    BY <1>3 DEF ReaderOK, KeptOK
  <2>6. \A j \in x.held : j.seq = x.at.seq
    BY DEF ReaderOK, KeptOK
  <2> QED
    BY <1>10, <1>11, <1>12, <2>1, <2>3, <2>4, <2>5, <2>6 DEF KeptOK
<1>17. ReaderOK(y, m, w)
  BY <1>10, <1>13, <1>14, <1>15, <1>16 DEF ReaderOK
<1>18. Follows(x, y)
  BY <1>3, <1>6, <1>11, <1>12 DEF Follows
<1> QED
  BY <1>17, <1>18

\* ... or a single read, which lets go of the region it leaves.
LEMMA ToldSingleOK ==
  ASSUME NEW m, NEW w, NEW x, ReaderOK(x, m, w), x.pc = "store_sequence", x.tell.reg # 0,
         x.call # "batch"
  PROVE  \A y : y = RetireAllButLast([[x EXCEPT !.pc = "scan", !.tell = Nothing]
                                        EXCEPT !.at = After(@)])
                  => ReaderOK(y, m, w) /\ Follows(x, y)
<1>1. x \in ReaderRec /\ x.tell # Nothing /\ x.call = "single"
  <2>1. x \in ReaderRec /\ x.tell # Nothing /\ x.call # ""
    BY DEF ReaderOK, PlaceOK
  <2> QED
    BY <2>1, ReaderTypes
<1>2. x.tell.reg \in Nat
  BY <1>1, ReaderTypes
<1>3. Moving(x) /\ ~Done(x) /\ ~Scanning(x) /\ Cur(x) = x.at
  BY <1>2 DEF Moving, Done, Scanning, Cur
<1>4. /\ Valid(x.at) /\ x.at.seq <= w /\ x.file = m[x.at.seq]
      /\ Valid(x.scan) /\ x.scan.seq <= w /\ x.scanFile = m[x.scan.seq]
      /\ x.position = Index(x.at) /\ x.given = x.position /\ Kind(x.at) = "Skip"
  BY <1>3 DEF ReaderOK, PlaceOK
<1>5. PICK p : p = After(x.at)
  OBVIOUS
<1>6. /\ Valid(p) /\ p \in Position /\ p.seq = x.at.seq /\ p.reg = x.at.reg + 1
      /\ Index(p) = Index(x.at)
  BY <1>4, <1>5, AfterSkip
<1>7. PICK k : k = Region(x.at.seq, x.at.reg + 1, m[x.at.seq])
  OBVIOUS
<1>8. FilesOK(x, m, w) /\ x.maps # <<>> /\ Last(x.maps) = k /\ k = RegionOf(p, m) /\ k \in Mapped(x)
  <2>1. FilesOK(x, m, w) /\ Last(x.maps) = k /\ x.maps # <<>>
    BY <1>3, <1>7 DEF ReaderOK, MapsOK, FilesOK
  <2>2. Last(x.maps) \in Mapped(x)
    <3>1. x.maps \in Seq(RegionRec)
      BY <1>1, ReaderTypes
    <3> QED
      BY <2>1, <3>1, EmptySeq DEF Last, Mapped
  <2> QED
    BY <1>6, <1>7, <2>1, <2>2 DEF RegionOf
<1>9. PICK z : z = [x EXCEPT !.pc = "scan", !.tell = Nothing, !.at = p]
  OBVIOUS
<1>10. z \in ReaderRec /\ z.pc = "scan" /\ z.at = p
  BY <1>1, <1>6, <1>9 DEF ReaderRec
<1>11. /\ z.call = x.call /\ z.file = x.file /\ z.position = x.position
       /\ z.given = x.given /\ z.maps = x.maps /\ z.held = x.held /\ z.batch = x.batch
       /\ z.out = x.out /\ z.scan = x.scan /\ z.scanFile = x.scanFile /\ z.ahead = x.ahead
  BY <1>1, <1>9 DEF ReaderRec
<1>12. FilesOK(z, m, w) /\ Mapped(z) = Mapped(x)
  BY <1>8, <1>11 DEF FilesOK, Mapped
<1>13. \A j \in z.held : j.seq = z.at.seq
  BY <1>6, <1>10, <1>11 DEF ReaderOK, KeptOK
<1>14. Unmap = "AtFileRoll" => UpTo(z.at, m, z.held \cup Mapped(z))
  <2> SUFFICES ASSUME Unmap = "AtFileRoll", NEW i \in 0..p.reg
               PROVE  Region(p.seq, i, m[p.seq]) \in x.held \cup Mapped(x)
    BY <1>10, <1>11, <1>12 DEF UpTo
  <2>1. x.at.reg \in Nat
    BY <1>4, ValidFacts
  <2>2. CASE i = x.at.reg + 1
    BY <1>6, <1>7, <1>8, <2>2
  <2>3. CASE i \in 0..x.at.reg
    <3>1. UpTo(x.at, m, x.held \cup Mapped(x))
      BY <1>3 DEF ReaderOK, KeptOK
    <3> QED
      BY <1>6, <2>3, <3>1 DEF UpTo
  <2> QED
    BY <1>6, <2>1, <2>2, <2>3
<1>15. Settled(z, m, w)
  <2>1. x.batch = <<>> /\ OwnedOK(x, m, w)
    BY <1>1 DEF ReaderOK, GivenOK
  <2>2. z.batch = <<>>
    BY <1>11, <2>1
  <2>3. OwnedOK(z, m, w)
    BY <1>11, <2>1 DEF OwnedOK
  <2>4. ASSUME NEW e PROVE LentOK(z, m, e)
    BY <2>2 DEF LentOK
  <2>5. /\ Valid(z.at) /\ z.at.seq <= w /\ z.file = m[z.at.seq]
        /\ z.position = Index(z.at) /\ z.given = z.position /\ Last(z.maps) = RegionOf(z.at, m)
    BY <1>4, <1>6, <1>8, <1>10, <1>11
  <2> QED
    BY <1>10, <1>12, <1>13, <1>14, <2>2, <2>3, <2>4, <2>5 DEF Settled
<1> TAKE y
<1> HAVE y = RetireAllButLast([[x EXCEPT !.pc = "scan", !.tell = Nothing] EXCEPT !.at = After(@)])
<1>16. y = RetireAllButLast(z)
  <2>1. z = [[x EXCEPT !.pc = "scan", !.tell = Nothing] EXCEPT !.at = After(@)]
    BY <1>1, <1>5, <1>9 DEF ReaderRec
  <2> QED
    BY <2>1
<1>17. z.batch = <<>>
  BY <1>1, <1>11 DEF ReaderOK, GivenOK
<1>18. Settled(y, m, w)
  BY <1>15, <1>16, <1>17, RetireSettled
<1>19. /\ y.pc = "scan" /\ y.call = "single" /\ y.at = p /\ y.scan = x.scan
       /\ y.scanFile = x.scanFile /\ y.ahead = x.ahead /\ y.batch = <<>>
  BY <1>1, <1>8, <1>10, <1>11, <1>16, <1>17, RetireFacts
<1>20. ~Scanning(y) /\ ~Moving(y) /\ ~Done(y) /\ Cur(y) = y.at
  BY <1>19 DEF Scanning, Moving, Done, Cur
<1>21. PlaceOK(y, m, w)
  BY <1>4, <1>18, <1>19, <1>20 DEF Settled, PlaceOK
<1>22. MapsOK(y, m, w)
  BY <1>18, <1>20 DEF Settled, MapsOK
<1>23. GivenOK(y, m, w)
  BY <1>18, <1>19, <1>20 DEF Settled, GivenOK
<1>24. KeptOK(y, m)
  BY <1>18, <1>19, <1>20 DEF Settled, KeptOK
<1>25. ReaderOK(y, m, w)
  BY <1>18, <1>21, <1>22, <1>23, <1>24 DEF Settled, ReaderOK
<1>26. Follows(x, y)
  BY <1>3, <1>6, <1>19, <1>20 DEF Follows
<1> QED
  BY <1>25, <1>26

-----------------------------------------------------------------------------
(* The helper *)

\* What the helper has does not change with the writer's progress ...
LEMMA SharedFrame ==
  ASSUME NEW m, NEW w \in Nat, NEW y, NEW z, SharedOK(y, z, m, w), NEW n, NEW v \in Nat, w <= v,
         \A s \in Seqs : s <= w => n[s] = m[s]
  PROVE  SharedOK(y, z, n, v)
<1>1. y \in HelperRec /\ z \in SharedRec
  BY DEF SharedOK
<1>2. ASSUME NEW f, FileOK(f, m, w), f = Nothing \/ f.seq \in Seqs PROVE FileOK(f, n, v)
  <2>1. CASE f = Nothing
    BY <2>1 DEF FileOK
  <2>2. CASE f # Nothing
    <3>1. f.seq \in Seqs /\ f.seq \in Nat /\ f.seq <= w /\ f.file = m[f.seq]
      BY <1>2, <2>2 DEF FileOK, Seqs
    <3>2. f.seq <= v /\ n[f.seq] = m[f.seq]
      BY <3>1
    <3> QED
      BY <3>1, <3>2 DEF FileOK
  <2> QED
    BY <2>1, <2>2
<1>3. /\ z.ready = Nothing \/ z.ready.seq \in Seqs
      /\ z.rolled = Nothing \/ z.rolled.seq \in Seqs
      /\ y.segment = Nothing \/ y.segment.seq \in Seqs
  BY <1>1 DEF HelperRec, SharedRec, RegionRec, FileRec
<1>4. FileOK(z.ready, n, v) /\ FileOK(y.segment, n, v)
  BY <1>2, <1>3 DEF SharedOK
<1>5. ASSUME z.rolled # Nothing
      PROVE  /\ z.rolled.seq <= v
             /\ IF z.rolled.file = NoFile THEN Confirmed(y, z.rolled.seq, n)
                ELSE z.rolled.file = n[z.rolled.seq]
  <2>1. z.rolled.seq \in Seqs /\ z.rolled.seq \in Nat /\ z.rolled.seq <= w
    BY <1>3, <1>5 DEF SharedOK, Seqs
  <2>2. z.rolled.seq <= v /\ n[z.rolled.seq] = m[z.rolled.seq]
    BY <2>1
  <2> QED
    BY <1>5, <2>2 DEF SharedOK, Confirmed
<1> QED
  BY <1>1, <1>4, <1>5 DEF SharedOK

\* ... and neither does what the reader holds it to.
LEMMA AheadFrame ==
  ASSUME NEW m, NEW w \in Nat, NEW x, ReaderOK(x, m, w), NEW y, AheadOK(x, y, m), NEW n,
         \A s \in Seqs : s <= w => n[s] = m[s]
  PROVE  AheadOK(x, y, n)
<1>1. Valid(Cur(x)) /\ Cur(x).seq <= w
  BY DEF ReaderOK, PlaceOK, Cur
<1>2. n[Cur(x).seq] = m[Cur(x).seq]
  BY <1>1, ValidFacts
<1> QED
  BY <1>2 DEF AheadOK, Confirmed

\* A helper whose reader has not moved.
LEMMA AheadKept ==
  ASSUME NEW m, NEW x, NEW y, NEW u, AheadOK(x, y, m), Follows(x, u)
  PROVE  AheadOK(u, y, m)
<1> QED
  BY DEF AheadOK, Follows

-----------------------------------------------------------------------------
(* The writers *)

\* Segments that are being read have been made, and stay what they are.
LEMMA WriterSteps ==
  ASSUME DiskOK, WriterStep
  PROVE  /\ DiskOK'
         /\ wpos.seq \in Nat /\ wpos'.seq \in Nat /\ wpos.seq <= wpos'.seq
         /\ \A s \in Seqs : s <= wpos.seq => made'[s] = made[s]
         /\ UNCHANGED <<r, shared, h>>
<1>1. /\ Valid(wpos) /\ made \in [Seqs -> Nat] /\ named \in [Seqs -> Nat]
      /\ \A s \in Seqs : /\ named[s] = NoFile \/ named[s] = made[s]
                         /\ s <= wpos.seq => made[s] # NoFile
  BY DEF DiskOK
<1>2. wpos.seq \in Nat /\ wpos.seq \in Seqs /\ Kind(wpos) \in {"User", "Skip", "Roll"}
  BY <1>1, ValidFacts
<1>3. CASE Commit
  <2>1. Kind(wpos) # "Roll" /\ wpos' = After(wpos) /\ UNCHANGED <<made, named, r, shared, h>>
    BY <1>3 DEF Commit
  <2>2. Valid(After(wpos)) /\ After(wpos).seq = wpos.seq
    BY <1>1, <1>2, <2>1, AfterUser, AfterSkip
  <2>3. Valid(wpos') /\ wpos'.seq = wpos.seq
    BY <2>1, <2>2
  <2>4. DiskOK'
    BY <1>1, <2>1, <2>3 DEF DiskOK
  <2> QED
    BY <1>2, <2>1, <2>3, <2>4
<1>4. CASE InstallSuccessor
  <2>1. PICK s : s = wpos.seq + 1
    OBVIOUS
  <2>2. /\ s <= MaxSeq /\ named[s] = NoFile /\ made' = [made EXCEPT ![s] = @ + 1]
        /\ named' = [named EXCEPT ![s] = made[s] + 1] /\ UNCHANGED <<wpos, r, shared, h>>
    BY <1>4, <2>1 DEF InstallSuccessor
  <2>3. s \in Seqs /\ made[s] + 1 \in Nat
    <3>1. s \in Seqs
      BY <1>2, <2>1, <2>2 DEF Seqs
    <3> QED
      BY <1>1, <3>1
  <2>4. made' \in [Seqs -> Nat] /\ named' \in [Seqs -> Nat]
    BY <1>1, <2>2, <2>3
  <2>5. /\ made'[s] = made[s] + 1 /\ named'[s] = made[s] + 1
        /\ \A t \in Seqs : t # s => made'[t] = made[t] /\ named'[t] = named[t]
    BY <1>1, <2>2, <2>3
  <2>6. \A t \in Seqs : t <= wpos.seq => t # s
    BY <1>2, <2>1 DEF Seqs
  <2>7. \A t \in Seqs : /\ named'[t] = NoFile \/ named'[t] = made'[t]
                        /\ t <= wpos.seq => made'[t] # NoFile
    BY <1>1, <2>5, <2>6
  <2>8. DiskOK'
    BY <1>1, <2>2, <2>4, <2>7 DEF DiskOK
  <2> QED
    BY <1>2, <2>2, <2>5, <2>6, <2>8
<1>5. CASE DiscardSuccessor
  <2>1. PICK s : s = wpos.seq + 1
    OBVIOUS
  <2>2. named' = [named EXCEPT ![s] = NoFile] /\ UNCHANGED <<wpos, made, r, shared, h>>
    BY <1>5, <2>1 DEF DiscardSuccessor
  <2>3. named' \in [Seqs -> Nat]
    BY <1>1, <2>2 DEF NoFile
  <2>4. \A t \in Seqs : named'[t] = NoFile \/ named'[t] = named[t]
    BY <1>1, <2>2
  <2>5. DiskOK'
    BY <1>1, <2>2, <2>3, <2>4 DEF DiskOK
  <2> QED
    BY <1>2, <2>2, <2>5
<1>6. CASE RollFile
  <2>1. PICK s : s = wpos.seq + 1
    OBVIOUS
  <2>2. /\ Kind(wpos) = "Roll" /\ wpos.seq < MaxSeq /\ named[s] # NoFile
        /\ wpos' = After(wpos) /\ UNCHANGED <<made, named, r, shared, h>>
    BY <1>6, <2>1 DEF RollFile
  <2>3. s \in Seqs
    BY <1>2, <2>1, <2>2, LayoutAssumption DEF Seqs
  <2>4. wpos' = Start(s)
    BY <1>1, <2>1, <2>2, <2>3, AfterRoll
  <2>5. Valid(wpos') /\ wpos'.seq = s
    BY <2>3, <2>4, ValidStart
  <2>6. \A t \in Seqs : t <= s => t <= wpos.seq \/ t = s
    BY <1>2, <2>1 DEF Seqs
  <2>7. made[s] # NoFile
    BY <1>1, <2>2, <2>3
  <2>8. \A t \in Seqs : t <= s => made[t] # NoFile
    BY <1>1, <2>6, <2>7
  <2>9. DiskOK'
    BY <1>1, <2>2, <2>5, <2>8 DEF DiskOK
  <2> QED
    BY <1>2, <2>1, <2>2, <2>5, <2>9
<1> QED
  BY <1>3, <1>4, <1>5, <1>6 DEF WriterStep

\* A writer's step is nothing to the reader and its helper.
LEMMA WriterInv ==
  ASSUME Inv, WriterStep
  PROVE  Inv'
<1>1. /\ DiskOK' /\ wpos.seq \in Nat /\ wpos'.seq \in Nat /\ wpos.seq <= wpos'.seq
      /\ \A s \in Seqs : s <= wpos.seq => made'[s] = made[s]
      /\ UNCHANGED <<r, shared, h>>
  BY WriterSteps DEF Inv
<1>2. ReaderOK(r, made, wpos.seq) /\ SharedOK(h, shared, made, wpos.seq) /\ AheadOK(r, h, made)
  BY DEF Inv
<1>3. ReaderOK(r, made', wpos'.seq)
  BY <1>1, <1>2, ReaderFrame
<1>4. SharedOK(h, shared, made', wpos'.seq)
  BY <1>1, <1>2, SharedFrame
<1>5. AheadOK(r, h, made')
  BY <1>1, <1>2, AheadFrame
<1>6. ReaderOK(r', made', wpos'.seq) /\ SharedOK(h', shared', made', wpos'.seq) /\ AheadOK(r', h', made')
  BY <1>1, <1>3, <1>4, <1>5
<1> QED
  BY <1>1, <1>6 DEF Inv

-----------------------------------------------------------------------------
(* The helper's steps *)

\* The types of the helper's fields and of what it shares.
LEMMA HelperTypes ==
  ASSUME NEW y \in HelperRec, NEW z \in SharedRec
  PROVE  /\ y.segment \in FileRec \cup {Nothing} /\ y.upcoming \in FileRec \cup {Nothing}
         /\ y.opened \in FileRec \cup {Nothing}
         /\ y.seq \in Seqs /\ y.reg \in Nat
         /\ z.wantSeq \in Seqs /\ z.wantReg \in Nat /\ z.rolled \in FileRec \cup {Nothing}
         /\ z.ready \in RegionRec \cup {Nothing} /\ z.next \in FileRec \cup {Nothing}
<1> QED
  BY DEF HelperRec, SharedRec

\* Nothing is of no segment.
LEMMA NothingFacts ==
  /\ Nothing.seq = -1 /\ \A s \in Seqs : s # Nothing.seq
  /\ \A f \in FileRec : f.seq \in Seqs /\ f.file \in Nat /\ f # Nothing
<1>1. Nothing.seq = -1
  BY DEF Nothing
<1>2. \A s \in Seqs : s # -1
  BY DEF Seqs
<1>3. \A f \in FileRec : f.seq \in Seqs /\ f.file \in Nat
  BY DEF FileRec
<1> QED
  BY <1>1, <1>2, <1>3

\* The next pass.
LEMMA AgainFacts ==
  ASSUME NEW y \in HelperRec, NEW u, u = Again(y)
  PROVE  /\ u \in HelperRec /\ u.pc = "top" /\ u.segment = y.segment /\ u.upcoming = y.upcoming
<1>1. 0 \in Seqs
  BY LayoutAssumption DEF Seqs
<1> QED
  BY <1>1 DEF Again, HelperRec

\* A helper that has nothing new: the next pass, or none.
LEMMA HelperSame ==
  ASSUME NEW m, NEW w, NEW y, NEW z, SharedOK(y, z, m, w), y.pc # "put", NEW u \in HelperRec,
         u.pc \notin {"put", "map"}, u.segment = y.segment, u.upcoming = y.upcoming
  PROVE  SharedOK(u, z, m, w)
<1> QED
  BY DEF SharedOK, Confirmed

\* Only the reader says which file a segment is.
LEMMA TakeRolledOK ==
  ASSUME NEW m, NEW w, NEW y, NEW z, SharedOK(y, z, m, w), y.pc = "top",
         NEW v, v = [z EXCEPT !.rolled = Nothing], NEW u \in HelperRec, u.pc = "load_sequence",
         u.upcoming = y.upcoming \/ u.upcoming = Nothing, FileOK(u.segment, m, w)
  PROVE  SharedOK(u, v, m, w)
<1>1. y \in HelperRec /\ z \in SharedRec
  BY DEF SharedOK
<1>2. /\ v \in SharedRec /\ v.rolled = Nothing /\ v.ready = z.ready /\ v.next = z.next
  BY <1>1 DEF SharedRec
<1>3. FileOK(v.ready, m, w)
  BY <1>2 DEF SharedOK
<1>4. v.next # Nothing => u.upcoming \in {Nothing, v.next}
  BY <1>2 DEF SharedOK
<1> QED
  BY <1>2, <1>3, <1>4 DEF SharedOK

\* The region after the reader's is mapped, of the file of the segment it is in.
LEMMA MapAheadOK ==
  ASSUME NEW m, NEW w, NEW y, NEW z, SharedOK(y, z, m, w), y.pc = "map",
         NEW v, v = [z EXCEPT !.ready = Region(y.seq, y.reg, y.segment.file)],
         NEW u, u = Again([y EXCEPT !.done = [seq |-> y.seq, reg |-> y.reg]])
  PROVE  SharedOK(u, v, m, w) /\ u.upcoming = y.upcoming
<1>1. y \in HelperRec /\ z \in SharedRec /\ y.segment.seq = y.seq /\ FileOK(y.segment, m, w)
  BY DEF SharedOK
<1>2. y.segment \in FileRec \cup {Nothing} /\ y.seq \in Seqs /\ y.reg \in Nat
  BY <1>1, HelperTypes
<1>3. y.segment \in FileRec /\ y.segment # Nothing
  BY <1>1, <1>2, NothingFacts
<1>4. y.segment.file \in Nat /\ y.seq <= w /\ y.segment.file = m[y.seq]
  BY <1>1, <1>3, NothingFacts DEF FileOK
<1>5. PICK k : k = Region(y.seq, y.reg, y.segment.file)
  OBVIOUS
<1>6. k \in RegionRec /\ k.seq <= w /\ k.file = m[k.seq]
  BY <1>2, <1>4, <1>5, RegionFacts
<1>7. v \in SharedRec /\ v.ready = k /\ v.rolled = z.rolled /\ v.next = z.next
  <2>1. v = [z EXCEPT !.ready = k]
    BY <1>5
  <2> QED
    BY <1>1, <1>6, <2>1 DEF SharedRec
<1>8. PICK d \in [seq : Seqs, reg : Nat] : d = [seq |-> y.seq, reg |-> y.reg]
  BY <1>2
<1>9. PICK e : e = [y EXCEPT !.done = d]
  OBVIOUS
<1>10. e \in HelperRec /\ e.segment = y.segment /\ e.upcoming = y.upcoming
  BY <1>1, <1>8, <1>9 DEF HelperRec
<1>11. u = Again(e)
  BY <1>8, <1>9
<1>12. u \in HelperRec /\ u.pc = "top" /\ u.segment = y.segment /\ u.upcoming = y.upcoming
  BY <1>10, <1>11, AgainFacts
<1>13. FileOK(v.ready, m, w)
  BY <1>6, <1>7 DEF FileOK
<1> QED
  BY <1>7, <1>12, <1>13 DEF SharedOK, Confirmed

\* Whatever is under the name of the next segment is opened.  If that segment has been published it
\* is what the Roll names.
LEMMA OpenNextOK ==
  ASSUME NEW m \in [Seqs -> Nat], NEW w, NEW y, NEW z, SharedOK(y, z, m, w), y.pc = "map",
         y.seq # MaxSeq, NEW n, n = y.seq + 1, z.next.seq # n,
         NEW c, c \in {Nothing, [seq |-> n, file |-> m[n]]},
         NEW u, u = [y EXCEPT !.pc = "put", !.opened = [seq |-> n, file |-> m[n]], !.upcoming = c]
  PROVE  /\ SharedOK(u, z, m, w)
         /\ \A s \in Seqs : Confirmed(u, s, m)
<1>1. y \in HelperRec /\ z \in SharedRec
  BY DEF SharedOK
<1>2. n \in Seqs
  <2>1. y.seq \in Seqs
    BY <1>1, HelperTypes
  <2> QED
    BY <2>1, LayoutAssumption DEF Seqs
<1>3. PICK f : f = [seq |-> n, file |-> m[n]]
  OBVIOUS
<1>4. f \in FileRec /\ f.seq = n /\ f.file = m[n]
  BY <1>2, <1>3 DEF FileRec
<1>5. f # Nothing /\ c \in FileRec \cup {Nothing} /\ c \in {Nothing, f}
  BY <1>3, <1>4, NothingFacts
<1>6. u = [y EXCEPT !.pc = "put", !.opened = f, !.upcoming = c]
  BY <1>3
<1>7. /\ u \in HelperRec /\ u.pc = "put" /\ u.opened = f /\ u.upcoming = c /\ u.segment = y.segment
  BY <1>1, <1>4, <1>5, <1>6 DEF HelperRec
<1>8. \A s \in Seqs : Confirmed(u, s, m)
  BY <1>4, <1>5, <1>7, NothingFacts DEF Confirmed
<1>9. z.rolled # Nothing => z.rolled.seq \in Seqs
  BY <1>1, HelperTypes, NothingFacts
<1>10. FileOK(z.ready, m, w) /\ FileOK(u.segment, m, w)
  BY <1>7 DEF SharedOK
<1>11. ASSUME z.rolled # Nothing
       PROVE  /\ z.rolled.seq <= w
              /\ IF z.rolled.file = NoFile THEN Confirmed(u, z.rolled.seq, m)
                 ELSE z.rolled.file = m[z.rolled.seq]
  BY <1>8, <1>9, <1>11 DEF SharedOK
<1>12. u.opened # Nothing /\ u.opened.seq # z.next.seq /\ u.upcoming \in {Nothing, u.opened}
  BY <1>4, <1>5, <1>7
<1>13. SharedOK(u, z, m, w)
  BY <1>1, <1>7, <1>10, <1>11, <1>12 DEF SharedOK
<1> QED
  BY <1>8, <1>13

\* It is left for the reader.
LEMMA PutNextOK ==
  ASSUME NEW m, NEW w, NEW y, NEW z, SharedOK(y, z, m, w), y.pc = "put",
         NEW v, v = [z EXCEPT !.next = y.opened], NEW u, u = Again(y)
  PROVE  SharedOK(u, v, m, w) /\ u.upcoming = y.upcoming
<1>1. /\ y \in HelperRec /\ z \in SharedRec /\ y.opened # Nothing
      /\ y.upcoming \in {Nothing, y.opened}
  BY DEF SharedOK
<1>2. u \in HelperRec /\ u.pc = "top" /\ u.segment = y.segment /\ u.upcoming = y.upcoming
  BY <1>1, AgainFacts
<1>3. v \in SharedRec /\ v.next = y.opened /\ v.rolled = z.rolled /\ v.ready = z.ready
  <2>1. y.opened \in FileRec \cup {Nothing}
    BY <1>1, HelperTypes
  <2> QED
    BY <1>1, <2>1 DEF SharedRec
<1> QED
  BY <1>1, <1>2, <1>3 DEF SharedOK, Confirmed

\* The helper's steps keep the invariant.
LEMMA HelperInv ==
  ASSUME Inv, HelperStep
  PROVE  Inv'
<1>1. /\ DiskOK /\ ReaderOK(r, made, wpos.seq) /\ SharedOK(h, shared, made, wpos.seq)
      /\ AheadOK(r, h, made)
  BY DEF Inv
<1>2. UNCHANGED <<disk, r>>
  BY DEF HelperStep, TakeRolled, LoadSequence, LoadRegion, MapAhead, OpenNext, PutNext, HelperFails
<1>3. /\ wpos' = wpos /\ made' = made /\ named' = named /\ r' = r
  BY <1>2 DEF disk
<1>4. Cur(r).seq \in Seqs
  <2>1. Valid(Cur(r))
    BY <1>1 DEF ReaderOK, PlaceOK, Cur
  <2> QED
    BY <2>1, ValidFacts
<1>5. SUFFICES /\ SharedOK(h', shared', made, wpos.seq)
               /\ \/ h'.upcoming = h.upcoming
                  \/ h'.upcoming = Nothing
                  \/ \A s \in Seqs : Confirmed(h', s, made)
  <2>1. AheadOK(r, h', made)
    BY <1>1, <1>4, <1>5, NothingFacts DEF AheadOK, Confirmed
  <2>2. DiskOK'
    BY <1>1, <1>3 DEF DiskOK
  <2>3. /\ ReaderOK(r', made', wpos'.seq) /\ SharedOK(h', shared', made', wpos'.seq)
        /\ AheadOK(r', h', made')
    BY <1>1, <1>3, <1>5, <2>1
  <2> QED
    BY <2>2, <2>3 DEF Inv
<1>6. h \in HelperRec /\ shared \in SharedRec /\ made \in [Seqs -> Nat]
  BY <1>1 DEF SharedOK, DiskOK
<1>7. CASE TakeRolled
  <2>1. h.pc = "top" /\ shared' = [shared EXCEPT !.rolled = Nothing]
    BY <1>7 DEF TakeRolled
  <2>2. PICK g \in FileRec \cup {Nothing}, c \in FileRec \cup {Nothing} :
          /\ h' = [h EXCEPT !.pc = "load_sequence", !.upcoming = c, !.segment = g]
          /\ c = h.upcoming \/ c = Nothing
          /\ FileOK(g, made, wpos.seq)
    <3>1. /\ h.upcoming \in FileRec \cup {Nothing} /\ shared.rolled \in FileRec \cup {Nothing}
          /\ h.segment \in FileRec \cup {Nothing}
      BY <1>6, HelperTypes
    <3>2. CASE shared.rolled = Nothing
      <4>1. h' = [h EXCEPT !.pc = "load_sequence"]
        BY <1>7, <3>2 DEF TakeRolled
      <4>2. h' = [h EXCEPT !.pc = "load_sequence", !.upcoming = h.upcoming, !.segment = h.segment]
        BY <1>6, <4>1 DEF HelperRec
      <4>3. FileOK(h.segment, made, wpos.seq)
        BY <1>1 DEF SharedOK
      <4> QED
        BY <3>1, <4>2, <4>3
    <3>3. CASE shared.rolled # Nothing /\ shared.rolled.file # NoFile
      <4>1. h' = [h EXCEPT !.pc = "load_sequence", !.segment = shared.rolled]
        BY <1>7, <3>3 DEF TakeRolled
      <4>2. h' = [h EXCEPT !.pc = "load_sequence", !.upcoming = h.upcoming, !.segment = shared.rolled]
        BY <1>6, <4>1 DEF HelperRec
      <4>3. FileOK(shared.rolled, made, wpos.seq)
        BY <1>1, <3>3 DEF SharedOK, FileOK
      <4> QED
        BY <3>1, <4>2, <4>3
    <3>4. CASE shared.rolled # Nothing /\ shared.rolled.file = NoFile
      <4>1. PICK k : k = IF h.upcoming.seq = shared.rolled.seq THEN h.upcoming ELSE Nothing
        OBVIOUS
      <4>2. h' = [h EXCEPT !.pc = "load_sequence", !.upcoming = Nothing, !.segment = k]
        BY <1>7, <3>4, <4>1 DEF TakeRolled
      <4>3. FileOK(k, made, wpos.seq)
        BY <1>1, <3>4, <4>1 DEF SharedOK, FileOK, Confirmed
      <4>4. k \in FileRec \cup {Nothing}
        BY <3>1, <4>1
      <4> QED
        BY <4>2, <4>3, <4>4
    <3> QED
      BY <3>2, <3>3, <3>4
  <2>3. h' \in HelperRec /\ h'.pc = "load_sequence" /\ h'.upcoming = c /\ h'.segment = g
    BY <1>6, <2>2 DEF HelperRec
  <2>4. SharedOK(h', shared', made, wpos.seq)
    BY <1>1, <2>1, <2>2, <2>3, TakeRolledOK
  <2> QED
    BY <2>2, <2>3, <2>4
<1>8. CASE LoadSequence
  <2>1. h.pc = "load_sequence" /\ h' = [h EXCEPT !.pc = "load_region", !.seq = shared.wantSeq] /\ shared' = shared
    BY <1>8 DEF LoadSequence
  <2>2. h' \in HelperRec /\ h'.pc = "load_region" /\ h'.segment = h.segment /\ h'.upcoming = h.upcoming
    <3>1. shared.wantSeq \in Seqs
      BY <1>6, HelperTypes
    <3> QED
      BY <1>6, <2>1, <3>1 DEF HelperRec
  <2> QED
    BY <1>1, <2>1, <2>2, HelperSame
<1>9. CASE LoadRegion
  <2>1. h.pc = "load_region" /\ shared' = shared
    BY <1>9 DEF LoadRegion
  <2>2. CASE h.segment.seq = h.seq
    <3>1. h' = [h EXCEPT !.pc = "map", !.reg = shared.wantReg]
      BY <1>9, <2>2 DEF LoadRegion
    <3>2. /\ h' \in HelperRec /\ h'.pc = "map" /\ h'.segment = h.segment /\ h'.upcoming = h.upcoming
          /\ h'.seq = h.seq
      <4>1. shared.wantReg \in Nat
        BY <1>6, HelperTypes
      <4> QED
        BY <1>6, <3>1, <4>1 DEF HelperRec
    <3>3. SharedOK(h', shared, made, wpos.seq)
      BY <1>1, <2>1, <2>2, <3>2 DEF SharedOK, Confirmed
    <3> QED
      BY <2>1, <3>2, <3>3
  <2>3. CASE h.segment.seq # h.seq
    <3>1. h' = Again(h)
      BY <1>9, <2>3 DEF LoadRegion
    <3>2. h' \in HelperRec /\ h'.pc = "top" /\ h'.segment = h.segment /\ h'.upcoming = h.upcoming
      BY <1>6, <3>1, AgainFacts
    <3> QED
      BY <1>1, <2>1, <3>2, HelperSame
  <2> QED
    BY <2>2, <2>3
<1>10. CASE MapAhead
  <2>1. h.pc = "map"
    BY <1>10 DEF MapAhead
  <2>2. CASE shared' = shared /\ h' = Again(h)
    <3>1. h' \in HelperRec /\ h'.pc = "top" /\ h'.segment = h.segment /\ h'.upcoming = h.upcoming
      BY <1>6, <2>2, AgainFacts
    <3> QED
      BY <1>1, <2>1, <2>2, <3>1, HelperSame
  <2>3. CASE /\ shared' = [shared EXCEPT !.ready = Region(h.seq, h.reg, h.segment.file)]
             /\ h' = Again([h EXCEPT !.done = [seq |-> h.seq, reg |-> h.reg]])
    BY <1>1, <2>1, <2>3, MapAheadOK
  <2> QED
    BY <1>10, <2>2, <2>3 DEF MapAhead
<1>11. CASE OpenNext
  <2>1. h.pc = "map" /\ shared' = shared
    BY <1>11 DEF OpenNext
  <2>2. CASE h' = Again(h)
    <3>1. h' \in HelperRec /\ h'.pc = "top" /\ h'.segment = h.segment /\ h'.upcoming = h.upcoming
      BY <1>6, <2>2, AgainFacts
    <3> QED
      BY <1>1, <2>1, <3>1, HelperSame
  <2>3. CASE ~(shared.next.seq = h.seq + 1 \/ h.seq = MaxSeq \/ named[h.seq + 1] = NoFile)
    <3>1. PICK n : n = h.seq + 1
      OBVIOUS
    <3>2. n \in Seqs
      <4>1. h.seq \in Seqs
        BY <1>6, HelperTypes
      <4> QED
        BY <2>3, <3>1, <4>1, LayoutAssumption DEF Seqs
    <3>3. named[n] = made[n]
      BY <1>1, <2>3, <3>1, <3>2 DEF DiskOK
    <3>4. PICK c : /\ c \in {Nothing, [seq |-> n, file |-> made[n]]}
                   /\ h' = [h EXCEPT !.pc = "put", !.opened = [seq |-> n, file |-> made[n]], !.upcoming = c]
      BY <1>11, <2>3, <3>1, <3>3 DEF OpenNext
    <3>5. h.seq # MaxSeq /\ shared.next.seq # n
      BY <2>3, <3>1
    <3>6. /\ SharedOK(h', shared, made, wpos.seq)
          /\ \A s \in Seqs : Confirmed(h', s, made)
      <4>1. made \in [Seqs -> Nat] /\ SharedOK(h, shared, made, wpos.seq)
        BY <1>1 DEF DiskOK
      <4>2. ASSUME NEW u, u = [h EXCEPT !.pc = "put", !.opened = [seq |-> n, file |-> made[n]],
                                        !.upcoming = c]
            PROVE  SharedOK(u, shared, made, wpos.seq) /\ \A s \in Seqs : Confirmed(u, s, made)
        BY <2>1, <3>1, <3>4, <3>5, <4>1, <4>2, OpenNextOK, Zenon
      <4> QED
        BY <3>4, <4>2, Zenon
    <3> QED
      BY <2>1, <3>6
  <2> QED
    BY <1>11, <2>2, <2>3 DEF OpenNext
<1>12. CASE PutNext
  BY <1>1, <1>12, PutNextOK DEF PutNext
<1>13. CASE HelperFails
  <2>1. h.pc = "map" /\ shared' = shared
    BY <1>13 DEF HelperFails
  <2>2. PICK u : u = Again(h)
    OBVIOUS
  <2>3. u \in HelperRec /\ u.segment = h.segment /\ u.upcoming = h.upcoming
    BY <1>6, <2>2, AgainFacts
  <2>4. h' = [u EXCEPT !.pc = "stopped"]
    BY <1>13, <2>2 DEF HelperFails
  <2>5. h' \in HelperRec /\ h'.pc = "stopped" /\ h'.segment = h.segment /\ h'.upcoming = h.upcoming
    BY <2>3, <2>4 DEF HelperRec
  <2> QED
    BY <1>1, <2>1, <2>5, HelperSame
<1> QED
  BY <1>7, <1>8, <1>9, <1>10, <1>11, <1>12, <1>13 DEF HelperStep

-----------------------------------------------------------------------------
(* The reader's steps *)

\* Where the reader is.
LEMMA ReaderHere ==
  ASSUME Inv
  PROVE  /\ DiskOK /\ ReaderOK(r, made, wpos.seq) /\ SharedOK(h, shared, made, wpos.seq)
         /\ AheadOK(r, h, made)
         /\ r \in ReaderRec /\ made \in [Seqs -> Nat] /\ Valid(wpos) /\ wpos.seq \in Seqs
         /\ h \in HelperRec /\ shared \in SharedRec
         /\ At = Cur(r) /\ Valid(At) /\ At.seq <= wpos.seq
<1>1. /\ DiskOK /\ ReaderOK(r, made, wpos.seq) /\ SharedOK(h, shared, made, wpos.seq)
      /\ AheadOK(r, h, made)
  BY DEF Inv
<1>2. r \in ReaderRec /\ PlaceOK(r, made, wpos.seq)
  BY <1>1 DEF ReaderOK
<1>3. At = Cur(r)
  BY DEF At, Cur
<1>4. Valid(At) /\ At.seq <= wpos.seq
  BY <1>2 DEF PlaceOK, At
<1>5. made \in [Seqs -> Nat] /\ Valid(wpos)
  BY <1>1 DEF DiskOK
<1>6. wpos.seq \in Seqs
  BY <1>5, ValidFacts
<1>7. h \in HelperRec /\ shared \in SharedRec
  BY <1>1 DEF SharedOK
<1> QED
  BY <1>1, <1>2, <1>3, <1>4, <1>5, <1>6, <1>7

\* A call that is reading, or opening a segment.
LEMMA InCall ==
  ASSUME NEW m, NEW w, NEW x, ReaderOK(x, m, w), x.pc \in {"scan", "open"}
  PROVE  /\ x.call \in {"single", "batch"} /\ ~Moving(x)
         /\ Scanning(x) <=> x.call = "batch"
         /\ x.call = "single" => Settled(x, m, w)
<1>1. x \in ReaderRec /\ PlaceOK(x, m, w)
  BY DEF ReaderOK
<1>2. x.call \in {"", "single", "batch"} /\ x.call # ""
  BY <1>1, ReaderTypes DEF PlaceOK
<1>3. ~Moving(x) /\ ~Done(x)
  BY DEF Moving, Done
<1>4. Scanning(x) <=> x.call = "batch"
  BY <1>3 DEF Scanning
<1>5. x.call = "single" => Settled(x, m, w)
  BY <1>3, <1>4, SettledOf
<1> QED
  BY <1>2, <1>3, <1>4, <1>5

\* A step of the reader leaves the disk and the helper as they are.
LEMMA ReaderStepInv ==
  ASSUME Inv, UNCHANGED <<disk, h>>, ReaderOK(r', made, wpos.seq),
         SharedOK(h, shared', made, wpos.seq), AheadOK(r', h, made)
  PROVE  Inv'
<1>1. wpos' = wpos /\ made' = made /\ named' = named /\ h' = h
  BY DEF disk
<1>2. DiskOK'
  <2>1. DiskOK
    BY DEF Inv
  <2> QED
    BY <1>1, <2>1 DEF DiskOK
<1>3. /\ ReaderOK(r', made', wpos'.seq) /\ SharedOK(h', shared', made', wpos'.seq)
      /\ AheadOK(r', h', made')
  BY <1>1
<1> QED
  BY <1>2, <1>3 DEF Inv

\* One that follows where the reader was, and tells the helper nothing.
LEMMA QuietStepInv ==
  ASSUME Inv, UNCHANGED <<disk, shared, h>>, ReaderOK(r', made, wpos.seq),
         ~r'.ahead \/ Follows(r, r')
  PROVE  Inv'
<1>1. AheadOK(r', h, made)
  <2>1. Follows(r, r')
    BY DEF Follows
  <2> QED
    BY <2>1, ReaderHere, AheadKept
<1>2. SharedOK(h, shared', made, wpos.seq) /\ UNCHANGED <<disk, h>>
  BY ReaderHere
<1> QED
  BY <1>1, <1>2, ReaderStepInv

\* A read is called: what the last call lent is let go, and the reader is at the start of a scan.
LEMMA CalledInv ==
  ASSUME Inv, ReaderCalled
  PROVE  Inv'
<1>1. PICK c \in {"single", "batch"}, n \in Nat : Call(c, n)
  <2>1. CASE ReadCall
    BY <2>1 DEF ReadCall
  <2>2. CASE BatchCall
    <3>1. PICK k \in Batches : Call("batch", k)
      BY <2>2 DEF BatchCall
    <3>2. k \in Nat
      BY LayoutAssumption
    <3> QED
      BY <3>1, <3>2
  <2> QED
    BY <2>1, <2>2 DEF ReaderCalled
<1>2. PICK x, m, w : x = r /\ m = made /\ w = wpos.seq
  OBVIOUS
<1>3. PICK z : z = RetireAllButLast(x)
  OBVIOUS
<1>4. PICK y : y = r'
  OBVIOUS
<1>5. /\ x.pc = "idle" /\ UNCHANGED <<disk, shared, h>>
      /\ y = [z EXCEPT !.pc = "scan", !.call = c, !.max = n, !.batch = <<>>, !.out = <<>>]
  BY <1>1, <1>2, <1>3, <1>4 DEF Call
<1>6. ReaderOK(x, m, w)
  BY <1>2, ReaderHere
<1>7. x \in ReaderRec /\ FilesOK(x, m, w) /\ x.maps # <<>>
  BY <1>6 DEF ReaderOK, MapsOK, FilesOK
<1>8. /\ z \in ReaderRec /\ Len(z.maps) = 1 /\ DOMAIN z.maps = {1} /\ z.maps # <<>>
      /\ Last(z.maps) = Last(x.maps) /\ z.maps[1] = Last(x.maps)
      /\ z.at = x.at /\ z.file = x.file /\ z.position = x.position /\ z.given = x.given
      /\ z.scan = x.scan /\ z.scanFile = x.scanFile /\ z.scanPosition = x.scanPosition
      /\ z.crossed = x.crossed /\ z.ahead = x.ahead
  BY <1>3, <1>7, RetireFacts
<1>9. /\ FilesOK(z, m, w)
      /\ (\A k \in x.held : k.seq = x.at.seq) => \A k \in z.held : k.seq = x.at.seq
      /\ (Unmap = "AtFileRoll" /\ UpTo(x.at, m, x.held \cup Mapped(x))) =>
           UpTo(x.at, m, z.held \cup {z.maps[1]})
  <2>1. x \in ReaderRec /\ FilesOK(x, m, w)
    BY <1>7
  <2>2. FilesOK(z, m, w)
    BY <1>3, <2>1, RetireKeeps
  <2>3. (\A k \in x.held : k.seq = x.at.seq) => \A k \in z.held : k.seq = x.at.seq
    <3>1. \A k \in z.held : k \in x.held \/ k.seq = x.at.seq
      BY <1>3, <1>7, RetireFacts
    <3> QED
      BY <3>1
  <2>4. (Unmap = "AtFileRoll" /\ UpTo(x.at, m, x.held \cup Mapped(x))) =>
          UpTo(x.at, m, z.held \cup {z.maps[1]})
    BY <1>3, <2>1, RetireKeeps DEF UpTo
  <2> QED
    BY <2>2, <2>3, <2>4
<1>10. /\ Valid(x.at) /\ x.at.seq <= w /\ x.file = m[x.at.seq] /\ x.position = Index(x.at)
      /\ x.given = x.position /\ x.scan = x.at /\ x.scanPosition = x.position
      /\ x.scanFile = m[x.scan.seq] /\ ~x.crossed /\ ~x.ahead /\ x.call = ""
  BY <1>5, <1>6 DEF ReaderOK, PlaceOK
<1>11. PICK e : e = <<>>
  OBVIOUS
<1>12. y = [z EXCEPT !.pc = "scan", !.call = c, !.max = n, !.batch = e, !.out = e]
  BY <1>5, <1>11
<1>13. e \in Seq(LentRec) /\ e \in Seq(OwnedRec) /\ c \in {"", "single", "batch"}
  <2>1. e \in Seq(LentRec) /\ e \in Seq(OwnedRec)
    BY <1>11
  <2>2. c \in {"", "single", "batch"}
    BY <1>1
  <2> QED
    BY <2>1, <2>2
<1>14. y \in ReaderRec /\ y.pc = "scan" /\ y.call = c /\ y.batch = e /\ y.out = e
  BY <1>8, <1>12, <1>13 DEF ReaderRec
<1>15. /\ y.maps = z.maps /\ y.held = z.held /\ y.at = z.at /\ y.file = z.file
       /\ y.position = z.position /\ y.given = z.given /\ y.scan = z.scan
       /\ y.scanFile = z.scanFile /\ y.scanPosition = z.scanPosition /\ y.crossed = z.crossed
       /\ y.ahead = z.ahead
  BY <1>8, <1>12 DEF ReaderRec
<1>16. /\ y.at = x.at /\ y.file = x.file /\ y.position = x.position /\ y.given = x.given
       /\ y.scan = x.at /\ y.scanFile = x.file /\ y.scanPosition = x.position
       /\ y.crossed = FALSE /\ y.ahead = FALSE
  <2>1. y.crossed \in BOOLEAN /\ y.ahead \in BOOLEAN
    BY <1>14, ReaderTypes
  <2> QED
    BY <1>8, <1>10, <1>15, <2>1
<1>17. Cur(y) = x.at /\ ~Moving(y) /\ ~Done(y) /\ (Scanning(y) <=> c = "batch")
  BY <1>14, <1>16 DEF Cur, Moving, Done, Scanning
<1>18. PlaceOK(y, m, w)
  <2>1. Len(y.batch) = 0
    BY <1>11, <1>14
  <2>2. y.position \in Nat
    BY <1>14, ReaderTypes
  <2>3. y.position + Len(y.batch) = x.position
    BY <1>16, <2>1, <2>2
  <2> QED
    BY <1>1, <1>10, <1>14, <1>16, <1>17, <2>3 DEF PlaceOK
<1>19. MapsOK(y, m, w)
  <2>1. Last(x.maps) = RegionOf(x.at, m)
    BY <1>5, <1>6, <1>10 DEF ReaderOK, MapsOK, Moving, Cur
  <2>2. FilesOK(y, m, w)
    BY <1>9, <1>15 DEF FilesOK
  <2> QED
    BY <1>8, <1>15, <1>16, <1>17, <2>1, <2>2 DEF MapsOK
<1>20. GivenOK(y, m, w)
  BY <1>11, <1>14 DEF GivenOK, LentOK, OwnedOK
<1>21. KeptOK(y, m)
  <2>1. \A k \in x.held : k.seq = x.at.seq
    BY <1>5, <1>6 DEF ReaderOK, KeptOK
  <2>2. \A k \in y.held : k.seq = y.at.seq
    BY <1>9, <1>15, <1>16, <2>1
  <2>3. Mapped(y) = {y.maps[1]}
    BY <1>8, <1>15 DEF Mapped
  <2>4. Unmap = "AtFileRoll" => UpTo(x.at, m, y.held \cup {y.maps[1]})
    <3>1. ~Scanning(x)
      BY <1>10 DEF Scanning
    <3>2. Unmap = "AtFileRoll" => UpTo(x.at, m, x.held \cup Mapped(x))
      BY <1>6, <3>1 DEF ReaderOK, KeptOK
    <3> QED
      BY <1>9, <1>15, <3>2
  <2> QED
    BY <1>14, <1>16, <2>2, <2>3, <2>4 DEF KeptOK
<1>22. ReaderOK(y, m, w) /\ ~y.ahead
  BY <1>14, <1>16, <1>18, <1>19, <1>20, <1>21 DEF ReaderOK
<1> QED
  BY <1>2, <1>4, <1>5, <1>22, QuietStepInv

\* The next header is not committed, or a user record is next.
LEMMA RecordInv ==
  ASSUME Inv, CaughtUp \/ PeekRecord \/ TakeRecord \/ TakeOwned \/ CollectRecord
  PROVE  Inv'
<1>1. r.pc = "scan" /\ UNCHANGED <<disk, shared, h>>
  BY DEF CaughtUp, PeekRecord, TakeRecord, TakeOwned, CollectRecord, Meets
<1>2. /\ ReaderOK(r, made, wpos.seq) /\ r.call \in {"single", "batch"} /\ ~Moving(r)
      /\ Scanning(r) <=> r.call = "batch"
      /\ r.call = "single" => Settled(r, made, wpos.seq)
  BY <1>1, ReaderHere, InCall
<1>3. SUFFICES ReaderOK(r', made, wpos.seq) /\ (~r'.ahead \/ Follows(r, r'))
  BY <1>1, <1>3, QuietStepInv
<1>4. CASE CaughtUp
  <2>1. CASE r.call = "batch"
    <3>1. r' = Finished(r)
      BY <1>4, <2>1 DEF CaughtUp
    <3> QED
      BY <1>2, <2>1, <3>1, FinishedOK
  <2>2. CASE r.call = "single"
    <3>1. r' = Idle(r)
      BY <1>4, <2>2 DEF CaughtUp
    <3> QED
      BY <1>2, <2>2, <3>1, IdleOK
  <2> QED
    BY <1>2, <2>1, <2>2
<1>5. CASE PeekRecord
  <2>1. r' = Idle(r) /\ r.call = "single"
    BY <1>5 DEF PeekRecord
  <2> QED
    BY <1>2, <2>1, IdleOK
<1>6. CASE TakeRecord
  <2>1. r.call = "single" /\ r.out = <<>> /\ Kind(r.at) = "User"
    BY <1>6 DEF TakeRecord, Meets, At
  <2>2. PICK z : z = [r EXCEPT !.at = After(@), !.position = @ + 1, !.given = @ + 1,
                              !.batch = <<[map |-> Len(r.maps), pos |-> r.at]>>]
    OBVIOUS
  <2>3. r' = Idle(z)
    BY <1>6, <2>2 DEF TakeRecord, Lent
  <2>4. Settled(z, made, wpos.seq)
    BY <1>1, <1>2, <2>1, <2>2, TakeRecordOK
  <2> QED
    BY <2>3, <2>4, IdleOK
<1>7. CASE TakeOwned
  <2>1. r.call = "single" /\ Kind(r.at) = "User"
    BY <1>7 DEF TakeOwned, Meets, At
  <2>2. PICK z : z = [r EXCEPT !.at = After(@), !.position = @ + 1, !.given = @ + 1,
                              !.out = Append(@, [region |-> Last(r.maps), pos |-> r.at])]
    OBVIOUS
  <2>3. r' = Idle(z) \/ r' = z
    BY <1>7, <2>2 DEF TakeOwned, Owned
  <2>4. ReaderOK(z, made, wpos.seq) /\ Settled(z, made, wpos.seq) /\ Follows(r, z)
    BY <1>1, <1>2, <2>1, <2>2, TakeOwnedOK
  <2>5. CASE r' = Idle(z)
    BY <2>4, <2>5, IdleOK
  <2>6. CASE r' = z
    BY <2>4, <2>6
  <2> QED
    BY <2>3, <2>5, <2>6
<1>8. CASE CollectRecord
  <2>1. r.call = "batch" /\ Kind(r.scan) = "User"
    BY <1>8 DEF CollectRecord, Meets, At
  <2>2. PICK z : z = [r EXCEPT !.batch = Append(@, [map |-> Len(r.maps), pos |-> r.scan]),
                              !.scan = After(@), !.scanPosition = @ + 1]
    OBVIOUS
  <2>3. r' = Finished(z) \/ r' = z
    BY <1>8, <2>2 DEF CollectRecord, Lent
  <2>4. ReaderOK(z, made, wpos.seq) /\ Scanning(z) /\ ~Moving(z) /\ Follows(r, z)
    BY <1>1, <1>2, <2>1, <2>2, CollectOK
  <2>5. CASE r' = Finished(z)
    <3>1. ReaderOK(r', made, wpos.seq) /\ Follows(z, r')
      BY <2>4, <2>5, FinishedOK
    <3> QED
      BY <2>4, <3>1 DEF Follows
  <2>6. CASE r' = z
    BY <2>4, <2>6
  <2> QED
    BY <2>3, <2>5, <2>6
<1> QED
  BY <1>4, <1>5, <1>6, <1>7, <1>8

\* The helper's next region, or its next segment, is taken from it.
LEMMA TakenOK ==
  ASSUME NEW m, NEW w, NEW y, NEW z, SharedOK(y, z, m, w), NEW v \in SharedRec,
         v.rolled = z.rolled, v.ready = z.ready \/ v.ready = Nothing,
         v.next = z.next \/ (v.next = Nothing /\ z.next.seq \in Seqs)
  PROVE  SharedOK(y, v, m, w)
<1>1. y \in HelperRec /\ FileOK(v.ready, m, w) /\ FileOK(y.segment, m, w)
  BY DEF SharedOK, FileOK
<1>2. ASSUME y.pc = "put"
      PROVE  y.opened # Nothing /\ y.opened.seq # v.next.seq /\ y.upcoming \in {Nothing, y.opened}
  <2>1. y.opened # Nothing /\ y.opened.seq # z.next.seq /\ y.upcoming \in {Nothing, y.opened}
    BY <1>2 DEF SharedOK
  <2>2. y.opened \in FileRec
    BY <1>1, <2>1, HelperTypes
  <2> QED
    BY <2>1, <2>2, NothingFacts
<1>3. y.pc # "put" => (v.next # Nothing => y.upcoming \in {Nothing, v.next})
  BY DEF SharedOK
<1> QED
  BY <1>1, <1>2, <1>3 DEF SharedOK

\* What the reader asks for is nothing the helper has.
LEMMA WantedOK ==
  ASSUME NEW m, NEW w, NEW y, NEW z, SharedOK(y, z, m, w), NEW v \in SharedRec,
         v.rolled = z.rolled, v.ready = z.ready, v.next = z.next
  PROVE  SharedOK(y, v, m, w)
<1> QED
  BY DEF SharedOK

\* The next region is mapped, by the helper or by the reader, or cannot be.
LEMMA RegionInv ==
  ASSUME Inv, MapRegion \/ MapFails
  PROVE  Inv'
<1>1. r.pc = "scan" /\ UNCHANGED <<disk, h>> /\ Kind(At) = "Skip"
  BY DEF MapRegion, MapFails, Meets
<1>2. /\ ReaderOK(r, made, wpos.seq) /\ r.call \in {"single", "batch"} /\ ~Moving(r)
      /\ Scanning(r) <=> r.call = "batch"
      /\ r.call = "single" => Settled(r, made, wpos.seq)
  BY <1>1, ReaderHere, InCall
<1>3. CASE MapFails
  <2>1. UNCHANGED <<disk, shared, h>>
    BY <1>3 DEF MapFails
  <2>2. CASE r.call = "batch"
    <3>1. r' = Discarded(r)
      BY <1>3, <2>2 DEF MapFails
    <3>2. ReaderOK(r', made, wpos.seq) /\ ~r'.ahead
      BY <1>2, <2>2, <3>1, DiscardedOK
    <3> QED
      BY <2>1, <3>2, QuietStepInv
  <2>3. CASE r.call = "single"
    <3>1. r' = Idle(r)
      BY <1>3, <2>3 DEF MapFails
    <3>2. ReaderOK(r', made, wpos.seq) /\ ~r'.ahead
      BY <1>2, <2>3, <3>1, IdleOK
    <3> QED
      BY <2>1, <3>2, QuietStepInv
  <2> QED
    BY <1>2, <2>2, <2>3
<1>4. CASE MapRegion
  <2>1. PICK c, i : c = At /\ i = At.reg + 1
    OBVIOUS
  <2>2. c = Cur(r) /\ Kind(c) = "Skip" /\ Valid(c) /\ made \in [Seqs -> Nat] /\ i = c.reg + 1
    BY <1>1, <2>1, ReaderHere
  <2>3. PICK from : from = IF ReadyFor(At.seq, At.reg + 1) THEN shared.ready.file
                           ELSE IF r.call = "batch" THEN r.scanFile ELSE r.file
    OBVIOUS
  <2>4. from = made[c.seq]
    <3>1. CASE ReadyFor(At.seq, At.reg + 1)
      <4>1. shared.ready # Nothing /\ shared.ready.seq = c.seq
        BY <2>1, <3>1 DEF ReadyFor
      <4>2. FileOK(shared.ready, made, wpos.seq)
        BY ReaderHere DEF SharedOK
      <4> QED
        BY <2>3, <3>1, <4>1, <4>2 DEF FileOK
    <3>2. CASE ~ReadyFor(At.seq, At.reg + 1)
      <4>1. r.file = made[r.at.seq] /\ r.scanFile = made[r.scan.seq]
        BY <1>2 DEF ReaderOK, PlaceOK
      <4> QED
        BY <2>1, <2>3, <3>2, <4>1 DEF At
    <3> QED
      BY <3>1, <3>2
  <2>5. r' = [r EXCEPT !.pc = "store_region", !.maps = Append(@, Region(c.seq, i, made[c.seq])),
                       !.tell = [seq |-> c.seq, reg |-> i]]
    <3>1. r' = [r EXCEPT !.pc = "store_region", !.maps = Append(@, Region(At.seq, At.reg + 1, from)),
                         !.tell = [seq |-> At.seq, reg |-> At.reg + 1]]
      BY <1>4, <2>3 DEF MapRegion
    <3> QED
      BY <2>1, <2>4, <3>1
  <2>6. ReaderOK(r', made, wpos.seq) /\ Follows(r, r')
    BY <1>1, <1>2, <2>2, <2>5, MapRegionOK
  <2>7. AheadOK(r', h, made)
    BY <2>6, ReaderHere, AheadKept
  <2>8. SharedOK(h, shared', made, wpos.seq)
    <3>1. SharedOK(h, shared, made, wpos.seq) /\ shared \in SharedRec
      BY ReaderHere
    <3>2. shared' = shared \/ shared' = [shared EXCEPT !.ready = Nothing]
      BY <1>4 DEF MapRegion
    <3>3. CASE shared' = [shared EXCEPT !.ready = Nothing]
      <4>1. /\ shared' \in SharedRec /\ shared'.ready = Nothing
            /\ shared'.rolled = shared.rolled /\ shared'.next = shared.next
        BY <3>1, <3>3 DEF SharedRec
      <4> QED
        BY <3>1, <4>1, TakenOK
    <3> QED
      BY <3>1, <3>2, <3>3
  <2> QED
    BY <1>1, <2>6, <2>7, <2>8, ReaderStepInv
<1> QED
  BY <1>3, <1>4

\* The segment a Roll names is entered.
LEMMA EnterOK ==
  ASSUME NEW m \in [Seqs -> Nat], NEW w \in Seqs, NEW x, ReaderOK(x, m, w),
         x.pc \in {"scan", "open"}, Kind(Cur(x)) = "Roll", Cur(x).seq < w,
         NEW s \in Seqs, s = Cur(x).seq + 1, NEW a \in BOOLEAN,
         NEW y, y = Enters(x, s, m[s], a)
  PROVE  /\ ReaderOK(y, m, w)
         /\ y.ahead = a
         /\ Cur(y).seq = s
<1>1. x.call \in {"single", "batch"}
  BY InCall
<1>2. CASE x.call = "batch"
  <2>1. y = InSegment(x, s, m[s], a) /\ Cur(x) = x.scan
    BY <1>2 DEF Cur, Enters
  <2>2. Kind(x.scan) = "Roll" /\ x.scan.seq < w /\ s = x.scan.seq + 1
    BY <2>1
  <2>3. ReaderOK(y, m, w)
    BY <1>2, <2>1, <2>2, EnterBatchOK
  <2>4. y.ahead = a
    BY <1>2, <2>1, <2>2, EnterBatchOK
  <2>5. Cur(y).seq = s
    BY <1>2, <2>1, <2>2, EnterBatchOK
  <2> QED
    BY <2>3, <2>4, <2>5
<1>3. CASE x.call = "single"
  <2>1. y = RetireAllButLast(AtSegment(x, s, m[s], a)) /\ Cur(x) = x.at
    BY <1>3 DEF Cur, Enters
  <2>2. Kind(x.at) = "Roll" /\ x.at.seq < w /\ s = x.at.seq + 1
    BY <2>1
  <2>3. ReaderOK(y, m, w)
    BY <1>3, <2>1, <2>2, EnterSingleOK
  <2>4. y.ahead = a
    BY <1>3, <2>1, <2>2, EnterSingleOK
  <2>5. Cur(y).seq = s
    BY <1>3, <2>1, <2>2, EnterSingleOK
  <2> QED
    BY <2>3, <2>4, <2>5
<1> QED
  BY <1>1, <1>2, <1>3

\* What the helper opened of a segment is what the reader takes for it.
LEMMA TakenConfirmed ==
  ASSUME NEW m, NEW w, NEW y, NEW z, SharedOK(y, z, m, w), NEW s \in Seqs, z.next.seq = s,
         z.next.file = m[s]
  PROVE  Confirmed(y, s, m)
<1>1. z.next # Nothing
  BY NothingFacts
<1>2. CASE y.pc = "put"
  <2>1. y.opened.seq # s /\ y.upcoming \in {Nothing, y.opened}
    BY <1>2 DEF SharedOK
  <2> QED
    BY <2>1, NothingFacts DEF Confirmed
<1>3. CASE y.pc # "put"
  <2>1. y.upcoming \in {Nothing, z.next}
    BY <1>1, <1>3 DEF SharedOK
  <2> QED
    BY <2>1, NothingFacts DEF Confirmed
<1> QED
  BY <1>2, <1>3

\* The segment a Roll names is opened, ahead or by the reader, or cannot be.
LEMMA OpenInv ==
  ASSUME Inv, OpenSuccessorAhead \/ OpenSuccessor \/ OpenSuccessorFails
  PROVE  Inv'
<1>1. PICK x, m, w, s : x = r /\ m = made /\ w = wpos.seq /\ s = At.seq + 1
  OBVIOUS
<1>2. /\ DiskOK /\ ReaderOK(x, m, w) /\ SharedOK(h, shared, m, w) /\ m \in [Seqs -> Nat]
      /\ w \in Seqs /\ Valid(wpos) /\ Valid(At) /\ At = Cur(x) /\ shared \in SharedRec
  BY <1>1, ReaderHere
<1>3. r.pc \in {"scan", "open"} /\ UNCHANGED <<disk, h>>
  BY DEF OpenSuccessorAhead, OpenSuccessor, OpenSuccessorFails, Meets
<1>4. /\ x.call \in {"single", "batch"} /\ ~Moving(x)
      /\ Scanning(x) <=> x.call = "batch"
      /\ x.call = "single" => Settled(x, m, w)
  BY <1>1, <1>2, <1>3, InCall
<1>5. Kind(At) = "Roll" /\ At.seq < w
  <2>1. CASE r.pc = "open"
    <3>1. Kind(Cur(x)) = "Roll" /\ Cur(x).seq < w
      BY <1>1, <1>2, <2>1 DEF ReaderOK, PlaceOK
    <3> QED
      BY <1>2, <3>1
  <2>2. CASE r.pc = "scan"
    <3>1. Kind(At) = "Roll" /\ Committed(At)
      BY <2>2 DEF OpenSuccessorAhead, OpenSuccessor, OpenSuccessorFails, Meets
    <3>2. At.seq < wpos.seq
      BY <1>2, <3>1, RollCommitted
    <3> QED
      BY <1>1, <3>1, <3>2
  <2> QED
    BY <1>3, <2>1, <2>2
<1>6. s \in Seqs
  <2>1. At.seq \in Seqs
    BY <1>2, ValidFacts
  <2>2. w <= MaxSeq /\ w \in Nat /\ At.seq \in Nat /\ MaxSeq \in Nat
    BY <1>2, <2>1, LayoutAssumption DEF Seqs
  <2> QED
    BY <1>1, <1>5, <2>2 DEF Seqs
<1>7. ASSUME NEW f, f = m[s], NEW a \in BOOLEAN, NEW y, y = Entered(r, f, a)
      PROVE  ReaderOK(y, m, w) /\ y.ahead = a /\ Cur(y).seq = s
  <2>1. y = Enters(x, s, m[s], a)
    BY <1>1, <1>7 DEF Entered, Enters, InSegment, AtSegment
  <2>2. Kind(Cur(x)) = "Roll" /\ Cur(x).seq < w /\ s = Cur(x).seq + 1 /\ x.pc \in {"scan", "open"}
    BY <1>1, <1>2, <1>3, <1>5
  <2>3. ReaderOK(y, m, w)
    BY <1>2, <1>6, <2>1, <2>2, EnterOK
  <2>4. y.ahead = a
    BY <1>2, <1>6, <2>1, <2>2, EnterOK
  <2>5. Cur(y).seq = s
    BY <1>2, <1>6, <2>1, <2>2, EnterOK
  <2> QED
    BY <2>3, <2>4, <2>5
<1>8. CASE OpenSuccessorAhead
  <2>1. SharedOK(h, shared', m, w)
    <3>1. CASE shared.next.seq # s
      <4>1. shared' = shared
        BY <1>1, <1>8, <3>1 DEF OpenSuccessorAhead
      <4> QED
        BY <1>2, <4>1
    <3>2. CASE shared.next.seq = s
      <4>1. shared' = [shared EXCEPT !.next = Nothing]
        BY <1>1, <1>8, <3>2 DEF OpenSuccessorAhead
      <4>2. /\ shared' \in SharedRec /\ shared'.next = Nothing
            /\ shared'.rolled = shared.rolled /\ shared'.ready = shared.ready
        BY <1>2, <4>1 DEF SharedRec
      <4> QED
        BY <1>2, <1>6, <3>2, <4>2, TakenOK
    <3> QED
      BY <3>1, <3>2
  <2>2. CASE shared.next.seq = s /\ shared.next.file = m[s]
    <3>1. PICK a \in BOOLEAN : a = TRUE
      OBVIOUS
    <3> DEFINE f == m[s]
    <3>2. r' = Entered(r, f, a)
      BY <1>1, <1>8, <2>2, <3>1 DEF OpenSuccessorAhead
    <3>3. ReaderOK(r', m, w) /\ Cur(r').seq = s
      BY <1>7, <3>1, <3>2
    <3>4. Confirmed(h, s, m)
      BY <1>2, <1>6, <2>2, TakenConfirmed
    <3>5. AheadOK(r', h, m)
      BY <3>3, <3>4 DEF AheadOK
    <3> QED
      BY <1>1, <1>3, <2>1, <3>3, <3>5, ReaderStepInv
  <2>3. CASE ~(shared.next.seq = s /\ shared.next.file = m[s])
    <3>1. r' = [x EXCEPT !.pc = "open"] /\ x.pc = "scan"
      BY <1>1, <1>8, <2>3 DEF OpenSuccessorAhead, Meets
    <3>2. ReaderOK(r', m, w) /\ Follows(x, r')
      BY <1>2, <1>5, <3>1, OpenOK
    <3>3. AheadOK(r', h, made)
      BY <1>1, <3>2, ReaderHere, AheadKept
    <3> QED
      BY <1>1, <1>3, <2>1, <3>2, <3>3, ReaderStepInv
  <2> QED
    BY <2>2, <2>3
<1>9. CASE OpenSuccessor
  <2>1. PICK a \in BOOLEAN : a = FALSE
    OBVIOUS
  <2> DEFINE f == m[s]
  <2>2. r' = Entered(r, f, a) /\ UNCHANGED <<disk, shared, h>>
    BY <1>1, <1>2, <1>6, <1>9, <2>1 DEF OpenSuccessor
  <2>3. ReaderOK(r', m, w) /\ r'.ahead = a
    BY <1>7, <2>1, <2>2
  <2>4. ReaderOK(r', made, wpos.seq) /\ ~r'.ahead
    BY <1>1, <2>1, <2>3
  <2> QED
    BY <2>2, <2>4, QuietStepInv
<1>10. CASE OpenSuccessorFails
  <2>1. UNCHANGED <<disk, shared, h>>
    BY <1>10 DEF OpenSuccessorFails
  <2>2. r' = IF x.call # "batch" THEN Idle(x) ELSE IF x.batch # <<>> THEN Finished(x) ELSE Discarded(x)
    BY <1>1, <1>10 DEF OpenSuccessorFails
  <2>3. ReaderOK(r', m, w) /\ (~r'.ahead \/ Follows(x, r'))
    <3>1. CASE x.call = "single"
      <4>1. r' = Idle(x)
        BY <2>2, <3>1
      <4> QED
        BY <1>4, <3>1, <4>1, IdleOK
    <3>2. CASE x.call = "batch" /\ x.batch # <<>>
      <4>1. r' = Finished(x)
        BY <2>2, <3>2
      <4> QED
        BY <1>2, <1>4, <3>2, <4>1, FinishedOK
    <3>3. CASE x.call = "batch" /\ x.batch = <<>>
      <4>1. r' = Discarded(x)
        BY <2>2, <3>3
      <4> QED
        BY <1>2, <1>4, <3>3, <4>1, DiscardedOK
    <3> QED
      BY <1>4, <3>1, <3>2, <3>3
  <2> QED
    BY <1>1, <2>1, <2>3, QuietStepInv
<1> QED
  BY <1>8, <1>9, <1>10

\* The helper is told which file the segment is: the reader has it from its Roll.
LEMMA RolledOK ==
  ASSUME NEW m, NEW w, NEW y, NEW z, SharedOK(y, z, m, w), NEW k \in FileRec, k.seq <= w,
         k.file = NoFile => Confirmed(y, k.seq, m), k.file # NoFile => k.file = m[k.seq],
         NEW v, v = [z EXCEPT !.rolled = k]
  PROVE  SharedOK(y, v, m, w)
<1>1. y \in HelperRec /\ z \in SharedRec
  BY DEF SharedOK
<1>2. v \in SharedRec /\ v.rolled = k /\ v.ready = z.ready /\ v.next = z.next
  BY <1>1 DEF SharedRec
<1> QED
  BY <1>1, <1>2 DEF SharedOK

\* The helper is told where the reader is.
LEMMA TellInv ==
  ASSUME Inv, TellRolled \/ StoreRegion \/ StoreSequence
  PROVE  Inv'
<1>1. UNCHANGED <<disk, h>>
  BY DEF TellRolled, StoreRegion, StoreSequence
<1>2. PICK x, m, w : x = r /\ m = made /\ w = wpos.seq
  OBVIOUS
<1>3. /\ DiskOK /\ ReaderOK(x, m, w) /\ SharedOK(h, shared, m, w) /\ AheadOK(x, h, m)
      /\ m \in [Seqs -> Nat] /\ w \in Seqs /\ shared \in SharedRec /\ x \in ReaderRec
  BY <1>2, ReaderHere
<1>4. /\ Valid(x.at) /\ x.at.seq <= w /\ x.file = m[x.at.seq] /\ x.at.seq \in Seqs
  <2>1. Valid(x.at) /\ x.at.seq <= w /\ x.file = m[x.at.seq]
    BY <1>3 DEF ReaderOK, PlaceOK
  <2> QED
    BY <2>1, ValidFacts
<1>5. SUFFICES /\ ReaderOK(r', m, w) /\ (~r'.ahead \/ Follows(x, r'))
               /\ SharedOK(h, shared', m, w)
  <2>1. Follows(x, r')
    BY <1>5 DEF Follows
  <2>2. AheadOK(r', h, m)
    BY <1>3, <2>1, AheadKept
  <2> QED
    BY <1>1, <1>2, <1>5, <2>2, ReaderStepInv
<1>6. CASE TellRolled
  <2>1. x.pc = "tell" /\ r' = [x EXCEPT !.pc = "store_region", !.held = {},
                                       !.tell = [seq |-> x.at.seq, reg |-> 0]]
    BY <1>2, <1>6 DEF TellRolled
  <2>2. ReaderOK(r', m, w) /\ Follows(x, r')
    BY <1>3, <2>1, TellRolledOK
  <2>3. CASE shared' = shared
    BY <1>3, <2>2, <2>3
  <2>4. CASE shared' = [shared EXCEPT !.rolled =
                          [seq |-> x.at.seq, file |-> IF x.ahead THEN NoFile ELSE x.file]]
    <3>1. PICK k : k = [seq |-> x.at.seq, file |-> IF x.ahead THEN NoFile ELSE x.file]
      OBVIOUS
    <3>2. Cur(x) = x.at
      <4>1. x.call = "batch" => x.scan = x.at
        BY <1>3, <2>1 DEF ReaderOK, PlaceOK, Done
      <4> QED
        BY <4>1 DEF Cur
    <3>3. k \in FileRec /\ k.seq = x.at.seq /\ k.file = IF x.ahead THEN NoFile ELSE x.file
      <4>1. x.file \in Nat /\ NoFile \in Nat
        BY <1>3, ReaderTypes DEF NoFile
      <4> QED
        BY <1>4, <3>1, <4>1 DEF FileRec
    <3>4. x.file # NoFile
      BY <1>2, <1>3, <1>4 DEF DiskOK
    <3>5. k.file = NoFile => Confirmed(h, k.seq, m)
      BY <1>3, <3>2, <3>3, <3>4 DEF AheadOK
    <3>6. k.file # NoFile => k.file = m[k.seq]
      BY <1>4, <3>3
    <3>7. shared' = [shared EXCEPT !.rolled = k] /\ k.seq <= w
      BY <1>4, <2>4, <3>1, <3>3
    <3>8. SharedOK(h, shared', m, w)
      BY <1>3, <3>3, <3>5, <3>6, <3>7, RolledOK
    <3> QED
      BY <2>2, <3>8
  <2> QED
    BY <1>2, <1>6, <2>3, <2>4 DEF TellRolled
<1>7. CASE StoreRegion
  <2>1. x.pc = "store_region" /\ r' = [x EXCEPT !.pc = "store_sequence"]
    BY <1>2, <1>7 DEF StoreRegion
  <2>2. ReaderOK(r', m, w) /\ Follows(x, r')
    BY <1>3, <2>1, StoreRegionOK
  <2>3. PICK n \in Nat : n = x.tell.reg + 1
    <3>1. x.tell \in [seq : Seqs, reg : Nat] \cup {Nothing} /\ x.tell # Nothing
      BY <1>3, <2>1, ReaderTypes DEF ReaderOK, PlaceOK
    <3> QED
      BY <3>1
  <2>4. shared' = [shared EXCEPT !.wantReg = n]
    BY <1>2, <1>7, <2>3 DEF StoreRegion
  <2>5. /\ shared' \in SharedRec /\ shared'.rolled = shared.rolled
        /\ shared'.ready = shared.ready /\ shared'.next = shared.next
    BY <1>3, <2>4 DEF SharedRec
  <2>6. SharedOK(h, shared', m, w)
    BY <1>3, <2>5, WantedOK
  <2> QED
    BY <2>2, <2>6
<1>8. CASE StoreSequence
  <2>1. x.pc = "store_sequence"
    BY <1>2, <1>8 DEF StoreSequence
  <2>2. x.tell \in [seq : Seqs, reg : Nat] /\ x.call # ""
    BY <1>3, <2>1, ReaderTypes DEF ReaderOK, PlaceOK
  <2>3. PICK n \in Seqs : n = x.tell.seq
    BY <2>2
  <2>4. shared' = [shared EXCEPT !.wantSeq = n]
    BY <1>2, <1>8, <2>3 DEF StoreSequence
  <2>5. /\ shared' \in SharedRec /\ shared'.rolled = shared.rolled
        /\ shared'.ready = shared.ready /\ shared'.next = shared.next
    BY <1>3, <2>4 DEF SharedRec
  <2>6. SharedOK(h, shared', m, w)
    BY <1>3, <2>5, WantedOK
  <2>7. ReaderOK(r', m, w) /\ (~r'.ahead \/ Follows(x, r'))
    <3>1. CASE x.tell.reg = 0 /\ x.call = "batch"
      <4>1. r' = Returned(x)
        BY <1>2, <1>8, <3>1 DEF StoreSequence
      <4>2. ~Scanning(x) /\ ~Moving(x)
        BY <2>1, <3>1 DEF Scanning, Done, Moving
      <4>3. Settled(x, m, w)
        BY <1>3, <2>1, <4>2, SettledOf
      <4> QED
        BY <4>1, <4>3, ReturnedOK
    <3>2. CASE x.tell.reg = 0 /\ x.call # "batch"
      <4>1. r' = [x EXCEPT !.pc = "scan", !.tell = Nothing]
        BY <1>2, <1>8, <3>2 DEF StoreSequence
      <4> QED
        BY <1>3, <2>1, <3>2, <4>1, ToldRollOK
    <3>3. CASE x.tell.reg # 0 /\ x.call = "batch"
      <4>1. r' = [[x EXCEPT !.pc = "scan", !.tell = Nothing] EXCEPT !.scan = After(@)]
        BY <1>2, <1>8, <3>3 DEF StoreSequence
      <4> QED
        BY <1>3, <2>1, <3>3, <4>1, ToldBatchOK
    <3>4. CASE x.tell.reg # 0 /\ x.call # "batch"
      <4>1. r' = RetireAllButLast([[x EXCEPT !.pc = "scan", !.tell = Nothing]
                                     EXCEPT !.at = After(@)])
        BY <1>2, <1>8, <3>4 DEF StoreSequence
      <4> QED
        BY <1>3, <2>1, <3>4, <4>1, ToldSingleOK
    <3> QED
      BY <3>1, <3>2, <3>3, <3>4
  <2> QED
    BY <2>6, <2>7
<1> QED
  BY <1>6, <1>7, <1>8

-----------------------------------------------------------------------------
(* The theorems *)

\* The invariant holds at the start.
LEMMA InitInv ==
  ASSUME Init
  PROVE  Inv
<1>1. 0 \in Seqs /\ \A s \in Seqs : s \in Nat
  BY LayoutAssumption DEF Seqs
<1>2. PICK p : p = Start(0)
  OBVIOUS
<1>3. Valid(p) /\ p \in Position /\ p.seq = 0 /\ p.reg = 0 /\ Index(p) = 0
  <2>1. Base(0) = 0
    BY DEF Base
  <2> QED
    BY <1>1, <1>2, <2>1, ValidStart
<1>4. made = [s \in Seqs |-> IF s = 0 THEN 1 ELSE 0] /\ named = made /\ wpos = p
  BY <1>2 DEF Init
<1>5. made \in [Seqs -> Nat] /\ made[0] = 1
  BY <1>1, <1>4
<1>6. DiskOK
  <2>1. \A s \in Seqs : s <= wpos.seq => s = 0
    BY <1>1, <1>3, <1>4
  <2>2. \A s \in Seqs : /\ named[s] = NoFile \/ named[s] = made[s]
                        /\ s <= wpos.seq => made[s] # NoFile
    BY <1>4, <1>5, <2>1 DEF NoFile
  <2> QED
    BY <1>3, <1>4, <1>5, <2>2 DEF DiskOK
<1>7. PICK k \in RegionRec : k = Region(0, 0, 1) /\ k.seq = 0 /\ k.file = 1
  BY <1>1, RegionFacts
<1>8. PICK ms : ms = <<k>> /\ ms \in Seq(RegionRec) /\ Len(ms) = 1 /\ ms[1] = k /\ DOMAIN ms = {1}
  <2>1. PICK ms : ms = <<k>>
    OBVIOUS
  <2>2. ms \in Seq(RegionRec) /\ Len(ms) = 1 /\ ms[1] = k
    BY <2>1
  <2>3. DOMAIN ms = {1}
    BY <2>2
  <2> QED
    BY <2>1, <2>2, <2>3
<1>9. PICK e : e = <<>> /\ e \in Seq(LentRec) /\ e \in Seq(OwnedRec)
  <2>1. PICK e : e = <<>>
    OBVIOUS
  <2>2. e \in Seq(LentRec) /\ e \in Seq(OwnedRec)
    BY <2>1
  <2> QED
    BY <2>1, <2>2
<1>10. PICK x : x = [pc |-> "idle", call |-> "", max |-> 0, at |-> p, file |-> 1,
                     position |-> 0, given |-> 0, maps |-> ms, held |-> {},
                     batch |-> e, out |-> e,
                     scan |-> p, scanFile |-> 1, scanPosition |-> 0, crossed |-> FALSE,
                     ahead |-> FALSE, tell |-> Nothing]
  OBVIOUS
<1>11. x \in ReaderRec
  BY <1>3, <1>8, <1>9, <1>10 DEF ReaderRec
<1>12. /\ x.at = p /\ x.file = 1 /\ x.position = 0 /\ x.given = 0 /\ x.maps = ms /\ x.held = {}
       /\ x.batch = e /\ x.out = e
  BY <1>10
<1>13. r = Idle(x)
  BY <1>2, <1>7, <1>8, <1>9, <1>10 DEF Init
<1>14. Settled(x, made, wpos.seq)
  <2>1. /\ Valid(x.at) /\ x.at.seq <= wpos.seq /\ x.file = made[x.at.seq]
        /\ x.position = Index(x.at) /\ x.given = x.position
    BY <1>3, <1>4, <1>5, <1>12
  <2>2. FilesOK(x, made, wpos.seq)
    BY <1>3, <1>4, <1>5, <1>7, <1>8, <1>12 DEF FilesOK
  <2>3. Last(x.maps) = k /\ k = RegionOf(x.at, made)
    BY <1>3, <1>5, <1>7, <1>8, <1>12 DEF Last, RegionOf
  <2>4. LentOK(x, made, x.position - Len(x.batch)) /\ OwnedOK(x, made, wpos.seq)
    BY <1>9, <1>12 DEF LentOK, OwnedOK
  <2>5. UpTo(x.at, made, x.held \cup Mapped(x))
    <3>1. k \in Mapped(x)
      BY <1>8, <1>12 DEF Mapped
    <3>2. \A i \in 0..0 : i = 0
      OBVIOUS
    <3> QED
      BY <1>3, <1>5, <1>7, <1>12, <3>1, <3>2 DEF UpTo
  <2> QED
    BY <1>9, <1>11, <1>12, <2>1, <2>2, <2>3, <2>4, <2>5 DEF Settled
<1>15. ReaderOK(r, made, wpos.seq) /\ ~r.ahead
  BY <1>13, <1>14, IdleOK
<1>16. PICK f : f = [seq |-> 0, file |-> 1] /\ f \in FileRec /\ f.seq = 0 /\ f.file = 1
  <2>1. PICK f : f = [seq |-> 0, file |-> 1]
    OBVIOUS
  <2>2. f \in FileRec /\ f.seq = 0 /\ f.file = 1
    BY <1>1, <2>1 DEF FileRec
  <2> QED
    BY <2>1, <2>2
<1>17. /\ shared = [wantSeq |-> 0, wantReg |-> 1, rolled |-> f, ready |-> Nothing, next |-> Nothing]
       /\ h = [pc |-> "top", segment |-> Nothing, upcoming |-> Nothing, opened |-> Nothing,
               done |-> Nothing, seq |-> 0, reg |-> 0]
  BY <1>16 DEF Init
<1>18. SharedOK(h, shared, made, wpos.seq)
  <2>1. h \in HelperRec /\ shared \in SharedRec
    BY <1>1, <1>16, <1>17 DEF HelperRec, SharedRec
  <2>2. FileOK(shared.ready, made, wpos.seq) /\ FileOK(h.segment, made, wpos.seq)
    BY <1>17 DEF FileOK
  <2>3. /\ shared.rolled.seq <= wpos.seq /\ shared.rolled.file = made[shared.rolled.seq]
        /\ shared.rolled.file # NoFile
    BY <1>3, <1>4, <1>5, <1>16, <1>17 DEF NoFile
  <2>4. h.pc = "top" /\ shared.next = Nothing
    BY <1>17
  <2> QED
    BY <2>1, <2>2, <2>3, <2>4 DEF SharedOK
<1> QED
  BY <1>6, <1>15, <1>18 DEF Inv, AheadOK

\* Every step keeps it.
LEMMA NextInv ==
  ASSUME Inv, [Next]_vars
  PROVE  Inv'
<1>1. CASE UNCHANGED vars
  <2>1. /\ wpos' = wpos /\ made' = made /\ named' = named /\ r' = r /\ shared' = shared /\ h' = h
    BY <1>1 DEF vars, disk
  <2>2. DiskOK'
    BY <2>1 DEF Inv, DiskOK
  <2>3. /\ ReaderOK(r', made', wpos'.seq) /\ SharedOK(h', shared', made', wpos'.seq)
        /\ AheadOK(r', h', made')
    BY <2>1 DEF Inv
  <2> QED
    BY <2>2, <2>3 DEF Inv
<1>2. CASE WriterStep
  BY <1>2, WriterInv
<1>3. CASE ReaderCalled
  BY <1>3, CalledInv
<1>4. CASE ReaderStep
  BY <1>4, RecordInv, RegionInv, OpenInv, TellInv DEF ReaderStep
<1>5. CASE HelperStep
  BY <1>5, HelperInv
<1> QED
  BY <1>1, <1>2, <1>3, <1>4, <1>5 DEF Next

\* What the reader has mapped, lent, handed over and kept is what the writers published, wherever
\* the writers, the reader and its helper are, and whatever failed before.
THEOREM ReaderMapsInvariant == Spec => []Inv
<1>1. Init => Inv
  BY InitInv
<1>2. Inv /\ [Next]_vars => Inv'
  BY NextInv
<1> QED
  BY <1>1, <1>2, PTL DEF Spec

\* A reader's mappings are of the files its Rolls name, in and between its calls, and between them
\* so are the regions of the records it has lent (message_at) or handed over (try_read_owned),
\* whatever its helper opened of successors that were discarded.
THEOREM MappingsAreRead == Spec => []MappedIsRead
<1>1. Inv => MappedIsRead
  <2> SUFFICES ASSUME Inv PROVE MappedIsRead
    OBVIOUS
  <2>1. ReaderOK(r, made, wpos.seq)
    BY DEF Inv
  <2>2. \A i \in DOMAIN r.maps : r.maps[i].file = made[r.maps[i].seq]
    BY <2>1 DEF ReaderOK, MapsOK, FilesOK
  <2>3. ASSUME r.pc = "idle"
        PROVE  /\ Last(r.maps) = Region(r.at.seq, r.at.reg, r.file)
               /\ \A i \in DOMAIN r.batch :
                    /\ r.batch[i].map \in DOMAIN r.maps
                    /\ MessageAt(r.batch[i]) = Region(r.batch[i].pos.seq, r.batch[i].pos.reg,
                                                      made[r.batch[i].pos.seq])
               /\ \A i \in DOMAIN r.out :
                    r.out[i].region = Region(r.out[i].pos.seq, r.out[i].pos.reg,
                                             made[r.out[i].pos.seq])
    <3>1. r.call = "" /\ ~Moving(r) /\ Cur(r) = r.at /\ r.file = made[r.at.seq]
      BY <2>1, <2>3 DEF ReaderOK, PlaceOK, Moving, Cur
    <3>2. Last(r.maps) = Region(r.at.seq, r.at.reg, r.file)
      BY <2>1, <3>1 DEF ReaderOK, MapsOK, RegionOf
    <3>3. ASSUME NEW i \in DOMAIN r.batch
          PROVE  /\ r.batch[i].map \in DOMAIN r.maps
                 /\ MessageAt(r.batch[i]) = Region(r.batch[i].pos.seq, r.batch[i].pos.reg,
                                                   made[r.batch[i].pos.seq])
      BY <2>1 DEF ReaderOK, GivenOK, LentOK, RegionOf, MessageAt
    <3>4. ASSUME NEW i \in DOMAIN r.out
          PROVE  r.out[i].region = Region(r.out[i].pos.seq, r.out[i].pos.reg,
                                          made[r.out[i].pos.seq])
      BY <2>1 DEF ReaderOK, GivenOK, OwnedOK, RegionOf
    <3> QED
      BY <3>2, <3>3, <3>4
  <2> QED
    BY <2>2, <2>3 DEF MappedIsRead
<1> QED
  BY <1>1, ReaderMapsInvariant, PTL

\* Unmap::AtFileRoll keeps every region of the segment being read until the roll, and of those
\* before it nothing.
THEOREM RegionsKept == Spec => []KeptUntilRoll
<1>1. Inv => KeptUntilRoll
  <2> SUFFICES ASSUME Inv PROVE KeptUntilRoll
    OBVIOUS
  <2>1. ReaderOK(r, made, wpos.seq)
    BY DEF Inv
  <2>2. \A k \in r.held : k.seq = r.at.seq \/ r.pc = "tell"
    BY <2>1 DEF ReaderOK, KeptOK
  <2>3. ASSUME Unmap = "AtFileRoll", r.pc = "idle", NEW i \in 0..r.at.reg
        PROVE  Region(r.at.seq, i, r.file) \in r.held \cup {r.maps[j] : j \in DOMAIN r.maps}
    <3>1. r.call = "" /\ ~Scanning(r) /\ r.file = made[r.at.seq]
      BY <2>1, <2>3 DEF ReaderOK, PlaceOK, Scanning
    <3>2. UpTo(r.at, made, r.held \cup Mapped(r))
      BY <2>1, <2>3, <3>1 DEF ReaderOK, KeptOK
    <3>3. Region(r.at.seq, i, made[r.at.seq]) \in r.held \cup Mapped(r)
      BY <3>2 DEF UpTo
    <3> QED
      BY <3>1, <3>3 DEF Mapped
  <2> QED
    BY <2>2, <2>3 DEF KeptUntilRoll
<1> QED
  BY <1>1, ReaderMapsInvariant, PTL

\* Every user record is given once and in order, by whichever of the reads, whatever fails.
THEOREM RecordsGivenOnce == Spec => []GivenOnce
<1>1. Inv => GivenOnce
  <2> SUFFICES ASSUME Inv, r.pc = "idle" PROVE GivenOnce
    BY DEF GivenOnce
  <2>1. ReaderOK(r, made, wpos.seq)
    BY DEF Inv
  <2>2. /\ r \in ReaderRec /\ r.position = Index(r.at) /\ r.given = r.position /\ ~Scanning(r)
    BY <2>1 DEF ReaderOK, PlaceOK, Scanning
  <2>3. r.given \in Nat
    BY <2>2, ReaderTypes
  <2>4. PICK b, o : /\ b = [i \in DOMAIN r.batch |-> r.batch[i].pos]
                    /\ o = [i \in DOMAIN r.out |-> r.out[i].pos]
    OBVIOUS
  <2>5. /\ b \in Seq(Position) /\ Len(b) = Len(r.batch) /\ DOMAIN b = DOMAIN r.batch
        /\ \A i \in DOMAIN b : Kind(b[i]) = "User" /\ Index(b[i]) = r.given - Len(b) + i - 1
    <3>1. /\ DOMAIN r.batch = 1..Len(r.batch) /\ Len(r.batch) \in Nat
          /\ \A i \in DOMAIN r.batch : r.batch[i].pos \in Position
      BY <2>2, ItemTypes DEF LentRec
    <3>2. b \in Seq(Position) /\ Len(b) = Len(r.batch) /\ DOMAIN b = DOMAIN r.batch
      BY <2>4, <3>1
    <3>3. LentOK(r, made, r.position - Len(r.batch))
      BY <2>1, <2>2 DEF ReaderOK, GivenOK
    <3>4. ASSUME NEW i \in DOMAIN b
          PROVE  Kind(b[i]) = "User" /\ Index(b[i]) = r.given - Len(b) + i - 1
      BY <2>2, <2>4, <3>2, <3>3 DEF LentOK
    <3> QED
      BY <3>2, <3>4
  <2>6. /\ o \in Seq(Position) /\ Len(o) = Len(r.out) /\ DOMAIN o = DOMAIN r.out
        /\ \A i \in DOMAIN o : Kind(o[i]) = "User" /\ Index(o[i]) = r.given - Len(o) + i - 1
    <3>1. /\ DOMAIN r.out = 1..Len(r.out) /\ Len(r.out) \in Nat
          /\ \A i \in DOMAIN r.out : r.out[i].pos \in Position
      BY <2>2, ItemTypes DEF OwnedRec
    <3>2. o \in Seq(Position) /\ Len(o) = Len(r.out) /\ DOMAIN o = DOMAIN r.out
      BY <2>4, <3>1
    <3>3. OwnedOK(r, made, wpos.seq)
      BY <2>1 DEF ReaderOK, GivenOK
    <3>4. ASSUME NEW i \in DOMAIN o
          PROVE  Kind(o[i]) = "User" /\ Index(o[i]) = r.given - Len(o) + i - 1
      BY <2>2, <2>4, <3>2, <3>3 DEF OwnedOK
    <3> QED
      BY <3>2, <3>4
  <2>7. b \o o = b \/ b \o o = o
    <3>1. r.batch = <<>> \/ r.out = <<>>
      BY <2>1 DEF ReaderOK, GivenOK
    <3>2. b = <<>> \/ o = <<>>
      BY <2>5, <2>6, <3>1, EmptySeq
    <3> QED
      BY <2>5, <2>6, <3>2, ConcatEmptySeq
  <2>8. \A i \in DOMAIN (b \o o) :
          Kind((b \o o)[i]) = "User" /\ Index((b \o o)[i]) = r.given - Len(b \o o) + i - 1
    BY <2>5, <2>6, <2>7
  <2> QED
    BY <2>2, <2>4, <2>8 DEF GivenOnce
<1> QED
  BY <1>1, ReaderMapsInvariant, PTL
=============================================================================
