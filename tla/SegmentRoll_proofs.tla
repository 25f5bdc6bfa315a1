------------------------- MODULE SegmentRoll_proofs --------------------------
(***************************************************************************)
(* Proofs about SegmentRoll, for any readers, any keep_files and any number*)
(* of segments, files, records, crashes and cleanups: a committed Roll     *)
(* leads to its successor for good, every open resumes the channel, and a  *)
(* reader is given the records of its own channel in order.  For a writer  *)
(* that does not crash, retention is exact and a Live open joins the tail. *)
(***************************************************************************)
EXTENDS SegmentRoll, FiniteSetTheorems, WellFoundedInduction, TLAPS

-----------------------------------------------------------------------------
(* The inductive invariant *)

RollingPc == {"installed", "staged", "stamped", "published", "committed"}
FinishPc == {"stranded", "finish_commit", "finish_wp"}
WriterPc == {"down", "genesis", "idle", "prune"} \cup FinishPc \cup RollingPc
LivePc == {"live_load", "live_next", "live_self", "live_slot", "stranded"}
GivenPc == {"scan", "overtaken", "error"}
ReaderPc == {"closed", "late_open", "live_open"} \cup LivePc \cup GivenPc

\* Every variable has the shape the code gives it; files are numbered as they are created.
ChannelType ==
  /\ dir \in [Seqs -> Created \cup {NoFile}]
  /\ \E n \in 0..MaxFiles : Created = 1..n
  /\ file \in [Created -> File]
  /\ epoch \in Nat /\ crashes \in Nat
  /\ pc \in WriterPc
  /\ wseq \in Seqs /\ winst \in Created \cup {NoFile} /\ winext \in Created \cup {NoFile}
ReadersType ==
  /\ rpc \in [Readers -> ReaderPc] /\ rseq \in [Readers -> Seqs]
  /\ rinst \in [Readers -> Created \cup {NoFile}] /\ rindex \in [Readers -> Nat]
  /\ rpast \in [Readers -> BOOLEAN] /\ repoch \in [Readers -> Nat]

\* File j was made to follow file p.
IsChild(p, j) ==
  /\ p \in Created /\ IsPublished(p)
  /\ file[j].seq = file[p].seq + 1 /\ file[j].epoch = file[p].epoch

\* The parent of file i ends where i starts, and its Roll names i: it was not written since.
IsEdge(i) ==
  LET p == file[i].parent IN
  file[p].rollTo = i /\ file[i].base = End(p) /\ file[p].rollBase = End(p)

\* Who made what: a file follows a published one of its channel, or is initial; one that is
\* published is what its parent's Roll names; a committed Roll names a published file.
Lineage(i) ==
  /\ file[i].epoch <= epoch
  /\ IF file[i].seq = 0 THEN file[i].parent = NoFile ELSE IsChild(file[i].parent, i)
RollNames(i) ==
  LET j == file[i].rollTo IN j \in Created /\ file[j].parent = i /\ IsPublished(j)
StateOK(i) ==
  /\ ~IsPublished(i) => ~file[i].rolled /\ file[i].count = 0
  /\ file[i].past => file[i].rolled
FilesOK ==
  \A i \in Created :
    /\ Lineage(i) /\ StateOK(i)
    /\ IsPublished(i) /\ file[i].seq > 0 => IsEdge(i)
    /\ file[i].rolled => RollNames(i)

\* At most one published file of each sequence in each channel.
OnePublished ==
  \A i \in Created, j \in Created :
    IsPublished(i) /\ IsPublished(j) /\ file[i].seq = file[j].seq /\ file[i].epoch = file[j].epoch
      => i = j

\* Names lead to files of this channel; only the newest may be unpublished; and a published file,
\* on disk or not, is never newer than the newest published name.
NamesOK ==
  /\ \A s \in Present : file[dir[s]].seq = s /\ file[dir[s]].epoch = epoch
  /\ \A s \in Present, t \in Present : s < t => PublishedName(s)
  /\ \A i \in Created : IsPublished(i) /\ file[i].epoch = epoch =>
       \E s \in Present : PublishedName(s) /\ file[i].seq <= s

\* A segment two behind another name ends in a committed Roll, with the position past it.
Finished(s) == file[dir[s]].rolled /\ file[dir[s]].past
FinishedOK == \A s \in Present, t \in Present : s + 1 < t => Finished(s)

\* How far the writer, or the open that replaces it, has got.
WriterOK ==
  /\ pc \notin {"down"} \cup RollingPc => \A s \in Present : s <= wseq
  /\ pc # "down" => wseq \in Present /\ dir[wseq] = winst
  /\ pc = "genesis" => wseq = 0 /\ ~IsPublished(winst)
  /\ pc \notin {"down", "genesis"} => IsPublished(winst)
  /\ pc \notin {"down"} \cup FinishPc => \A s \in Present : s < wseq => Finished(s)
  /\ pc \in FinishPc => wseq > 0 /\ wseq - 1 \in Present
  /\ pc = "finish_wp" => file[dir[wseq - 1]].rolled
  /\ pc \in RollingPc =>
       /\ wseq + 1 \in Present /\ dir[wseq + 1] = winext
       /\ \A s \in Present : s <= wseq + 1
       /\ file[winext].parent = winst
       /\ IsPublished(winext) <=> pc \in {"published", "committed"}
       /\ pc # "installed" => file[winst].rollTo = winext /\ file[winst].rollBase = End(winst)
       /\ pc = "stamped" => file[winext].base = End(winst)
       /\ pc = "committed" => file[winst].rolled

\* What a reader has open was published when it opened it, and it is within it; what it was given
\* is of that file's channel; a Roll it refuses is of a channel that is gone.
ReaderOK(r) ==
  /\ rpc[r] \in LivePc \cup GivenPc =>
       rinst[r] \in Created /\ IsPublished(rinst[r]) /\ file[rinst[r]].seq = rseq[r]
  /\ rpc[r] \in GivenPc \cup (LivePc \ {"live_load"}) =>
       file[rinst[r]].base <= rindex[r] /\ rindex[r] <= End(rinst[r])
  /\ rpc[r] \in GivenPc => file[rinst[r]].epoch = repoch[r]
  /\ rpc[r] = "error" => repoch[r] < epoch
ReadersOK == \A r \in Readers : ReaderOK(r)

ChannelInv == ChannelType /\ FilesOK /\ OnePublished /\ NamesOK /\ FinishedOK /\ WriterOK
IInv == ChannelInv /\ ReadersType /\ ReadersOK

\* Without a crash no channel is left to clean up, and retention unlinks oldest first: the names
\* on disk are those of a window.
WindowOK ==
  /\ pc = "down" => Present = {}
  /\ epoch = 0 /\ pc \notin FinishPc
  /\ \A s \in Present, t \in Present : \A u \in s..t : u \in Present
  /\ KeepFiles > 0 /\ pc # "down" =>
       \A s \in Present : s > wseq - KeepFiles - (IF pc = "prune" THEN 1 ELSE 0)

\* A Live open that loaded a position past the Roll did so in a rolled segment; past the first
\* check its name is gone.
LiveOK(r) ==
  /\ rpc[r] \in {"live_next", "live_self", "live_slot"} /\ rpast[r] => file[rinst[r]].rolled
  /\ rpc[r] = "live_self" /\ rpast[r] => rseq[r] \notin Present
  /\ rpc[r] = "live_slot" => ~rpast[r]
  /\ rpc[r] # "stranded"

CInv == WindowOK /\ \A r \in Readers : LiveOK(r)

-----------------------------------------------------------------------------
(* Files and their numbers *)

USE BoundsAssumption DEF Seqs

\* The next number is free, and with it the numbers have no gap.
LEMMA FreshFacts ==
  ASSUME ChannelType
  PROVE  /\ Fresh \in Nat \ {0} /\ Fresh \notin Created /\ Created \cup {Fresh} = 1..Fresh
         /\ NoFile \notin Created /\ Created \subseteq Nat
         /\ \A i \in Created : i < Fresh
<1>1. PICK n \in 0..MaxFiles : Created = 1..n
  BY DEF ChannelType
<1>2. Cardinality(1..n) = n
  BY FS_Interval
<1>3. Fresh = n + 1
  BY <1>1, <1>2 DEF Fresh
<1> QED
  BY <1>1, <1>3 DEF NoFile

\* What a file's fields can hold.
LEMMA FileFields ==
  ASSUME ChannelType, NEW i \in Created
  PROVE  /\ file[i] \in File /\ i \in Nat /\ i # NoFile
         /\ file[i].seq \in Seqs /\ file[i].parent \in 0..MaxFiles /\ file[i].published \in BOOLEAN
         /\ file[i].base \in Nat /\ file[i].count \in Nat /\ file[i].rollTo \in 0..MaxFiles
         /\ file[i].rollBase \in Nat /\ file[i].rolled \in BOOLEAN /\ file[i].past \in BOOLEAN
         /\ file[i].epoch \in Nat /\ End(i) \in Nat
<1>1. file[i] \in File
  BY DEF ChannelType, Created
<1>2. i \in Nat /\ i # NoFile
  BY FreshFacts
<1> QED
  BY <1>1, <1>2 DEF File, End

\* A step that changes one file leaves the others, and their number, alone.
LEMMA Updated ==
  ASSUME ChannelType, NEW i \in Created, NEW v \in File, file' = [file EXCEPT ![i] = v]
  PROVE  /\ Created' = Created /\ file' \in [Created' -> File]
         /\ file'[i] = v
         /\ \A j \in Created : j # i => file'[j] = file[j]
         /\ \E n \in 0..MaxFiles : Created' = 1..n
<1>1. Created' = Created
  BY DEF ChannelType, Created
<1> QED
  BY <1>1 DEF ChannelType, Created

\* A step that creates a file leaves the others alone.
LEMMA Made ==
  ASSUME ChannelType, Fresh <= MaxFiles, NEW v \in File, file' = WithFile(file, Fresh, v)
  PROVE  /\ Created' = Created \cup {Fresh} /\ file' \in [Created' -> File]
         /\ file'[Fresh] = v
         /\ \A j \in Created : file'[j] = file[j]
         /\ \E n \in 0..MaxFiles : Created' = 1..n
<1>1. Created' = Created \cup {Fresh}
  BY DEF WithFile, Created
<1>2. Fresh \notin Created /\ Fresh \in Nat \ {0} /\ Created \cup {Fresh} = 1..Fresh
  BY FreshFacts
<1>3. file'[Fresh] = v /\ \A j \in Created : file'[j] = file[j]
  BY <1>2 DEF WithFile, Created
<1>4. file' \in [Created' -> File]
  <2>1. file' = [j \in Created' |-> IF j = Fresh THEN v ELSE file[j]]
    BY <1>1 DEF WithFile, Created
  <2>2. \A j \in Created' : (IF j = Fresh THEN v ELSE file[j]) \in File
    BY <1>1, <1>2 DEF ChannelType
  <2> QED
    BY <2>1, <2>2
<1>5. Fresh \in 0..MaxFiles /\ Created' = 1..Fresh
  BY <1>1, <1>2
<1> QED
  BY <1>1, <1>3, <1>4, <1>5

\* A name leads to a file.
LEMMA NameFacts ==
  ASSUME ChannelType
  PROVE  /\ \A s \in Present : s \in Seqs /\ s \in Nat /\ dir[s] \in Created
         /\ \A s \in Seqs : s \notin Present => dir[s] = NoFile
         /\ Present \subseteq Seqs
BY FreshFacts DEF ChannelType, Present

\* The newest name.
LEMMA LatestFacts ==
  ASSUME ChannelType, Present # {}
  PROVE  Latest \in Present /\ \A t \in Present : t <= Latest
<1> DEFINE R == OpToRel(<, Nat)
           T == {MaxSeq - s : s \in Present}
<1>1. \A s \in Present : s \in 0..MaxSeq
  BY DEF Present
<1>2. \A m \in Nat, n \in Nat : <<m, n>> \in R <=> m < n
  BY DEF OpToRel
<1>3. T \subseteq Nat /\ T # {}
  BY <1>1
<1>4. IsWellFoundedOn(R, Nat)
  BY NatLessThanWellFounded
<1> HIDE DEF R, T
<1>5. PICK x \in T : \A y \in T : ~(<<y, x>> \in R)
  BY <1>3, <1>4, WFMin
<1>6. ASSUME NEW y \in T PROVE x <= y
  <2>1. x \in Nat /\ y \in Nat
    BY <1>3
  <2>2. ~(<<y, x>> \in R)
    BY <1>5
  <2> QED
    BY <1>2, <2>1, <2>2
<1>7. PICK m \in Present : x = MaxSeq - m
  BY DEF T
<1>8. \A t \in Present : t <= m
  <2> SUFFICES ASSUME NEW t \in Present PROVE t <= m
    OBVIOUS
  <2>1. MaxSeq - t \in T
    BY DEF T
  <2> QED
    BY <1>1, <1>6, <1>7, <2>1
<1> QED
  BY <1>8 DEF Latest

-----------------------------------------------------------------------------
(* What a writer may rely on *)

\* An open writer is on a file of this channel, published, with its own name.
LEMMA OwnFile ==
  ASSUME ChannelInv, pc # "down"
  PROVE  /\ wseq \in Present /\ dir[wseq] = winst /\ winst \in Created
         /\ file[winst].seq = wseq /\ file[winst].epoch = epoch /\ wseq \in Nat
BY NameFacts DEF ChannelInv, WriterOK, NamesOK

\* A published file of this channel is not newer than every published name.
LEMMA NotNewer ==
  ASSUME ChannelInv, NEW i \in Created, IsPublished(i), file[i].epoch = epoch,
         NEW s \in Seqs, \A t \in Present : PublishedName(t) => t <= s
  PROVE  file[i].seq <= s
<1>1. PICK t \in Present : PublishedName(t) /\ file[i].seq <= t
  BY DEF ChannelInv, NamesOK
<1>2. t \in Nat /\ file[i].seq \in Nat /\ s \in Nat
  BY NameFacts, FileFields DEF ChannelInv
<1> QED
  BY <1>1, <1>2

\* A file with no newer published name has no published successor, and no committed Roll.
LEMMA Childless ==
  ASSUME ChannelInv, NEW i \in Created, file[i].epoch = epoch,
         \A t \in Present : PublishedName(t) => t <= file[i].seq
  PROVE  /\ \A j \in Created : file[j].parent = i => ~IsPublished(j)
         /\ ~file[i].rolled
<1>0. ChannelType /\ i # NoFile /\ file[i].seq \in Seqs
  BY FileFields DEF ChannelInv
<1>1. ASSUME NEW j \in Created, file[j].parent = i, IsPublished(j) PROVE FALSE
  <2>1. file[j].seq = file[i].seq + 1 /\ file[j].epoch = epoch
    BY <1>0, <1>1 DEF ChannelInv, FilesOK, Lineage, IsChild
  <2>2. file[j].seq <= file[i].seq
    BY <1>0, <1>1, <2>1, NotNewer
  <2> QED
    BY <1>0, <2>1, <2>2
<1>2. ~file[i].rolled
  BY <1>1 DEF ChannelInv, FilesOK, RollNames
<1> QED
  BY <1>1, <1>2

\* The segment a writer may still write has no published successor, and no committed Roll.
LEMMA StillOpen ==
  ASSUME ChannelInv, pc \in {"idle", "prune", "installed", "staged", "stamped"} \cup FinishPc
  PROVE  /\ \A t \in Present : PublishedName(t) => t <= wseq
         /\ \A j \in Created : file[j].parent = winst => ~IsPublished(j)
         /\ ~file[winst].rolled
<1>1. winst \in Created /\ file[winst].seq = wseq /\ file[winst].epoch = epoch
  BY OwnFile DEF FinishPc
<1>2. ASSUME NEW t \in Present, PublishedName(t) PROVE t <= wseq
  <2>1. t \in Nat /\ wseq \in Nat
    BY NameFacts DEF ChannelInv, ChannelType
  <2>2. CASE pc \in {"idle", "prune"} \cup FinishPc
    BY <2>2 DEF ChannelInv, WriterOK, RollingPc, FinishPc
  <2>3. CASE pc \in {"installed", "staged", "stamped"}
    <3>1. t <= wseq + 1 /\ dir[wseq + 1] = winext /\ ~IsPublished(winext)
      BY <2>3 DEF ChannelInv, WriterOK, RollingPc
    <3>2. t # wseq + 1
      BY <1>2, <3>1 DEF PublishedName
    <3> QED
      BY <2>1, <3>1, <3>2
  <2> QED
    BY <2>2, <2>3
<1> QED
  BY <1>1, <1>2, Childless

\* The predecessor of a published name is the file its Roll is in.
LEMMA Predecessor ==
  ASSUME ChannelInv, NEW s \in Present, s > 0, s - 1 \in Present, PublishedName(s)
  PROVE  /\ file[dir[s]].parent = dir[s - 1] /\ IsPublished(dir[s - 1])
         /\ file[dir[s - 1]].rollTo = dir[s] /\ file[dir[s]].base = End(dir[s - 1])
         /\ file[dir[s - 1]].rollBase = End(dir[s - 1])
<1> DEFINE i == dir[s]
           p == dir[s - 1]
           q == file[i].parent
<1>1. i \in Created /\ p \in Created /\ s \in Nat
  BY NameFacts DEF ChannelInv
<1>2. /\ file[i].seq = s /\ file[i].epoch = epoch /\ IsPublished(i)
      /\ file[p].seq = s - 1 /\ file[p].epoch = epoch /\ IsPublished(p)
  BY <1>1 DEF ChannelInv, NamesOK, PublishedName
<1>3. q \in Created /\ IsPublished(q) /\ s = file[q].seq + 1 /\ file[q].epoch = epoch
  BY <1>1, <1>2 DEF ChannelInv, FilesOK, Lineage, IsChild
<1>4. file[q].rollTo = i /\ file[i].base = End(q) /\ file[q].rollBase = End(q)
  BY <1>1, <1>2 DEF ChannelInv, FilesOK, IsEdge
<1>5. file[q].seq = s - 1
  BY <1>1, <1>3, FileFields DEF ChannelInv
<1>6. p = q
  BY <1>1, <1>2, <1>3, <1>5 DEF ChannelInv, OnePublished
<1> QED
  BY <1>2, <1>4, <1>6

-----------------------------------------------------------------------------
(* What each store changes *)

\* The fields of a file that no store changes.
SameIdentity(j) ==
  file'[j].seq = file[j].seq /\ file'[j].parent = file[j].parent /\ file'[j].epoch = file[j].epoch
SameRecords(j) == file'[j].base = file[j].base /\ file'[j].count = file[j].count
SameRoll(j) ==
  file'[j].rollTo = file[j].rollTo /\ file'[j].rollBase = file[j].rollBase
SameState(j) ==
  /\ (file'[j].published <=> file[j].published)
  /\ (file'[j].rolled <=> file[j].rolled) /\ (file'[j].past <=> file[j].past)

SameFiles == Created' = Created /\ file' \in [Created' -> File] /\ \E n \in 0..MaxFiles : Created' = 1..n

\* Publishing a file changes its publication_state alone.
LEMMA PublishFacts ==
  ASSUME ChannelType, NEW i \in Created, Publish(i)
  PROVE  /\ SameFiles
         /\ \A j \in Created :
              /\ SameIdentity(j) /\ SameRecords(j) /\ SameRoll(j) /\ End(j)' = End(j)
              /\ (file'[j].rolled <=> file[j].rolled) /\ (file'[j].past <=> file[j].past)
              /\ file'[j].published <=> file[j].published \/ j = i
<1> DEFINE v == [file[i] EXCEPT !.published = TRUE]
<1>1. file[i] \in File
  BY FileFields
<1>2. v \in File /\ v.published = TRUE /\ v.seq = file[i].seq /\ v.parent = file[i].parent
      /\ v.epoch = file[i].epoch /\ v.base = file[i].base /\ v.count = file[i].count
      /\ v.rollTo = file[i].rollTo /\ v.rollBase = file[i].rollBase
      /\ v.rolled = file[i].rolled /\ v.past = file[i].past
  BY <1>1 DEF File
<1>3. file' = [file EXCEPT ![i] = v]
  BY DEF Publish
<1> HIDE DEF v
<1>4. SameFiles /\ file'[i] = v /\ \A j \in Created : j # i => file'[j] = file[j]
  BY <1>2, <1>3, Updated DEF SameFiles
<1>5. ASSUME NEW j \in Created PROVE file[j].published \in BOOLEAN
  BY FileFields
<1> QED
  BY <1>2, <1>4, <1>5 DEF SameIdentity, SameRecords, SameRoll, End

\* Committing a Roll changes its header alone.
LEMMA RolledFacts ==
  ASSUME ChannelType, NEW i \in Created, file' = [file EXCEPT ![i].rolled = TRUE]
  PROVE  /\ SameFiles
         /\ \A j \in Created :
              /\ SameIdentity(j) /\ SameRecords(j) /\ SameRoll(j) /\ End(j)' = End(j)
              /\ (file'[j].published <=> file[j].published) /\ (file'[j].past <=> file[j].past)
              /\ file'[j].rolled <=> file[j].rolled \/ j = i
<1> DEFINE v == [file[i] EXCEPT !.rolled = TRUE]
<1>1. file[i] \in File
  BY FileFields
<1>2. v \in File /\ v.rolled = TRUE /\ v.seq = file[i].seq /\ v.parent = file[i].parent
      /\ v.epoch = file[i].epoch /\ v.base = file[i].base /\ v.count = file[i].count
      /\ v.rollTo = file[i].rollTo /\ v.rollBase = file[i].rollBase
      /\ v.published = file[i].published /\ v.past = file[i].past
  BY <1>1 DEF File
<1>3. file' = [file EXCEPT ![i] = v]
  OBVIOUS
<1> HIDE DEF v
<1>4. SameFiles /\ file'[i] = v /\ \A j \in Created : j # i => file'[j] = file[j]
  BY <1>2, <1>3, Updated DEF SameFiles
<1>5. ASSUME NEW j \in Created PROVE file[j].rolled \in BOOLEAN
  BY FileFields
<1> QED
  BY <1>2, <1>4, <1>5 DEF SameIdentity, SameRecords, SameRoll, End

\* Moving the position past a Roll changes write_position alone.
LEMMA PastFacts ==
  ASSUME ChannelType, NEW i \in Created, file' = [file EXCEPT ![i].past = TRUE]
  PROVE  /\ SameFiles
         /\ \A j \in Created :
              /\ SameIdentity(j) /\ SameRecords(j) /\ SameRoll(j) /\ End(j)' = End(j)
              /\ (file'[j].published <=> file[j].published) /\ (file'[j].rolled <=> file[j].rolled)
              /\ file'[j].past <=> file[j].past \/ j = i
<1> DEFINE v == [file[i] EXCEPT !.past = TRUE]
<1>1. file[i] \in File
  BY FileFields
<1>2. v \in File /\ v.past = TRUE /\ v.seq = file[i].seq /\ v.parent = file[i].parent
      /\ v.epoch = file[i].epoch /\ v.base = file[i].base /\ v.count = file[i].count
      /\ v.rollTo = file[i].rollTo /\ v.rollBase = file[i].rollBase
      /\ v.published = file[i].published /\ v.rolled = file[i].rolled
  BY <1>1 DEF File
<1>3. file' = [file EXCEPT ![i] = v]
  OBVIOUS
<1> HIDE DEF v
<1>4. SameFiles /\ file'[i] = v /\ \A j \in Created : j # i => file'[j] = file[j]
  BY <1>2, <1>3, Updated DEF SameFiles
<1>5. ASSUME NEW j \in Created PROVE file[j].past \in BOOLEAN
  BY FileFields
<1> QED
  BY <1>2, <1>4, <1>5 DEF SameIdentity, SameRecords, SameRoll, End

\* Staging a Roll changes what the slot after the last record holds.
LEMMA StageFacts ==
  ASSUME ChannelType, NEW i \in Created, NEW k \in Created, NEW b \in Nat,
         file' = [file EXCEPT ![i].rollTo = k, ![i].rollBase = b]
  PROVE  /\ SameFiles
         /\ \A j \in Created :
              /\ SameIdentity(j) /\ SameRecords(j) /\ SameState(j) /\ End(j)' = End(j)
              /\ j # i => SameRoll(j)
         /\ file'[i].rollTo = k /\ file'[i].rollBase = b
<1> DEFINE v == [file[i] EXCEPT !.rollTo = k, !.rollBase = b]
<1>1. file[i] \in File
  BY FileFields
<1>2. k \in 0..MaxFiles
  BY DEF ChannelType
<1>3. v \in File /\ v.rollTo = k /\ v.rollBase = b /\ v.seq = file[i].seq
      /\ v.parent = file[i].parent
      /\ v.epoch = file[i].epoch /\ v.base = file[i].base /\ v.count = file[i].count
      /\ v.published = file[i].published /\ v.rolled = file[i].rolled /\ v.past = file[i].past
  BY <1>1, <1>2 DEF File
<1>4. file' = [file EXCEPT ![i] = v]
  BY DEF ChannelType, Created
<1> HIDE DEF v
<1>5. SameFiles /\ file'[i] = v /\ \A j \in Created : j # i => file'[j] = file[j]
  BY <1>3, <1>4, Updated DEF SameFiles
<1> QED
  BY <1>3, <1>5 DEF SameIdentity, SameRecords, SameRoll, SameState, End

\* Appending a record overwrites a Roll staged in its slot.
LEMMA AppendFacts ==
  ASSUME ChannelType, NEW i \in Created,
         file' = [file EXCEPT ![i].count = @ + 1, ![i].rollTo = NoFile, ![i].rollBase = 0]
  PROVE  /\ SameFiles
         /\ \A j \in Created :
              /\ SameIdentity(j) /\ SameState(j) /\ file'[j].base = file[j].base
              /\ j # i => SameRecords(j) /\ SameRoll(j) /\ End(j)' = End(j)
         /\ file'[i].count = file[i].count + 1 /\ End(i)' = End(i) + 1
<1>1. file[i] \in File /\ file[i].count \in Nat /\ file[i].base \in Nat
  BY FileFields
<1>2. PICK c \in Nat, z \in 0..MaxFiles : c = file[i].count + 1 /\ z = NoFile
  BY <1>1 DEF NoFile
<1> DEFINE v == [file[i] EXCEPT !.count = c, !.rollTo = z, !.rollBase = 0]
<1>3. v \in File /\ v.count = c /\ v.seq = file[i].seq
      /\ v.parent = file[i].parent /\ v.epoch = file[i].epoch /\ v.base = file[i].base
      /\ v.published = file[i].published /\ v.rolled = file[i].rolled /\ v.past = file[i].past
  BY <1>1 DEF File
<1>4. file' = [file EXCEPT ![i] = v]
  BY <1>2 DEF ChannelType, Created
<1> HIDE DEF v
<1>5. SameFiles /\ file'[i] = v /\ \A j \in Created : j # i => file'[j] = file[j]
  BY <1>3, <1>4, Updated DEF SameFiles
<1>6. ASSUME NEW j \in Created
      PROVE  /\ SameIdentity(j) /\ SameState(j) /\ file'[j].base = file[j].base
             /\ j # i => SameRecords(j) /\ SameRoll(j) /\ End(j)' = End(j)
  BY <1>3, <1>5 DEF SameIdentity, SameRecords, SameRoll, SameState, End
<1>7. End(i)' = End(i) + 1
  BY <1>1, <1>2, <1>3, <1>5 DEF End
<1> QED
  BY <1>2, <1>3, <1>5, <1>6, <1>7

\* Stamping a base.
LEMMA StampFacts ==
  ASSUME ChannelType, NEW i \in Created, NEW b \in Nat, file' = [file EXCEPT ![i].base = b]
  PROVE  /\ SameFiles
         /\ \A j \in Created :
              /\ SameIdentity(j) /\ SameRoll(j) /\ SameState(j) /\ file'[j].count = file[j].count
              /\ j # i => SameRecords(j) /\ End(j)' = End(j)
         /\ file'[i].base = b
<1> DEFINE v == [file[i] EXCEPT !.base = b]
<1>1. file[i] \in File
  BY FileFields
<1>2. v \in File /\ v.base = b /\ v.seq = file[i].seq /\ v.parent = file[i].parent
      /\ v.epoch = file[i].epoch /\ v.count = file[i].count
      /\ v.rollTo = file[i].rollTo /\ v.rollBase = file[i].rollBase
      /\ v.published = file[i].published /\ v.rolled = file[i].rolled /\ v.past = file[i].past
  BY <1>1 DEF File
<1>3. file' = [file EXCEPT ![i] = v]
  OBVIOUS
<1> HIDE DEF v
<1>4. SameFiles /\ file'[i] = v /\ \A j \in Created : j # i => file'[j] = file[j]
  BY <1>2, <1>3, Updated DEF SameFiles
<1> QED
  BY <1>2, <1>4 DEF SameIdentity, SameRecords, SameRoll, SameState, End

-----------------------------------------------------------------------------
(* Every step of the writer keeps the invariant *)

\* What no step takes back of a file.
Kept(i) ==
  /\ SameIdentity(i)
  /\ file[i].published => /\ file'[i].published /\ file'[i].base = file[i].base
                          /\ file'[i].count >= file[i].count
  /\ file[i].rolled => /\ file'[i].rolled /\ file'[i].rollTo = file[i].rollTo
                       /\ file'[i].count = file[i].count
AllKept == Created \subseteq Created' /\ (\A i \in Created : Kept(i)) /\ epoch <= epoch'

\* Unlinking a name takes that name away.
LEMMA Unlinked ==
  ASSUME ChannelType, NEW s \in Seqs, dir' = [dir EXCEPT ![s] = NoFile], UNCHANGED file
  PROVE  /\ Present' = Present \ {s} /\ \A t \in Present' : t \in Present /\ dir'[t] = dir[t]
         /\ dir' \in [Seqs -> Created' \cup {NoFile}]
BY DEF ChannelType, Present, Created

\* No step without a store in a file changes one.
LEMMA NoStore ==
  ASSUME ChannelType, UNCHANGED file, epoch' \in Nat, epoch <= epoch'
  PROVE  /\ SameFiles /\ AllKept
         /\ \A i \in Created : IsPublished(i)' = IsPublished(i) /\ End(i)' = End(i)
<1>1. ASSUME NEW i \in Created PROVE file[i].count \in Nat
  BY FileFields
<1> QED
  BY <1>1 DEF ChannelType, Created, SameFiles, AllKept, Kept, SameIdentity, IsPublished, End

\* discard_unpublished_tail.
LEMMA DiscardInv ==
  ASSUME ChannelInv, DiscardUnpublished
  PROVE  ChannelInv' /\ AllKept
<1>0. ChannelType /\ pc = "down" /\ pc' = "down" /\ UNCHANGED <<file, epoch, wseq, winst, winext, crashes>>
  BY DEF DiscardUnpublished, ChannelInv, writerVars
<1>1. Latest \in Present /\ Latest \in Seqs /\ ~PublishedName(Latest)
      /\ dir' = [dir EXCEPT ![Latest] = NoFile]
  BY <1>0, LatestFacts, NameFacts DEF DiscardUnpublished
<1>2. /\ Present' = Present \ {Latest} /\ \A t \in Present' : t \in Present /\ dir'[t] = dir[t]
      /\ dir' \in [Seqs -> Created' \cup {NoFile}]
  BY <1>0, <1>1, Unlinked
<1>3. /\ SameFiles /\ AllKept
      /\ \A i \in Created : IsPublished(i)' = IsPublished(i) /\ End(i)' = End(i)
  <2>1. epoch' \in Nat /\ epoch <= epoch'
    BY <1>0 DEF ChannelType
  <2> QED
    BY <1>0, <2>1, NoStore
<1>4. ChannelType'
  BY <1>0, <1>2, <1>3 DEF ChannelType, SameFiles
<1>5. FilesOK' /\ OnePublished'
  BY <1>0, <1>3 DEF ChannelInv, FilesOK, OnePublished, Lineage, RollNames, StateOK, IsChild, IsEdge, IsPublished, End, SameFiles
<1>6. NamesOK'
  <2>1. \A t \in Present : PublishedName(t) => t \in Present' /\ PublishedName(t)'
    BY <1>0, <1>1, <1>2 DEF PublishedName, IsPublished
  <2> QED
    BY <1>0, <1>2, <1>3, <2>1 DEF ChannelInv, NamesOK, IsPublished, SameFiles
<1>7. FinishedOK'
  BY <1>0, <1>2 DEF ChannelInv, FinishedOK, Finished
<1>8. WriterOK'
  BY <1>0 DEF WriterOK, RollingPc, FinishPc
<1> QED
  BY <1>3, <1>4, <1>5, <1>6, <1>7, <1>8 DEF ChannelInv

\* cleanup_channel_files: nothing of the old channel has a name any more.
LEMMA CleanupInv ==
  ASSUME ChannelInv, Cleanup
  PROVE  ChannelInv' /\ AllKept
<1>0. ChannelType /\ pc = "down" /\ pc' = "down" /\ UNCHANGED <<file, wseq, winst, winext, crashes>>
      /\ epoch' = epoch + 1 /\ dir' = [s \in Seqs |-> NoFile] /\ epoch \in Nat
  BY DEF Cleanup, ChannelInv, ChannelType, writerVars
<1>1. Present' = {}
  BY <1>0 DEF Present
<1>2. /\ SameFiles /\ AllKept
      /\ \A i \in Created : IsPublished(i)' = IsPublished(i) /\ End(i)' = End(i)
  BY <1>0, NoStore
<1>3. ChannelType'
  BY <1>0, <1>2 DEF ChannelType, SameFiles
<1>4. \A i \in Created : file[i].epoch \in Nat /\ file[i].epoch <= epoch
  BY <1>0, FileFields DEF ChannelInv, FilesOK, Lineage
<1>5. FilesOK' /\ OnePublished'
  <2>1. \A i \in Created : file[i].epoch <= epoch'
    BY <1>0, <1>4
  <2> QED
    BY <1>0, <1>2, <2>1 DEF ChannelInv, FilesOK, OnePublished, Lineage, RollNames, StateOK, IsChild, IsEdge, IsPublished, End, SameFiles
<1>6. NamesOK'
  BY <1>0, <1>1, <1>2, <1>4 DEF NamesOK, SameFiles
<1>7. FinishedOK' /\ WriterOK'
  BY <1>0, <1>1 DEF FinishedOK, WriterOK, RollingPc, FinishPc
<1> QED
  BY <1>2, <1>3, <1>5, <1>6, <1>7 DEF ChannelInv

\* The files, as they stand, are all an open has to go by.
LEMMA CrashInv ==
  ASSUME ChannelInv, Crash
  PROVE  ChannelInv' /\ AllKept
<1>0. ChannelType /\ pc' = "down" /\ UNCHANGED <<file, dir, epoch>> /\ epoch \in Nat
      /\ wseq' = 0 /\ winst' = NoFile /\ winext' = NoFile /\ crashes' = crashes + 1
  BY DEF Crash, ChannelInv, ChannelType, dirVars
<1>1. Present' = Present
  BY <1>0 DEF Present
<1>2. /\ SameFiles /\ AllKept
      /\ \A i \in Created : IsPublished(i)' = IsPublished(i) /\ End(i)' = End(i)
  BY <1>0, NoStore
<1>3. ChannelType'
  BY <1>0, <1>2 DEF ChannelType, SameFiles, WriterPc
<1>5. FilesOK' /\ OnePublished'
  BY <1>0, <1>2 DEF ChannelInv, FilesOK, OnePublished, Lineage, RollNames, StateOK, IsChild, IsEdge, IsPublished, End, SameFiles
<1>6. NamesOK' /\ FinishedOK'
  BY <1>0, <1>1, <1>2 DEF ChannelInv, NamesOK, FinishedOK, Finished, PublishedName, IsPublished, SameFiles
<1>7. WriterOK'
  BY <1>0 DEF WriterOK, RollingPc, FinishPc
<1> QED
  BY <1>2, <1>3, <1>5, <1>6, <1>7 DEF ChannelInv

\* Retention unlinks a finished segment.
LEMMA PruneInv ==
  ASSUME ChannelInv, RollPrune
  PROVE  ChannelInv' /\ AllKept
<1>0. ChannelType /\ pc = "prune" /\ pc' = "idle"
      /\ UNCHANGED <<file, epoch, wseq, winst, winext, crashes>> /\ epoch \in Nat /\ wseq \in Nat
  <2>1. ChannelType
    BY DEF ChannelInv
  <2>2. epoch \in Nat /\ wseq \in Nat
    BY <2>1 DEF ChannelType
  <2> QED
    BY <2>1, <2>2 DEF RollPrune
<1>1. /\ wseq \in Present' /\ Present' \subseteq Present /\ \A t \in Present' : dir'[t] = dir[t]
      /\ dir' \in [Seqs -> Created' \cup {NoFile}]
  <2>1. wseq \in Present
    BY <1>0, OwnFile
  <2>2. CASE KeepFiles > 0 /\ wseq >= KeepFiles
    <3>1. wseq - KeepFiles \in Seqs /\ wseq # wseq - KeepFiles
      BY <1>0, <2>2 DEF ChannelType
    <3>2. dir' = [dir EXCEPT ![wseq - KeepFiles] = NoFile]
      BY <2>2 DEF RollPrune
    <3> QED
      BY <1>0, <2>1, <3>1, <3>2, Unlinked
  <2>3. CASE ~(KeepFiles > 0 /\ wseq >= KeepFiles)
    <3>1. dir' = dir
      BY <2>3 DEF RollPrune
    <3> QED
      BY <1>0, <2>1, <3>1 DEF Present, ChannelType, Created
  <2> QED
    BY <2>2, <2>3
<1>2. /\ SameFiles /\ AllKept
      /\ \A i \in Created : IsPublished(i)' = IsPublished(i) /\ End(i)' = End(i)
  BY <1>0, NoStore
<1>3. ChannelType'
  BY <1>0, <1>1, <1>2 DEF ChannelType, SameFiles, WriterPc
<1>5. FilesOK' /\ OnePublished'
  BY <1>0, <1>2 DEF ChannelInv, FilesOK, OnePublished, Lineage, RollNames, StateOK, IsChild, IsEdge, IsPublished, End, SameFiles
<1>6. NamesOK'
  <2>0. IsPublished(winst) /\ dir[wseq] = winst /\ \A s \in Present : s <= wseq
    BY <1>0 DEF ChannelInv, WriterOK, RollingPc
  <2>1. PublishedName(wseq)'
    BY <1>0, <1>1, <2>0 DEF PublishedName, IsPublished
  <2>2. \A i \in Created : IsPublished(i) /\ file[i].epoch = epoch => file[i].seq <= wseq
    <3> SUFFICES ASSUME NEW i \in Created, IsPublished(i), file[i].epoch = epoch
                 PROVE  file[i].seq <= wseq
      OBVIOUS
    <3>1. wseq \in Seqs
      BY <1>0 DEF ChannelType
    <3> QED
      BY <2>0, <3>1, NotNewer
  <2> QED
    BY <1>0, <1>1, <1>2, <2>1, <2>2 DEF ChannelInv, NamesOK, PublishedName, IsPublished, SameFiles
<1>7. FinishedOK'
  BY <1>0, <1>1 DEF ChannelInv, FinishedOK, Finished
<1>8. WriterOK'
  BY <1>0, <1>1 DEF ChannelInv, WriterOK, RollingPc, FinishPc, Finished, IsPublished
<1> QED
  BY <1>2, <1>3, <1>5, <1>6, <1>7, <1>8 DEF ChannelInv

\* commit_stranded_roll finds the predecessor's Roll as the roll staged it, and never refuses it.
LEMMA StrandedInv ==
  ASSUME ChannelInv, StrandedCheck
  PROVE  ChannelInv' /\ AllKept
<1>0. ChannelType /\ pc = "stranded"
      /\ UNCHANGED <<dir, file, epoch, wseq, winst, winext, crashes>> /\ epoch \in Nat
  BY DEF StrandedCheck, ChannelInv, ChannelType, dirVars
<1> DEFINE p == dir[wseq - 1]
<1>1. /\ wseq > 0 /\ wseq - 1 \in Present /\ wseq \in Present /\ dir[wseq] = winst
      /\ IsPublished(winst) /\ \A s \in Present : s <= wseq
      /\ p \in Created
  BY <1>0, NameFacts DEF ChannelInv, WriterOK, FinishPc, RollingPc
<1>2. /\ file[winst].parent = p /\ IsPublished(p) /\ file[p].rollTo = winst
      /\ file[winst].base = End(p) /\ file[p].rollBase = End(p)
  <2>1. PublishedName(wseq)
    BY <1>1 DEF PublishedName
  <2> QED
    BY <1>1, <2>1, Predecessor
<1>3. /\ file[p].past => pc' = "idle"
      /\ ~file[p].past /\ file[p].rolled => pc' = "finish_wp"
      /\ ~file[p].past /\ ~file[p].rolled => pc' = "finish_commit"
  BY <1>2 DEF StrandedCheck
<1>4. file[p].past => file[p].rolled
  BY <1>1 DEF ChannelInv, FilesOK, StateOK
<1>5. pc' \in {"idle", "finish_wp", "finish_commit"}
  BY <1>3
<1>6. Present' = Present
  BY <1>0 DEF Present
<1>7. /\ SameFiles /\ AllKept
      /\ \A i \in Created : IsPublished(i)' = IsPublished(i) /\ End(i)' = End(i)
  BY <1>0, NoStore
<1>8. ChannelType'
  BY <1>0, <1>5, <1>7 DEF ChannelType, SameFiles, WriterPc, FinishPc
<1>9. FilesOK' /\ OnePublished'
  BY <1>0, <1>7 DEF ChannelInv, FilesOK, OnePublished, Lineage, RollNames, StateOK, IsChild, IsEdge, IsPublished, End, SameFiles
<1>10. NamesOK' /\ FinishedOK'
  BY <1>0, <1>6, <1>7 DEF ChannelInv, NamesOK, FinishedOK, Finished, PublishedName, IsPublished, SameFiles
<1>11. WriterOK'
  <2>1. \A s \in Present : s < wseq /\ s # wseq - 1 => Finished(s)
    <3> SUFFICES ASSUME NEW s \in Present, s < wseq, s # wseq - 1 PROVE Finished(s)
      OBVIOUS
    <3>1. wseq \in Nat
      BY <1>0 DEF ChannelType
    <3>2. s + 1 < wseq
      BY <1>0, <3>1, NameFacts
    <3> QED
      BY <1>1, <3>2 DEF ChannelInv, FinishedOK
  <2>2. pc' = "idle" => \A s \in Present : s < wseq => Finished(s)
    BY <1>3, <1>4, <2>1 DEF Finished
  <2>3. pc' = "finish_wp" => file[p].rolled
    BY <1>3, <1>4
  <2> QED
    BY <1>0, <1>1, <1>5, <1>6, <2>2, <2>3 DEF WriterOK, RollingPc, FinishPc, Finished, IsPublished
<1> QED
  BY <1>7, <1>8, <1>9, <1>10, <1>11 DEF ChannelInv

\* Names and what they lead to, when only a file's content changes.
LEMMA SameNames ==
  ASSUME ChannelType, SameFiles, UNCHANGED dir
  PROVE  Present' = Present /\ dir' \in [Seqs -> Created' \cup {NoFile}]
BY DEF Present, ChannelType, SameFiles

\* Where a file comes from, and a committed Roll, are as they were.
LEMMA LineageKept ==
  ASSUME ChannelInv, AllKept, epoch' \in Nat
  PROVE  \A i \in Created : Lineage(i)' /\ (file[i].rolled => RollNames(i)')
<1> SUFFICES ASSUME NEW i \in Created
             PROVE  Lineage(i)' /\ (file[i].rolled => RollNames(i)')
  OBVIOUS
<1>0. ChannelType /\ Kept(i) /\ file[i].epoch \in Nat /\ epoch \in Nat /\ epoch <= epoch'
  BY FileFields DEF ChannelInv, ChannelType, AllKept
<1>1. Lineage(i)
  BY DEF ChannelInv, FilesOK
<1>2. file'[i].epoch <= epoch'
  BY <1>0, <1>1 DEF Lineage, Kept, SameIdentity
<1>3. ASSUME file[i].seq = 0 PROVE Lineage(i)'
  BY <1>0, <1>1, <1>2, <1>3 DEF Lineage, Kept, SameIdentity
<1>4. ASSUME file[i].seq # 0 PROVE Lineage(i)'
  <2> DEFINE p == file[i].parent
  <2>1. IsChild(p, i)
    BY <1>1, <1>4 DEF Lineage
  <2>2. p \in Created /\ Kept(p) /\ p \in Created'
    BY <2>1 DEF AllKept, IsChild
  <2>3. IsChild(file[i].parent, i)'
    BY <1>0, <2>1, <2>2 DEF IsChild, Kept, SameIdentity, IsPublished
  <2> QED
    BY <1>0, <1>2, <1>4, <2>3 DEF Lineage, Kept, SameIdentity
<1>5. ASSUME file[i].rolled PROVE RollNames(i)'
  <2> DEFINE j == file[i].rollTo
  <2>1. j \in Created /\ file[j].parent = i /\ IsPublished(j)
    BY <1>5 DEF ChannelInv, FilesOK, RollNames
  <2>2. Kept(j) /\ j \in Created'
    BY <2>1 DEF AllKept
  <2>3. file'[i].rollTo = j
    BY <1>0, <1>5 DEF Kept
  <2> QED
    BY <2>1, <2>2, <2>3 DEF RollNames, Kept, SameIdentity, IsPublished
<1> QED
  BY <1>3, <1>4, <1>5

\* A file is published, and its edge is as it was.
LEMMA EdgeKept ==
  ASSUME NEW i \in Created, NEW p \in Created, p = file[i].parent, IsEdge(i),
         SameIdentity(i), file'[i].base = file[i].base, SameRoll(p), End(p)' = End(p)
  PROVE  IsEdge(i)'
BY DEF IsEdge, SameIdentity, SameRoll, End

\* Publishing a file that its parent's Roll names, and of which there is no other.
LEMMA PublishKeeps ==
  ASSUME ChannelInv, NEW i \in Created, Publish(i), UNCHANGED epoch,
         file[i].seq > 0 => IsEdge(i),
         \A j \in Created : IsPublished(j) /\ file[j].seq = file[i].seq
                              /\ file[j].epoch = file[i].epoch => j = i
  PROVE  FilesOK' /\ OnePublished' /\ AllKept
<1>0. ChannelType /\ epoch \in Nat
  BY DEF ChannelInv, ChannelType
<1>1. /\ SameFiles
      /\ \A j \in Created :
           /\ SameIdentity(j) /\ SameRecords(j) /\ SameRoll(j) /\ End(j)' = End(j)
           /\ (file'[j].rolled <=> file[j].rolled) /\ (file'[j].past <=> file[j].past)
           /\ file'[j].published <=> file[j].published \/ j = i
  BY <1>0, PublishFacts
<1>2. ASSUME NEW j \in Created PROVE Kept(j)
  <2>1. file[j].count \in Nat
    BY <1>0, FileFields
  <2> QED
    BY <1>1, <2>1 DEF Kept, SameRecords, SameRoll
<1>3. AllKept
  BY <1>0, <1>1, <1>2 DEF AllKept, SameFiles
<1>4. ASSUME NEW j \in Created PROVE Lineage(j)' /\ (file'[j].rolled => RollNames(j)')
  BY <1>0, <1>1, <1>3, LineageKept
<1>5. ASSUME NEW j \in Created PROVE StateOK(j)'
  BY <1>1 DEF ChannelInv, FilesOK, StateOK, IsPublished, SameRecords
<1>6. ASSUME NEW j \in Created, IsPublished(j)', file'[j].seq > 0 PROVE IsEdge(j)'
  <2>1. file[j].seq > 0
    BY <1>1, <1>6 DEF SameIdentity
  <2>2. IsEdge(j)
    BY <1>1, <1>6, <2>1 DEF ChannelInv, FilesOK, IsPublished
  <2>3. PICK p \in Created : p = file[j].parent
    BY <1>0, <2>1, FileFields DEF ChannelInv, FilesOK, Lineage, IsChild
  <2> QED
    BY <1>1, <2>2, <2>3, EdgeKept DEF SameRecords
<1>7. FilesOK'
  BY <1>1, <1>4, <1>5, <1>6 DEF FilesOK, SameFiles
<1>8. OnePublished'
  BY <1>1 DEF ChannelInv, OnePublished, IsPublished, SameIdentity, SameFiles
<1> QED
  BY <1>3, <1>7, <1>8

\* Publishing the file under the newest name.
LEMMA PublishNewest ==
  ASSUME ChannelInv, NEW s \in Present, \A t \in Present : t <= s, Publish(dir[s]),
         UNCHANGED <<dir, epoch>>
  PROVE  NamesOK' /\ FinishedOK' /\ Present' = Present /\ dir' \in [Seqs -> Created' \cup {NoFile}]
<1> DEFINE i == dir[s]
<1>0. ChannelType /\ i \in Created /\ s \in Seqs /\ file[i].seq = s /\ file[i].epoch = epoch
  BY NameFacts DEF ChannelInv, NamesOK
<1>1. /\ SameFiles
      /\ \A j \in Created :
           /\ SameIdentity(j) /\ SameRecords(j) /\ SameRoll(j) /\ End(j)' = End(j)
           /\ (file'[j].rolled <=> file[j].rolled) /\ (file'[j].past <=> file[j].past)
           /\ file'[j].published <=> file[j].published \/ j = i
  BY <1>0, PublishFacts
<1>2. Present' = Present /\ dir' \in [Seqs -> Created' \cup {NoFile}]
  BY <1>0, <1>1, SameNames
<1>3. \A t \in Present : /\ dir'[t] = dir[t] /\ dir[t] \in Created
                         /\ file'[dir'[t]].seq = t /\ file'[dir'[t]].epoch = epoch'
                         /\ PublishedName(t) => PublishedName(t)'
                         /\ Finished(t) => Finished(t)'
  BY <1>0, <1>1, <1>2, NameFacts DEF ChannelInv, NamesOK, SameIdentity, PublishedName, IsPublished, Finished
<1>4. PublishedName(s)'
  BY <1>0, <1>1, <1>2 DEF PublishedName, IsPublished
<1>5. ASSUME NEW j \in Created, IsPublished(j)', file'[j].epoch = epoch' PROVE file'[j].seq <= s
  <2>1. file[j].epoch = epoch /\ file'[j].seq = file[j].seq
    BY <1>1, <1>5 DEF SameIdentity
  <2>2. CASE j = i
    BY <1>0, <2>1, <2>2
  <2>3. CASE IsPublished(j)
    BY <1>0, <2>1, <2>3, NotNewer
  <2> QED
    BY <1>1, <1>5, <2>2, <2>3 DEF IsPublished
<1>6. NamesOK'
  BY <1>1, <1>2, <1>3, <1>4, <1>5 DEF ChannelInv, NamesOK, SameFiles
<1>7. FinishedOK'
  BY <1>2, <1>3 DEF ChannelInv, FinishedOK
<1> QED
  BY <1>2, <1>6, <1>7

\* Publishing the initial segment.
LEMMA PublishInitialInv ==
  ASSUME ChannelInv, PublishInitial
  PROVE  ChannelInv' /\ AllKept
<1>0. ChannelType /\ pc = "genesis" /\ pc' = "idle" /\ Publish(winst)
      /\ UNCHANGED <<dir, epoch, wseq, winst, winext, crashes>>
  BY DEF PublishInitial, ChannelInv
<1>1. /\ wseq = 0 /\ ~IsPublished(winst) /\ wseq \in Present /\ dir[wseq] = winst
      /\ \A s \in Present : s <= wseq
      /\ winst \in Created /\ file[winst].seq = 0 /\ file[winst].epoch = epoch
  BY <1>0, OwnFile DEF ChannelInv, WriterOK, RollingPc
<1>2. \A s \in Present : s = 0
  BY <1>0, <1>1, NameFacts
<1>3. \A j \in Created : ~(IsPublished(j) /\ file[j].epoch = epoch)
  BY <1>1, <1>2 DEF ChannelInv, NamesOK, PublishedName
<1>4. /\ SameFiles /\ IsPublished(winst)'
  BY <1>0, <1>1, PublishFacts DEF IsPublished
<1>5. FilesOK' /\ OnePublished' /\ AllKept
  BY <1>0, <1>1, <1>3, PublishKeeps
<1>6. NamesOK' /\ FinishedOK' /\ Present' = Present /\ dir' \in [Seqs -> Created' \cup {NoFile}]
  BY <1>0, <1>1, PublishNewest
<1>7. ChannelType'
  BY <1>0, <1>4, <1>6 DEF ChannelType, SameFiles, WriterPc
<1>8. WriterOK'
  BY <1>0, <1>1, <1>2, <1>4, <1>6 DEF WriterOK, RollingPc, FinishPc
<1> QED
  BY <1>5, <1>6, <1>7, <1>8 DEF ChannelInv

\* open_file on the newest file: its Roll is not committed, so it is not refused.
LEMMA OpenNewestInv ==
  ASSUME ChannelInv, OpenNewest
  PROVE  ChannelInv' /\ AllKept
<1>0. PICK m \in Present : m = Latest
  BY LatestFacts DEF OpenNewest, ChannelInv
<1> DEFINE i == dir[m]
<1>1. ChannelType /\ pc = "down" /\ Publish(i) /\ wseq' = m /\ winst' = i
      /\ UNCHANGED <<dir, epoch, winext, crashes>>
      /\ (\A t \in Present : t <= m) /\ m \in Seqs /\ i \in Created
      /\ (m = 0 \/ PublishedName(m))
  BY <1>0, LatestFacts, NameFacts DEF OpenNewest, ChannelInv
<1>2. file[i].seq = m /\ file[i].epoch = epoch /\ ~file[i].rolled
  <2>1. file[i].seq = m /\ file[i].epoch = epoch
    BY <1>0 DEF ChannelInv, NamesOK
  <2> QED
    BY <1>1, <2>1, Childless
<1>3. pc' = IF m > 0 /\ m - 1 \in Present THEN "stranded" ELSE "idle"
  BY <1>0, <1>2 DEF OpenNewest
<1>4. SameFiles /\ IsPublished(i)'
  BY <1>1, PublishFacts DEF IsPublished
<1>5. FilesOK' /\ OnePublished' /\ AllKept
  <2>1. file[i].seq > 0 => IsEdge(i)
    BY <1>1, <1>2 DEF ChannelInv, FilesOK, PublishedName
  <2>2. ASSUME NEW j \in Created, IsPublished(j), file[j].seq = m, file[j].epoch = epoch
        PROVE  j = i
    <3>1. PICK s \in Present : PublishedName(s) /\ m <= s
      BY <2>2 DEF ChannelInv, NamesOK
    <3>2. s = m
      BY <1>1, <3>1, NameFacts
    <3> QED
      BY <1>1, <1>2, <2>2, <3>1, <3>2 DEF ChannelInv, OnePublished, PublishedName
  <2> QED
    BY <1>1, <1>2, <2>1, <2>2, PublishKeeps
<1>6. NamesOK' /\ FinishedOK' /\ Present' = Present /\ dir' \in [Seqs -> Created' \cup {NoFile}]
  BY <1>1, PublishNewest
<1>7. ChannelType'
  <2>1. pc' \in WriterPc
    BY <1>3 DEF WriterPc, FinishPc
  <2> QED
    BY <1>1, <1>4, <1>6, <2>1 DEF ChannelType, SameFiles
<1>8. WriterOK'
  <2>1. IsPublished(winst)' /\ wseq' \in Present' /\ dir'[wseq'] = winst' /\ \A s \in Present' : s <= wseq'
    BY <1>1, <1>4, <1>6 DEF IsPublished
  <2>2. CASE m > 0 /\ m - 1 \in Present
    BY <1>1, <1>3, <1>6, <2>1, <2>2 DEF WriterOK, RollingPc, FinishPc
  <2>3. CASE ~(m > 0 /\ m - 1 \in Present)
    <3>1. ASSUME NEW s \in Present', s < wseq' PROVE Finished(s)'
      <4>1. s \in Present /\ s \in Nat /\ m \in Nat /\ s < m
        BY <1>1, <1>6, <3>1, NameFacts
      <4>2. s # m - 1
        BY <2>3, <4>1
      <4>3. s + 1 < m
        BY <4>1, <4>2
      <4> QED
        BY <1>6, <4>1, <4>3 DEF FinishedOK
    <3> QED
      BY <1>1, <1>3, <2>1, <2>3, <3>1 DEF WriterOK, RollingPc, FinishPc
  <2> QED
    BY <2>2, <2>3
<1> QED
  BY <1>5, <1>6, <1>7, <1>8 DEF ChannelInv

\* A store that publishes nothing.
LEMMA NoPublish ==
  ASSUME ChannelInv, SameFiles, UNCHANGED <<dir, epoch>>,
         \A j \in Created : SameIdentity(j) /\ (file'[j].published <=> file[j].published),
         \A j \in Created : file[j].rolled /\ file[j].past => file'[j].rolled /\ file'[j].past
  PROVE  /\ OnePublished' /\ NamesOK' /\ FinishedOK'
         /\ Present' = Present /\ dir' \in [Seqs -> Created' \cup {NoFile}]
         /\ \A j \in Created : IsPublished(j)' <=> IsPublished(j)
         /\ \A s \in Present : Finished(s) => Finished(s)'
<1>0. ChannelType /\ \A s \in Present : dir[s] \in Created
  BY NameFacts DEF ChannelInv
<1>1. Present' = Present /\ dir' \in [Seqs -> Created' \cup {NoFile}]
  BY <1>0, SameNames
<1>2. \A j \in Created : IsPublished(j)' <=> IsPublished(j)
  BY DEF IsPublished
<1>3. \A s \in Present : (PublishedName(s)' <=> PublishedName(s)) /\ (Finished(s) => Finished(s)')
  BY <1>0, <1>1 DEF PublishedName, IsPublished, Finished
<1>4. OnePublished'
  BY <1>2 DEF ChannelInv, OnePublished, SameIdentity, SameFiles
<1>5. NamesOK'
  BY <1>0, <1>1, <1>2, <1>3 DEF ChannelInv, NamesOK, SameIdentity, SameFiles
<1>6. FinishedOK'
  BY <1>1, <1>3 DEF ChannelInv, FinishedOK
<1> QED
  BY <1>1, <1>2, <1>3, <1>4, <1>5, <1>6

\* Committing a Roll that names its published successor.
LEMMA CommitKeeps ==
  ASSUME ChannelInv, NEW i \in Created, NEW k \in Created, UNCHANGED epoch,
         file' = [file EXCEPT ![i].rolled = TRUE], IsPublished(i),
         file[i].rollTo = k, file[k].parent = i, IsPublished(k)
  PROVE  FilesOK' /\ AllKept
<1>0. ChannelType /\ epoch \in Nat
  BY DEF ChannelInv, ChannelType
<1>1. /\ SameFiles
      /\ \A j \in Created :
           /\ SameIdentity(j) /\ SameRecords(j) /\ SameRoll(j) /\ End(j)' = End(j)
           /\ (file'[j].published <=> file[j].published) /\ (file'[j].past <=> file[j].past)
           /\ file'[j].rolled <=> file[j].rolled \/ j = i
  BY <1>0, RolledFacts
<1>2. ASSUME NEW j \in Created PROVE Kept(j)
  <2>1. file[j].count \in Nat
    BY <1>0, FileFields
  <2> QED
    BY <1>1, <2>1 DEF Kept, SameRecords, SameRoll
<1>3. AllKept
  BY <1>0, <1>1, <1>2 DEF AllKept, SameFiles
<1>4. ASSUME NEW j \in Created PROVE Lineage(j)' /\ (file[j].rolled => RollNames(j)')
  BY <1>0, <1>1, <1>3, LineageKept
<1>5. RollNames(i)'
  BY <1>1 DEF RollNames, SameRoll, SameIdentity, IsPublished, SameFiles
<1>6. ASSUME NEW j \in Created PROVE StateOK(j)'
  BY <1>1 DEF ChannelInv, FilesOK, StateOK, IsPublished, SameRecords
<1>7. ASSUME NEW j \in Created, IsPublished(j)', file'[j].seq > 0 PROVE IsEdge(j)'
  <2>1. file[j].seq > 0
    BY <1>1, <1>7 DEF SameIdentity
  <2>2. IsEdge(j)
    BY <1>1, <1>7, <2>1 DEF ChannelInv, FilesOK, IsPublished
  <2>3. PICK p \in Created : p = file[j].parent
    BY <1>0, <2>1, FileFields DEF ChannelInv, FilesOK, Lineage, IsChild
  <2> QED
    BY <1>1, <2>2, <2>3, EdgeKept DEF SameRecords
<1>8. FilesOK'
  BY <1>1, <1>4, <1>5, <1>6, <1>7 DEF FilesOK, SameFiles
<1> QED
  BY <1>3, <1>8

\* Moving the position past a committed Roll.
LEMMA PastKeeps ==
  ASSUME ChannelInv, NEW i \in Created, UNCHANGED epoch,
         file' = [file EXCEPT ![i].past = TRUE], file[i].rolled
  PROVE  FilesOK' /\ AllKept
<1>0. ChannelType /\ epoch \in Nat
  BY DEF ChannelInv, ChannelType
<1>1. /\ SameFiles
      /\ \A j \in Created :
           /\ SameIdentity(j) /\ SameRecords(j) /\ SameRoll(j) /\ End(j)' = End(j)
           /\ (file'[j].published <=> file[j].published) /\ (file'[j].rolled <=> file[j].rolled)
           /\ file'[j].past <=> file[j].past \/ j = i
  BY <1>0, PastFacts
<1>2. ASSUME NEW j \in Created PROVE Kept(j)
  <2>1. file[j].count \in Nat
    BY <1>0, FileFields
  <2> QED
    BY <1>1, <2>1 DEF Kept, SameRecords, SameRoll
<1>3. AllKept
  BY <1>0, <1>1, <1>2 DEF AllKept, SameFiles
<1>4. ASSUME NEW j \in Created PROVE Lineage(j)' /\ (file'[j].rolled => RollNames(j)')
  BY <1>0, <1>1, <1>3, LineageKept
<1>6. ASSUME NEW j \in Created PROVE StateOK(j)'
  BY <1>1 DEF ChannelInv, FilesOK, StateOK, IsPublished, SameRecords
<1>7. ASSUME NEW j \in Created, IsPublished(j)', file'[j].seq > 0 PROVE IsEdge(j)'
  <2>1. file[j].seq > 0
    BY <1>1, <1>7 DEF SameIdentity
  <2>2. IsEdge(j)
    BY <1>1, <1>7, <2>1 DEF ChannelInv, FilesOK, IsPublished
  <2>3. PICK p \in Created : p = file[j].parent
    BY <1>0, <2>1, FileFields DEF ChannelInv, FilesOK, Lineage, IsChild
  <2> QED
    BY <1>1, <2>2, <2>3, EdgeKept DEF SameRecords
<1>8. FilesOK'
  BY <1>1, <1>4, <1>6, <1>7 DEF FilesOK, SameFiles
<1> QED
  BY <1>3, <1>8

\* A finishing open is at a published file with a published predecessor whose Roll names it.
LEMMA Finishing ==
  ASSUME ChannelInv, pc \in FinishPc
  PROVE  /\ wseq > 0 /\ wseq - 1 \in Present /\ wseq \in Present /\ dir[wseq] = winst
         /\ IsPublished(winst) /\ winst \in Created /\ dir[wseq - 1] \in Created
         /\ IsPublished(dir[wseq - 1])
         /\ file[dir[wseq - 1]].rollTo = winst /\ file[winst].parent = dir[wseq - 1]
         /\ \A s \in Present : s <= wseq
         /\ \A s \in Present : s < wseq /\ s # wseq - 1 => Finished(s)
<1>0. ChannelType /\ wseq \in Nat
  BY DEF ChannelInv, ChannelType
<1>1. /\ wseq > 0 /\ wseq - 1 \in Present /\ wseq \in Present /\ dir[wseq] = winst
      /\ IsPublished(winst) /\ \A s \in Present : s <= wseq
  BY DEF ChannelInv, WriterOK, FinishPc, RollingPc
<1>2. PublishedName(wseq)
  BY <1>1 DEF PublishedName
<1>3. \A s \in Present : s < wseq /\ s # wseq - 1 => Finished(s)
  <2> SUFFICES ASSUME NEW s \in Present, s < wseq, s # wseq - 1 PROVE Finished(s)
    OBVIOUS
  <2>1. s + 1 < wseq
    BY <1>0, NameFacts
  <2> QED
    BY <1>1, <2>1 DEF ChannelInv, FinishedOK
<1> QED
  BY <1>0, <1>1, <1>2, <1>3, Predecessor, NameFacts

\* commit_stranded_roll commits the Roll.
LEMMA FinishCommitInv ==
  ASSUME ChannelInv, FinishCommit
  PROVE  ChannelInv' /\ AllKept
<1>0. ChannelType /\ pc = "finish_commit" /\ pc' = "finish_wp"
      /\ UNCHANGED <<dir, epoch, wseq, winst, winext, crashes>>
  BY DEF FinishCommit, ChannelInv
<1>1. PICK p \in Created : p = dir[wseq - 1]
  BY <1>0, Finishing DEF FinishPc
<1>2. file' = [file EXCEPT ![p].rolled = TRUE]
  BY <1>1 DEF FinishCommit
<1>3. /\ wseq > 0 /\ wseq - 1 \in Present /\ wseq \in Present /\ dir[wseq] = winst
      /\ IsPublished(winst) /\ winst \in Created /\ IsPublished(p)
      /\ file[p].rollTo = winst /\ file[winst].parent = p
      /\ \A s \in Present : s <= wseq
  BY <1>0, <1>1, Finishing DEF FinishPc
<1>4. /\ SameFiles
      /\ \A j \in Created :
           /\ SameIdentity(j) /\ SameRecords(j) /\ SameRoll(j) /\ End(j)' = End(j)
           /\ (file'[j].published <=> file[j].published) /\ (file'[j].past <=> file[j].past)
           /\ file'[j].rolled <=> file[j].rolled \/ j = p
  BY <1>0, <1>2, RolledFacts
<1>5. FilesOK' /\ AllKept
  BY <1>0, <1>2, <1>3, CommitKeeps
<1>6. /\ OnePublished' /\ NamesOK' /\ FinishedOK'
      /\ Present' = Present /\ dir' \in [Seqs -> Created' \cup {NoFile}]
      /\ \A j \in Created : IsPublished(j)' <=> IsPublished(j)
  BY <1>0, <1>4, NoPublish
<1>7. ChannelType'
  BY <1>0, <1>4, <1>6 DEF ChannelType, SameFiles, WriterPc, FinishPc
<1>8. WriterOK'
  BY <1>0, <1>1, <1>3, <1>4, <1>6 DEF WriterOK, RollingPc, FinishPc
<1> QED
  BY <1>5, <1>6, <1>7, <1>8 DEF ChannelInv

\* commit_stranded_roll moves the position, and the open is complete.
LEMMA FinishWpInv ==
  ASSUME ChannelInv, FinishWp
  PROVE  ChannelInv' /\ AllKept
<1>0. ChannelType /\ pc = "finish_wp" /\ pc' = "idle"
      /\ UNCHANGED <<dir, epoch, wseq, winst, winext, crashes>>
  BY DEF FinishWp, ChannelInv
<1>1. PICK p \in Created : p = dir[wseq - 1]
  BY <1>0, Finishing DEF FinishPc
<1>2. file' = [file EXCEPT ![p].past = TRUE]
  BY <1>1 DEF FinishWp
<1>3. /\ wseq > 0 /\ wseq - 1 \in Present /\ wseq \in Present /\ dir[wseq] = winst
      /\ IsPublished(winst) /\ winst \in Created /\ file[p].rolled
      /\ \A s \in Present : s <= wseq
      /\ \A s \in Present : s < wseq /\ s # wseq - 1 => Finished(s)
  BY <1>0, <1>1, Finishing DEF FinishPc, ChannelInv, WriterOK
<1>4. /\ SameFiles
      /\ \A j \in Created :
           /\ SameIdentity(j) /\ SameRecords(j) /\ SameRoll(j) /\ End(j)' = End(j)
           /\ (file'[j].published <=> file[j].published) /\ (file'[j].rolled <=> file[j].rolled)
           /\ file'[j].past <=> file[j].past \/ j = p
  BY <1>0, <1>2, PastFacts
<1>5. FilesOK' /\ AllKept
  BY <1>0, <1>2, <1>3, PastKeeps
<1>6. /\ OnePublished' /\ NamesOK' /\ FinishedOK'
      /\ Present' = Present /\ dir' \in [Seqs -> Created' \cup {NoFile}]
      /\ \A j \in Created : IsPublished(j)' <=> IsPublished(j)
      /\ \A s \in Present : Finished(s) => Finished(s)'
  BY <1>0, <1>4, NoPublish
<1>7. ChannelType'
  BY <1>0, <1>4, <1>6 DEF ChannelType, SameFiles, WriterPc, FinishPc
<1>8. WriterOK'
  <2>1. \A s \in Present : s = wseq - 1 => Finished(s)'
    BY <1>0, <1>1, <1>3, <1>4 DEF Finished
  <2>2. \A s \in Present' : s < wseq' => Finished(s)'
    BY <1>0, <1>3, <1>6, <2>1
  <2> QED
    BY <1>0, <1>3, <1>6, <2>2 DEF WriterOK, RollingPc, FinishPc
<1> QED
  BY <1>5, <1>6, <1>7, <1>8 DEF ChannelInv

\* A store that touches no published file's edge, publishes nothing and commits no Roll.
LEMMA PrivateKeeps ==
  ASSUME ChannelInv, SameFiles, UNCHANGED epoch, AllKept,
         \A j \in Created : SameState(j) /\ (~IsPublished(j) => file'[j].count = file[j].count),
         \A j \in Created : IsPublished(j) /\ file[j].seq > 0 => IsEdge(j)'
  PROVE  FilesOK'
<1>0. ChannelType /\ epoch \in Nat
  BY DEF ChannelInv, ChannelType
<1>1. ASSUME NEW j \in Created PROVE Lineage(j)' /\ (file'[j].rolled => RollNames(j)')
  BY <1>0, LineageKept DEF SameState
<1>2. ASSUME NEW j \in Created PROVE StateOK(j)'
  BY DEF ChannelInv, FilesOK, StateOK, IsPublished, SameState
<1>3. ASSUME NEW j \in Created, IsPublished(j)', file'[j].seq > 0 PROVE IsEdge(j)'
  BY <1>3 DEF AllKept, Kept, SameIdentity, SameState, IsPublished
<1> QED
  BY <1>1, <1>2, <1>3 DEF FilesOK, SameFiles

\* A published file's parent is a published file.
LEMMA ParentFacts ==
  ASSUME ChannelInv, NEW j \in Created, IsPublished(j), file[j].seq > 0
  PROVE  file[j].parent \in Created /\ IsPublished(file[j].parent) /\ IsEdge(j)
BY DEF ChannelInv, FilesOK, Lineage, IsChild

\* A record goes to a file that no published file follows.
LEMMA AppendInv ==
  ASSUME ChannelInv, Append
  PROVE  ChannelInv' /\ AllKept
<1>0. ChannelType /\ pc = "idle" /\ UNCHANGED <<dir, epoch, pc, wseq, winst, winext, crashes>>
      /\ file' = [file EXCEPT ![winst].count = @ + 1, ![winst].rollTo = NoFile, ![winst].rollBase = 0]
      /\ epoch \in Nat
  BY DEF Append, ChannelInv, ChannelType, writerVars
<1>1. winst \in Created /\ IsPublished(winst) /\ ~file[winst].rolled
      /\ \A j \in Created : file[j].parent = winst => ~IsPublished(j)
  BY <1>0, OwnFile, StillOpen DEF ChannelInv, WriterOK
<1>2. /\ SameFiles
      /\ \A j \in Created :
           /\ SameIdentity(j) /\ SameState(j) /\ file'[j].base = file[j].base
           /\ j # winst => SameRecords(j) /\ SameRoll(j) /\ End(j)' = End(j)
      /\ file'[winst].count = file[winst].count + 1
  BY <1>0, <1>1, AppendFacts
<1>3. ASSUME NEW j \in Created PROVE Kept(j)
  <2>1. file[j].count \in Nat
    BY <1>0, FileFields
  <2> QED
    BY <1>1, <1>2, <2>1 DEF Kept, SameRecords, SameRoll, SameState
<1>4. AllKept
  BY <1>0, <1>2, <1>3 DEF AllKept, SameFiles
<1>5. ASSUME NEW j \in Created, IsPublished(j), file[j].seq > 0 PROVE IsEdge(j)'
  <2>1. PICK p \in Created : p = file[j].parent /\ IsEdge(j)
    BY <1>5, ParentFacts
  <2>2. p # winst
    BY <1>1, <1>5, <2>1
  <2> QED
    BY <1>2, <2>1, <2>2, EdgeKept
<1>6. FilesOK'
  BY <1>0, <1>1, <1>2, <1>4, <1>5, PrivateKeeps DEF SameRecords
<1>7. /\ OnePublished' /\ NamesOK' /\ FinishedOK'
      /\ Present' = Present /\ dir' \in [Seqs -> Created' \cup {NoFile}]
      /\ \A j \in Created : IsPublished(j)' <=> IsPublished(j)
      /\ \A s \in Present : Finished(s) => Finished(s)'
  BY <1>0, <1>2, NoPublish DEF SameState
<1>8. ChannelType'
  BY <1>0, <1>2, <1>7 DEF ChannelType, SameFiles
<1>9. WriterOK'
  BY <1>0, <1>1, <1>7 DEF ChannelInv, WriterOK, RollingPc, FinishPc
<1> QED
  BY <1>4, <1>6, <1>7, <1>8, <1>9 DEF ChannelInv

\* A roll under way has a successor installed under the next name.
LEMMA Rolling ==
  ASSUME ChannelInv, pc \in RollingPc
  PROVE  /\ winst \in Created /\ winext \in Created /\ winst # winext
         /\ wseq \in Present /\ dir[wseq] = winst /\ IsPublished(winst) /\ wseq \in Nat
         /\ wseq + 1 \in Present /\ wseq + 1 \in Seqs /\ dir[wseq + 1] = winext
         /\ \A s \in Present : s <= wseq + 1
         /\ \A s \in Present : s < wseq => Finished(s)
         /\ file[winext].parent = winst
         /\ IsPublished(winext) <=> pc \in {"published", "committed"}
         /\ pc # "installed" => file[winst].rollTo = winext /\ file[winst].rollBase = End(winst)
         /\ pc = "stamped" => file[winext].base = End(winst)
         /\ pc = "committed" => file[winst].rolled
         /\ file[winst].seq = wseq /\ file[winst].epoch = epoch
         /\ file[winext].seq = wseq + 1 /\ file[winext].epoch = epoch
<1>0. ChannelType /\ wseq \in Nat
  BY DEF ChannelInv, ChannelType
<1>1. /\ wseq \in Present /\ dir[wseq] = winst /\ IsPublished(winst)
      /\ wseq + 1 \in Present /\ dir[wseq + 1] = winext
      /\ \A s \in Present : s <= wseq + 1
      /\ \A s \in Present : s < wseq => Finished(s)
      /\ file[winext].parent = winst
      /\ IsPublished(winext) <=> pc \in {"published", "committed"}
      /\ pc # "installed" => file[winst].rollTo = winext /\ file[winst].rollBase = End(winst)
      /\ pc = "stamped" => file[winext].base = End(winst)
      /\ pc = "committed" => file[winst].rolled
  BY DEF ChannelInv, WriterOK, RollingPc, FinishPc
<1>2. /\ file[winst].seq = wseq /\ file[winst].epoch = epoch
      /\ file[winext].seq = wseq + 1 /\ file[winext].epoch = epoch
  BY <1>1 DEF ChannelInv, NamesOK
<1>3. winst # winext
  BY <1>0, <1>2
<1>4. winst \in Created /\ winext \in Created /\ wseq + 1 \in Seqs
  BY <1>0, <1>1, NameFacts
<1> QED
  BY <1>0, <1>1, <1>2, <1>3, <1>4

\* Staging the Roll.
LEMMA StageInv ==
  ASSUME ChannelInv, RollStage
  PROVE  ChannelInv' /\ AllKept
<1>0. ChannelType /\ pc = "installed" /\ pc' = "staged"
      /\ UNCHANGED <<dir, epoch, wseq, winst, winext, crashes>> /\ epoch \in Nat
      /\ file' = [file EXCEPT ![winst].rollTo = winext, ![winst].rollBase = End(winst)]
  BY DEF RollStage, ChannelInv, ChannelType
<1>1. /\ winst \in Created /\ winext \in Created /\ winst # winext
      /\ wseq \in Present /\ dir[wseq] = winst /\ IsPublished(winst)
      /\ wseq + 1 \in Present /\ dir[wseq + 1] = winext
      /\ \A s \in Present : s <= wseq + 1
      /\ \A s \in Present : s < wseq => Finished(s)
      /\ file[winext].parent = winst /\ ~IsPublished(winext)
      /\ ~file[winst].rolled /\ \A j \in Created : file[j].parent = winst => ~IsPublished(j)
  BY <1>0, Rolling, StillOpen DEF RollingPc
<1>2. End(winst) \in Nat
  BY <1>0, <1>1, FileFields
<1>3. /\ SameFiles
      /\ \A j \in Created :
           /\ SameIdentity(j) /\ SameRecords(j) /\ SameState(j) /\ End(j)' = End(j)
           /\ j # winst => SameRoll(j)
      /\ file'[winst].rollTo = winext /\ file'[winst].rollBase = End(winst)
  <2>1. file' = [file EXCEPT ![winst].rollTo = winext, ![winst].rollBase = End(winst)]
        /\ ChannelType /\ winst \in Created /\ winext \in Created /\ End(winst) \in Nat
    BY <1>0, <1>1, <1>2
  <2> QED
    BY <2>1, StageFacts
<1>4. ASSUME NEW j \in Created PROVE Kept(j)
  <2>1. file[j].count \in Nat
    BY <1>0, FileFields
  <2> QED
    BY <1>1, <1>3, <2>1 DEF Kept, SameRecords, SameRoll, SameState
<1>5. AllKept
  BY <1>0, <1>3, <1>4 DEF AllKept, SameFiles
<1>6. ASSUME NEW j \in Created, IsPublished(j), file[j].seq > 0 PROVE IsEdge(j)'
  <2>1. PICK p \in Created : p = file[j].parent /\ IsEdge(j)
    BY <1>6, ParentFacts
  <2>2. p # winst
    BY <1>1, <1>6, <2>1
  <2> QED
    BY <1>3, <2>1, <2>2, EdgeKept DEF SameRecords
<1>7. FilesOK'
  BY <1>0, <1>3, <1>5, <1>6, PrivateKeeps DEF SameRecords
<1>8. /\ OnePublished' /\ NamesOK' /\ FinishedOK'
      /\ Present' = Present /\ dir' \in [Seqs -> Created' \cup {NoFile}]
      /\ \A j \in Created : IsPublished(j)' <=> IsPublished(j)
      /\ \A s \in Present : Finished(s) => Finished(s)'
  BY <1>0, <1>3, NoPublish DEF SameState
<1>9. ChannelType'
  BY <1>0, <1>3, <1>8 DEF ChannelType, SameFiles, WriterPc, RollingPc
<1>10. WriterOK'
  <2>1. file'[winext].parent = winst /\ file'[winst].rollBase = End(winst)'
    BY <1>0, <1>1, <1>3 DEF SameIdentity
  <2> QED
    BY <1>0, <1>1, <1>3, <1>8, <2>1 DEF WriterOK, RollingPc, FinishPc
<1> QED
  BY <1>5, <1>7, <1>8, <1>9, <1>10 DEF ChannelInv

\* Stamping the successor's base.
LEMMA StampInv ==
  ASSUME ChannelInv, RollStamp
  PROVE  ChannelInv' /\ AllKept
<1>0. ChannelType /\ pc = "staged" /\ pc' = "stamped"
      /\ UNCHANGED <<dir, epoch, wseq, winst, winext, crashes>> /\ epoch \in Nat
      /\ file' = [file EXCEPT ![winext].base = file[winst].rollBase]
  BY DEF RollStamp, ChannelInv, ChannelType
<1>1. /\ winst \in Created /\ winext \in Created /\ winst # winext
      /\ wseq \in Present /\ dir[wseq] = winst /\ IsPublished(winst)
      /\ wseq + 1 \in Present /\ dir[wseq + 1] = winext
      /\ \A s \in Present : s <= wseq + 1
      /\ \A s \in Present : s < wseq => Finished(s)
      /\ file[winext].parent = winst /\ ~IsPublished(winext)
      /\ file[winst].rollTo = winext /\ file[winst].rollBase = End(winst)
  BY <1>0, Rolling DEF RollingPc
<1>2. file[winst].rollBase \in Nat
  BY <1>0, <1>1, FileFields
<1>3. /\ SameFiles
      /\ \A j \in Created :
           /\ SameIdentity(j) /\ SameRoll(j) /\ SameState(j) /\ file'[j].count = file[j].count
           /\ j # winext => SameRecords(j) /\ End(j)' = End(j)
      /\ file'[winext].base = file[winst].rollBase
  BY <1>0, <1>1, <1>2, StampFacts
<1>4. ASSUME NEW j \in Created PROVE Kept(j)
  <2>1. file[j].count \in Nat
    BY <1>0, FileFields
  <2> QED
    BY <1>1, <1>3, <2>1 DEF Kept, SameRecords, SameRoll, SameState, IsPublished
<1>5. AllKept
  BY <1>0, <1>3, <1>4 DEF AllKept, SameFiles
<1>6. ASSUME NEW j \in Created, IsPublished(j), file[j].seq > 0 PROVE IsEdge(j)'
  <2>1. PICK p \in Created : p = file[j].parent /\ IsEdge(j) /\ IsPublished(p)
    BY <1>6, ParentFacts
  <2>2. p # winext /\ j # winext
    BY <1>1, <1>6, <2>1
  <2> QED
    BY <1>3, <2>1, <2>2, EdgeKept DEF SameRecords
<1>7. FilesOK'
  BY <1>0, <1>3, <1>5, <1>6, PrivateKeeps
<1>8. /\ OnePublished' /\ NamesOK' /\ FinishedOK'
      /\ Present' = Present /\ dir' \in [Seqs -> Created' \cup {NoFile}]
      /\ \A j \in Created : IsPublished(j)' <=> IsPublished(j)
      /\ \A s \in Present : Finished(s) => Finished(s)'
  BY <1>0, <1>3, NoPublish DEF SameState
<1>9. ChannelType'
  BY <1>0, <1>3, <1>8 DEF ChannelType, SameFiles, WriterPc, RollingPc
<1>10. WriterOK'
  <2>1. /\ file'[winext].parent = winst /\ file'[winst].rollTo = winext
        /\ file'[winst].rollBase = End(winst)' /\ file'[winext].base = End(winst)'
    BY <1>0, <1>1, <1>3 DEF SameIdentity, SameRoll
  <2> QED
    BY <1>0, <1>1, <1>8, <2>1 DEF WriterOK, RollingPc, FinishPc
<1> QED
  BY <1>5, <1>7, <1>8, <1>9, <1>10 DEF ChannelInv

\* Publishing the successor.
LEMMA RollPublishInv ==
  ASSUME ChannelInv, RollPublish
  PROVE  ChannelInv' /\ AllKept
<1>0. ChannelType /\ pc = "stamped" /\ pc' = "published" /\ Publish(winext)
      /\ UNCHANGED <<dir, epoch, wseq, winst, winext, crashes>> /\ epoch \in Nat
  BY DEF RollPublish, ChannelInv, ChannelType
<1>1. /\ winst \in Created /\ winext \in Created /\ winst # winext /\ wseq \in Seqs
      /\ wseq \in Present /\ dir[wseq] = winst /\ IsPublished(winst) /\ wseq \in Nat
      /\ wseq + 1 \in Present /\ dir[wseq + 1] = winext
      /\ \A s \in Present : s <= wseq + 1
      /\ \A s \in Present : s < wseq => Finished(s)
      /\ file[winext].parent = winst
      /\ file[winst].rollTo = winext /\ file[winst].rollBase = End(winst)
      /\ file[winext].base = End(winst)
      /\ file[winext].seq = wseq + 1 /\ file[winext].epoch = epoch
      /\ \A t \in Present : PublishedName(t) => t <= wseq
  BY <1>0, Rolling, StillOpen DEF RollingPc, ChannelType
<1>2. /\ SameFiles
      /\ \A j \in Created :
           /\ SameIdentity(j) /\ SameRecords(j) /\ SameRoll(j) /\ End(j)' = End(j)
           /\ (file'[j].rolled <=> file[j].rolled) /\ (file'[j].past <=> file[j].past)
           /\ file'[j].published <=> file[j].published \/ j = winext
  BY <1>0, <1>1, PublishFacts
<1>3. FilesOK' /\ OnePublished' /\ AllKept
  <2>1. IsEdge(winext)
    BY <1>1 DEF IsEdge
  <2>2. ASSUME NEW j \in Created, IsPublished(j), file[j].seq = wseq + 1, file[j].epoch = epoch
        PROVE  j = winext
    <3>1. file[j].seq <= wseq
      BY <1>1, <2>2, NotNewer
    <3> QED
      BY <1>1, <2>2, <3>1
  <2> QED
    BY <1>0, <1>1, <2>1, <2>2, PublishKeeps
<1>4. NamesOK' /\ FinishedOK' /\ Present' = Present /\ dir' \in [Seqs -> Created' \cup {NoFile}]
  BY <1>0, <1>1, PublishNewest
<1>5. ChannelType'
  BY <1>0, <1>2, <1>4 DEF ChannelType, SameFiles, WriterPc, RollingPc
<1>6. WriterOK'
  <2>1. /\ file'[winext].parent = winst /\ file'[winst].rollTo = winext
        /\ file'[winst].rollBase = End(winst)'
        /\ IsPublished(winext)' /\ IsPublished(winst)'
    BY <1>0, <1>1, <1>2 DEF SameIdentity, SameRoll, IsPublished
  <2>2. \A s \in Present : Finished(s) => Finished(s)'
    BY <1>0, <1>2, NameFacts DEF Finished
  <2> QED
    BY <1>0, <1>1, <1>4, <2>1, <2>2 DEF WriterOK, RollingPc, FinishPc
<1> QED
  BY <1>3, <1>4, <1>5, <1>6 DEF ChannelInv

\* Committing the Roll.
LEMMA RollCommitInv ==
  ASSUME ChannelInv, RollCommit
  PROVE  ChannelInv' /\ AllKept
<1>0. ChannelType /\ pc = "published" /\ pc' = "committed"
      /\ UNCHANGED <<dir, epoch, wseq, winst, winext, crashes>>
      /\ file' = [file EXCEPT ![winst].rolled = TRUE]
  BY DEF RollCommit, ChannelInv
<1>1. /\ winst \in Created /\ winext \in Created
      /\ wseq \in Present /\ dir[wseq] = winst /\ IsPublished(winst)
      /\ wseq + 1 \in Present /\ dir[wseq + 1] = winext
      /\ \A s \in Present : s <= wseq + 1
      /\ \A s \in Present : s < wseq => Finished(s)
      /\ file[winext].parent = winst /\ IsPublished(winext)
      /\ file[winst].rollTo = winext /\ file[winst].rollBase = End(winst)
  BY <1>0, Rolling DEF RollingPc
<1>2. /\ SameFiles
      /\ \A j \in Created :
           /\ SameIdentity(j) /\ SameRecords(j) /\ SameRoll(j) /\ End(j)' = End(j)
           /\ (file'[j].published <=> file[j].published) /\ (file'[j].past <=> file[j].past)
           /\ file'[j].rolled <=> file[j].rolled \/ j = winst
  BY <1>0, <1>1, RolledFacts
<1>3. FilesOK' /\ AllKept
  BY <1>0, <1>1, CommitKeeps
<1>4. /\ OnePublished' /\ NamesOK' /\ FinishedOK'
      /\ Present' = Present /\ dir' \in [Seqs -> Created' \cup {NoFile}]
      /\ \A j \in Created : IsPublished(j)' <=> IsPublished(j)
      /\ \A s \in Present : Finished(s) => Finished(s)'
  BY <1>0, <1>2, NoPublish
<1>5. ChannelType'
  BY <1>0, <1>2, <1>4 DEF ChannelType, SameFiles, WriterPc, RollingPc
<1>6. WriterOK'
  <2>1. /\ file'[winext].parent = winst /\ file'[winst].rollTo = winext
        /\ file'[winst].rollBase = End(winst)' /\ file'[winst].rolled
    BY <1>0, <1>1, <1>2 DEF SameIdentity, SameRoll
  <2> QED
    BY <1>0, <1>1, <1>4, <2>1 DEF WriterOK, RollingPc, FinishPc
<1> QED
  BY <1>3, <1>4, <1>5, <1>6 DEF ChannelInv

\* Moving the position past the Roll, and to the successor.
LEMMA SwitchInv ==
  ASSUME ChannelInv, RollSwitch
  PROVE  ChannelInv' /\ AllKept
<1>0. ChannelType /\ pc = "committed" /\ pc' = "prune"
      /\ wseq' = wseq + 1 /\ winst' = winext /\ winext' = NoFile /\ UNCHANGED <<dir, epoch, crashes>>
      /\ file' = [file EXCEPT ![winst].past = TRUE]
  BY DEF RollSwitch, ChannelInv
<1>1. /\ winst \in Created /\ winext \in Created /\ wseq + 1 \in Seqs /\ wseq \in Nat
      /\ wseq \in Present /\ dir[wseq] = winst
      /\ wseq + 1 \in Present /\ dir[wseq + 1] = winext
      /\ \A s \in Present : s <= wseq + 1
      /\ \A s \in Present : s < wseq => Finished(s)
      /\ IsPublished(winext) /\ file[winst].rolled
  BY <1>0, Rolling DEF RollingPc
<1>2. /\ SameFiles
      /\ \A j \in Created :
           /\ SameIdentity(j) /\ SameRecords(j) /\ SameRoll(j) /\ End(j)' = End(j)
           /\ (file'[j].published <=> file[j].published) /\ (file'[j].rolled <=> file[j].rolled)
           /\ file'[j].past <=> file[j].past \/ j = winst
  BY <1>0, <1>1, PastFacts
<1>3. FilesOK' /\ AllKept
  BY <1>0, <1>1, PastKeeps
<1>4. /\ OnePublished' /\ NamesOK' /\ FinishedOK'
      /\ Present' = Present /\ dir' \in [Seqs -> Created' \cup {NoFile}]
      /\ \A j \in Created : IsPublished(j)' <=> IsPublished(j)
      /\ \A s \in Present : Finished(s) => Finished(s)'
  BY <1>0, <1>2, NoPublish
<1>5. ChannelType'
  BY <1>0, <1>1, <1>2, <1>4 DEF ChannelType, SameFiles, WriterPc
<1>6. WriterOK'
  <2>2. ASSUME NEW s \in Present', s < wseq' PROVE Finished(s)'
    <3>1. s \in Nat /\ s \in Present
      BY <1>0, <1>4, NameFacts
    <3>2. s = wseq \/ s < wseq
      BY <1>0, <1>1, <2>2, <3>1
    <3> QED
      BY <1>0, <1>1, <1>2, <1>4, <3>1, <3>2 DEF Finished
  <2>3. IsPublished(winst)'
    BY <1>0, <1>1, <1>2 DEF IsPublished
  <2> QED
    BY <1>0, <1>1, <1>4, <2>2, <2>3 DEF WriterOK, RollingPc, FinishPc
<1> QED
  BY <1>3, <1>4, <1>5, <1>6 DEF ChannelInv

\* Installing a fresh file under a name newer than every other.
LEMMA CreateKeeps ==
  ASSUME ChannelInv, Fresh <= MaxFiles, NEW s \in Seqs, NEW p \in Created \cup {NoFile},
         file' = WithFile(file, Fresh, Prepared(s, p)), InstallNoReplace(s, Fresh),
         UNCHANGED epoch,
         IF s = 0 THEN p = NoFile
         ELSE p \in Created /\ IsPublished(p) /\ s = file[p].seq + 1 /\ file[p].epoch = epoch,
         \A t \in Present : t < s /\ PublishedName(t),
         \A t \in Present : t + 1 < s => Finished(t)
  PROVE  /\ FilesOK' /\ OnePublished' /\ NamesOK' /\ FinishedOK' /\ AllKept
         /\ Created' = Created \cup {Fresh} /\ file' \in [Created' -> File]
         /\ \E n \in 0..MaxFiles : Created' = 1..n
         /\ Fresh \notin Created /\ file'[Fresh].parent = p /\ ~file'[Fresh].published
         /\ (\A j \in Created : file'[j] = file[j])
         /\ Present' = Present \cup {s} /\ dir'[s] = Fresh /\ s \notin Present
         /\ (\A t \in Present : dir'[t] = dir[t])
         /\ dir' \in [Seqs -> Created' \cup {NoFile}]
<1> DEFINE v == Prepared(s, p)
<1>0. ChannelType /\ epoch \in Nat /\ Fresh \notin Created /\ Fresh \in Nat \ {0}
      /\ NoFile \notin Created /\ Fresh # NoFile
  BY FreshFacts DEF ChannelInv, ChannelType, NoFile
<1>1. /\ v \in File /\ v.seq = s /\ v.parent = p /\ v.published = FALSE /\ v.count = 0
      /\ v.rolled = FALSE /\ v.past = FALSE /\ v.epoch = epoch
  <2>1. p \in 0..MaxFiles
    BY <1>0 DEF ChannelType, NoFile
  <2> QED
    BY <1>0, <2>1 DEF Prepared, File, NoFile
<1> HIDE DEF v
<1>2. /\ Created' = Created \cup {Fresh} /\ file' \in [Created' -> File]
      /\ file'[Fresh] = v /\ \A j \in Created : file'[j] = file[j]
      /\ \E n \in 0..MaxFiles : Created' = 1..n
  <2>1. file' = WithFile(file, Fresh, v)
    BY DEF v
  <2> QED
    BY <1>0, <1>1, <2>1, Made
<1>3. /\ Present' = Present \cup {s} /\ dir'[s] = Fresh /\ s \notin Present
      /\ \A t \in Present : dir'[t] = dir[t] /\ dir[t] \in Created
  BY <1>0 DEF InstallNoReplace, Present, ChannelType
<1>4. dir' \in [Seqs -> Created' \cup {NoFile}]
  BY <1>0, <1>2 DEF InstallNoReplace, ChannelType
<1>5. ASSUME NEW j \in Created PROVE Kept(j)
  <2>1. file[j].count \in Nat
    BY <1>0, FileFields
  <2> QED
    BY <1>2, <2>1 DEF Kept, SameIdentity
<1>6. AllKept
  BY <1>0, <1>2, <1>5 DEF AllKept
<1>7. FilesOK'
  <2>1. ASSUME NEW j \in Created PROVE Lineage(j)' /\ (file'[j].rolled => RollNames(j)')
    BY <1>0, <1>2, <1>6, LineageKept
  <2>2. ASSUME NEW j \in Created PROVE StateOK(j)'
    BY <1>2 DEF ChannelInv, FilesOK, StateOK, IsPublished
  <2>3. ASSUME NEW j \in Created, IsPublished(j)', file'[j].seq > 0 PROVE IsEdge(j)'
    <3>1. PICK q \in Created : q = file[j].parent /\ IsEdge(j)
      BY <1>2, <2>3, ParentFacts DEF IsPublished
    <3> QED
      BY <1>2, <3>1 DEF IsEdge, End
  <2>4. \A k : k = Fresh => StateOK(k)' /\ ~IsPublished(k)' /\ ~file'[k].rolled
    BY <1>1, <1>2 DEF StateOK, IsPublished
  <2>5. \A k : k = Fresh => Lineage(k)'
    BY <1>0, <1>1, <1>2 DEF Lineage, IsChild, IsPublished
  <2>6. ASSUME NEW k \in Created'
        PROVE  /\ Lineage(k)' /\ StateOK(k)'
               /\ IsPublished(k)' /\ file'[k].seq > 0 => IsEdge(k)'
               /\ file'[k].rolled => RollNames(k)'
    <3>1. CASE k \in Created
      BY <2>1, <2>2, <2>3, <3>1
    <3>2. CASE k = Fresh
      BY <2>4, <2>5, <3>2
    <3> QED
      BY <1>2, <3>1, <3>2
  <2> QED
    BY <2>6 DEF FilesOK
<1>8. OnePublished'
  BY <1>1, <1>2 DEF ChannelInv, OnePublished, IsPublished
<1>9. \A t \in Present : PublishedName(t)' /\ (Finished(t) => Finished(t)')
  BY <1>2, <1>3 DEF PublishedName, IsPublished, Finished
<1>10. NamesOK'
  <2>1. \A t \in Present' : file'[dir'[t]].seq = t /\ file'[dir'[t]].epoch = epoch'
    BY <1>1, <1>2, <1>3 DEF ChannelInv, NamesOK
  <2>2. \A t \in Present', u \in Present' : t < u => PublishedName(t)'
    <3> SUFFICES ASSUME NEW t \in Present', NEW u \in Present', t < u PROVE PublishedName(t)'
      OBVIOUS
    <3>1. t \in Nat /\ u \in Nat /\ s \in Nat
      BY DEF Present
    <3>2. t # s
      BY <1>3, <3>1
    <3> QED
      BY <1>3, <1>9, <3>2
  <2>3. ASSUME NEW j \in Created', IsPublished(j)', file'[j].epoch = epoch'
        PROVE  \E t \in Present' : PublishedName(t)' /\ file'[j].seq <= t
    <3>1. j \in Created /\ IsPublished(j) /\ file[j].epoch = epoch
      BY <1>1, <1>2, <2>3 DEF IsPublished
    <3>2. PICK t \in Present : file[j].seq <= t
      BY <3>1 DEF ChannelInv, NamesOK
    <3> QED
      BY <1>2, <1>3, <1>9, <3>1, <3>2
  <2> QED
    BY <2>1, <2>2, <2>3 DEF NamesOK
<1>11. FinishedOK'
  <2> SUFFICES ASSUME NEW t \in Present', NEW u \in Present', t + 1 < u PROVE Finished(t)'
    BY DEF FinishedOK
  <2>1. t \in Nat /\ u \in Nat /\ s \in Nat
    BY DEF Present
  <2>2. t # s /\ t \in Present
    BY <1>3, <2>1
  <2>3. Finished(t)
    BY <1>3, <2>2 DEF ChannelInv, FinishedOK
  <2> QED
    BY <1>9, <2>2, <2>3
<1> QED
  BY <1>0, <1>1, <1>2, <1>3, <1>4, <1>6, <1>7, <1>8, <1>10, <1>11

\* open_file with no file there.
LEMMA CreateInitialInv ==
  ASSUME ChannelInv, CreateInitial
  PROVE  ChannelInv' /\ AllKept
<1>0. ChannelType /\ pc' = "genesis" /\ wseq' = 0 /\ UNCHANGED <<epoch, winext, crashes>>
      /\ Present = {} /\ Fresh <= MaxFiles /\ InstallNoReplace(0, Fresh)
      /\ file' = WithFile(file, Fresh, Prepared(0, NoFile)) /\ 0 \in Seqs
  BY DEF CreateInitial, ChannelInv
<1>1. PICK n : n = Fresh
  OBVIOUS
<1>2. winst' = n
  BY <1>1 DEF CreateInitial
<1>3. /\ FilesOK' /\ OnePublished' /\ NamesOK' /\ FinishedOK' /\ AllKept
      /\ Created' = Created \cup {n} /\ file' \in [Created' -> File]
      /\ \E m \in 0..MaxFiles : Created' = 1..m
      /\ ~file'[n].published
      /\ Present' = {0} /\ dir'[0] = n
      /\ dir' \in [Seqs -> Created' \cup {NoFile}]
  BY <1>0, <1>1, CreateKeeps
<1>4. ChannelType'
  BY <1>0, <1>2, <1>3 DEF ChannelType, WriterPc
<1>5. WriterOK'
  BY <1>0, <1>2, <1>3 DEF WriterOK, RollingPc, FinishPc, IsPublished
<1> QED
  BY <1>3, <1>4, <1>5 DEF ChannelInv

\* prepare_successor.
LEMMA RollInstallInv ==
  ASSUME ChannelInv, RollInstall
  PROVE  ChannelInv' /\ AllKept
<1>0. ChannelType /\ pc = "idle" /\ pc' = "installed" /\ UNCHANGED <<epoch, wseq, winst, crashes>>
      /\ wseq + 1 \in Seqs /\ wseq \in Nat
      /\ Fresh <= MaxFiles /\ InstallNoReplace(wseq + 1, Fresh)
      /\ file' = WithFile(file, Fresh, Prepared(wseq + 1, winst))
  BY DEF RollInstall, ChannelInv, ChannelType
<1>1. PICK n : n = Fresh
  OBVIOUS
<1>2. winext' = n
  BY <1>1 DEF RollInstall
<1>3. /\ winst \in Created /\ wseq \in Present /\ dir[wseq] = winst /\ IsPublished(winst)
      /\ file[winst].seq = wseq /\ file[winst].epoch = epoch
      /\ \A s \in Present : s <= wseq
      /\ \A s \in Present : s < wseq => Finished(s)
  BY <1>0, OwnFile DEF ChannelInv, WriterOK, RollingPc, FinishPc
<1>4. \A s \in Present : s < wseq + 1 /\ PublishedName(s) /\ (s + 1 < wseq + 1 => Finished(s))
  <2> SUFFICES ASSUME NEW s \in Present
               PROVE  s < wseq + 1 /\ PublishedName(s) /\ (s + 1 < wseq + 1 => Finished(s))
    OBVIOUS
  <2>1. s \in Nat /\ s <= wseq
    BY <1>0, <1>3, NameFacts
  <2>2. PublishedName(wseq)
    BY <1>3 DEF PublishedName
  <2>3. PublishedName(s)
    BY <1>0, <1>3, <2>1, <2>2 DEF ChannelInv, NamesOK
  <2> QED
    BY <1>0, <1>3, <2>1, <2>3
<1>5. /\ FilesOK' /\ OnePublished' /\ NamesOK' /\ FinishedOK' /\ AllKept
      /\ Created' = Created \cup {n} /\ file' \in [Created' -> File]
      /\ \E m \in 0..MaxFiles : Created' = 1..m
      /\ n \notin Created /\ file'[n].parent = winst /\ ~file'[n].published
      /\ (\A j \in Created : file'[j] = file[j])
      /\ Present' = Present \cup {wseq + 1} /\ dir'[wseq + 1] = n
      /\ (\A t \in Present : dir'[t] = dir[t])
      /\ dir' \in [Seqs -> Created' \cup {NoFile}]
  BY <1>0, <1>1, <1>3, <1>4, CreateKeeps
<1>6. ChannelType'
  BY <1>0, <1>2, <1>5 DEF ChannelType, WriterPc, RollingPc
<1>7. WriterOK'
  <2>1. \A s \in Present' : s <= wseq + 1 /\ (s < wseq => Finished(s)')
    <3> SUFFICES ASSUME NEW s \in Present' PROVE s <= wseq + 1 /\ (s < wseq => Finished(s)')
      OBVIOUS
    <3>1. s \in Nat
      BY DEF Present
    <3>2. CASE s = wseq + 1
      BY <1>0, <3>1, <3>2
    <3>3. CASE s \in Present
      <4>1. dir[s] \in Created
        BY <1>0, <3>3, NameFacts
      <4> QED
        BY <1>0, <1>3, <1>5, <3>1, <3>3, <4>1 DEF Finished
    <3> QED
      BY <1>5, <3>2, <3>3
  <2>2. IsPublished(winst)' /\ ~IsPublished(winext)' /\ file'[winext'].parent = winst'
    BY <1>0, <1>2, <1>3, <1>5 DEF IsPublished
  <2>3. wseq' \in Present' /\ dir'[wseq'] = winst' /\ wseq' + 1 \in Present' /\ dir'[wseq' + 1] = winext'
    BY <1>0, <1>2, <1>3, <1>5
  <2> QED
    BY <1>0, <2>1, <2>2, <2>3 DEF WriterOK, RollingPc, FinishPc
<1> QED
  BY <1>5, <1>6, <1>7 DEF ChannelInv

\* A step of the writer, of an open, a crash or a cleanup.
LEMMA WriterInv ==
  ASSUME ChannelInv, WriterNext
  PROVE  ChannelInv' /\ AllKept
BY DiscardInv, CreateInitialInv, OpenNewestInv, PublishInitialInv, StrandedInv, FinishCommitInv,
   FinishWpInv, StageInv, StampInv, RollPublishInv, RollCommitInv, SwitchInv, PruneInv,
   AppendInv, RollInstallInv, CrashInv, CleanupInv
   DEF WriterNext, OpenCalled, OpenStep, RollStep

\* A reader changes nothing of the channel.
LEMMA ChannelFrame ==
  ASSUME ChannelInv, UNCHANGED <<dirVars, writerVars>>
  PROVE  ChannelInv' /\ AllKept
<1>0. ChannelType /\ UNCHANGED <<dir, file, epoch, pc, wseq, winst, winext, crashes>> /\ epoch \in Nat
  BY DEF ChannelInv, ChannelType, dirVars, writerVars
<1>1. Present' = Present
  BY <1>0 DEF Present
<1>2. SameFiles /\ AllKept
  BY <1>0, NoStore
<1>3. ChannelType'
  BY <1>0, <1>2 DEF ChannelType, SameFiles
<1>4. FilesOK' /\ OnePublished'
  BY <1>0, <1>2 DEF ChannelInv, FilesOK, OnePublished, Lineage, RollNames, StateOK, IsChild, IsEdge,
                    IsPublished, End, SameFiles
<1>5. NamesOK' /\ FinishedOK'
  BY <1>0, <1>1, <1>2 DEF ChannelInv, NamesOK, FinishedOK, Finished, PublishedName, IsPublished, SameFiles
<1>6. WriterOK'
  BY <1>0, <1>1 DEF ChannelInv, WriterOK, Finished, IsPublished, End
<1> QED
  BY <1>2, <1>3, <1>4, <1>5, <1>6 DEF ChannelInv

-----------------------------------------------------------------------------
(* Readers *)

\* No step of a writer touches a reader's own state.
LEMMA WriterFrame ==
  ASSUME WriterNext
  PROVE  UNCHANGED <<rpc, rseq, rinst, rindex, rpast, repoch>>
BY DEF WriterNext, OpenCalled, OpenStep, RollStep, DiscardUnpublished, CreateInitial, OpenNewest,
       PublishInitial, StrandedCheck, FinishCommit, FinishWp, RollStage, RollStamp, RollPublish,
       RollCommit, RollSwitch, RollPrune, Append, RollInstall, Crash, Cleanup, readerVars

\* What a reader relies on is not taken back.
LEMMA ReaderKept ==
  ASSUME ChannelInv, ReadersType, NEW r \in Readers, ReaderOK(r), AllKept, epoch' \in Nat,
         ChannelType',
         rpc'[r] = rpc[r], rseq'[r] = rseq[r], rinst'[r] = rinst[r], rindex'[r] = rindex[r],
         repoch'[r] = repoch[r]
  PROVE  ReaderOK(r)'
<1> DEFINE i == rinst[r]
<1>0. ChannelType /\ epoch \in Nat /\ repoch[r] \in Nat /\ rindex[r] \in Nat /\ epoch <= epoch'
  BY DEF ChannelInv, ChannelType, ReadersType, AllKept
<1>1. ASSUME rpc[r] \in LivePc \cup GivenPc
      PROVE  /\ i \in Created /\ i \in Created' /\ IsPublished(i) /\ IsPublished(i)'
             /\ file'[i].seq = file[i].seq /\ file'[i].epoch = file[i].epoch
             /\ file'[i].base = file[i].base /\ End(i) \in Nat /\ End(i)' \in Nat /\ End(i) <= End(i)'
  <2>1. i \in Created /\ IsPublished(i) /\ Kept(i) /\ i \in Created' /\ i = rinst'[r]
    BY <1>1 DEF ReaderOK, AllKept
  <2>2. /\ file[i].base \in Nat /\ file[i].count \in Nat /\ file'[i].count \in Nat
    <3>1. file'[i] \in File
      BY <2>1 DEF ChannelType
    <3> QED
      BY <1>0, <2>1, <3>1, FileFields DEF File
  <2>3. IsPublished(i)' /\ file'[i].base = file[i].base /\ file'[i].count >= file[i].count
        /\ file'[i].seq = file[i].seq /\ file'[i].epoch = file[i].epoch
    BY <2>1 DEF Kept, IsPublished, SameIdentity
  <2>4. End(i) \in Nat /\ End(i)' \in Nat /\ End(i) <= End(i)'
    BY <2>1, <2>2, <2>3 DEF End
  <2> QED
    BY <2>1, <2>3, <2>4
<1>2. ASSUME rpc[r] \in GivenPc \cup (LivePc \ {"live_load"})
      PROVE  file'[i].base <= rindex[r] /\ rindex[r] <= End(i)'
  BY <1>0, <1>1, <1>2 DEF ReaderOK
<1>3. rpc[r] = "error" => repoch[r] < epoch'
  BY <1>0 DEF ReaderOK
<1> QED
  BY <1>1, <1>2, <1>3 DEF ReaderOK, GivenPc

\* A committed Roll of the current channel leads to the file under the next name, if there is
\* one there.
LEMMA NextName ==
  ASSUME ChannelInv, NEW i \in Created, file[i].rolled, file[i].epoch = epoch
  PROVE  /\ file[i].seq + 1 \in Seqs
         /\ file[i].seq + 1 \in Present => dir[file[i].seq + 1] = file[i].rollTo
<1> DEFINE k == file[i].rollTo
<1>0. ChannelType /\ i # NoFile /\ file[i].seq \in Nat
  BY FileFields DEF ChannelInv
<1>1. k \in Created /\ file[k].parent = i /\ IsPublished(k)
  BY DEF ChannelInv, FilesOK, RollNames
<1>2. file[k].seq = file[i].seq + 1 /\ file[k].epoch = epoch
  BY <1>0, <1>1 DEF ChannelInv, FilesOK, Lineage, IsChild
<1>3. file[k].seq \in Seqs
  BY <1>0, <1>1, FileFields
<1>4. ASSUME file[k].seq \in Present PROVE dir[file[k].seq] = k
  <2> DEFINE s == file[k].seq
             j == dir[s]
  <2>1. j \in Created /\ file[j].seq = s /\ file[j].epoch = epoch
    BY <1>0, <1>4, NameFacts DEF ChannelInv, NamesOK
  <2>2. PICK t \in Present : PublishedName(t) /\ s <= t
    BY <1>1, <1>2 DEF ChannelInv, NamesOK
  <2>3. s \in Nat /\ t \in Nat
    BY <1>0, <1>4, NameFacts
  <2>4. PublishedName(s)
    BY <1>4, <2>2, <2>3 DEF ChannelInv, NamesOK
  <2> QED
    BY <1>1, <1>2, <2>1, <2>4 DEF ChannelInv, OnePublished, PublishedName
<1> QED
  BY <1>2, <1>3, <1>4

\* A committed Roll passes every check of the reader that meets it.
LEMMA RollFollows ==
  ASSUME ChannelInv, NEW i \in Created, file[i].rolled
  PROVE  file[i].rollTo \in Created /\ Follows(i, file[i].rollTo)
<1> DEFINE k == file[i].rollTo
<1>0. ChannelType /\ i # NoFile /\ file[i].seq \in Nat
  BY FileFields DEF ChannelInv
<1>1. k \in Created /\ file[k].parent = i /\ IsPublished(k)
  BY DEF ChannelInv, FilesOK, RollNames
<1>2. file[k].seq = file[i].seq + 1
  BY <1>0, <1>1 DEF ChannelInv, FilesOK, Lineage, IsChild
<1>3. IsEdge(k)
  BY <1>0, <1>1, <1>2 DEF ChannelInv, FilesOK
<1> QED
  BY <1>1, <1>2, <1>3 DEF Follows, Names, IsEdge

\* The oldest name.
LEMMA EarliestFacts ==
  ASSUME ChannelType, Present # {}
  PROVE  Earliest \in Present /\ Earliest \in Seqs /\ \A t \in Present : Earliest <= t
<1> DEFINE R == OpToRel(<, Nat)
<1>1. Present \subseteq Nat /\ Present \subseteq Seqs
  BY DEF Present
<1>2. \A m \in Nat, n \in Nat : <<m, n>> \in R <=> m < n
  BY DEF OpToRel
<1>3. IsWellFoundedOn(R, Nat)
  BY NatLessThanWellFounded
<1> HIDE DEF R
<1>4. PICK x \in Present : \A y \in Present : ~(<<y, x>> \in R)
  BY <1>1, <1>3, WFMin
<1>5. ASSUME NEW y \in Present PROVE x <= y
  <2>1. x \in Nat /\ y \in Nat
    BY <1>1
  <2>2. ~(<<y, x>> \in R)
    BY <1>4
  <2> QED
    BY <1>2, <2>1, <2>2
<1>6. Earliest \in Present /\ \A t \in Present : Earliest <= t
  BY <1>5 DEF Earliest
<1> QED
  BY <1>1, <1>6

\* A step of a reader keeps what it relies on.
LEMMA OwnStep ==
  ASSUME ChannelInv, ReadersType, NEW r \in Readers, ReaderOK(r), ReaderNext(r)
  PROVE  /\ ReadersType' /\ ReaderOK(r)' /\ UNCHANGED <<dirVars, writerVars>>
         /\ \A q \in Readers : q # r =>
              /\ rpc'[q] = rpc[q] /\ rseq'[q] = rseq[q] /\ rinst'[q] = rinst[q]
              /\ rindex'[q] = rindex[q] /\ rpast'[q] = rpast[q] /\ repoch'[q] = repoch[q]
<1> DEFINE Goal == /\ ReadersType' /\ ReaderOK(r)' /\ UNCHANGED <<dirVars, writerVars>>
                   /\ \A q \in Readers : q # r =>
                        /\ rpc'[q] = rpc[q] /\ rseq'[q] = rseq[q] /\ rinst'[q] = rinst[q]
                        /\ rindex'[q] = rindex[q] /\ rpast'[q] = rpast[q] /\ repoch'[q] = repoch[q]
<1>0. /\ ChannelType /\ epoch \in Nat
      /\ rpc[r] \in ReaderPc /\ rseq[r] \in Seqs /\ rinst[r] \in Created \cup {NoFile}
      /\ rindex[r] \in Nat /\ rpast[r] \in BOOLEAN /\ repoch[r] \in Nat
  BY DEF ChannelInv, ChannelType, ReadersType
<1>1. \A s \in Present : dir[s] \in Created /\ s \in Seqs /\ file[dir[s]].seq = s
  BY <1>0, NameFacts DEF ChannelInv, NamesOK
<1>2. ASSUME NEW i \in Created
      PROVE  file[i].base \in Nat /\ End(i) \in Nat /\ file[i].base <= End(i) /\ file[i].epoch \in Nat
             /\ file[i].past \in BOOLEAN
  BY <1>0, FileFields DEF End
<1>3. CASE LateList(r)
  <2>1. PICK s \in Seqs : rseq' = [rseq EXCEPT ![r] = s]
    <3>1. Present # {} /\ rseq' = [rseq EXCEPT ![r] = Earliest]
      BY <1>3 DEF LateList
    <3>2. Earliest \in Seqs
      BY <1>0, <3>1, EarliestFacts
    <3> QED
      BY <3>1, <3>2
  <2>2. /\ rpc' = [rpc EXCEPT ![r] = "late_open"] /\ UNCHANGED <<dirVars, writerVars, rinst, rindex, rpast, repoch>>
    BY <1>3 DEF LateList, RStep
  <2>3. ReadersType'
    BY <2>1, <2>2 DEF ReadersType, ReaderPc, Created, dirVars
  <2> QED
    BY <2>1, <2>2, <2>3 DEF ReadersType, ReaderOK, LivePc, GivenPc
<1>4. CASE LateOpen(r)
  <2>1. rseq[r] \in Present /\ IsPublished(dir[rseq[r]])
    BY <1>4 DEF LateOpen, PublishedName
  <2>2. PICK i \in Created : i = dir[rseq[r]] /\ IsPublished(i) /\ file[i].seq = rseq[r]
    BY <1>1, <2>1
  <2>3. /\ rpc' = [rpc EXCEPT ![r] = "scan"] /\ rinst' = [rinst EXCEPT ![r] = i]
        /\ rindex' = [rindex EXCEPT ![r] = file[i].base]
        /\ repoch' = [repoch EXCEPT ![r] = file[i].epoch]
        /\ UNCHANGED <<dir, file, epoch, writerVars, dirVars, rseq, rpast>>
    BY <1>4, <2>2 DEF LateOpen, Join, dirVars
  <2>4. ReadersType'
    BY <1>2, <2>3 DEF ReadersType, ReaderPc, GivenPc, Created
  <2>5. ReaderOK(r)'
    BY <1>2, <2>2, <2>3 DEF ReadersType, ReaderOK, LivePc, GivenPc, Created, IsPublished, End
  <2> QED
    BY <2>3, <2>4, <2>5 DEF ReadersType
<1>5. CASE LateAgain(r)
  <2>1. /\ rpc' = [rpc EXCEPT ![r] = "closed"] /\ rseq' = [rseq EXCEPT ![r] = 0]
        /\ UNCHANGED <<dirVars, writerVars, rinst, rindex, rpast, repoch>>
    BY <1>5 DEF LateAgain, RStep
  <2>2. ReadersType'
    BY <2>1 DEF ReadersType, ReaderPc, Created, dirVars
  <2> QED
    BY <2>1, <2>2 DEF ReadersType, ReaderOK, LivePc, GivenPc
<1>6. CASE LiveList(r)
  <2>1. PICK s \in Seqs : rseq' = [rseq EXCEPT ![r] = s]
    BY <1>1, <1>6 DEF LiveList
  <2>2. /\ rpc' = [rpc EXCEPT ![r] = "live_open"] /\ UNCHANGED <<dirVars, writerVars, rinst, rindex, rpast, repoch>>
    BY <1>6 DEF LiveList, RStep
  <2>3. ReadersType'
    BY <2>1, <2>2 DEF ReadersType, ReaderPc, Created, dirVars
  <2> QED
    BY <2>1, <2>2, <2>3 DEF ReadersType, ReaderOK, LivePc, GivenPc
<1>7. CASE LiveOpen(r)
  <2>1. rseq[r] \in Present /\ IsPublished(dir[rseq[r]])
    BY <1>7 DEF LiveOpen, PublishedName
  <2>2. PICK i \in Created : i = dir[rseq[r]] /\ IsPublished(i) /\ file[i].seq = rseq[r]
    BY <1>1, <2>1
  <2>3. /\ rpc' = [rpc EXCEPT ![r] = "live_load"] /\ rinst' = [rinst EXCEPT ![r] = i]
        /\ UNCHANGED <<dir, file, epoch, writerVars, dirVars, rseq, rindex, rpast, repoch>>
    BY <1>7, <2>2 DEF LiveOpen, RStep, dirVars
  <2>4. ReadersType'
    BY <2>3 DEF ReadersType, ReaderPc, LivePc, Created
  <2>5. ReaderOK(r)'
    BY <2>2, <2>3 DEF ReadersType, ReaderOK, LivePc, GivenPc, Created, IsPublished
  <2> QED
    BY <2>3, <2>4, <2>5 DEF ReadersType
<1>8. CASE LiveGone(r)
  <2>1. /\ rpc' = [rpc EXCEPT ![r] = "closed"] /\ rseq' = [rseq EXCEPT ![r] = 0]
        /\ UNCHANGED <<dirVars, writerVars, rinst, rindex, rpast, repoch>>
    BY <1>8 DEF LiveGone, RStep
  <2>2. ReadersType'
    BY <2>1 DEF ReadersType, ReaderPc, Created, dirVars
  <2> QED
    BY <2>1, <2>2 DEF ReadersType, ReaderOK, LivePc, GivenPc
<1>9. CASE LiveLoad(r)
  <2>1. PICK i \in Created : i = rinst[r] /\ IsPublished(i) /\ file[i].seq = rseq[r]
    BY <1>9 DEF LiveLoad, RStep, ReaderOK, LivePc
  <2>2. PICK e \in Nat : e = End(i)
    BY <1>2
  <2>3. /\ rpc' = [rpc EXCEPT ![r] = "live_next"] /\ rindex' = [rindex EXCEPT ![r] = e]
        /\ UNCHANGED <<dir, file, epoch, writerVars, dirVars, rseq, rinst, repoch>>
        /\ rpast' = [rpast EXCEPT ![r] = file[i].past]
    BY <1>9, <2>1, <2>2 DEF LiveLoad, RStep, dirVars
  <2>4. ReadersType'
    BY <1>2, <2>3 DEF ReadersType, ReaderPc, LivePc, Created
  <2>5. ReaderOK(r)'
    BY <1>2, <2>1, <2>2, <2>3 DEF ReadersType, ReaderOK, LivePc, GivenPc, Created, IsPublished, End
  <2> QED
    BY <2>3, <2>4, <2>5 DEF ReadersType
<1>10. ASSUME Stale(r), UNCHANGED <<dirVars, writerVars>> PROVE Goal
  <2>1. /\ rpc' = [rpc EXCEPT ![r] = "closed"] /\ rseq' = [rseq EXCEPT ![r] = 0]
        /\ rinst' = [rinst EXCEPT ![r] = NoFile] /\ rindex' = [rindex EXCEPT ![r] = 0]
        /\ rpast' = [rpast EXCEPT ![r] = FALSE] /\ UNCHANGED <<repoch, dir, file, epoch>>
    BY <1>10 DEF Stale, dirVars
  <2>2. ReadersType'
    BY <2>1 DEF ReadersType, ReaderPc, Created
  <2> QED
    BY <1>10, <2>1, <2>2 DEF ReadersType, ReaderOK, LivePc, GivenPc
<1>11. ASSUME NEW p \in {"live_self", "live_slot", "live_load", "stranded"},
              rpc[r] \in {"live_next", "live_self", "live_slot"},
              rpc' = [rpc EXCEPT ![r] = p],
              UNCHANGED <<dirVars, writerVars, rseq, rinst, rindex, rpast, repoch>>
       PROVE  Goal
  <2>1. ReadersType'
    BY <1>11 DEF ReadersType, ReaderPc, LivePc, Created, dirVars
  <2>2. ReaderOK(r)'
    BY <1>11 DEF ReadersType, ReaderOK, LivePc, GivenPc, Created, IsPublished, End, dirVars
  <2> QED
    BY <1>11, <2>1, <2>2 DEF ReadersType
<1>12. CASE LiveCheckNext(r)
  <2>1. CASE NewerName(r)
    BY <1>10, <1>12, <2>1 DEF LiveCheckNext
  <2>2. CASE ~NewerName(r)
    BY <1>11, <1>12, <2>2 DEF LiveCheckNext
  <2> QED
    BY <2>1, <2>2
<1>13. CASE LiveCheckSelf(r)
  <2>1. CASE dir[rseq[r]] = NoFile
    BY <1>10, <1>13, <2>1 DEF LiveCheckSelf
  <2>2. CASE dir[rseq[r]] # NoFile
    BY <1>11, <1>13, <2>2 DEF LiveCheckSelf
  <2> QED
    BY <2>1, <2>2
<1>14. CASE LiveSlot(r)
  <2>0. rpc[r] = "live_slot" /\ UNCHANGED <<dirVars, writerVars, rseq, rpast>>
    BY <1>14 DEF LiveSlot
  <2>1. CASE rpast[r]
    BY <1>11, <1>14, <2>0, <2>1 DEF LiveSlot, RStep
  <2>2. CASE ~rpast[r] /\ rindex[r] < End(rinst[r])
    BY <1>11, <1>14, <2>0, <2>2 DEF LiveSlot, RStep
  <2>3. CASE ~rpast[r] /\ ~(rindex[r] < End(rinst[r]))
    <3>1. PICK i \in Created : /\ i = rinst[r] /\ IsPublished(i) /\ file[i].seq = rseq[r]
                               /\ file[i].base <= rindex[r] /\ rindex[r] <= End(i)
      BY <2>0 DEF ReaderOK, LivePc
    <3>2. /\ rpc' = [rpc EXCEPT ![r] = "scan"] /\ rinst' = [rinst EXCEPT ![r] = i]
          /\ rindex' = [rindex EXCEPT ![r] = rindex[r]]
          /\ repoch' = [repoch EXCEPT ![r] = file[i].epoch]
          /\ UNCHANGED <<dir, file, epoch>>
      BY <1>14, <2>0, <2>3, <3>1 DEF LiveSlot, Join, dirVars
    <3>3. ReadersType'
      BY <1>2, <2>0, <3>2 DEF ReadersType, ReaderPc, GivenPc, Created
    <3>4. ReaderOK(r)'
      BY <2>0, <3>1, <3>2 DEF ReadersType, ReaderOK, LivePc, GivenPc, Created, IsPublished, End
    <3> QED
      BY <2>0, <3>2, <3>3, <3>4 DEF ReadersType
  <2> QED
    BY <2>1, <2>2, <2>3
<1>15. CASE Read(r)
  <2>1. PICK i \in Created : /\ i = rinst[r] /\ IsPublished(i) /\ file[i].seq = rseq[r]
                             /\ file[i].base <= rindex[r] /\ file[i].epoch = repoch[r]
    BY <1>15 DEF Read, ReaderOK, GivenPc
  <2>2. PICK e \in Nat : e = rindex[r] + 1 /\ e <= End(i) /\ file[i].base <= e
    BY <1>0, <1>2, <1>15, <2>1 DEF Read
  <2>3. /\ rindex' = [rindex EXCEPT ![r] = e] /\ rpc[r] = "scan"
        /\ UNCHANGED <<dir, file, epoch, dirVars, writerVars, rpc, rseq, rinst, rpast, repoch>>
    BY <1>15, <2>2 DEF Read, dirVars
  <2>4. ReadersType'
    BY <2>3 DEF ReadersType, Created
  <2>5. ReaderOK(r)'
    BY <2>1, <2>2, <2>3 DEF ReadersType, ReaderOK, LivePc, GivenPc, Created, IsPublished, End
  <2> QED
    BY <2>3, <2>4, <2>5 DEF ReadersType
<1>16. CASE FollowRoll(r)
  <2>1. PICK i \in Created : /\ i = rinst[r] /\ IsPublished(i) /\ file[i].seq = rseq[r]
                             /\ file[i].epoch = repoch[r] /\ file[i].rolled
                             /\ file[i].base <= rindex[r] /\ rindex[r] <= End(i)
    BY <1>16 DEF FollowRoll, ReaderOK, GivenPc
  <2>2. PICK j : j = dir[rseq[r] + 1] /\ j # NoFile
    BY <1>16 DEF FollowRoll
  <2>3. rpc[r] = "scan" /\ UNCHANGED <<dir, file, epoch, dirVars, writerVars, rpast, repoch>>
    BY <1>16 DEF FollowRoll, dirVars
  <2>4. CASE Follows(i, j)
    <3>1. /\ rseq' = [rseq EXCEPT ![r] = rseq[r] + 1] /\ rinst' = [rinst EXCEPT ![r] = j]
          /\ rindex' = [rindex EXCEPT ![r] = file[j].base] /\ UNCHANGED rpc
      BY <1>16, <2>1, <2>2, <2>4 DEF FollowRoll
    <3>2. file[i].rollTo \in Created
      BY <2>1, RollFollows
    <3>3. /\ j \in Created /\ IsPublished(j) /\ file[j].seq = rseq[r] + 1 /\ file[j].parent = i
      BY <2>1, <2>4, <3>2 DEF Follows, Names
    <3>4. file[j].epoch = file[i].epoch /\ rseq[r] + 1 \in Seqs
      <4>1. file[j].seq \in Seqs /\ file[j].seq # 0
        BY <1>0, <3>3, FileFields
      <4> QED
        BY <3>3, <4>1 DEF ChannelInv, FilesOK, Lineage, IsChild
    <3>5. ReadersType'
      BY <1>2, <2>3, <3>1, <3>3, <3>4 DEF ReadersType, Created
    <3>6. ReaderOK(r)'
      BY <1>2, <2>1, <2>3, <3>1, <3>3, <3>4 DEF ReadersType, ReaderOK, LivePc, GivenPc, Created, IsPublished, End
    <3> QED
      BY <2>3, <3>1, <3>5, <3>6 DEF ReadersType
  <2>5. CASE ~Follows(i, j)
    <3>1. /\ rpc' = [rpc EXCEPT ![r] = "error"] /\ UNCHANGED <<rseq, rinst, rindex>>
      BY <1>16, <2>1, <2>2, <2>5 DEF FollowRoll
    <3>2. repoch[r] # epoch
      <4> SUFFICES ASSUME repoch[r] = epoch PROVE FALSE
        OBVIOUS
      <4>1. /\ file[i].seq + 1 \in Seqs
            /\ file[i].seq + 1 \in Present => dir[file[i].seq + 1] = file[i].rollTo
        BY <2>1, NextName
      <4>2. file[i].seq + 1 \in Present
        BY <2>1, <2>2, <4>1 DEF Present
      <4> QED
        BY <2>1, <2>2, <2>5, <4>1, <4>2, RollFollows
    <3>3. repoch[r] < epoch
      <4>1. file[i].epoch <= epoch
        BY DEF ChannelInv, FilesOK, Lineage
      <4> QED
        BY <1>0, <2>1, <3>2, <4>1
    <3>4. ReadersType'
      BY <2>3, <3>1 DEF ReadersType, ReaderPc, GivenPc, Created
    <3>5. ReaderOK(r)'
      BY <2>1, <2>3, <3>1, <3>3 DEF ReadersType, ReaderOK, LivePc, GivenPc, Created, IsPublished, End
    <3> QED
      BY <2>3, <3>1, <3>4, <3>5 DEF ReadersType
  <2> QED
    BY <2>4, <2>5
<1>17. CASE Overtaken(r)
  <2>1. /\ rpc' = [rpc EXCEPT ![r] = "overtaken"] /\ rpc[r] = "scan"
        /\ UNCHANGED <<dir, file, epoch, dirVars, writerVars, rseq, rinst, rindex, rpast, repoch>>
    BY <1>17 DEF Overtaken, RStep, dirVars
  <2>2. ReadersType'
    BY <2>1 DEF ReadersType, ReaderPc, GivenPc, Created
  <2>3. ReaderOK(r)'
    BY <2>1 DEF ReadersType, ReaderOK, LivePc, GivenPc, Created, IsPublished, End
  <2> QED
    BY <2>1, <2>2, <2>3 DEF ReadersType
<1> QED
  BY <1>3, <1>4, <1>5, <1>6, <1>7, <1>8, <1>9, <1>12, <1>13, <1>14, <1>15, <1>16, <1>17
  DEF ReaderNext, LiveStep, ReaderStep

-----------------------------------------------------------------------------
(* Theorems *)

\* An empty directory.
LEMMA InitInv ==
  ASSUME Init
  PROVE  IInv
<1>1. Created = {} /\ Present = {} /\ epoch = 0 /\ pc = "down"
  BY DEF Init, Created, Present
<1>2. \E n \in 0..MaxFiles : Created = 1..n
  <2>1. 1..0 = {} /\ 0 \in 0..MaxFiles
    OBVIOUS
  <2> QED
    BY <1>1, <2>1
<1>3. ChannelType
  <2>1. file \in [Created -> File]
    <3>1. file = [i \in {} |-> Prepared(0, NoFile)] /\ DOMAIN file = {}
      BY DEF Init
    <3> HIDE DEF Prepared
    <3> QED
      BY <3>1 DEF Created
  <2>2. dir \in [Seqs -> Created \cup {NoFile}]
    BY <1>1 DEF Init
  <2> QED
    BY <1>1, <1>2, <2>1, <2>2 DEF Init, ChannelType, WriterPc
<1>4. FilesOK /\ OnePublished /\ NamesOK /\ FinishedOK /\ WriterOK
  BY <1>1 DEF FilesOK, OnePublished, NamesOK, FinishedOK, WriterOK, RollingPc, FinishPc
<1>5. ReadersType /\ ReadersOK
  BY DEF Init, ReadersType, ReaderPc, ReadersOK, ReaderOK, LivePc, GivenPc
<1> QED
  BY <1>3, <1>4, <1>5 DEF IInv, ChannelInv

\* Every step keeps the invariant and takes nothing back of a file.
LEMMA NextInv ==
  ASSUME IInv, [Next]_vars
  PROVE  IInv' /\ AllKept
<1>0. ChannelInv /\ ReadersType /\ \A r \in Readers : ReaderOK(r)
  BY DEF IInv, ReadersOK
<1>1. ASSUME ChannelInv', AllKept,
             UNCHANGED <<rpc, rseq, rinst, rindex, rpast, repoch>>
      PROVE  IInv' /\ AllKept
  <2>1. Created \subseteq Created' /\ ChannelType' /\ epoch' \in Nat
    BY <1>1 DEF ChannelInv, ChannelType, AllKept
  <2>2. ReadersType'
    BY <1>0, <1>1, <2>1 DEF ReadersType
  <2>3. ASSUME NEW r \in Readers PROVE ReaderOK(r)'
    BY <1>0, <1>1, <2>1, ReaderKept
  <2> QED
    BY <1>1, <2>2, <2>3 DEF IInv, ReadersOK
<1>2. CASE WriterNext
  BY <1>0, <1>1, <1>2, WriterInv, WriterFrame
<1>3. CASE UNCHANGED vars
  BY <1>0, <1>1, <1>3, ChannelFrame DEF vars, readerVars
<1>4. ASSUME NEW r \in Readers, ReaderNext(r) PROVE IInv' /\ AllKept
  <2>1. /\ ReadersType' /\ ReaderOK(r)' /\ UNCHANGED <<dirVars, writerVars>>
        /\ \A q \in Readers : q # r =>
             /\ rpc'[q] = rpc[q] /\ rseq'[q] = rseq[q] /\ rinst'[q] = rinst[q]
             /\ rindex'[q] = rindex[q] /\ rpast'[q] = rpast[q] /\ repoch'[q] = repoch[q]
    BY <1>0, <1>4, OwnStep
  <2>2. ChannelInv' /\ AllKept
    BY <1>0, <2>1, ChannelFrame
  <2>3. ChannelType' /\ epoch' \in Nat
    BY <2>2 DEF ChannelInv, ChannelType
  <2>4. ASSUME NEW q \in Readers PROVE ReaderOK(q)'
    <3>1. CASE q = r
      BY <2>1, <3>1
    <3>2. CASE q # r
      BY <1>0, <2>1, <2>2, <2>3, <3>2, ReaderKept
    <3> QED
      BY <3>1, <3>2
  <2> QED
    BY <2>1, <2>2, <2>4 DEF IInv, ReadersOK
<1> QED
  BY <1>2, <1>3, <1>4 DEF Next

\* The invariant holds in every reachable state, whatever crashes, cleans up and reads.
THEOREM RollInvariant == Spec => []IInv
<1>1. Init => IInv
  BY InitInv
<1>2. IInv /\ [Next]_vars => IInv'
  BY NextInv
<1> QED
  BY <1>1, <1>2, PTL DEF Spec

\* A committed Roll leads to a published file that follows the one it is in (roll_file,
\* commit_stranded_roll).
THEOREM RollsLeadOn == Spec => []RollLeadsOn
<1>1. IInv => RollLeadsOn
  BY RollFollows DEF IInv, RollLeadsOn
<1> QED
  BY <1>1, RollInvariant, PTL

\* A reader is given records of its own channel only, and of the segment it stands in
\* (open_successor).
THEOREM NeverSpliced == Spec => []NoSplice
<1>1. IInv => NoSplice
  BY DEF IInv, NoSplice, ReadersOK, ReaderOK, GivenPc
<1> QED
  BY <1>1, RollInvariant, PTL

\* A reader refuses a Roll only after its channel was cleaned up (open_successor).
THEOREM ErrorsOnlyAfterCleanup == Spec => []ErrorOnlyAfterCleanup
<1>1. IInv => ErrorOnlyAfterCleanup
  BY DEF IInv, ErrorOnlyAfterCleanup, ReadersOK, ReaderOK
<1> QED
  BY <1>1, RollInvariant, PTL

\* An open never refuses what a crash at any step of a roll, of an open or of a prune left
\* (open_file, discard_unpublished_tail, commit_stranded_roll).
THEOREM OpenNeverRefuses == Spec => []RecoveryAccepts
<1>1. IInv => RecoveryAccepts
  BY DEF IInv, ChannelInv, ChannelType, RecoveryAccepts, WriterPc, FinishPc, RollingPc
<1> QED
  BY <1>1, RollInvariant, PTL

\* While a writer is between calls every older segment on disk ends in a committed Roll
\* (commit_stranded_roll).
THEOREM RollsNotStranded == Spec => []NoRollStranded
<1>1. IInv => NoRollStranded
  BY DEF IInv, ChannelInv, WriterOK, Finished, NoRollStranded, FinishPc
<1> QED
  BY <1>1, RollInvariant, PTL

\* Nothing a reader may have relied on is ever changed (Publish, RollCommit).
THEOREM FilesFinal == Spec => FinalForGood
<1>1. IInv /\ [Next]_vars =>
        [\A i \in Created :
           /\ file[i].published =>
                file'[i].published /\ file'[i].base = file[i].base /\ file'[i].count >= file[i].count
           /\ file[i].rolled =>
                /\ file'[i].rolled /\ file'[i].rollTo = file[i].rollTo
                /\ file'[i].count = file[i].count]_vars
  BY NextInv DEF AllKept, Kept
<1> QED
  BY <1>1, RollInvariant, PTL DEF Spec, FinalForGood

-----------------------------------------------------------------------------
(* A writer that does not crash *)

\* The window moves with the writer, and only the newest name is new.
LEMMA WindowStep ==
  ASSUME MaxCrashes = 0, ChannelInv, WindowOK, WriterNext
  PROVE  /\ WindowOK'
         /\ \A s \in Present' : s \in Present \/ \A t \in Present : t < s
<1>0. /\ ChannelType /\ wseq \in Nat /\ crashes \in Nat /\ KeepFiles \in Nat
      /\ epoch = 0 /\ pc \notin FinishPc /\ (pc = "down" => Present = {})
      /\ \A s \in Present : s \in Nat
  <2>1. ChannelType
    BY DEF ChannelInv
  <2>2. wseq \in Nat /\ crashes \in Nat /\ KeepFiles \in Nat
    BY <2>1, FreshFacts DEF ChannelType
  <2>3. epoch = 0 /\ pc \notin FinishPc /\ (pc = "down" => Present = {})
    BY DEF WindowOK
  <2> QED
    BY <2>1, <2>2, <2>3, NameFacts
<1>1. pc # "down" => \A s \in Present : KeepFiles > 0 =>
        s > wseq - KeepFiles - (IF pc = "prune" THEN 1 ELSE 0)
  BY DEF WindowOK
<1>2. \A s \in Present, t \in Present : \A u \in s..t : u \in Present
  BY DEF WindowOK
<1>3. ASSUME pc # "down", UNCHANGED <<dir, epoch, wseq>>, pc # "prune",
             pc' \in {"idle", "staged", "stamped", "published", "committed"}
      PROVE  WindowOK' /\ Present' = Present
  <2>1. Present' = Present
    BY <1>3 DEF Present
  <2> QED
    BY <1>0, <1>1, <1>2, <1>3, <2>1 DEF WindowOK, FinishPc
<1>4. CASE PublishInitial \/ RollStage \/ RollStamp \/ RollPublish \/ RollCommit \/ Append
  BY <1>3, <1>4 DEF PublishInitial, RollStage, RollStamp, RollPublish, RollCommit, Append, writerVars
<1>5. CASE RollSwitch
  <2>1. Present' = Present /\ pc = "committed" /\ pc' = "prune" /\ wseq' = wseq + 1 /\ epoch' = epoch
    BY <1>5 DEF RollSwitch, Present
  <2>2. KeepFiles > 0 => \A s \in Present : s > (wseq + 1) - KeepFiles - 1
    BY <1>0, <1>1, <2>1
  <2> QED
    BY <1>0, <1>2, <2>1, <2>2 DEF WindowOK, FinishPc
<1>6. CASE CreateInitial
  <2>1. Present = {} /\ pc' = "genesis" /\ wseq' = 0 /\ epoch' = epoch /\ Present' = {0}
    <3>1. Present' \subseteq {0} /\ dir'[0] = Fresh /\ Present = {} /\ 0 \in Seqs
      BY <1>0, <1>6, NameFacts DEF CreateInitial, InstallNoReplace, Present, ChannelType
    <3>2. Fresh # NoFile
      BY <1>0, FreshFacts DEF NoFile
    <3> QED
      BY <1>6, <3>1, <3>2 DEF CreateInitial, Present
  <2>2. KeepFiles > 0 => 0 > 0 - KeepFiles - 0
    BY <1>0
  <2> QED
    BY <1>0, <2>1, <2>2 DEF WindowOK, FinishPc
<1>7. CASE RollInstall
  <2>1. pc = "idle" /\ pc' = "installed" /\ UNCHANGED <<wseq, epoch>>
    BY <1>7 DEF RollInstall
  <2>2. Present' = Present \cup {wseq + 1}
    <3>1. wseq + 1 \in Seqs /\ dir' = [dir EXCEPT ![wseq + 1] = Fresh]
      BY <1>0, <1>7 DEF RollInstall, InstallNoReplace
    <3>2. Fresh # NoFile
      BY <1>0, FreshFacts DEF NoFile
    <3> QED
      BY <1>0, <3>1, <3>2 DEF Present, ChannelType
  <2>3. wseq \in Present /\ \A s \in Present : s <= wseq
    BY <2>1 DEF ChannelInv, WriterOK, RollingPc
  <2>4. ASSUME NEW s \in Present', NEW t \in Present', NEW u \in s..t PROVE u \in Present'
    <3>1. s \in Nat /\ t \in Nat /\ u \in Nat /\ s <= wseq + 1 /\ t <= wseq + 1
      BY <1>0, <2>2, <2>3
    <3>2. CASE u = wseq + 1
      BY <2>2, <3>2
    <3>3. CASE u # wseq + 1
      <4>1. s # wseq + 1 /\ u \in s..wseq
        BY <1>0, <3>1, <3>3
      <4> QED
        BY <1>2, <2>2, <2>3, <4>1
    <3> QED
      BY <3>2, <3>3
  <2>5. KeepFiles > 0 => \A s \in Present' : s > wseq - KeepFiles
    BY <1>0, <1>1, <2>1, <2>2
  <2>6. \A s \in Present' : s \in Present \/ \A t \in Present : t < s
    BY <1>0, <2>2, <2>3
  <2> QED
    BY <1>0, <2>1, <2>4, <2>5, <2>6 DEF WindowOK, FinishPc
<1>8. CASE RollPrune
  <2>1. pc = "prune" /\ pc' = "idle" /\ UNCHANGED <<wseq, epoch>>
    BY <1>8 DEF RollPrune
  <2>2. CASE KeepFiles > 0 /\ wseq >= KeepFiles
    <3>1. wseq - KeepFiles \in Seqs
      BY <1>0, <2>2 DEF ChannelType
    <3>2. dir' = [dir EXCEPT ![wseq - KeepFiles] = NoFile] /\ UNCHANGED file
      BY <1>8, <2>2 DEF RollPrune
    <3>3. Present' = Present \ {wseq - KeepFiles}
      BY <1>0, <3>1, <3>2, Unlinked
    <3>4. \A s \in Present' : s > wseq - KeepFiles /\ s \in Nat
      BY <1>0, <1>1, <2>1, <2>2, <3>3
    <3>5. ASSUME NEW s \in Present', NEW t \in Present', NEW u \in s..t PROVE u \in Present'
      <4>1. u > wseq - KeepFiles /\ u \in Present
        BY <1>0, <1>2, <3>3, <3>4
      <4> QED
        BY <1>0, <3>3, <4>1
    <3> QED
      BY <1>0, <2>1, <3>3, <3>4, <3>5 DEF WindowOK, FinishPc
  <2>3. CASE ~(KeepFiles > 0 /\ wseq >= KeepFiles)
    <3>1. Present' = Present
      BY <1>8, <2>3 DEF RollPrune, Present
    <3>2. KeepFiles > 0 => \A s \in Present : s > wseq - KeepFiles
      BY <1>0, <2>3
    <3> QED
      BY <1>0, <1>2, <2>1, <3>1, <3>2 DEF WindowOK, FinishPc
  <2> QED
    BY <2>2, <2>3
<1>9. ~DiscardUnpublished /\ ~OpenNewest /\ ~Cleanup
  BY <1>0 DEF DiscardUnpublished, OpenNewest, Cleanup
<1>10. ~StrandedCheck /\ ~FinishCommit /\ ~FinishWp /\ ~Crash
  BY <1>0 DEF StrandedCheck, FinishCommit, FinishWp, FinishPc, Crash
<1>11. \/ PublishInitial \/ RollStage \/ RollStamp \/ RollPublish \/ RollCommit \/ Append
       \/ RollSwitch \/ CreateInitial \/ RollInstall \/ RollPrune
  BY <1>9, <1>10 DEF WriterNext, OpenCalled, OpenStep, RollStep
<1>12. CASE PublishInitial \/ RollStage \/ RollStamp \/ RollPublish \/ RollCommit \/ Append
            \/ RollSwitch
  <2>1. Present' = Present
    BY <1>12 DEF PublishInitial, RollStage, RollStamp, RollPublish, RollCommit, Append, RollSwitch, Present
  <2> QED
    BY <1>4, <1>5, <1>12, <2>1
<1> QED
  BY <1>6, <1>7, <1>8, <1>11, <1>12

\* A rolled segment of this channel has a newer published name.
LEMMA RolledOlder ==
  ASSUME ChannelInv, NEW i \in Created, file[i].rolled, file[i].epoch = epoch
  PROVE  \E t \in Present : PublishedName(t) /\ file[i].seq + 1 <= t
<1> DEFINE k == file[i].rollTo
<1>0. ChannelType /\ i # NoFile
  BY FileFields DEF ChannelInv
<1>1. k \in Created /\ file[k].parent = i /\ IsPublished(k)
  BY DEF ChannelInv, FilesOK, RollNames
<1>2. file[k].seq = file[i].seq + 1 /\ file[k].epoch = epoch
  BY <1>0, <1>1 DEF ChannelInv, FilesOK, Lineage, IsChild
<1> QED
  BY <1>1, <1>2 DEF ChannelInv, NamesOK

\* A Live open under way, when its segment has been rolled and its name is gone, is not misled by
\* what a writer does next.
LEMMA LiveKept ==
  ASSUME ChannelInv, WindowOK, ReadersType, NEW r \in Readers, ReaderOK(r), LiveOK(r), AllKept,
         \A s \in Present' : s \in Present \/ \A t \in Present : t < s,
         rpc'[r] = rpc[r], rseq'[r] = rseq[r], rinst'[r] = rinst[r], rpast'[r] = rpast[r]
  PROVE  LiveOK(r)'
<1> DEFINE i == rinst[r]
<1>1. ASSUME rpc[r] \in {"live_next", "live_self", "live_slot"}, rpast[r]
      PROVE  i \in Created /\ file[i].rolled /\ file'[i].rolled /\ file[i].epoch = epoch
             /\ file[i].seq = rseq[r] /\ rseq[r] \in Nat
  <2>1. i \in Created /\ file[i].rolled /\ file[i].seq = rseq[r]
    BY <1>1 DEF ReaderOK, LivePc, LiveOK
  <2>2. file'[i].rolled
    BY <2>1 DEF AllKept, Kept
  <2>3. file[i].epoch = epoch /\ rseq[r] \in Nat
    <3>1. file[i].epoch <= epoch /\ epoch = 0 /\ file[i].epoch \in Nat /\ file[i].seq \in Nat
      BY <2>1, FileFields DEF ChannelInv, FilesOK, Lineage, WindowOK
    <3> QED
      BY <2>1, <3>1
  <2> QED
    BY <2>1, <2>2, <2>3
<1>2. ASSUME rpc[r] = "live_self", rpast[r] PROVE rseq[r] \notin Present'
  <2>1. rseq[r] \notin Present
    BY <1>2 DEF LiveOK
  <2>2. PICK t \in Present : rseq[r] + 1 <= t
    BY <1>1, <1>2, RolledOlder
  <2>3. t \in Nat /\ rseq[r] \in Nat
    BY <1>1, <1>2, NameFacts DEF ChannelInv
  <2> QED
    BY <2>1, <2>2, <2>3
<1> QED
  BY <1>1, <1>2 DEF LiveOK

\* A Live open that loaded a position past a Roll finds the next name, or not its own.
LEMMA LiveStepOK ==
  ASSUME ChannelInv, WindowOK, ReadersType, NEW r \in Readers, ReaderOK(r), LiveOK(r), ReaderNext(r)
  PROVE  LiveOK(r)'
<1>0. /\ ChannelType /\ rpc \in [Readers -> ReaderPc] /\ rseq \in [Readers -> Seqs]
      /\ rinst \in [Readers -> Created \cup {NoFile}] /\ rpast \in [Readers -> BOOLEAN]
  BY DEF ChannelInv, ReadersType
<1>1. CASE LiveLoad(r)
  <2>1. PICK i \in Created : i = rinst[r]
    BY <1>1 DEF LiveLoad, RStep, ReaderOK, LivePc
  <2>2. rpc'[r] = "live_next" /\ rinst'[r] = i /\ (rpast'[r] <=> file[i].past) /\ file' = file
    BY <1>0, <1>1, <2>1 DEF LiveLoad, RStep, dirVars
  <2>3. file[i].past => file[i].rolled
    BY DEF ChannelInv, FilesOK, StateOK
  <2> QED
    BY <2>2, <2>3 DEF LiveOK
<1>2. CASE LiveCheckNext(r)
  <2>1. CASE NewerName(r)
    BY <1>0, <1>2, <2>1 DEF LiveCheckNext, Stale, LiveOK
  <2>2. CASE ~NewerName(r)
    <3>1. /\ rpc[r] = "live_next" /\ rpc'[r] = "live_self"
          /\ UNCHANGED <<dir, file, epoch, rseq, rinst, rpast>>
      BY <1>0, <1>2, <2>2 DEF LiveCheckNext, dirVars
    <3>2. Present' = Present
      BY <3>1 DEF Present
    <3>3. ASSUME rpast[r] PROVE rseq[r] \notin Present
      <4> SUFFICES ASSUME rseq[r] \in Present PROVE FALSE
        OBVIOUS
      <4>1. PICK i \in Created : i = rinst[r] /\ file[i].seq = rseq[r] /\ file[i].rolled
        BY <3>1, <3>3 DEF ReaderOK, LivePc, LiveOK
      <4>2. file[i].epoch = epoch /\ rseq[r] \in Nat
        <5>1. file[i].epoch <= epoch /\ epoch = 0 /\ file[i].epoch \in Nat /\ file[i].seq \in Nat
          BY <4>1, FileFields DEF ChannelInv, FilesOK, Lineage, WindowOK
        <5> QED
          BY <4>1, <5>1
      <4>3. PICK t \in Present : PublishedName(t) /\ rseq[r] + 1 <= t
        BY <4>1, <4>2, RolledOlder
      <4>4. t \in Nat /\ t \in Seqs /\ rseq[r] < MaxSeq
        BY <1>0, <4>2, <4>3, NameFacts
      <4>5. rseq[r] + 1 \in Present
        BY <4>2, <4>3, <4>4 DEF WindowOK
      <4>6. PublishedName(rseq[r] + 1)
        <5>1. CASE t = rseq[r] + 1
          BY <4>3, <5>1
        <5>2. CASE t # rseq[r] + 1
          BY <4>2, <4>3, <4>4, <4>5, <5>2 DEF ChannelInv, NamesOK
        <5> QED
          BY <5>1, <5>2
      <4> QED
        BY <2>2, <4>4, <4>6 DEF NewerName
    <3> QED
      BY <3>1, <3>2, <3>3 DEF LiveOK
  <2> QED
    BY <2>1, <2>2
<1>3. CASE LiveCheckSelf(r)
  <2>1. CASE dir[rseq[r]] = NoFile
    BY <1>0, <1>3, <2>1 DEF LiveCheckSelf, Stale, LiveOK
  <2>2. CASE dir[rseq[r]] # NoFile
    <3>1. /\ rpc[r] = "live_self" /\ rpc'[r] = "live_slot" /\ UNCHANGED <<rseq, rinst, rpast>>
      BY <1>0, <1>3, <2>2 DEF LiveCheckSelf
    <3>2. rseq[r] \in Present
      BY <1>0, <2>2 DEF Present
    <3> QED
      BY <3>1, <3>2 DEF LiveOK
  <2> QED
    BY <2>1, <2>2
<1>4. CASE LiveSlot(r)
  <2>1. rpc[r] = "live_slot" /\ ~rpast[r]
    BY <1>4 DEF LiveSlot, LiveOK
  <2>2. rpc'[r] \in {"live_load", "scan"}
    BY <1>0, <1>4, <2>1 DEF LiveSlot, RStep, Join
  <2> QED
    BY <2>2 DEF LiveOK
<1>5. CASE LateList(r) \/ LateOpen(r) \/ LateAgain(r) \/ LiveList(r) \/ LiveOpen(r) \/ LiveGone(r)
           \/ Read(r) \/ FollowRoll(r) \/ Overtaken(r)
  <2>1. rpc'[r] \in {"late_open", "scan", "closed", "live_open", "live_load", "error", "overtaken"}
    BY <1>0, <1>5 DEF LateList, LateOpen, LateAgain, LiveList, LiveOpen, LiveGone, Read, FollowRoll,
                      Overtaken, RStep, Join
  <2> QED
    BY <2>1 DEF LiveOK
<1> QED
  BY <1>1, <1>2, <1>3, <1>4, <1>5 DEF ReaderNext, LiveStep, ReaderStep

\* With no crash, every step keeps the window, and no Live open is misled.
LEMMA WindowNext ==
  ASSUME MaxCrashes = 0, IInv, CInv, [Next]_vars
  PROVE  CInv'
<1>0. /\ ChannelInv /\ ReadersType /\ AllKept /\ WindowOK
      /\ \A r \in Readers : ReaderOK(r) /\ LiveOK(r)
  BY NextInv DEF IInv, ReadersOK, CInv
<1>1. CASE WriterNext
  <2>1. /\ WindowOK' /\ \A s \in Present' : s \in Present \/ \A t \in Present : t < s
    BY <1>0, <1>1, WindowStep
  <2>2. UNCHANGED <<rpc, rseq, rinst, rindex, rpast, repoch>>
    BY <1>1, WriterFrame
  <2>3. ASSUME NEW r \in Readers PROVE LiveOK(r)'
    BY <1>0, <2>1, <2>2, LiveKept
  <2> QED
    BY <2>1, <2>3 DEF CInv
<1>2. ASSUME UNCHANGED <<dirVars, writerVars>>
      PROVE  WindowOK' /\ Present' = Present
  <2>1. UNCHANGED <<dir, file, epoch, pc, wseq>>
    BY <1>2 DEF dirVars, writerVars
  <2>2. Present' = Present
    BY <2>1 DEF Present
  <2> QED
    BY <1>0, <2>1, <2>2 DEF WindowOK
<1>3. CASE UNCHANGED vars
  <2>1. WindowOK' /\ Present' = Present /\ UNCHANGED <<rpc, rseq, rinst, rpast>>
    BY <1>2, <1>3 DEF vars, readerVars
  <2>2. ASSUME NEW r \in Readers PROVE LiveOK(r)'
    BY <1>0, <2>1, LiveKept
  <2> QED
    BY <2>1, <2>2 DEF CInv
<1>4. ASSUME NEW r \in Readers, ReaderNext(r) PROVE CInv'
  <2>1. /\ UNCHANGED <<dirVars, writerVars>>
        /\ \A q \in Readers : q # r =>
             /\ rpc'[q] = rpc[q] /\ rseq'[q] = rseq[q] /\ rinst'[q] = rinst[q]
             /\ rpast'[q] = rpast[q]
    BY <1>0, <1>4, OwnStep
  <2>2. WindowOK' /\ Present' = Present
    BY <1>2, <2>1
  <2>3. ASSUME NEW q \in Readers PROVE LiveOK(q)'
    <3>1. CASE q = r
      BY <1>0, <1>4, <3>1, LiveStepOK
    <3>2. CASE q # r
      BY <1>0, <2>1, <2>2, <3>2, LiveKept
    <3> QED
      BY <3>1, <3>2
  <2> QED
    BY <2>2, <2>3 DEF CInv
<1> QED
  BY <1>1, <1>3, <1>4 DEF Next

\* With no crash, the window and the Live opens are as stated in every reachable state.
LEMMA WindowInvariant ==
  ASSUME MaxCrashes = 0
  PROVE  Spec => []CInv
<1>1. Init => CInv
  <2> SUFFICES ASSUME Init PROVE CInv
    OBVIOUS
  <2>1. Present = {} /\ pc = "down" /\ epoch = 0 /\ \A r \in Readers : rpc[r] = "closed"
    BY DEF Init, Present
  <2> QED
    BY <2>1 DEF CInv, WindowOK, LiveOK, FinishPc
<1>2. IInv /\ CInv /\ [Next]_vars => CInv'
  BY WindowNext
<1> QED
  BY <1>1, <1>2, RollInvariant, PTL DEF Spec

\* keep_files(n) is exact, and the names on disk have no gap, as long as no writer dies between
\* a roll and its prune (roll_file).
THEOREM RetentionExact ==
  ASSUME MaxCrashes = 0
  PROVE  Spec => []RetainsNewest
<1>1. IInv /\ CInv => RetainsNewest
  <2> SUFFICES ASSUME IInv, CInv PROVE RetainsNewest
    OBVIOUS
  <2>1. ASSUME pc = "idle", KeepFiles > 0 PROVE Cardinality(Present) <= KeepFiles
    <3> DEFINE W == (wseq - KeepFiles + 1)..wseq
    <3>1. wseq \in Nat /\ KeepFiles \in Nat /\ \A s \in Present : s \in Nat
      <4>1. ChannelType
        BY DEF IInv, ChannelInv
      <4>2. wseq \in Nat /\ KeepFiles \in Nat
        BY <4>1, FreshFacts DEF ChannelType
      <4> QED
        BY <4>1, <4>2, NameFacts
    <3>2. ASSUME NEW s \in Present PROVE s > wseq - KeepFiles /\ s <= wseq
      <4>1. pc # "down" /\ pc # "prune" /\ pc \notin {"down"} \cup RollingPc
        BY <2>1 DEF RollingPc
      <4>2. s > wseq - KeepFiles - 0
        BY <2>1, <4>1 DEF CInv, WindowOK
      <4>3. s <= wseq
        BY <4>1 DEF IInv, ChannelInv, WriterOK
      <4> QED
        BY <3>1, <4>2, <4>3
    <3>3. Present \subseteq W
      BY <3>1, <3>2
    <3>4. IsFiniteSet(W) /\ Cardinality(W) = KeepFiles
      <4>1. wseq - KeepFiles + 1 \in Int /\ wseq \in Int /\ wseq - KeepFiles + 1 <= wseq
            /\ wseq - (wseq - KeepFiles + 1) + 1 = KeepFiles
        BY <2>1, <3>1
      <4>2. IsFiniteSet(W) /\ Cardinality(W) = wseq - (wseq - KeepFiles + 1) + 1
        BY <4>1, FS_Interval
      <4> QED
        BY <4>1, <4>2
    <3> HIDE DEF W
    <3> QED
      BY <3>3, <3>4, FS_Subset
  <2> QED
    BY <2>1 DEF RetainsNewest, CInv, WindowOK
<1> QED
  BY <1>1, RollInvariant, WindowInvariant, PTL

\* A Live open never takes a position past a Roll for the head, as long as no writer dies between
\* a roll and its prune (live_start).
THEOREM LiveOpensJoinTail ==
  ASSUME MaxCrashes = 0
  PROVE  Spec => []LiveJoinsTail
<1>1. CInv => LiveJoinsTail
  BY DEF CInv, LiveOK, LiveJoinsTail
<1> QED
  BY <1>1, WindowInvariant, PTL

-----------------------------------------------------------------------------
(* Segments of a channel do not overlap *)

\* Of two published segments of a channel the older ends at or before the index the newer starts at.
OrderOK ==
  \A i \in Created, j \in Created :
    /\ IsPublished(i) /\ IsPublished(j) /\ file[i].epoch = file[j].epoch
    /\ file[i].seq < file[j].seq
    => End(i) <= file[j].base

\* A step that publishes nothing, and adds no record to a segment that has a newer one.
LEMMA OrderSame ==
  ASSUME ChannelType, ChannelType', AllKept, OrderOK,
         \A i \in Created' : IsPublished(i)' => i \in Created /\ IsPublished(i),
         \A i \in Created, j \in Created :
           /\ IsPublished(i) /\ IsPublished(j) /\ file[i].epoch = file[j].epoch
           /\ file[i].seq < file[j].seq
           => End(i)' = End(i)
  PROVE  OrderOK'
<1> SUFFICES ASSUME NEW i \in Created', NEW j \in Created', IsPublished(i)', IsPublished(j)',
                    file'[i].epoch = file'[j].epoch, file'[i].seq < file'[j].seq
             PROVE  End(i)' <= file'[j].base
  BY DEF OrderOK
<1>1. i \in Created /\ IsPublished(i) /\ j \in Created /\ IsPublished(j)
  OBVIOUS
<1>2. Kept(i) /\ Kept(j)
  BY <1>1 DEF AllKept
<1>3. file[i].epoch = file[j].epoch /\ file[i].seq < file[j].seq /\ file'[j].base = file[j].base
  BY <1>1, <1>2 DEF Kept, SameIdentity, IsPublished
<1> QED
  BY <1>1, <1>3 DEF OrderOK

\* A step that publishes a file newer than every published one of its channel: it starts where its
\* parent ends, and the others end before that.
LEMMA OrderPublished ==
  ASSUME ChannelInv, ChannelInv', AllKept, OrderOK, NEW k \in Created,
         \A i \in Created' : IsPublished(i)' => i = k \/ (i \in Created /\ IsPublished(i)),
         \A i \in Created : IsPublished(i) => End(i)' = End(i),
         \A i \in Created : IsPublished(i) /\ file[i].epoch = file[k].epoch => file[i].seq < file[k].seq
  PROVE  OrderOK'
<1> SUFFICES ASSUME NEW i \in Created', NEW j \in Created', IsPublished(i)', IsPublished(j)',
                    file'[i].epoch = file'[j].epoch, file'[i].seq < file'[j].seq
             PROVE  End(i)' <= file'[j].base
  BY DEF OrderOK
<1>0. ChannelType /\ ChannelType' /\ \A m \in Created : Kept(m)
  BY DEF ChannelInv, AllKept
<1>1. i \in Created /\ j \in Created /\ file[i].epoch = file[j].epoch /\ file[i].seq < file[j].seq
  BY <1>0 DEF Kept, SameIdentity
<1>2. file[i].seq \in Nat /\ file[j].seq \in Nat
  BY <1>0, <1>1, FileFields
<1>3. i # k
  BY <1>1, <1>2
<1>4. IsPublished(i) /\ End(i)' = End(i)
  BY <1>1, <1>3
<1>5. CASE j # k
  <2>1. IsPublished(j) /\ file'[j].base = file[j].base
    BY <1>0, <1>1, <1>5 DEF Kept, IsPublished
  <2> QED
    BY <1>1, <1>4, <2>1 DEF OrderOK
<1>6. CASE j = k
  <2>1. file[k].seq > 0 /\ file'[k].seq = file[k].seq /\ file'[k].parent = file[k].parent
    BY <1>0, <1>1, <1>2, <1>6 DEF Kept, SameIdentity
  <2>2. IsChild(file[k].parent, k)
    BY <1>2, <2>1 DEF ChannelInv, FilesOK, Lineage
  <2>3. PICK p \in Created : /\ p = file[k].parent /\ IsPublished(p)
                            /\ file[k].seq = file[p].seq + 1 /\ file[k].epoch = file[p].epoch
    BY <2>2 DEF IsChild
  <2>4. IsEdge(k)'
    BY <1>6, <2>1 DEF ChannelInv, FilesOK
  <2>5. file'[k].base = End(p)
    <3>1. file'[k].base = End(p)'
      BY <2>1, <2>3, <2>4 DEF IsEdge, End
    <3> QED
      BY <2>3, <3>1
  <2>6. file[p].seq \in Nat /\ file[p].base \in Nat /\ file[p].count \in Nat /\ End(p) \in Nat /\ End(i) \in Nat
    BY <1>0, <1>1, <2>3, FileFields
  <2>7. CASE file[i].seq = file[p].seq
    <3>1. i = p
      BY <1>1, <1>4, <1>6, <2>3, <2>7 DEF ChannelInv, OnePublished
    <3> QED
      BY <1>4, <1>6, <2>5, <2>6, <3>1
  <2>8. CASE file[i].seq # file[p].seq
    <3>1. file[i].seq < file[p].seq
      BY <1>1, <1>2, <1>6, <2>3, <2>6, <2>8
    <3>2. End(i) <= file[p].base
      BY <1>1, <1>4, <1>6, <2>3, <3>1 DEF OrderOK
    <3>3. file[p].base <= End(p)
      BY <2>6 DEF End
    <3> QED
      BY <1>4, <1>6, <2>5, <2>6, <3>2, <3>3
  <2> QED
    BY <2>7, <2>8
<1> QED
  BY <1>5, <1>6

\* A step with no store in a file's records or publication_state.
LEMMA OrderNoStore ==
  ASSUME ChannelInv, ChannelInv', AllKept, OrderOK, Created' = Created,
         \A i \in Created : (file'[i].published <=> file[i].published) /\ End(i)' = End(i)
  PROVE  OrderOK'
<1>1. ChannelType /\ ChannelType'
  BY DEF ChannelInv
<1>2. \A i \in Created' : IsPublished(i)' => i \in Created /\ IsPublished(i)
  BY DEF IsPublished
<1> QED
  BY <1>1, <1>2, OrderSame

\* Every step of the writer keeps the segments in order.
LEMMA OrderStep ==
  ASSUME ChannelInv, OrderOK, WriterNext
  PROVE  OrderOK'
<1>0. /\ ChannelInv' /\ AllKept /\ ChannelType /\ ChannelType' /\ epoch \in Nat
      /\ \A i \in Created : file[i].seq \in Nat
  <2>1. ChannelInv' /\ AllKept
    BY WriterInv
  <2>2. ChannelType /\ ChannelType'
    BY <2>1 DEF ChannelInv
  <2>3. epoch \in Nat
    BY <2>2 DEF ChannelType
  <2>4. ASSUME NEW i \in Created PROVE file[i].seq \in Nat
    BY <2>2, FileFields
  <2> QED
    BY <2>1, <2>2, <2>3, <2>4
<1>1. CASE DiscardUnpublished \/ StrandedCheck \/ Crash \/ RollPrune \/ Cleanup
  <2>1. UNCHANGED file
    BY <1>1 DEF DiscardUnpublished, StrandedCheck, Crash, RollPrune, Cleanup, dirVars
  <2>2. Created' = Created /\ \A i \in Created : (file'[i].published <=> file[i].published) /\ End(i)' = End(i)
    BY <2>1 DEF Created, End
  <2> QED
    BY <1>0, <2>2, OrderNoStore
<1>2. CASE FinishCommit \/ RollCommit \/ FinishWp \/ RollSwitch
  <2>1. CASE FinishCommit \/ FinishWp
    <3>1. dir[wseq - 1] \in Created
      BY <1>0, <2>1, NameFacts DEF FinishCommit, FinishWp, ChannelInv, WriterOK, FinishPc
    <3> QED
      BY <1>0, <2>1, <3>1, RolledFacts, PastFacts, OrderNoStore DEF FinishCommit, FinishWp, SameFiles
  <2>2. CASE RollCommit \/ RollSwitch
    <3>1. winst \in Created
      BY <2>2, OwnFile DEF RollCommit, RollSwitch
    <3> QED
      BY <1>0, <2>2, <3>1, RolledFacts, PastFacts, OrderNoStore DEF RollCommit, RollSwitch, SameFiles
  <2> QED
    BY <1>2, <2>1, <2>2
<1>3. CASE RollStage
  <2>1. winst \in Created /\ winext \in Created /\ End(winst) \in Nat
    BY <1>0, <1>3, Rolling, FileFields DEF RollStage, RollingPc
  <2>2. SameFiles /\ \A j \in Created : SameState(j) /\ End(j)' = End(j)
    BY <1>0, <1>3, <2>1, StageFacts DEF RollStage
  <2> QED
    BY <1>0, <2>2, OrderNoStore DEF SameFiles, SameState
<1>4. CASE RollStamp
  <2>1. winext \in Created /\ winst \in Created /\ ~IsPublished(winext)
    BY <1>4, Rolling DEF RollStamp, RollingPc
  <2>2. file[winst].rollBase \in Nat
    BY <1>0, <2>1, FileFields
  <2>3. SameFiles /\ \A j \in Created : SameState(j) /\ (j # winext => End(j)' = End(j))
    BY <1>0, <1>4, <2>1, <2>2, StampFacts DEF RollStamp
  <2>4. \A i \in Created' : IsPublished(i)' => i \in Created /\ IsPublished(i)
    BY <2>3 DEF SameFiles, SameState, IsPublished
  <2>5. \A i \in Created : IsPublished(i) => End(i)' = End(i)
    BY <2>1, <2>3
  <2> QED
    BY <1>0, <2>4, <2>5, OrderSame
<1>5. CASE Append
  <2>0. pc = "idle" /\ wseq \in Seqs
    BY <1>0, <1>5 DEF Append, ChannelType
  <2>1. winst \in Created /\ pc = "idle" /\ file[winst].seq = wseq /\ file[winst].epoch = epoch
        /\ wseq \in Seqs
    BY <2>0, OwnFile
  <2>2. SameFiles /\ \A j \in Created : SameState(j) /\ (j # winst => End(j)' = End(j))
    BY <1>0, <1>5, <2>1, AppendFacts DEF Append
  <2>3. \A i \in Created' : IsPublished(i)' => i \in Created /\ IsPublished(i)
    BY <2>2 DEF SameFiles, SameState, IsPublished
  <2>4. ASSUME NEW i \in Created, NEW j \in Created, IsPublished(i), IsPublished(j),
               file[i].epoch = file[j].epoch, file[i].seq < file[j].seq
        PROVE  End(i)' = End(i)
    <3>1. CASE i # winst
      BY <2>2, <3>1
    <3>2. CASE i = winst
      <4>1. \A t \in Present : PublishedName(t) => t <= wseq
        BY <2>1, StillOpen
      <4>2. file[j].seq <= wseq
        BY <2>1, <2>4, <3>2, <4>1, NotNewer
      <4> QED
        BY <1>0, <2>1, <2>4, <3>2, <4>2
    <3> QED
      BY <3>1, <3>2
  <2> QED
    BY <1>0, <2>3, <2>4, OrderSame
<1>6. CASE CreateInitial \/ RollInstall
  <2>1. PICK s \in Seqs, p \in Created \cup {NoFile} :
          Fresh <= MaxFiles /\ file' = WithFile(file, Fresh, Prepared(s, p))
    <3>1. CASE CreateInitial
      <4>1. 0 \in Seqs
        OBVIOUS
      <4> QED
        BY <3>1, <4>1 DEF CreateInitial
    <3>2. CASE RollInstall
      <4>1. wseq + 1 \in Seqs /\ winst \in Created
        BY <1>0, <3>2, OwnFile DEF RollInstall, ChannelType
      <4> QED
        BY <3>2, <4>1 DEF RollInstall
    <3> QED
      BY <1>6, <3>1, <3>2
  <2>2. Prepared(s, p) \in File /\ Prepared(s, p).published = FALSE
    <3>1. p \in 0..MaxFiles
      BY <1>0 DEF ChannelType, NoFile
    <3> QED
      BY <1>0, <3>1 DEF Prepared, File, NoFile
  <2> HIDE DEF Prepared
  <2>3. /\ Created' = Created \cup {Fresh} /\ file'[Fresh].published = FALSE
        /\ \A j \in Created : file'[j] = file[j]
    BY <1>0, <2>1, <2>2, Made
  <2>4. \A i \in Created' : IsPublished(i)' => i \in Created /\ IsPublished(i)
    BY <2>3 DEF IsPublished
  <2>5. \A i \in Created : End(i)' = End(i)
    BY <2>3 DEF End
  <2> QED
    BY <1>0, <2>4, <2>5, OrderSame
<1>7. ASSUME NEW k \in Created, Publish(k),
             \A i \in Created : IsPublished(i) /\ file[i].epoch = file[k].epoch => file[i].seq < file[k].seq
      PROVE  OrderOK'
  <2>1. /\ SameFiles
        /\ \A j \in Created : End(j)' = End(j) /\ (file'[j].published <=> file[j].published \/ j = k)
    BY <1>0, <1>7, PublishFacts
  <2>2. \A i \in Created' : IsPublished(i)' => i = k \/ (i \in Created /\ IsPublished(i))
    BY <2>1 DEF SameFiles, IsPublished
  <2> QED
    BY <1>0, <1>7, <2>1, <2>2, OrderPublished
<1>8. ASSUME NEW k \in Created, Publish(k), IsPublished(k)
      PROVE  OrderOK'
  <2>1. /\ SameFiles
        /\ \A j \in Created : End(j)' = End(j) /\ (file'[j].published <=> file[j].published \/ j = k)
    BY <1>0, <1>8, PublishFacts
  <2>2. \A i \in Created : file'[i].published <=> file[i].published
    BY <1>8, <2>1 DEF IsPublished
  <2> QED
    BY <1>0, <2>1, <2>2, OrderNoStore DEF SameFiles
<1>9. ASSUME NEW k \in Created, file[k].epoch = epoch, \A t \in Present : PublishedName(t) => t < file[k].seq
      PROVE  \A i \in Created : IsPublished(i) /\ file[i].epoch = file[k].epoch => file[i].seq < file[k].seq
  <2> SUFFICES ASSUME NEW i \in Created, IsPublished(i), file[i].epoch = epoch
               PROVE  file[i].seq < file[k].seq
    BY <1>9
  <2>1. PICK t \in Present : PublishedName(t) /\ file[i].seq <= t
    BY DEF ChannelInv, NamesOK
  <2>2. t \in Nat
    BY <1>0, NameFacts
  <2> QED
    BY <1>0, <1>9, <2>1, <2>2
<1>10. CASE PublishInitial
  <2>1. /\ wseq = 0 /\ ~IsPublished(winst) /\ dir[wseq] = winst /\ \A s \in Present : s <= wseq
        /\ winst \in Created /\ file[winst].epoch = epoch
    BY <1>10, OwnFile DEF PublishInitial, ChannelInv, WriterOK, RollingPc
  <2>2. \A t \in Present : ~PublishedName(t)
    BY <1>0, <2>1, NameFacts DEF PublishedName
  <2> QED
    BY <1>7, <1>9, <1>10, <2>1, <2>2 DEF PublishInitial
<1>11. CASE OpenNewest
  <2>1. PICK m \in Present : m = Latest
    BY <1>0, <1>11, LatestFacts DEF OpenNewest
  <2>2. /\ dir[m] \in Created /\ Publish(dir[m]) /\ (m = 0 \/ PublishedName(m)) /\ m \in Nat
        /\ (\A t \in Present : t <= m) /\ file[dir[m]].epoch = epoch
    BY <1>0, <1>11, <2>1, LatestFacts, NameFacts DEF OpenNewest, ChannelInv, NamesOK
  <2>3. CASE IsPublished(dir[m])
    BY <1>8, <2>2, <2>3
  <2>4. CASE ~IsPublished(dir[m])
    <3>1. m = 0
      BY <2>2, <2>4 DEF PublishedName
    <3>2. \A t \in Present : ~PublishedName(t)
      BY <1>0, <2>2, <2>4, <3>1, NameFacts DEF PublishedName
    <3> QED
      BY <1>7, <1>9, <2>2, <3>2
  <2> QED
    BY <2>3, <2>4
<1>12. CASE RollPublish
  <2>1. pc = "stamped" /\ Publish(winext)
    BY <1>12 DEF RollPublish
  <2>2. winext \in Created /\ file[winext].seq = wseq + 1 /\ file[winext].epoch = epoch /\ wseq \in Nat
    BY <2>1, Rolling DEF RollingPc
  <2>3. \A t \in Present : PublishedName(t) => t <= wseq
    BY <2>1, StillOpen
  <2>4. \A t \in Present : PublishedName(t) => t < file[winext].seq
    BY <1>0, <2>2, <2>3, NameFacts
  <2> QED
    BY <1>7, <1>9, <2>1, <2>2, <2>4
<1> QED
  BY <1>1, <1>2, <1>3, <1>4, <1>5, <1>6, <1>10, <1>11, <1>12
  DEF WriterNext, OpenCalled, OpenStep, RollStep

\* A step that leaves the files alone keeps them in order.
LEMMA OrderFrame ==
  ASSUME OrderOK, UNCHANGED file
  PROVE  OrderOK'
BY DEF OrderOK, Created, IsPublished, End

\* The records of a channel's segments never overlap, whatever crashed and was completed by the next
\* open: an index is in one segment (roll_file, commit_stranded_roll).
THEOREM SegmentsInOrder == Spec => []OrderOK
<1>1. Init => OrderOK
  BY DEF Init, OrderOK, Created
<1>2. IInv /\ OrderOK /\ [Next]_vars => OrderOK'
  <2> SUFFICES ASSUME IInv, OrderOK, [Next]_vars PROVE OrderOK'
    OBVIOUS
  <2>1. ChannelInv /\ ReadersType /\ \A r \in Readers : ReaderOK(r)
    BY DEF IInv, ReadersOK
  <2>2. CASE WriterNext
    BY <2>1, <2>2, OrderStep
  <2>3. CASE UNCHANGED vars
    BY <2>3, OrderFrame DEF vars, dirVars
  <2>4. ASSUME NEW r \in Readers, ReaderNext(r) PROVE OrderOK'
    <3>1. UNCHANGED file
      BY <2>1, <2>4, OwnStep DEF dirVars
    <3> QED
      BY <3>1, OrderFrame
  <2> QED
    BY <2>2, <2>3, <2>4 DEF Next
<1> QED
  BY <1>1, <1>2, RollInvariant, PTL DEF Spec
=============================================================================
