------------------------- MODULE SegmentSeek_proofs --------------------------
(***************************************************************************)
(* Proofs about SegmentSeek, for any readers, any keep_files and any number*)
(* of segments, files and records, and a writer that does not crash: a     *)
(* search for a record index over one listing of the directory tells the   *)
(* truth about it, whatever is rolled and unlinked while it searches.      *)
(***************************************************************************)
EXTENDS SegmentSeek, SegmentRoll_proofs

USE BoundsAssumption DEF Seqs

-----------------------------------------------------------------------------
(* The inductive invariant *)

ListingPc == {"listed", "first", "last", "search"}
SeekPc ==
  {"none", "again", "walk", "pruned", "past", "not_found", "corrupt", "joined"} \cup ListingPc
Search == [pc : SeekPc, index : Nat, seqs : SUBSET Seqs, lo : Nat, hi : Nat, head : Nat]

\* Every name below s has been unlinked; a name at or above s is there.
AtLeast(s) == \A t \in Present : s <= t
Reaches(s) == \E t \in Present : s <= t

\* The segment of sequence s starts at or before index x, after it, or ends at or after it: so
\* much a search has seen of a file that may have been unlinked since.
StartsBy(s, x) == \E i \in Created : IsPublished(i) /\ file[i].seq = s /\ file[i].base <= x
StartsAfter(s, x) == \E i \in Created : IsPublished(i) /\ file[i].seq = s /\ x < file[i].base
EndsAfter(s, x) == \E i \in Created : IsPublished(i) /\ file[i].seq = s /\ x <= End(i)

\* The head when the search was called is in a segment the listing has, or has been overtaken by
\* retention together with all of it.
HeadKept(k, b) ==
  k.head = 0 \/ \E i \in Created : /\ IsPublished(i) /\ k.head <= End(i)
                                   /\ file[i].seq <= b \/ AtLeast(b + 1)

\* A listing is the names from a to b, none older is on disk; the search has the index between
\* the start of segment lo and the start of the one after hi, or the end of the last.
ListingOK(k, a, b) ==
  /\ k.seqs = a..b /\ a <= b /\ AtLeast(a) /\ Reaches(b)
  /\ HeadKept(k, b)
  /\ k.pc # "search" => k.lo = 0
  /\ k.pc \in {"last", "search"} => StartsBy(a + k.lo, k.index)
  /\ k.pc = "search" =>
       /\ k.lo <= k.hi /\ k.hi <= b - a
       /\ IF k.hi = b - a THEN EndsAfter(b, k.index) ELSE StartsAfter(a + k.hi + 1, k.index)

\* The file a search has opened holds the index, or ends at it.
Holds(i, x) == i \in Created /\ IsPublished(i) /\ file[i].base <= x /\ x <= End(i)

\* A search that reports an index pruned has seen the first segment of a listing start after it.
SeenPruned(x) ==
  \E i \in Created : IsPublished(i) /\ x < file[i].base /\ AtLeast(file[i].seq)

SearchOK(k) ==
  /\ k.pc # "none" => pc # "down"
  /\ k.pc = "again" => k.lo = 0 /\ HeadKept(k, MaxSeq)
  /\ k.pc \in ListingPc => \E a \in Seqs, b \in Seqs : ListingOK(k, a, b)
  /\ k.pc = "walk" => Holds(k.lo, k.index)
  /\ k.pc = "pruned" => SeenPruned(k.index)
  /\ k.pc = "past" => k.index > k.head
  /\ k.pc # "corrupt"

SeekOK(r) ==
  \E k \in Search :
    /\ k = seek[r] /\ SearchOK(k)
    /\ k.pc = "joined" => rpc[r] = "scan" /\ rindex[r] = k.index

SeekInv ==
  /\ IInv /\ CInv /\ OrderOK
  /\ DOMAIN seek = Readers /\ seek \in [Readers -> Search]
  /\ \A r \in Readers : SeekOK(r)

\* The reader kept aside while a fresh open is under way is still one of its file: whatever is
\* rolled and unlinked meanwhile, it can be put back.
OldReader == [pc : {"none", "scan", "overtaken"}, seq : Seqs, inst : Nat, index : Nat,
              past : BOOLEAN]
OldOK(r) ==
  old[r].pc # "none" =>
    /\ seek[r].pc = "none" /\ rpc[r] \notin GivenPc
    /\ old[r].inst \in Created /\ IsPublished(old[r].inst) /\ file[old[r].inst].seq = old[r].seq
    /\ file[old[r].inst].base <= old[r].index /\ old[r].index <= End(old[r].inst)
    /\ file[old[r].inst].epoch = repoch[r]
OldInv == DOMAIN old = Readers /\ old \in [Readers -> OldReader] /\ \A r \in Readers : OldOK(r)

\* What a search relies on of the channel.
Channel == ChannelInv /\ WindowOK /\ OrderOK

-----------------------------------------------------------------------------
(* Listings *)

\* Numbering the members of an interval.
LEMMA NthOfInterval ==
  ASSUME NEW a \in Nat, NEW b \in Nat, NEW n \in Nat, a + n <= b
  PROVE  Nth(a..b, n) = a + n
<1>1. ASSUME NEW s \in a..b PROVE Cardinality({t \in a..b : t < s}) = s - a
  <2>1. {t \in a..b : t < s} = a..(s - 1)
    OBVIOUS
  <2>2. Cardinality(a..(s - 1)) = IF a > s - 1 THEN 0 ELSE (s - 1) - a + 1
    <3>1. a \in Int /\ s - 1 \in Int
      OBVIOUS
    <3> QED
      BY <3>1, FS_Interval
  <2>3. (IF a > s - 1 THEN 0 ELSE (s - 1) - a + 1) = s - a
    OBVIOUS
  <2> QED
    BY <2>1, <2>2, <2>3
<1>2. a + n \in a..b
  OBVIOUS
<1>3. \A s \in a..b : Cardinality({t \in a..b : t < s}) = n <=> s = a + n
  BY <1>1
<1> QED
  BY <1>2, <1>3 DEF Nth

\* The last of them.
LEMMA LastOfInterval ==
  ASSUME NEW a \in Nat, NEW b \in Nat, a <= b
  PROVE  Cardinality(a..b) = b - a + 1 /\ LastOf(a..b) = b
<1>1. Cardinality(a..b) = b - a + 1
  <2>1. a \in Int /\ b \in Int
    OBVIOUS
  <2>2. Cardinality(a..b) = IF a > b THEN 0 ELSE b - a + 1
    BY <2>1, FS_Interval
  <2> QED
    BY <2>2
<1>2. PICK n \in Nat : n = b - a
  OBVIOUS
<1>3. Cardinality(a..b) - 1 = n /\ a + n = b /\ a + n <= b
  BY <1>1, <1>2
<1>4. Nth(a..b, n) = b
  <2>1. Nth(a..b, n) = a + n
    BY <1>2, <1>3, NthOfInterval
  <2> QED
    BY <1>3, <2>1
<1> QED
  BY <1>1, <1>3, <1>4 DEF LastOf

\* Files and names, in a channel nobody has cleaned up.
LEMMA ChannelFacts ==
  ASSUME Channel
  PROVE  /\ ChannelType
         /\ \A i \in Created : /\ file[i].epoch = epoch /\ file[i].seq \in Nat /\ file[i].seq \in Seqs
                               /\ i \in Nat /\ i # NoFile
                               /\ file[i].base \in Nat /\ End(i) \in Nat /\ file[i].base <= End(i)
         /\ \A s \in Present : /\ s \in Nat /\ s \in Seqs /\ dir[s] \in Created /\ dir[s] # NoFile
                               /\ file[dir[s]].seq = s
<1>1. ChannelType
  BY DEF Channel, ChannelInv
<1>2. ASSUME NEW i \in Created
      PROVE  /\ file[i].epoch = epoch /\ file[i].seq \in Nat /\ file[i].seq \in Seqs
             /\ i \in Nat /\ i # NoFile
             /\ file[i].base \in Nat /\ End(i) \in Nat /\ file[i].base <= End(i)
  <2>1. /\ file[i].epoch \in Nat /\ file[i].seq \in Seqs /\ i \in Nat /\ i # NoFile
        /\ file[i].base \in Nat /\ file[i].count \in Nat /\ End(i) \in Nat
    BY <1>1, FileFields
  <2>2. file[i].epoch <= epoch /\ epoch = 0
    BY DEF Channel, ChannelInv, FilesOK, Lineage, WindowOK
  <2>3. file[i].base <= End(i)
    BY <2>1 DEF End
  <2> QED
    BY <2>1, <2>2, <2>3
<1>3. ASSUME NEW s \in Present
      PROVE  /\ s \in Nat /\ s \in Seqs /\ dir[s] \in Created /\ dir[s] # NoFile
             /\ file[dir[s]].seq = s
  BY <1>1, NameFacts DEF Channel, ChannelInv, NamesOK, Present
<1> QED
  BY <1>1, <1>2, <1>3

\* The names on disk have no gap.
LEMMA Listing ==
  ASSUME Channel, Present # {}
  PROVE  \E a \in Seqs, b \in Seqs : a <= b /\ Present = a..b
<1>1. ChannelType /\ \A s \in Present : s \in Nat /\ s \in Seqs
  BY ChannelFacts
<1>2. PICK a \in Present : \A t \in Present : a <= t
  BY <1>1, EarliestFacts
<1>3. PICK b \in Present : \A t \in Present : t <= b
  BY <1>1, LatestFacts
<1>4. \A u \in a..b : u \in Present
  BY DEF Channel, WindowOK
<1>5. Present = a..b
  <2>1. \A t \in Present : t \in a..b
    BY <1>1, <1>2, <1>3
  <2> QED
    BY <1>4, <2>1
<1> QED
  BY <1>1, <1>2, <1>3, <1>5

\* Two published files of one sequence are the same file.
LEMMA SameSegment ==
  ASSUME Channel, NEW i \in Created, NEW j \in Created, IsPublished(i), IsPublished(j),
         file[i].seq = file[j].seq
  PROVE  i = j
BY ChannelFacts DEF Channel, ChannelInv, OnePublished

\* A segment of an older sequence ends at or before the start of a newer one.
LEMMA OlderEnds ==
  ASSUME Channel, NEW i \in Created, NEW j \in Created, IsPublished(i), IsPublished(j),
         file[i].seq < file[j].seq
  PROVE  End(i) <= file[j].base
BY ChannelFacts DEF Channel, OrderOK

\* A published file is never newer than every name.
LEMMA NameFor ==
  ASSUME Channel, NEW i \in Created, IsPublished(i)
  PROVE  \E t \in Present : PublishedName(t) /\ file[i].seq <= t
BY ChannelFacts DEF Channel, ChannelInv, NamesOK

\* A published file's name is not taken by an unpublished one.
LEMMA NameGone ==
  ASSUME Channel, NEW i \in Created, IsPublished(i), ~PublishedName(file[i].seq)
  PROVE  AtLeast(file[i].seq + 1)
<1> DEFINE s == file[i].seq
<1>1. s \in Nat /\ \A t \in Present : t \in Nat
  BY ChannelFacts
<1>2. PICK t \in Present : PublishedName(t) /\ s <= t
  BY NameFor
<1>3. s < t
  <2>1. s # t
    BY <1>2
  <2> QED
    BY <1>1, <1>2, <2>1
<1>4. s \notin Present
  BY <1>2, <1>3 DEF Channel, ChannelInv, NamesOK
<1>5. ASSUME NEW u \in Present PROVE s + 1 <= u
  <2> SUFFICES ASSUME ~(s + 1 <= u) PROVE FALSE
    OBVIOUS
  <2>1. s \in u..t
    BY <1>1, <1>3
  <2> QED
    BY <1>4, <2>1 DEF Channel, WindowOK
<1> QED
  BY <1>5 DEF AtLeast

\* head_record_index: the end of a published segment, or nothing has been published.
LEMMA HeadFacts ==
  ASSUME Channel
  PROVE  /\ Head \in Nat
         /\ Head = 0 \/ \E i \in Created : IsPublished(i) /\ Head <= End(i) /\ file[i].seq \in Present
<1> DEFINE P == {s \in Present : PublishedName(s)}
<1>0. Head = IF P = {} THEN 0 ELSE End(dir[LastOf(P)])
  BY DEF Head
<1>1. CASE P = {}
  BY <1>0, <1>1
<1>2. CASE P # {}
  <2>1. PICK a \in Seqs, b \in Seqs : a <= b /\ Present = a..b
    BY <1>2, Listing
  <2>2. \A s \in Present : s # b => PublishedName(s)
    <3>1. b \in Present /\ \A s \in Present : s # b => s < b
      BY <2>1
    <3> QED
      BY <3>1 DEF Channel, ChannelInv, NamesOK
  <2>3. PICK c \in Seqs : a <= c /\ P = a..c /\ c <= b
    <3>1. CASE PublishedName(b)
      <4>1. P = a..b
        BY <2>1, <2>2, <3>1
      <4> QED
        BY <2>1, <4>1
    <3>2. CASE ~PublishedName(b)
      <4>1. P = a..(b - 1)
        BY <2>1, <2>2, <3>2
      <4>2. a <= b - 1
        BY <1>2, <2>1, <4>1
      <4> QED
        BY <2>1, <4>1, <4>2
    <3> QED
      BY <3>1, <3>2
  <2>4. LastOf(P) = c
    <3>1. LastOf(a..c) = c
      BY <2>3, LastOfInterval
    <3> HIDE DEF P
    <3> QED
      BY <2>3, <3>1
  <2>5. c \in Present /\ PublishedName(c)
    BY <2>3
  <2>6. /\ dir[c] \in Created /\ IsPublished(dir[c]) /\ file[dir[c]].seq = c /\ End(dir[c]) \in Nat
    BY <2>5, ChannelFacts DEF PublishedName
  <2>7. Head = End(dir[c])
    BY <1>0, <1>2, <2>4
  <2> QED
    BY <2>5, <2>6, <2>7
<1> QED
  BY <1>1, <1>2

-----------------------------------------------------------------------------
(* What a search has seen stays so while nobody stores *)

\* A step of the search itself.
LEMMA SearchFrame ==
  ASSUME NEW k \in Search, SearchOK(k), UNCHANGED vars
  PROVE  SearchOK(k)'
<1>1. UNCHANGED <<dir, file, pc>>
  BY DEF vars, dirVars, writerVars
<1>2. Present' = Present /\ Created' = Created
  BY <1>1 DEF Present, Created
<1>3. /\ \A s \in Int : (AtLeast(s)' <=> AtLeast(s)) /\ (Reaches(s)' <=> Reaches(s))
      /\ \A i \in Created : (IsPublished(i)' <=> IsPublished(i)) /\ End(i)' = End(i)
  BY <1>1, <1>2 DEF AtLeast, Reaches, IsPublished, End
<1>4. ASSUME NEW b \in Nat, HeadKept(k, b) PROVE HeadKept(k, b)'
  BY <1>1, <1>2, <1>3, <1>4 DEF HeadKept
<1>5. ASSUME NEW s, NEW x
      PROVE  /\ StartsBy(s, x) => StartsBy(s, x)'
             /\ StartsAfter(s, x) => StartsAfter(s, x)'
             /\ EndsAfter(s, x) => EndsAfter(s, x)'
  BY <1>1, <1>2, <1>3 DEF StartsBy, StartsAfter, EndsAfter
<1>6. ASSUME NEW a \in Seqs, NEW b \in Seqs, ListingOK(k, a, b) PROVE ListingOK(k, a, b)'
  BY <1>3, <1>4, <1>5, <1>6 DEF ListingOK
<1>7. Holds(k.lo, k.index) => Holds(k.lo, k.index)'
  BY <1>1, <1>2, <1>3 DEF Holds
<1>8. SeenPruned(k.index) => SeenPruned(k.index)'
  BY <1>1, <1>2, <1>3 DEF SeenPruned, AtLeast, IsPublished
<1> QED
  BY <1>1, <1>4, <1>6, <1>7, <1>8 DEF SearchOK

-----------------------------------------------------------------------------
(* The steps of a search *)

\* locate lists the directory, for the first time ...
LEMMA ListOK ==
  ASSUME Channel, pc # "down", Present # {}, NEW x \in Nat, NEW k,
         k = [NoSeek EXCEPT !.pc = "listed", !.index = x, !.seqs = Present, !.head = Head]
  PROVE  k \in Search /\ SearchOK(k)
<1>1. /\ Head \in Nat
      /\ Head = 0 \/ \E i \in Created : IsPublished(i) /\ Head <= End(i) /\ file[i].seq \in Present
  BY HeadFacts
<1>2. PICK a \in Seqs, b \in Seqs : a <= b /\ Present = a..b
  BY Listing
<1>3. /\ k.pc = "listed" /\ k.index = x /\ k.seqs = Present /\ k.head = Head /\ k.lo = 0
      /\ k = [pc |-> "listed", index |-> x, seqs |-> Present, lo |-> 0, hi |-> 0, head |-> Head]
  BY DEF NoSeek
<1>4. k \in Search
  <2>1. Present \subseteq Seqs
    BY DEF Present
  <2> QED
    BY <1>1, <1>3, <2>1 DEF Search, SeekPc, ListingPc
<1>5. AtLeast(a) /\ Reaches(b)
  BY <1>2 DEF AtLeast, Reaches
<1>6. HeadKept(k, b)
  <2>1. \A s \in Present : s <= b
    BY <1>2
  <2> QED
    BY <1>1, <1>3, <2>1 DEF HeadKept
<1>7. ListingOK(k, a, b)
  BY <1>2, <1>3, <1>5, <1>6 DEF ListingOK
<1> QED
  BY <1>3, <1>4, <1>7 DEF SearchOK, ListingPc

\* ... and again, for the same index.
LEMMA AgainOK ==
  ASSUME Channel, NEW k \in Search, SearchOK(k), k.pc = "again", Present # {}, NEW n,
         n = [k EXCEPT !.pc = "listed", !.seqs = Present]
  PROVE  n \in Search /\ SearchOK(n)
<1>1. PICK a \in Seqs, b \in Seqs : a <= b /\ Present = a..b
  BY Listing
<1>2. /\ n.pc = "listed" /\ n.seqs = Present /\ n.head = k.head /\ n.lo = k.lo /\ n.index = k.index
      /\ n \in Search
  BY DEF Search, SeekPc, ListingPc, Present
<1>3. pc # "down" /\ k.lo = 0 /\ HeadKept(k, MaxSeq)
  BY DEF SearchOK
<1>4. AtLeast(a) /\ Reaches(b)
  BY <1>1 DEF AtLeast, Reaches
<1>5. HeadKept(n, b)
  <2>1. CASE k.head = 0
    BY <1>2, <2>1 DEF HeadKept
  <2>2. CASE k.head # 0
    <3>1. PICK i \in Created : IsPublished(i) /\ k.head <= End(i)
      BY <1>3, <2>2 DEF HeadKept
    <3>2. PICK t \in Present : file[i].seq <= t
      BY <3>1, NameFor
    <3>3. file[i].seq <= b
      BY <1>1, <3>2, ChannelFacts
    <3> QED
      BY <1>2, <3>1, <3>3 DEF HeadKept
  <2> QED
    BY <2>1, <2>2
<1>6. ListingOK(n, a, b)
  BY <1>1, <1>2, <1>3, <1>4, <1>5 DEF ListingOK
<1> QED
  BY <1>2, <1>3, <1>6 DEF SearchOK, ListingPc

\* A newest file that is not published is left out: if it was the head's, the head's name is gone.
LEMMA PublishedOK ==
  ASSUME Channel, NEW k \in Search, SearchOK(k), k.pc = "listed", NEW n,
         n = IF Cardinality(k.seqs) > 1 /\ ~PublishedName(LastOf(k.seqs))
             THEN [k EXCEPT !.seqs = @ \ {LastOf(k.seqs)}] ELSE [k EXCEPT !.pc = "first"]
  PROVE  n \in Search /\ SearchOK(n)
<1>1. PICK a \in Seqs, b \in Seqs : ListingOK(k, a, b)
  BY DEF SearchOK, ListingPc
<1>2. pc # "down" /\ k.lo = 0 /\ k.seqs = a..b /\ a <= b /\ AtLeast(a) /\ Reaches(b) /\ HeadKept(k, b)
  BY <1>1 DEF SearchOK, ListingOK
<1>3. Cardinality(a..b) = b - a + 1 /\ LastOf(a..b) = b
  BY <1>2, LastOfInterval
<1>4. CASE b - a + 1 > 1 /\ ~PublishedName(b)
  <2>1. n = [k EXCEPT !.seqs = (a..b) \ {b}]
    BY <1>2, <1>3, <1>4
  <2>2. (a..b) \ {b} = a..(b - 1) /\ a <= b - 1 /\ b - 1 \in Seqs
    BY <1>2, <1>4
  <2>3. /\ n.pc = "listed" /\ n.seqs = a..(b - 1) /\ n.head = k.head /\ n.lo = k.lo
        /\ n.index = k.index /\ n \in Search
    BY <2>1, <2>2 DEF Search
  <2>4. Reaches(b - 1)
    <3>1. PICK t \in Present : b <= t
      BY <1>2 DEF Reaches
    <3>2. b - 1 <= t
      BY <3>1, ChannelFacts
    <3> QED
      BY <3>2 DEF Reaches
  <2>5. HeadKept(n, b - 1)
    <3>1. CASE k.head = 0
      BY <2>3, <3>1 DEF HeadKept
    <3>2. CASE k.head # 0
      <4>1. PICK i \in Created : /\ IsPublished(i) /\ k.head <= End(i)
                                 /\ file[i].seq <= b \/ AtLeast(b + 1)
        BY <1>2, <3>2 DEF HeadKept
      <4>2. file[i].seq \in Nat /\ \A t \in Present : t \in Nat
        BY ChannelFacts
      <4>3. file[i].seq <= b - 1 \/ AtLeast((b - 1) + 1)
        <5>1. CASE AtLeast(b + 1)
          <6>1. \A t \in Present : (b - 1) + 1 <= t
            BY <4>2, <5>1 DEF AtLeast
          <6> QED
            BY <6>1 DEF AtLeast
        <5>2. CASE file[i].seq = b
          <6>1. AtLeast(b + 1)
            BY <1>4, <4>1, <5>2, NameGone
          <6> QED
            BY <5>1, <6>1
        <5>3. CASE file[i].seq <= b /\ file[i].seq # b
          BY <4>2, <5>3
        <5> QED
          BY <4>1, <5>1, <5>2, <5>3
      <4> QED
        BY <2>3, <4>1, <4>3 DEF HeadKept
    <3> QED
      BY <3>1, <3>2
  <2>6. ListingOK(n, a, b - 1)
    BY <1>2, <2>2, <2>3, <2>4, <2>5 DEF ListingOK
  <2> QED
    BY <1>2, <2>2, <2>3, <2>6 DEF SearchOK, ListingPc
<1>5. CASE ~(b - a + 1 > 1 /\ ~PublishedName(b))
  <2>1. n = [k EXCEPT !.pc = "first"]
    BY <1>2, <1>3, <1>5
  <2>2. /\ n.pc = "first" /\ n.seqs = a..b /\ n.head = k.head /\ n.lo = k.lo
        /\ n.index = k.index /\ n \in Search
    BY <1>2, <2>1 DEF Search, SeekPc, ListingPc
  <2>3. HeadKept(n, b)
    BY <1>2, <2>2 DEF HeadKept
  <2>4. ListingOK(n, a, b)
    BY <1>2, <2>2, <2>3 DEF ListingOK
  <2> QED
    BY <1>2, <2>2, <2>4 DEF SearchOK, ListingPc
<1> QED
  BY <1>4, <1>5

\* What probe makes of a search k when it opens the listed segment s: found, if it is there.
Probed(k, s, found) ==
  IF dir[s] = NoFile THEN [NoSeek EXCEPT !.pc = "again", !.index = k.index, !.head = k.head]
  ELSE IF ~PublishedName(s) THEN [k EXCEPT !.pc = "not_found"] ELSE found

\* probe: a name that is gone, or not published, is never taken for an answer.
LEMMA ProbeOK ==
  ASSUME Channel, NEW k \in Search, SearchOK(k), k.pc \in ListingPc, NEW s \in Seqs, NEW f, NEW n,
         n = Probed(k, s, f), PublishedName(s) => f \in Search /\ SearchOK(f)
  PROVE  n \in Search /\ SearchOK(n)
<1>0. pc # "down" /\ k.pc \in SeekPc /\ k.pc # "none"
  BY DEF SearchOK, ListingPc, Search
<1>1. CASE dir[s] = NoFile
  <2>1. n = [pc |-> "again", index |-> k.index, seqs |-> {}, lo |-> 0, hi |-> 0, head |-> k.head]
    BY <1>1 DEF Probed, NoSeek
  <2>2. n \in Search /\ n.pc = "again" /\ n.lo = 0 /\ n.head = k.head
    BY <2>1 DEF Search, SeekPc
  <2>3. HeadKept(n, MaxSeq)
    <3>1. PICK a \in Seqs, b \in Seqs : ListingOK(k, a, b)
      BY DEF SearchOK
    <3>2. HeadKept(k, b)
      BY <3>1 DEF ListingOK
    <3>3. \A i \in Created : file[i].seq <= MaxSeq
      BY ChannelFacts
    <3> QED
      BY <2>2, <3>2, <3>3 DEF HeadKept
  <2> QED
    BY <1>0, <2>2, <2>3 DEF SearchOK, ListingPc
<1>2. CASE dir[s] # NoFile /\ ~PublishedName(s)
  <2>1. n = [k EXCEPT !.pc = "not_found"]
    BY <1>2 DEF Probed
  <2>2. n \in Search /\ n.pc = "not_found"
    BY <2>1 DEF Search, SeekPc
  <2> QED
    BY <1>0, <2>2 DEF SearchOK, ListingPc
<1>3. CASE dir[s] # NoFile /\ PublishedName(s)
  BY <1>3 DEF Probed
<1> QED
  BY <1>1, <1>2, <1>3

\* A published name leads to the one published file of its sequence.
LEMMA NamedFile ==
  ASSUME Channel, NEW s \in Seqs, PublishedName(s)
  PROVE  /\ s \in Present /\ dir[s] \in Created /\ IsPublished(dir[s]) /\ file[dir[s]].seq = s
         /\ dir[s] \in Nat /\ s \in Nat
         /\ file[dir[s]].base \in Nat /\ End(dir[s]) \in Nat /\ file[dir[s]].base <= End(dir[s])
         /\ \A i \in Created : IsPublished(i) /\ file[i].seq = s => i = dir[s]
<1>1. s \in Present /\ dir[s] \in Created /\ IsPublished(dir[s]) /\ file[dir[s]].seq = s /\ s \in Nat
  BY ChannelFacts DEF PublishedName
<1>2. /\ file[dir[s]].base \in Nat /\ End(dir[s]) \in Nat /\ file[dir[s]].base <= End(dir[s])
      /\ dir[s] \in Nat
  BY <1>1, ChannelFacts
<1>3. \A i \in Created : IsPublished(i) /\ file[i].seq = s => i = dir[s]
  BY <1>1, SameSegment
<1> QED
  BY <1>1, <1>2, <1>3

\* The first segment of the listing starts at or before the index, or it is pruned.
LEMMA FirstOK ==
  ASSUME Channel, NEW k \in Search, SearchOK(k), k.pc = "first", NEW s, s = Nth(k.seqs, 0), NEW n,
         n = Probed(k, s, [k EXCEPT !.pc = IF k.index < file[dir[s]].base THEN "pruned" ELSE "last"])
  PROVE  n \in Search /\ SearchOK(n)
<1>1. PICK a \in Seqs, b \in Seqs : ListingOK(k, a, b)
  BY DEF SearchOK, ListingPc
<1>2. pc # "down" /\ k.lo = 0 /\ k.seqs = a..b /\ a <= b /\ AtLeast(a) /\ Reaches(b) /\ HeadKept(k, b)
      /\ k.index \in Nat /\ a \in Nat /\ b \in Nat
  BY <1>1 DEF SearchOK, ListingOK, Search
<1>3. s = a
  <2>1. a + 0 <= b /\ a + 0 = a
    BY <1>2
  <2>2. Nth(a..b, 0) = a + 0
    BY <1>2, <2>1, NthOfInterval
  <2> QED
    BY <1>2, <2>1, <2>2
<1>4. PICK f : f = [k EXCEPT !.pc = IF k.index < file[dir[s]].base THEN "pruned" ELSE "last"]
  OBVIOUS
<1>5. f \in Search /\ f.index = k.index /\ f.seqs = k.seqs /\ f.lo = k.lo /\ f.head = k.head
      /\ f.pc = IF k.index < file[dir[s]].base THEN "pruned" ELSE "last"
  BY <1>4 DEF Search, SeekPc, ListingPc
<1>6. ASSUME PublishedName(s) PROVE SearchOK(f)
  <2>1. dir[s] \in Created /\ IsPublished(dir[s]) /\ file[dir[s]].seq = s /\ file[dir[s]].base \in Nat
    BY <1>3, <1>6, NamedFile
  <2>2. CASE k.index < file[dir[s]].base
    <3>1. SeenPruned(k.index)
      BY <1>2, <1>3, <2>1, <2>2 DEF SeenPruned
    <3> QED
      BY <1>2, <1>5, <2>2, <3>1 DEF SearchOK, ListingPc
  <2>3. CASE ~(k.index < file[dir[s]].base)
    <3>1. StartsBy(a + f.lo, f.index)
      <4>1. a + f.lo = a /\ file[dir[s]].base <= f.index
        BY <1>2, <1>5, <2>1, <2>3
      <4> QED
        BY <1>3, <2>1, <4>1 DEF StartsBy
    <3>2. HeadKept(f, b)
      BY <1>2, <1>5 DEF HeadKept
    <3>3. ListingOK(f, a, b)
      BY <1>2, <1>5, <2>3, <3>1, <3>2 DEF ListingOK
    <3> QED
      BY <1>2, <1>5, <2>3, <3>3 DEF SearchOK, ListingPc
  <2> QED
    BY <2>2, <2>3
<1>7. k.pc \in ListingPc /\ n = Probed(k, s, f) /\ s \in Seqs
  BY <1>3, <1>4 DEF ListingPc
<1> QED
  BY <1>5, <1>6, <1>7, ProbeOK

\* The last segment of the listing ends at or after the index, or it is past the head: every
\* segment there was at the call ends before the last of the listing does.
LEMMA LastOK ==
  ASSUME Channel, NEW k \in Search, SearchOK(k), k.pc = "last", NEW s, s = LastOf(k.seqs), NEW n,
         n = Probed(k, s, [k EXCEPT !.pc = IF k.index > End(dir[s]) THEN "past" ELSE "search",
                                    !.hi = Cardinality(k.seqs) - 1])
  PROVE  n \in Search /\ SearchOK(n)
<1>1. PICK a \in Seqs, b \in Seqs : ListingOK(k, a, b)
  BY DEF SearchOK, ListingPc
<1>2. /\ pc # "down" /\ k.lo = 0 /\ k.seqs = a..b /\ a <= b /\ AtLeast(a) /\ Reaches(b) /\ HeadKept(k, b)
      /\ k.index \in Nat /\ k.head \in Nat /\ a \in Nat /\ b \in Nat /\ StartsBy(a + k.lo, k.index)
  BY <1>1 DEF SearchOK, ListingOK, Search
<1>3. s = b /\ Cardinality(k.seqs) - 1 = b - a /\ b - a \in Nat
  BY <1>2, LastOfInterval
<1>4. PICK f : f = [k EXCEPT !.pc = IF k.index > End(dir[s]) THEN "past" ELSE "search", !.hi = b - a]
  OBVIOUS
<1>5. f \in Search /\ f.index = k.index /\ f.seqs = k.seqs /\ f.lo = k.lo /\ f.head = k.head
      /\ f.pc = (IF k.index > End(dir[s]) THEN "past" ELSE "search") /\ f.hi = b - a
  BY <1>3, <1>4 DEF Search, SeekPc, ListingPc
<1>6. ASSUME PublishedName(s) PROVE SearchOK(f)
  <2>1. /\ s \in Present /\ dir[s] \in Created /\ IsPublished(dir[s]) /\ file[dir[s]].seq = s
        /\ End(dir[s]) \in Nat /\ file[dir[s]].base \in Nat /\ file[dir[s]].base <= End(dir[s])
        /\ \A i \in Created : IsPublished(i) /\ file[i].seq = s => i = dir[s]
    BY <1>3, <1>6, NamedFile
  <2>2. CASE k.index > End(dir[s])
    <3>1. k.index > k.head
      <4>1. CASE k.head = 0
        BY <1>2, <2>1, <2>2, <4>1
      <4>2. CASE k.head # 0
        <5>1. PICK i \in Created : /\ IsPublished(i) /\ k.head <= End(i)
                                   /\ file[i].seq <= b \/ AtLeast(b + 1)
          BY <1>2, <4>2 DEF HeadKept
        <5>2. file[i].seq <= b /\ file[i].seq \in Nat /\ End(i) \in Nat
          <6>1. file[i].seq \in Nat /\ End(i) \in Nat
            BY <5>1, ChannelFacts
          <6>2. ~AtLeast(b + 1)
            BY <1>2, <1>3, <2>1 DEF AtLeast
          <6> QED
            BY <5>1, <6>1, <6>2
        <5>3. End(i) <= End(dir[s])
          <6>1. CASE file[i].seq = s
            BY <2>1, <5>1, <5>2, <6>1
          <6>2. CASE file[i].seq # s
            <7>1. file[i].seq < file[dir[s]].seq
              BY <1>2, <1>3, <2>1, <5>2, <6>2
            <7>2. End(i) <= file[dir[s]].base
              BY <2>1, <5>1, <7>1, OlderEnds
            <7> QED
              BY <2>1, <5>2, <7>2
          <6> QED
            BY <6>1, <6>2
        <5> QED
          BY <1>2, <2>1, <2>2, <5>1, <5>2, <5>3
      <4> QED
        BY <4>1, <4>2
    <3> QED
      BY <1>2, <1>5, <2>2, <3>1 DEF SearchOK, ListingPc
  <2>3. CASE ~(k.index > End(dir[s]))
    <3>1. EndsAfter(b, f.index)
      <4>1. f.index <= End(dir[s])
        BY <1>2, <1>5, <2>1, <2>3
      <4> QED
        BY <1>3, <2>1, <4>1 DEF EndsAfter
    <3>2. HeadKept(f, b)
      BY <1>2, <1>5 DEF HeadKept
    <3>3. f.pc = "search" /\ f.lo <= f.hi /\ f.hi <= b - a
      BY <1>2, <1>3, <1>5, <2>3
    <3>4. ListingOK(f, a, b)
      BY <1>2, <1>5, <3>1, <3>2, <3>3 DEF ListingOK
    <3> QED
      BY <1>2, <3>3, <3>4 DEF SearchOK, ListingPc
  <2> QED
    BY <2>2, <2>3
<1>7. k.pc \in ListingPc /\ n = Probed(k, s, f) /\ s \in Seqs
  BY <1>3, <1>4 DEF ListingPc
<1> QED
  BY <1>5, <1>6, <1>7, ProbeOK

\* The middle of two bounds, rounded up, is above the lower and not above the upper.
LEMMA Middle ==
  ASSUME NEW lo \in Nat, NEW hi \in Nat, lo < hi
  PROVE  LET m == lo + (hi - lo + 1) \div 2 IN m \in Nat /\ lo < m /\ m <= hi
<1>1. PICK d \in Nat : d = hi - lo + 1 /\ d >= 2
  OBVIOUS
<1>2. d \div 2 \in Int /\ 2 * (d \div 2) <= d /\ d < 2 * (d \div 2) + 2
  OBVIOUS
<1>3. PICK q \in Int : q = d \div 2 /\ 2 * q <= d /\ d < 2 * q + 2
  BY <1>2
<1>4. lo + q \in Nat /\ lo < lo + q /\ lo + q <= hi
  BY <1>1, <1>3
<1> QED
  BY <1>1, <1>3, <1>4

\* A step of the binary search keeps the index between its bounds.
LEMMA SearchStepOK ==
  ASSUME Channel, NEW k \in Search, SearchOK(k), k.pc = "search", k.lo < k.hi,
         NEW m \in Nat, k.lo < m, m <= k.hi, NEW s, s = Nth(k.seqs, m), NEW n,
         n = Probed(k, s, IF file[dir[s]].base <= k.index THEN [k EXCEPT !.lo = m]
                          ELSE [k EXCEPT !.hi = m - 1])
  PROVE  n \in Search /\ SearchOK(n)
<1>1. PICK a \in Seqs, b \in Seqs : ListingOK(k, a, b)
  BY DEF SearchOK, ListingPc
<1>2. /\ pc # "down" /\ k.seqs = a..b /\ a <= b /\ AtLeast(a) /\ Reaches(b) /\ HeadKept(k, b)
      /\ k.index \in Nat /\ k.lo \in Nat /\ k.hi \in Nat /\ a \in Nat /\ b \in Nat
      /\ StartsBy(a + k.lo, k.index) /\ k.hi <= b - a
      /\ IF k.hi = b - a THEN EndsAfter(b, k.index) ELSE StartsAfter(a + k.hi + 1, k.index)
  BY <1>1 DEF SearchOK, ListingOK, Search
<1>3. m \in Nat /\ k.lo < m /\ m <= k.hi
  OBVIOUS
<1>4. s = a + m /\ s \in Seqs /\ a + m <= b
  <2>1. a + m <= b
    BY <1>2, <1>3
  <2>2. Nth(a..b, m) = a + m
    BY <1>2, <1>3, <2>1, NthOfInterval
  <2> QED
    BY <1>2, <1>3, <2>1, <2>2
<1>5. PICK f : f = IF file[dir[s]].base <= k.index THEN [k EXCEPT !.lo = m]
                   ELSE [k EXCEPT !.hi = m - 1]
  OBVIOUS
<1>6. ASSUME PublishedName(s) PROVE f \in Search /\ SearchOK(f)
  <2>1. dir[s] \in Created /\ IsPublished(dir[s]) /\ file[dir[s]].seq = s /\ file[dir[s]].base \in Nat
    BY <1>4, <1>6, NamedFile
  <2>2. CASE file[dir[s]].base <= k.index
    <3>1. f = [k EXCEPT !.lo = m]
      BY <1>5, <2>2
    <3>2. f \in Search /\ f.pc = "search" /\ f.index = k.index /\ f.seqs = k.seqs /\ f.lo = m
          /\ f.hi = k.hi /\ f.head = k.head
      BY <1>3, <3>1 DEF Search
    <3>3. StartsBy(a + f.lo, f.index)
      BY <1>4, <2>1, <2>2, <3>2 DEF StartsBy
    <3>4. HeadKept(f, b)
      BY <1>2, <3>2 DEF HeadKept
    <3>5. ListingOK(f, a, b)
      BY <1>2, <1>3, <3>2, <3>3, <3>4 DEF ListingOK
    <3> QED
      BY <1>2, <3>2, <3>5 DEF SearchOK, ListingPc
  <2>3. CASE ~(file[dir[s]].base <= k.index)
    <3>1. f = [k EXCEPT !.hi = m - 1] /\ m - 1 \in Nat
      <4>1. f = [k EXCEPT !.hi = m - 1]
        BY <1>5, <2>3
      <4>2. k.lo \in Nat
        BY <1>2
      <4> QED
        BY <1>3, <4>1, <4>2
    <3>2. f \in Search /\ f.pc = "search" /\ f.index = k.index /\ f.seqs = k.seqs /\ f.lo = k.lo
          /\ f.hi = m - 1 /\ f.head = k.head
      BY <3>1 DEF Search
    <3>3. StartsAfter(a + f.hi + 1, f.index)
      <4>1. a + f.hi + 1 = s
        BY <1>2, <1>3, <1>4, <3>2
      <4>2. f.index < file[dir[s]].base
        BY <1>2, <2>1, <2>3, <3>2
      <4> QED
        BY <2>1, <4>1, <4>2 DEF StartsAfter
    <3>4. HeadKept(f, b)
      BY <1>2, <3>2 DEF HeadKept
    <3>5. f.lo <= f.hi /\ f.hi <= b - a /\ f.hi # b - a
      <4>1. k.lo \in Nat /\ k.hi \in Nat /\ a \in Nat /\ b \in Nat /\ k.hi <= b - a
        BY <1>2
      <4>2. k.lo <= m - 1 /\ m - 1 < b - a
        BY <1>3, <4>1
      <4> QED
        BY <1>3, <3>2, <4>1, <4>2
    <3>6. ListingOK(f, a, b)
      BY <1>2, <3>2, <3>3, <3>4, <3>5 DEF ListingOK
    <3> QED
      BY <1>2, <3>2, <3>6 DEF SearchOK, ListingPc
  <2> QED
    BY <2>2, <2>3
<1>7. k.pc \in ListingPc /\ n = Probed(k, s, f)
  BY <1>5 DEF ListingPc
<1> QED
  BY <1>4, <1>6, <1>7, ProbeOK

\* The segment a search ends at holds the index: it starts at or before it, and the next one, which
\* starts where it ends, after it.
LEMMA OpenOK ==
  ASSUME Channel, NEW k \in Search, SearchOK(k), k.pc = "search", k.lo = k.hi,
         NEW s, s = Nth(k.seqs, k.lo), NEW n,
         n = Probed(k, s, [k EXCEPT !.pc = "walk", !.lo = dir[s]])
  PROVE  n \in Search /\ SearchOK(n)
<1>1. PICK a \in Seqs, b \in Seqs : ListingOK(k, a, b)
  BY DEF SearchOK, ListingPc
<1>2. /\ pc # "down" /\ k.seqs = a..b /\ a <= b
      /\ k.index \in Nat /\ k.lo \in Nat /\ k.hi \in Nat /\ a \in Nat /\ b \in Nat
      /\ StartsBy(a + k.lo, k.index) /\ k.hi <= b - a
      /\ IF k.hi = b - a THEN EndsAfter(b, k.index) ELSE StartsAfter(a + k.hi + 1, k.index)
  BY <1>1 DEF SearchOK, ListingOK, Search
<1>3. s = a + k.lo /\ s \in Seqs /\ s \in Nat
  <2>1. a + k.lo <= b
    BY <1>2
  <2>2. Nth(a..b, k.lo) = a + k.lo
    BY <1>2, <2>1, NthOfInterval
  <2> QED
    BY <1>2, <2>1, <2>2
<1>4. PICK f : f = [k EXCEPT !.pc = "walk", !.lo = dir[s]]
  OBVIOUS
<1>5. ASSUME PublishedName(s) PROVE f \in Search /\ SearchOK(f)
  <2>1. PICK i \in Created : /\ i = dir[s] /\ IsPublished(i) /\ file[i].seq = s /\ i \in Nat
                             /\ file[i].base \in Nat /\ End(i) \in Nat
                             /\ \A j \in Created : IsPublished(j) /\ file[j].seq = s => j = i
    BY <1>3, <1>5, NamedFile
  <2>2. f \in Search /\ f.pc = "walk" /\ f.lo = i /\ f.index = k.index
    BY <1>4, <2>1 DEF Search, SeekPc
  <2>3. file[i].base <= k.index
    BY <1>2, <1>3, <2>1 DEF StartsBy
  <2>4. k.index <= End(i)
    <3>1. CASE k.hi = b - a
      <4>1. EndsAfter(s, k.index)
        <5>1. b = s
          BY <1>2, <1>3, <3>1
        <5> QED
          BY <1>2, <3>1, <5>1
      <4> QED
        BY <2>1, <4>1 DEF EndsAfter
    <3>2. CASE k.hi # b - a
      <4>1. a + k.hi + 1 = s + 1 /\ StartsAfter(a + k.hi + 1, k.index)
        BY <1>2, <1>3, <3>2
      <4>2. PICK j \in Created : IsPublished(j) /\ file[j].seq = s + 1 /\ k.index < file[j].base
        BY <4>1 DEF StartsAfter
      <4>3. PICK p \in Created : /\ p = file[j].parent /\ IsPublished(p)
                                 /\ file[j].seq = file[p].seq + 1 /\ file[j].base = End(p)
        <5>1. Lineage(j) /\ IsEdge(j) /\ file[j].seq # 0
          BY <1>3, <4>2 DEF Channel, ChannelInv, FilesOK
        <5> QED
          BY <5>1 DEF Lineage, IsChild, IsEdge
      <4>4. file[p].seq = s
        BY <1>3, <4>2, <4>3, ChannelFacts
      <4>5. p = i
        BY <2>1, <4>3, <4>4
      <4> QED
        BY <1>2, <2>1, <4>2, <4>3, <4>5
    <3> QED
      BY <3>1, <3>2
  <2>5. Holds(f.lo, f.index)
    BY <2>1, <2>2, <2>3, <2>4 DEF Holds
  <2> QED
    BY <1>2, <2>2, <2>5 DEF SearchOK, ListingPc
<1>6. k.pc \in ListingPc /\ n = Probed(k, s, f)
  BY <1>4 DEF ListingPc
<1> QED
  BY <1>3, <1>5, <1>6, ProbeOK

-----------------------------------------------------------------------------
(* What a search has seen stays so while the writer goes on *)

\* Retention takes the oldest name, never the newest, and a roll adds a newer one.
LEMMA NamesMove ==
  ASSUME MaxCrashes = 0, Channel, WriterNext, pc # "down"
  PROVE  /\ pc' # "down"
         /\ \A s \in Nat : (AtLeast(s) => AtLeast(s)') /\ (Reaches(s) => Reaches(s)')
<1>0. /\ ChannelType /\ ChannelType' /\ wseq \in Nat /\ wseq \in Present /\ dir[wseq] = winst
      /\ \A s \in Present : s \in Nat /\ s \in Seqs
  <2>1. ChannelType /\ ChannelType' /\ \A s \in Present : s \in Nat /\ s \in Seqs
    BY ChannelFacts, WriterInv DEF Channel, ChannelInv
  <2>2. wseq \in Nat /\ wseq \in Present /\ dir[wseq] = winst
    BY OwnFile DEF Channel
  <2> QED
    BY <2>1, <2>2
<1>1. \A s \in Present' : s \in Nat /\ (s \in Present \/ \A t \in Present : t < s)
  <2>1. \A s \in Present' : s \in Nat
    BY DEF Present
  <2> QED
    BY <2>1, WindowStep DEF Channel
<1>2. ~Crash /\ ~DiscardUnpublished /\ ~CreateInitial /\ ~OpenNewest /\ ~Cleanup
  <2>1. crashes \in Nat
    BY <1>0 DEF ChannelType
  <2> QED
    BY <2>1 DEF Crash, DiscardUnpublished, CreateInitial, OpenNewest, Cleanup
<1>3. \/ OpenStep \/ RollStage \/ RollStamp \/ RollPublish \/ RollCommit \/ RollSwitch
      \/ Append \/ RollInstall \/ RollPrune
  BY <1>2 DEF WriterNext, OpenCalled, RollStep
<1>4. pc' # "down"
  BY <1>3 DEF OpenStep, PublishInitial, StrandedCheck, FinishCommit, FinishWp, RollStage, RollStamp,
              RollPublish, RollCommit, RollSwitch, Append, RollInstall, RollPrune, writerVars
<1>5. ASSUME NEW s \in Present PROVE \E t \in Present' : s <= t
  <2>1. CASE RollPrune
    <3>1. \A t \in Present : t <= wseq
      BY <2>1 DEF Channel, ChannelInv, WriterOK, RollPrune, RollingPc
    <3>2. wseq \in Present'
      <4>1. CASE KeepFiles > 0 /\ wseq >= KeepFiles
        <5>1. wseq - KeepFiles \in Seqs /\ wseq # wseq - KeepFiles /\ UNCHANGED file
              /\ dir' = [dir EXCEPT ![wseq - KeepFiles] = NoFile]
          BY <1>0, <2>1, <4>1 DEF RollPrune
        <5> QED
          BY <1>0, <5>1, Unlinked
      <4>2. CASE ~(KeepFiles > 0 /\ wseq >= KeepFiles)
        BY <1>0, <2>1, <4>2 DEF RollPrune, Present
      <4> QED
        BY <4>1, <4>2
    <3> QED
      BY <3>1, <3>2
  <2>2. CASE RollInstall
    <3>1. InstallNoReplace(wseq + 1, Fresh) /\ wseq + 1 \in Seqs
      BY <1>0, <2>2 DEF RollInstall
    <3>2. s \in Present' /\ s <= s
      BY <1>0, <3>1 DEF InstallNoReplace, Present, ChannelType
    <3> QED
      BY <3>2
  <2>3. CASE ~RollPrune /\ ~RollInstall
    <3>1. UNCHANGED dir
      BY <1>3, <2>3 DEF OpenStep, PublishInitial, StrandedCheck, FinishCommit, FinishWp, RollStage,
                       RollStamp, RollPublish, RollCommit, RollSwitch, Append, dirVars
    <3>2. s \in Present' /\ s <= s
      BY <1>0, <3>1 DEF Present
    <3> QED
      BY <3>2
  <2> QED
    BY <2>1, <2>2, <2>3
<1>6. ASSUME NEW s \in Nat, AtLeast(s) PROVE AtLeast(s)'
  <2> SUFFICES ASSUME NEW t \in Present' PROVE s <= t
    BY DEF AtLeast
  <2>1. s <= wseq
    BY <1>0, <1>6 DEF AtLeast
  <2>2. t \in Nat /\ (t \in Present \/ wseq < t)
    BY <1>0, <1>1
  <2> QED
    BY <1>0, <1>6, <2>1, <2>2 DEF AtLeast
<1>7. ASSUME NEW s \in Nat, Reaches(s) PROVE Reaches(s)'
  <2>1. PICK t \in Present : s <= t
    BY <1>7 DEF Reaches
  <2>2. PICK u \in Present' : t <= u
    BY <1>5
  <2>3. t \in Nat /\ u \in Nat
    BY <1>0, <1>1
  <2>4. s <= u
    BY <2>1, <2>2, <2>3
  <2> QED
    BY <2>4 DEF Reaches
<1> QED
  BY <1>4, <1>6, <1>7

\* So much a search has seen stays true: nothing is taken back of a published file.
LEMMA SearchKept ==
  ASSUME Channel, Channel', AllKept,
         pc # "down" =>
           /\ pc' # "down"
           /\ \A s \in Nat : (AtLeast(s) => AtLeast(s)') /\ (Reaches(s) => Reaches(s)'),
         NEW k \in Search, SearchOK(k)
  PROVE  SearchOK(k)'
<1> SUFFICES ASSUME k.pc # "none" PROVE SearchOK(k)'
  BY DEF SearchOK, ListingPc
<1>0. /\ pc # "down" /\ pc' # "down" /\ k.lo \in Nat /\ k.hi \in Nat /\ k.index \in Nat /\ k.head \in Nat
      /\ \A s \in Nat : (AtLeast(s) => AtLeast(s)') /\ (Reaches(s) => Reaches(s)')
  BY DEF SearchOK, Search
<1>1. ASSUME NEW i \in Created, IsPublished(i)
      PROVE  /\ i \in Created' /\ IsPublished(i)' /\ file'[i].seq = file[i].seq
             /\ file'[i].base = file[i].base /\ End(i) <= End(i)'
             /\ End(i) \in Nat /\ End(i)' \in Nat /\ file[i].seq \in Nat /\ file[i].base \in Nat
  <2>1. Kept(i) /\ i \in Created'
    BY DEF AllKept
  <2>2. /\ file[i].base \in Nat /\ file[i].count \in Nat /\ file[i].seq \in Nat /\ End(i) \in Nat
    BY FileFields DEF Channel, ChannelInv
  <2>3. file'[i].count \in Nat
    <3>1. ChannelType'
      BY DEF Channel, ChannelInv
    <3>2. file'[i] \in File
      BY <2>1, <3>1 DEF ChannelType
    <3> QED
      BY <3>2 DEF File
  <2>4. IsPublished(i)' /\ file'[i].base = file[i].base /\ file'[i].count >= file[i].count
        /\ file'[i].seq = file[i].seq
    BY <1>1, <2>1 DEF Kept, IsPublished, SameIdentity
  <2>5. End(i) <= End(i)' /\ End(i)' \in Nat
    BY <2>2, <2>3, <2>4 DEF End
  <2> QED
    BY <2>1, <2>2, <2>4, <2>5
<1>2. ASSUME NEW s \in Nat, NEW x \in Nat
      PROVE  /\ StartsBy(s, x) => StartsBy(s, x)'
             /\ StartsAfter(s, x) => StartsAfter(s, x)'
             /\ EndsAfter(s, x) => EndsAfter(s, x)'
  <2>1. ASSUME StartsBy(s, x) PROVE StartsBy(s, x)'
    BY <1>1, <2>1 DEF StartsBy
  <2>2. ASSUME StartsAfter(s, x) PROVE StartsAfter(s, x)'
    BY <1>1, <2>2 DEF StartsAfter
  <2>3. ASSUME EndsAfter(s, x) PROVE EndsAfter(s, x)'
    <3>1. PICK i \in Created : IsPublished(i) /\ file[i].seq = s /\ x <= End(i)
      BY <2>3 DEF EndsAfter
    <3>2. x <= End(i)'
      BY <1>1, <3>1
    <3> QED
      BY <1>1, <3>1, <3>2 DEF EndsAfter
  <2> QED
    BY <2>1, <2>2, <2>3
<1>3. ASSUME NEW b \in Nat, HeadKept(k, b) PROVE HeadKept(k, b)'
  <2>1. CASE k.head = 0
    BY <2>1 DEF HeadKept
  <2>2. CASE k.head # 0
    <3>1. PICK i \in Created : IsPublished(i) /\ k.head <= End(i) /\ (file[i].seq <= b \/ AtLeast(b + 1))
      BY <1>3, <2>2 DEF HeadKept
    <3>2. i \in Created' /\ IsPublished(i)' /\ k.head <= End(i)' /\ file'[i].seq = file[i].seq
      BY <1>0, <1>1, <3>1
    <3>3. file'[i].seq <= b \/ AtLeast(b + 1)'
      <4>1. b + 1 \in Nat
        OBVIOUS
      <4> QED
        BY <1>0, <3>1, <3>2, <4>1
    <3> QED
      BY <3>2, <3>3 DEF HeadKept
  <2> QED
    BY <2>1, <2>2
<1>4. ASSUME NEW a \in Seqs, NEW b \in Seqs, ListingOK(k, a, b) PROVE ListingOK(k, a, b)'
  <2>1. a + k.lo \in Nat /\ a + k.hi + 1 \in Nat /\ a \in Nat /\ b \in Nat
    BY <1>0
  <2>2. AtLeast(a)' /\ Reaches(b)' /\ HeadKept(k, b)'
    BY <1>0, <1>3, <1>4, <2>1 DEF ListingOK
  <2>3. /\ StartsBy(a + k.lo, k.index) => StartsBy(a + k.lo, k.index)'
        /\ StartsAfter(a + k.hi + 1, k.index) => StartsAfter(a + k.hi + 1, k.index)'
        /\ EndsAfter(b, k.index) => EndsAfter(b, k.index)'
    BY <1>0, <1>2, <2>1
  <2> QED
    BY <1>4, <2>2, <2>3 DEF ListingOK
<1>5. Holds(k.lo, k.index) => Holds(k.lo, k.index)'
  BY <1>0, <1>1 DEF Holds
<1>6. SeenPruned(k.index) => SeenPruned(k.index)'
  BY <1>0, <1>1 DEF SeenPruned
<1> QED
  BY <1>0, <1>3, <1>4, <1>5, <1>6 DEF SearchOK

-----------------------------------------------------------------------------
(* Every step keeps the invariant *)

\* A step of the search itself replaces it, and leaves every other search as it was.
LEMMA SearchSet ==
  ASSUME SeekInv, NEW r \in Readers, NEW n \in Search, SeekTo(r, n)
  PROVE  /\ seek' \in [Readers -> Search] /\ DOMAIN seek' = Readers
         /\ seek'[r] = n /\ \A q \in Readers : q # r => seek'[q] = seek[q]
BY DEF SeekInv, SeekTo

\* A step of the search that changes nothing else.
LEMMA SearchStep ==
  ASSUME MaxCrashes = 0, SeekInv,
         NEW r \in Readers, NEW n \in Search, SearchOK(n), SeekTo(r, n), n.pc # "joined",
         UNCHANGED vars
  PROVE  SeekInv'
<1>1. /\ seek' \in [Readers -> Search] /\ DOMAIN seek' = Readers
      /\ seek'[r] = n /\ \A q \in Readers : q # r => seek'[q] = seek[q]
  BY SearchSet
<1>2. IInv' /\ CInv' /\ OrderOK'
  <2>1. IInv' /\ CInv'
    BY NextInv, WindowNext DEF SeekInv
  <2> QED
    BY <2>1, OrderFrame DEF SeekInv, vars, dirVars
<1>3. SeekOK(r)'
  BY <1>1, SearchFrame DEF SeekOK
<1>4. ASSUME NEW q \in Readers, q # r PROVE SeekOK(q)'
  <2>1. PICK k \in Search : k = seek[q] /\ SearchOK(k)
                            /\ (k.pc = "joined" => rpc[q] = "scan" /\ rindex[q] = k.index)
    BY DEF SeekInv, SeekOK
  <2>2. k = seek'[q] /\ SearchOK(k)' /\ UNCHANGED <<rpc, rindex>>
    BY <1>1, <1>4, <2>1, SearchFrame DEF vars, readerVars
  <2> QED
    BY <2>1, <2>2 DEF SeekOK
<1> QED
  BY <1>1, <1>2, <1>3, <1>4 DEF SeekInv

\* Steps of the search over the listing.
LEMMA ListingStep ==
  ASSUME MaxCrashes = 0, SeekInv, NEW r \in Readers,
         \/ SeekList(r) \/ SeekAgain(r) \/ SeekPublished(r) \/ SeekFirst(r) \/ SeekLast(r)
         \/ SeekSearch(r) \/ SeekOpen(r) \/ SeekReturn(r)
  PROVE  SeekInv'
<1>0. Channel
  BY DEF SeekInv, IInv, CInv, Channel
<1>1. PICK k \in Search : k = seek[r] /\ SearchOK(k)
  BY DEF SeekInv, SeekOK
<1>2. CASE SeekList(r)
  <2>1. PICK x \in 0..(Head + 1) : SeekTo(r, [NoSeek EXCEPT !.pc = "listed", !.index = x,
                                                           !.seqs = Present, !.head = Head])
    BY <1>2 DEF SeekList
  <2>2. PICK n : n = [NoSeek EXCEPT !.pc = "listed", !.index = x, !.seqs = Present, !.head = Head]
    OBVIOUS
  <2>3. Present # {} /\ UNCHANGED vars /\ x \in Nat
    <3>1. x \in Nat
      <4>1. Head \in Nat
        BY <1>0, HeadFacts
      <4> QED
        BY <4>1
    <3>2. Present # {} /\ UNCHANGED vars
      BY <1>2 DEF SeekList
    <3> QED
      BY <3>1, <3>2
  <2>4. pc # "down"
    BY <1>0, <2>3 DEF Channel, WindowOK
  <2>5. n \in Search /\ SearchOK(n)
    BY <1>0, <2>2, <2>3, <2>4, ListOK
  <2>6. n.pc # "joined"
    BY <2>2 DEF NoSeek
  <2> QED
    BY <2>1, <2>2, <2>3, <2>5, <2>6, SearchStep
<1>3. CASE SeekAgain(r)
  <2>1. PICK n : n = [k EXCEPT !.pc = "listed", !.seqs = Present]
    OBVIOUS
  <2>2. SeekTo(r, n) /\ k.pc = "again" /\ Present # {} /\ UNCHANGED vars
    BY <1>1, <1>3, <2>1 DEF SeekAgain
  <2>3. n \in Search /\ SearchOK(n)
    BY <1>0, <1>1, <2>1, <2>2, AgainOK
  <2>4. n.pc # "joined"
    BY <2>1 DEF Search
  <2> QED
    BY <2>2, <2>3, <2>4, SearchStep
<1>4. CASE SeekPublished(r)
  <2>1. PICK n : n = IF Cardinality(k.seqs) > 1 /\ ~PublishedName(LastOf(k.seqs))
                     THEN [k EXCEPT !.seqs = @ \ {LastOf(k.seqs)}] ELSE [k EXCEPT !.pc = "first"]
    OBVIOUS
  <2>2. SeekTo(r, n) /\ k.pc = "listed" /\ UNCHANGED vars
    BY <1>1, <1>4, <2>1 DEF SeekPublished
  <2>3. n \in Search /\ SearchOK(n)
    BY <1>0, <1>1, <2>1, <2>2, PublishedOK
  <2>4. n.pc # "joined"
    BY <2>1, <2>2 DEF Search
  <2> QED
    BY <2>2, <2>3, <2>4, SearchStep
<1>5. ASSUME NEW s, NEW f, NEW n, n = Probed(k, s, f), f.pc # "joined", k.pc \in ListingPc
      PROVE  n.pc # "joined"
  BY <1>5 DEF Probed, NoSeek, Search, ListingPc
<1>6. CASE SeekFirst(r)
  <2>1. PICK s : s = Nth(k.seqs, 0)
    OBVIOUS
  <2>2. PICK f : f = [k EXCEPT !.pc = IF k.index < file[dir[s]].base THEN "pruned" ELSE "last"]
    OBVIOUS
  <2>3. PICK n : n = Probed(k, s, f)
    OBVIOUS
  <2>4. SeekTo(r, n) /\ k.pc = "first" /\ UNCHANGED vars
    BY <1>1, <1>6, <2>1, <2>2, <2>3 DEF SeekFirst, Probe, Probed
  <2>5. n \in Search /\ SearchOK(n)
    BY <1>0, <1>1, <2>1, <2>2, <2>3, <2>4, FirstOK
  <2>6. n.pc # "joined"
    <3>1. f.pc # "joined" /\ k.pc \in ListingPc
      BY <2>2, <2>4 DEF Search, ListingPc
    <3> QED
      BY <1>5, <2>3, <3>1
  <2> QED
    BY <2>4, <2>5, <2>6, SearchStep
<1>7. CASE SeekLast(r)
  <2>1. PICK s : s = LastOf(k.seqs)
    OBVIOUS
  <2>2. PICK f : f = [k EXCEPT !.pc = IF k.index > End(dir[s]) THEN "past" ELSE "search",
                               !.hi = Cardinality(k.seqs) - 1]
    OBVIOUS
  <2>3. PICK n : n = Probed(k, s, f)
    OBVIOUS
  <2>4. SeekTo(r, n) /\ k.pc = "last" /\ UNCHANGED vars
    BY <1>1, <1>7, <2>1, <2>2, <2>3 DEF SeekLast, Probe, Probed
  <2>5. n \in Search /\ SearchOK(n)
    BY <1>0, <1>1, <2>1, <2>2, <2>3, <2>4, LastOK
  <2>6. n.pc # "joined"
    <3>1. f.pc # "joined" /\ k.pc \in ListingPc
      BY <2>2, <2>4 DEF Search, ListingPc
    <3> QED
      BY <1>5, <2>3, <3>1
  <2> QED
    BY <2>4, <2>5, <2>6, SearchStep
<1>8. CASE SeekSearch(r)
  <2>0. k.pc = "search" /\ k.lo < k.hi /\ k.lo \in Nat /\ k.hi \in Nat
    BY <1>1, <1>8 DEF SeekSearch, Search
  <2>1. PICK m \in Nat : m = k.lo + (k.hi - k.lo + 1) \div 2 /\ k.lo < m /\ m <= k.hi
    BY <2>0, Middle
  <2>2. PICK s : s = Nth(k.seqs, m)
    OBVIOUS
  <2>3. PICK f : f = IF file[dir[s]].base <= k.index THEN [k EXCEPT !.lo = m]
                     ELSE [k EXCEPT !.hi = m - 1]
    OBVIOUS
  <2>4. PICK n : n = Probed(k, s, f)
    OBVIOUS
  <2>5. SeekTo(r, n) /\ UNCHANGED vars
    BY <1>1, <1>8, <2>1, <2>2, <2>3, <2>4 DEF SeekSearch, Probe, Probed
  <2>6. n \in Search /\ SearchOK(n)
    BY <1>0, <1>1, <2>0, <2>1, <2>2, <2>3, <2>4, SearchStepOK
  <2>7. n.pc # "joined"
    <3>1. f.pc # "joined" /\ k.pc \in ListingPc
      BY <2>0, <2>3 DEF Search, ListingPc
    <3> QED
      BY <1>5, <2>4, <3>1
  <2> QED
    BY <2>5, <2>6, <2>7, SearchStep
<1>9. CASE SeekOpen(r)
  <2>1. PICK s : s = Nth(k.seqs, k.lo)
    OBVIOUS
  <2>2. PICK f : f = [k EXCEPT !.pc = "walk", !.lo = dir[s]]
    OBVIOUS
  <2>3. PICK n : n = Probed(k, s, f)
    OBVIOUS
  <2>4. SeekTo(r, n) /\ k.pc = "search" /\ k.lo = k.hi /\ UNCHANGED vars
    BY <1>1, <1>9, <2>1, <2>2, <2>3 DEF SeekOpen, Probe, Probed
  <2>5. n \in Search /\ SearchOK(n)
    BY <1>0, <1>1, <2>1, <2>2, <2>3, <2>4, OpenOK
  <2>6. n.pc # "joined"
    <3>1. f.pc # "joined" /\ k.pc \in ListingPc
      BY <2>2, <2>4 DEF Search, ListingPc
    <3> QED
      BY <1>5, <2>3, <3>1
  <2> QED
    BY <2>4, <2>5, <2>6, SearchStep
<1>10. CASE SeekReturn(r)
  <2>1. NoSeek \in Search /\ NoSeek.pc = "none"
    BY DEF NoSeek, Search, SeekPc
  <2>2. SearchOK(NoSeek)
    BY <2>1 DEF SearchOK, ListingPc
  <2>3. SeekTo(r, NoSeek) /\ UNCHANGED vars
    BY <1>10 DEF SeekReturn
  <2> QED
    BY <2>1, <2>2, <2>3, SearchStep
<1> QED
  BY <1>2, <1>3, <1>4, <1>6, <1>7, <1>8, <1>9, <1>10

\* A reader that moves, by a search or a fresh open, leaves the channel and the others alone.
LEMMA ReaderMoves ==
  ASSUME IInv, CInv, OrderOK, NEW r \in Readers, UNCHANGED <<dirVars, writerVars>>, ReadersType',
         ReaderOK(r)', LiveOK(r)',
         \A q \in Readers : q # r =>
           /\ rpc'[q] = rpc[q] /\ rseq'[q] = rseq[q] /\ rinst'[q] = rinst[q]
           /\ rindex'[q] = rindex[q] /\ rpast'[q] = rpast[q] /\ repoch'[q] = repoch[q]
  PROVE  IInv' /\ CInv' /\ OrderOK' /\ AllKept /\ Present' = Present /\ pc' = pc
<1>0. ChannelInv /\ ReadersType /\ WindowOK /\ \A q \in Readers : ReaderOK(q) /\ LiveOK(q)
  BY DEF IInv, ReadersOK, CInv
<1>1. ChannelInv' /\ AllKept
  BY <1>0, ChannelFrame
<1>2. ChannelType' /\ epoch' \in Nat
  BY <1>1 DEF ChannelInv, ChannelType
<1>3. UNCHANGED <<dir, file, epoch, pc, wseq>>
  BY DEF dirVars, writerVars
<1>4. Present' = Present
  BY <1>3 DEF Present
<1>5. WindowOK'
  BY <1>0, <1>3, <1>4 DEF WindowOK
<1>6. ASSUME NEW q \in Readers PROVE ReaderOK(q)' /\ LiveOK(q)'
  <2>1. CASE q = r
    BY <2>1
  <2>2. CASE q # r
    BY <1>0, <1>1, <1>2, <1>4, <2>2, ReaderKept, LiveKept
  <2> QED
    BY <2>1, <2>2
<1>7. OrderOK'
  BY <1>3, OrderFrame
<1> QED
  BY <1>1, <1>3, <1>4, <1>5, <1>6, <1>7 DEF IInv, CInv, ReadersOK

\* What every other step leaves of the searches.
LEMMA SearchesKept ==
  ASSUME SeekInv, IInv', CInv', OrderOK', AllKept,
         pc # "down" =>
           /\ pc' # "down"
           /\ \A s \in Nat : (AtLeast(s) => AtLeast(s)') /\ (Reaches(s) => Reaches(s)'),
         NEW q \in Readers, seek'[q] = seek[q],
         seek[q].pc = "joined" => rpc'[q] = rpc[q] /\ rindex'[q] = rindex[q]
  PROVE  SeekOK(q)'
<1>1. Channel /\ Channel'
  BY DEF SeekInv, IInv, CInv, Channel
<1>2. PICK k \in Search : k = seek[q] /\ SearchOK(k)
                          /\ (k.pc = "joined" => rpc[q] = "scan" /\ rindex[q] = k.index)
  BY DEF SeekInv, SeekOK
<1>3. SearchOK(k)'
  BY <1>1, <1>2, SearchKept
<1> QED
  BY <1>2, <1>3 DEF SeekOK

\* The search joins the segment it walked; a fresh open starts over, or puts the reader back.
LEMMA JoinStep ==
  ASSUME SeekInv, OldInv, NEW r \in Readers, SeekWalk(r) \/ Reopen(r) \/ ReopenFails(r)
  PROVE  SeekInv'
<1> DEFINE Others == \A q \in Readers : q # r =>
             /\ rpc'[q] = rpc[q] /\ rseq'[q] = rseq[q] /\ rinst'[q] = rinst[q]
             /\ rindex'[q] = rindex[q] /\ rpast'[q] = rpast[q] /\ repoch'[q] = repoch[q]
<1>0. Channel /\ ReadersType /\ IInv /\ CInv /\ OrderOK /\ seek \in [Readers -> Search]
  BY DEF SeekInv, IInv, CInv, Channel
<1>1. PICK k \in Search : k = seek[r] /\ SearchOK(k)
                          /\ (k.pc = "joined" => rpc[r] = "scan" /\ rindex[r] = k.index)
  BY DEF SeekInv, SeekOK
<1>2. /\ rpc \in [Readers -> ReaderPc] /\ rseq \in [Readers -> Seqs]
      /\ rinst \in [Readers -> Created \cup {NoFile}] /\ rindex \in [Readers -> Nat]
      /\ rpast \in [Readers -> BOOLEAN] /\ repoch \in [Readers -> Nat]
  BY <1>0 DEF ReadersType
<1>3. ASSUME UNCHANGED <<dirVars, writerVars>>, ReadersType', ReaderOK(r)', LiveOK(r)', Others,
             seek' \in [Readers -> Search], DOMAIN seek' = Readers,
             \A q \in Readers : q # r => seek'[q] = seek[q],
             IInv' /\ CInv' /\ OrderOK' /\ AllKept /\ Present' = Present /\ pc' = pc => SeekOK(r)'
      PROVE  SeekInv'
  <2>1. IInv' /\ CInv' /\ OrderOK' /\ AllKept /\ Present' = Present /\ pc' = pc
    BY <1>0, <1>3, ReaderMoves
  <2>2. \A s \in Nat : (AtLeast(s) => AtLeast(s)') /\ (Reaches(s) => Reaches(s)')
    BY <2>1 DEF AtLeast, Reaches
  <2>3. ASSUME NEW q \in Readers, q # r PROVE SeekOK(q)'
    BY <1>3, <2>1, <2>2, <2>3, SearchesKept
  <2> QED
    BY <1>3, <2>1, <2>3 DEF SeekInv
<1>4. CASE SeekWalk(r)
  <2>1. PICK i \in Created : /\ i = k.lo /\ k.pc = "walk" /\ IsPublished(i)
                             /\ file[i].base <= k.index /\ k.index <= End(i)
    BY <1>1, <1>4 DEF SeekWalk, SearchOK, Holds
  <2>2. /\ file[i].seq \in Seqs /\ file[i].epoch \in Nat /\ k.index \in Nat /\ End(i) \in Nat
        /\ pc # "down"
    BY <1>0, <1>1, <2>1, FileFields DEF Search, Channel, ChannelInv, SearchOK
  <2>3. /\ Join(r, i, k.index) /\ rseq' = [rseq EXCEPT ![r] = file[i].seq]
        /\ SeekTo(r, [k EXCEPT !.pc = "joined"])
        /\ UNCHANGED <<dirVars, writerVars, rpast>>
    BY <1>1, <1>4, <2>1, <2>2 DEF SeekWalk
  <2>4. UNCHANGED <<dir, file, epoch>>
    BY <2>3 DEF dirVars
  <2>5. /\ rpc' = [rpc EXCEPT ![r] = "scan"] /\ rinst' = [rinst EXCEPT ![r] = i]
        /\ rindex' = [rindex EXCEPT ![r] = k.index] /\ repoch' = [repoch EXCEPT ![r] = file[i].epoch]
    BY <2>3 DEF Join
  <2>6. Created' = Created /\ End(i)' = End(i)
    BY <2>4 DEF Created, End
  <2>7. ReadersType'
    BY <1>2, <2>2, <2>3, <2>5, <2>6 DEF ReadersType, ReaderPc, GivenPc
  <2>8. /\ rpc'[r] = "scan" /\ rinst'[r] = i /\ rindex'[r] = k.index /\ rseq'[r] = file[i].seq
        /\ repoch'[r] = file[i].epoch
    BY <1>2, <2>3, <2>5
  <2>9. ReaderOK(r)' /\ LiveOK(r)'
    <3>1. ReaderOK(r)'
      BY <2>1, <2>4, <2>6, <2>8 DEF ReaderOK, GivenPc, LivePc, IsPublished, End
    <3> QED
      BY <2>8, <3>1 DEF LiveOK
  <2>10. Others
    BY <1>2, <2>3, <2>5
  <2>11. PICK n \in Search : /\ n = [k EXCEPT !.pc = "joined"] /\ n.pc = "joined"
                             /\ n.index = k.index
    <3>1. PICK n : n = [k EXCEPT !.pc = "joined"]
      OBVIOUS
    <3>2. n \in Search /\ n.pc = "joined" /\ n.index = k.index
      BY <3>1 DEF Search, SeekPc
    <3> QED
      BY <3>1, <3>2
  <2>12. /\ seek' \in [Readers -> Search] /\ DOMAIN seek' = Readers
         /\ seek'[r] = n /\ \A q \in Readers : q # r => seek'[q] = seek[q]
    BY <2>3, <2>11, SearchSet
  <2>13. pc' = pc => SeekOK(r)'
    <3>1. pc' = pc => SearchOK(n)'
      BY <2>2, <2>11 DEF SearchOK, ListingPc
    <3> QED
      BY <2>8, <2>11, <2>12, <3>1 DEF SeekOK
  <2> QED
    BY <1>3, <2>3, <2>7, <2>9, <2>10, <2>12, <2>13
<1>5. CASE Reopen(r)
  <2>1. /\ UNCHANGED <<dirVars, writerVars, seek>> /\ k.pc = "none"
        /\ rpc' = [rpc EXCEPT ![r] = "closed"] /\ rseq' = [rseq EXCEPT ![r] = 0]
        /\ rinst' = [rinst EXCEPT ![r] = NoFile] /\ rindex' = [rindex EXCEPT ![r] = 0]
        /\ rpast' = [rpast EXCEPT ![r] = FALSE] /\ repoch' = repoch
    BY <1>1, <1>5 DEF Reopen, Stale
  <2>2. Created' = Created /\ 0 \in Seqs
    BY <2>1 DEF dirVars, Created
  <2>3. ReadersType'
    BY <1>2, <2>1, <2>2 DEF ReadersType, ReaderPc
  <2>4. rpc'[r] = "closed"
    BY <1>2, <2>1
  <2>5. ReaderOK(r)' /\ LiveOK(r)'
    BY <2>4 DEF ReaderOK, LiveOK, LivePc, GivenPc
  <2>6. Others
    BY <1>2, <2>1
  <2>7. SeekOK(r)'
    <3>1. SearchOK(k)'
      BY <2>1 DEF SearchOK, ListingPc
    <3> QED
      BY <1>1, <2>1, <3>1 DEF SeekOK
  <2>8. seek' \in [Readers -> Search] /\ DOMAIN seek' = Readers /\ \A q \in Readers : seek'[q] = seek[q]
    BY <1>0, <2>1
  <2> QED
    BY <1>3, <2>1, <2>3, <2>5, <2>6, <2>7, <2>8
<1>6. CASE ReopenFails(r)
  <2>1. PICK o \in OldReader : o = old[r] /\ o.pc # "none"
    BY <1>6 DEF OldInv, ReopenFails
  <2>2. /\ UNCHANGED <<dirVars, writerVars, seek>>
        /\ rpc' = [rpc EXCEPT ![r] = o.pc] /\ rseq' = [rseq EXCEPT ![r] = o.seq]
        /\ rinst' = [rinst EXCEPT ![r] = o.inst] /\ rindex' = [rindex EXCEPT ![r] = o.index]
        /\ rpast' = [rpast EXCEPT ![r] = o.past] /\ repoch' = repoch
    BY <1>6, <2>1 DEF ReopenFails
  <2>3. /\ k.pc = "none"
        /\ o.inst \in Created /\ IsPublished(o.inst) /\ file[o.inst].seq = o.seq
        /\ file[o.inst].base <= o.index /\ o.index <= End(o.inst)
        /\ file[o.inst].epoch = repoch[r]
    BY <1>1, <2>1 DEF OldInv, OldOK
  <2>4. /\ o.pc \in {"scan", "overtaken"} /\ o.seq \in Seqs /\ o.index \in Nat /\ o.past \in BOOLEAN
    BY <2>1 DEF OldReader
  <2>5. UNCHANGED <<file, epoch>> /\ Created' = Created /\ End(o.inst)' = End(o.inst)
    BY <2>2 DEF dirVars, Created, End
  <2>6. ReadersType'
    BY <1>2, <2>2, <2>3, <2>4, <2>5 DEF ReadersType, ReaderPc, GivenPc
  <2>7. /\ rpc'[r] = o.pc /\ rseq'[r] = o.seq /\ rinst'[r] = o.inst /\ rindex'[r] = o.index
        /\ repoch'[r] = repoch[r]
    BY <1>2, <2>2
  <2>8. ReaderOK(r)' /\ LiveOK(r)'
    <3>1. ReaderOK(r)'
      BY <2>3, <2>4, <2>5, <2>7 DEF ReaderOK, GivenPc, LivePc, IsPublished, End
    <3> QED
      BY <2>4, <2>7, <3>1 DEF LiveOK
  <2>9. Others
    BY <1>2, <2>2
  <2>10. SeekOK(r)'
    <3>1. SearchOK(k)'
      BY <2>3 DEF SearchOK, ListingPc
    <3> QED
      BY <1>1, <2>2, <2>3, <3>1 DEF SeekOK
  <2>11. seek' \in [Readers -> Search] /\ DOMAIN seek' = Readers /\ \A q \in Readers : seek'[q] = seek[q]
    BY <1>0, <2>2
  <2> QED
    BY <1>3, <2>2, <2>6, <2>8, <2>9, <2>10, <2>11
<1> QED
  BY <1>4, <1>5, <1>6

\* A reader kept aside can be put back after any step that does not give its file away.
LEMMA OldKept ==
  ASSUME ChannelInv, ChannelInv', AllKept, OldInv, NEW q \in Readers, old'[q] = old[q],
         old[q].pc # "none" => /\ seek'[q].pc = "none" /\ rpc'[q] \notin GivenPc
                               /\ repoch'[q] = repoch[q]
  PROVE  OldOK(q)'
<1>1. SUFFICES ASSUME old[q].pc # "none" PROVE OldOK(q)'
  BY DEF OldOK
<1>2. PICK o \in OldReader : o = old[q] /\ o = old'[q] /\ o.index \in Nat
  BY DEF OldInv, OldReader
<1>3. PICK i \in Created : /\ i = o.inst /\ IsPublished(i) /\ file[i].seq = o.seq
                            /\ file[i].base <= o.index /\ o.index <= End(i)
                            /\ file[i].epoch = repoch[q]
  BY <1>1, <1>2 DEF OldInv, OldOK
<1>4. Kept(i) /\ i \in Created'
  BY DEF AllKept
<1>5. /\ IsPublished(i)' /\ file'[i].base = file[i].base /\ file'[i].count >= file[i].count
      /\ file'[i].seq = file[i].seq /\ file'[i].epoch = file[i].epoch
  BY <1>3, <1>4 DEF Kept, IsPublished, SameIdentity
<1>6. file[i].base \in Nat /\ file[i].count \in Nat /\ file'[i].count \in Nat
  <2>1. ChannelType /\ file'[i] \in File
    BY <1>4 DEF ChannelInv, ChannelType
  <2> QED
    BY <2>1, FileFields DEF File
<1>7. o.index <= End(i)'
  BY <1>2, <1>3, <1>5, <1>6 DEF End
<1>8. /\ seek'[q].pc = "none" /\ rpc'[q] \notin GivenPc /\ repoch'[q] = repoch[q]
  BY <1>1
<1> QED
  BY <1>2, <1>3, <1>4, <1>5, <1>7, <1>8 DEF OldOK

\* A step of an open, or of an open reader.
LEMMA OpenKeeps ==
  ASSUME ReadersType, NEW r \in Readers, ReaderNext(r), rpc[r] \notin GivenPc,
         rpc'[r] \notin {"scan", "stranded"}
  PROVE  repoch'[r] = repoch[r] /\ rpc'[r] \notin GivenPc
<1> USE DEF ReadersType, GivenPc, RStep, Stale, Join
<1>1. CASE LateList(r) \/ LateOpen(r) \/ LateAgain(r) \/ LiveList(r)
  BY <1>1 DEF LateList, LateOpen, LateAgain, LiveList
<1>2. CASE LiveOpen(r) \/ LiveGone(r) \/ LiveLoad(r)
  BY <1>2 DEF LiveOpen, LiveGone, LiveLoad
<1>3. CASE LiveCheckNext(r) \/ LiveCheckSelf(r)
  BY <1>3 DEF LiveCheckNext, LiveCheckSelf
<1>4. CASE LiveSlot(r)
  BY <1>4 DEF LiveSlot
<1>5. CASE Read(r) \/ FollowRoll(r) \/ Overtaken(r)
  BY <1>5 DEF Read, FollowRoll, Overtaken
<1> QED
  BY <1>1, <1>2, <1>3, <1>4, <1>5 DEF ReaderNext, LiveStep, ReaderStep

\* Every step keeps what is known of the readers kept aside.
LEMMA OldNextInv ==
  ASSUME SeekInv, OldInv, SeekInv', [SeekNext]_seekVars
  PROVE  OldInv'
<1>0. /\ IInv /\ ChannelInv /\ ChannelInv' /\ ReadersType /\ \A r \in Readers : ReaderOK(r)
      /\ DOMAIN old = Readers /\ old \in [Readers -> OldReader] /\ \A r \in Readers : OldOK(r)
      /\ seek \in [Readers -> Search]
  BY DEF SeekInv, IInv, ReadersOK, OldInv
<1>1. ASSUME AllKept, UNCHANGED old,
             \A q \in Readers : old[q].pc # "none" =>
               /\ seek'[q].pc = "none" /\ rpc'[q] \notin GivenPc /\ repoch'[q] = repoch[q]
      PROVE  OldInv'
  <2>1. ASSUME NEW q \in Readers PROVE OldOK(q)'
    BY <1>0, <1>1, OldKept
  <2> QED
    BY <1>0, <1>1, <2>1 DEF OldInv
<1>2. ASSUME NEW r \in Readers, NEW n \in OldReader, old' = [old EXCEPT ![r] = n], AllKept,
             \A q \in Readers : q # r =>
               rpc'[q] = rpc[q] /\ repoch'[q] = repoch[q] /\ seek'[q] = seek[q],
             OldOK(r)'
      PROVE  OldInv'
  <2>1. DOMAIN old' = Readers /\ old' \in [Readers -> OldReader] /\ old'[r] = n
        /\ \A q \in Readers : q # r => old'[q] = old[q]
    BY <1>0, <1>2
  <2>2. ASSUME NEW q \in Readers, q # r PROVE OldOK(q)'
    <3>1. old[q].pc # "none" => /\ seek'[q].pc = "none" /\ rpc'[q] \notin GivenPc
                                /\ repoch'[q] = repoch[q]
      BY <1>0, <1>2, <2>2 DEF OldOK
    <3> QED
      BY <1>0, <1>2, <2>1, <2>2, <3>1, OldKept
  <2> QED
    BY <1>2, <2>1, <2>2 DEF OldInv
<1>3. ASSUME UNCHANGED <<dirVars, writerVars>> PROVE AllKept /\ UNCHANGED file
  BY <1>0, <1>3, ChannelFrame DEF dirVars
<1>4. NoReader \in OldReader /\ NoReader.pc = "none"
  BY DEF NoReader, OldReader, NoFile
<1>5. CASE WriterNext /\ UNCHANGED <<seek, old>>
  <2>1. AllKept
    BY <1>0, <1>5, NextInv DEF Next
  <2>2. UNCHANGED <<rpc, repoch>>
    BY <1>5, WriterFrame
  <2> QED
    BY <1>0, <1>1, <1>5, <2>1, <2>2 DEF OldOK
<1>6. ASSUME NEW r \in Readers, OpenOrRead(r) PROVE OldInv'
  <2>1. /\ UNCHANGED <<dirVars, writerVars, seek>> /\ ReaderNext(r)
        /\ \A q \in Readers : q # r => rpc'[q] = rpc[q] /\ repoch'[q] = repoch[q]
        /\ AllKept /\ seek[r].pc = "none"
    <3>1. ReaderNext(r) /\ UNCHANGED seek /\ seek[r].pc = "none"
      BY <1>6 DEF OpenOrRead
    <3>2. UNCHANGED <<dirVars, writerVars>>
          /\ \A q \in Readers : q # r => rpc'[q] = rpc[q] /\ repoch'[q] = repoch[q]
      BY <1>0, <3>1, OwnStep
    <3> QED
      BY <1>3, <3>1, <3>2
  <2>2. CASE rpc'[r] \in {"scan", "stranded"}
    <3>1. old' = [old EXCEPT ![r] = NoReader]
      BY <1>6, <2>2 DEF OpenOrRead
    <3>2. OldOK(r)'
      BY <1>0, <1>4, <3>1 DEF OldOK
    <3> QED
      BY <1>2, <1>4, <2>1, <3>1, <3>2
  <2>3. CASE rpc'[r] \notin {"scan", "stranded"}
    <3>1. old' = old
      BY <1>0, <1>6, <2>3 DEF OpenOrRead
    <3>2. rpc[r] \notin GivenPc => repoch'[r] = repoch[r] /\ rpc'[r] \notin GivenPc
      BY <1>0, <2>1, <2>3, OpenKeeps
    <3> QED
      BY <1>0, <1>1, <2>1, <3>1, <3>2 DEF OldOK
  <2> QED
    BY <2>2, <2>3
<1>7. ASSUME NEW r \in Readers, NEW n, SeekTo(r, n), UNCHANGED <<dirVars, writerVars>>,
             old[r].pc = "none",
             \A q \in Readers : q # r => rpc'[q] = rpc[q] /\ repoch'[q] = repoch[q]
      PROVE  OldInv'
  <2>1. UNCHANGED old /\ \A q \in Readers : q # r => seek'[q] = seek[q]
    BY <1>0, <1>7 DEF SeekTo
  <2> QED
    BY <1>0, <1>1, <1>3, <1>7, <2>1 DEF OldOK
<1>8. ASSUME NEW r \in Readers,
             \/ SeekList(r) \/ SeekAgain(r) \/ SeekPublished(r) \/ SeekFirst(r) \/ SeekLast(r)
             \/ SeekSearch(r) \/ SeekOpen(r) \/ SeekReturn(r)
      PROVE  OldInv'
  <2>1. UNCHANGED vars /\ \E n : SeekTo(r, n)
    BY <1>8 DEF SeekList, SeekAgain, SeekPublished, SeekFirst, SeekLast, SeekSearch, SeekOpen,
                SeekReturn, Probe
  <2>2. old[r].pc = "none"
    BY <1>0, <1>8 DEF OldOK, SeekList, SeekAgain, SeekPublished, SeekFirst, SeekLast, SeekSearch,
                      SeekOpen, SeekReturn
  <2>3. UNCHANGED <<dirVars, writerVars>> /\ UNCHANGED <<rpc, repoch>>
    BY <2>1 DEF vars, readerVars
  <2> QED
    BY <1>7, <2>1, <2>2, <2>3
<1>9. ASSUME NEW r \in Readers, SeekWalk(r) PROVE OldInv'
  <2>1. seek[r].pc = "walk" /\ old[r].pc = "none"
    BY <1>0, <1>9 DEF SeekWalk, OldOK
  <2>2. /\ UNCHANGED <<dirVars, writerVars>> /\ \E n : SeekTo(r, n)
        /\ \A q \in Readers : q # r => rpc'[q] = rpc[q] /\ repoch'[q] = repoch[q]
    BY <1>0, <1>9 DEF SeekWalk, Join, vars, readerVars, ReadersType
  <2> QED
    BY <1>7, <2>1, <2>2
<1>10. ASSUME NEW r \in Readers, Reopen(r) PROVE OldInv'
  <2>1. PICK n : n = [pc |-> rpc[r], seq |-> rseq[r], inst |-> rinst[r], index |-> rindex[r],
                      past |-> rpast[r]]
    OBVIOUS
  <2>2. /\ UNCHANGED <<dirVars, writerVars, seek>> /\ seek[r].pc = "none"
        /\ rpc[r] \in {"scan", "overtaken"} /\ old' = [old EXCEPT ![r] = n]
        /\ rpc' = [rpc EXCEPT ![r] = "closed"] /\ repoch' = repoch
    BY <1>10, <2>1 DEF Reopen, Stale
  <2>3. /\ rinst[r] \in Created /\ IsPublished(rinst[r]) /\ file[rinst[r]].seq = rseq[r]
        /\ file[rinst[r]].base <= rindex[r] /\ rindex[r] <= End(rinst[r])
        /\ file[rinst[r]].epoch = repoch[r]
    BY <1>0, <2>2 DEF ReaderOK, GivenPc
  <2>4. n \in OldReader
    <3>1. rinst[r] \in Nat
      BY <1>0, <2>3, FileFields DEF ChannelInv
    <3> QED
      BY <1>0, <2>1, <2>2, <3>1 DEF OldReader, ReadersType
  <2>5. /\ n.pc = rpc[r] /\ n.seq = rseq[r] /\ n.inst = rinst[r] /\ n.index = rindex[r]
    BY <2>1
  <2>6. AllKept /\ UNCHANGED file /\ Created' = Created
    BY <1>3, <2>2 DEF Created
  <2>7. rpc'[r] = "closed" /\ (\A q \in Readers : q # r => rpc'[q] = rpc[q]) /\ old'[r] = n
    BY <1>0, <2>2 DEF ReadersType
  <2>8. OldOK(r)'
    BY <2>2, <2>3, <2>5, <2>6, <2>7 DEF OldOK, GivenPc, IsPublished, End
  <2> QED
    BY <1>2, <2>2, <2>4, <2>6, <2>7, <2>8
<1>11. ASSUME NEW r \in Readers, ReopenFails(r) PROVE OldInv'
  <2>1. /\ UNCHANGED <<dirVars, writerVars, seek, repoch>> /\ old' = [old EXCEPT ![r] = NoReader]
        /\ \A q \in Readers : q # r => rpc'[q] = rpc[q]
    BY <1>0, <1>11 DEF ReopenFails, ReadersType
  <2>2. OldOK(r)'
    BY <1>0, <1>4, <2>1 DEF OldOK
  <2> QED
    BY <1>2, <1>3, <1>4, <2>1, <2>2
<1>12. CASE UNCHANGED seekVars
  <2>1. UNCHANGED <<dirVars, writerVars>> /\ UNCHANGED <<rpc, repoch, seek, old>>
    BY <1>12 DEF seekVars, vars, readerVars
  <2> QED
    BY <1>0, <1>1, <1>3, <2>1 DEF OldOK
<1> QED
  BY <1>5, <1>6, <1>8, <1>9, <1>10, <1>11, <1>12 DEF SeekNext, SeekStep

\* Every step keeps the invariant.
LEMMA SeekNextInv ==
  ASSUME MaxCrashes = 0, SeekInv, OldInv, [SeekNext]_seekVars
  PROVE  SeekInv'
<1>0. IInv /\ CInv /\ OrderOK /\ ChannelInv /\ Channel /\ seek \in [Readers -> Search]
      /\ ReadersType /\ \A r \in Readers : ReaderOK(r)
  BY DEF SeekInv, IInv, CInv, Channel, ReadersOK
<1>1. ASSUME UNCHANGED seek, [Next]_vars, OrderOK',
             pc # "down" =>
               /\ pc' # "down"
               /\ \A s \in Nat : (AtLeast(s) => AtLeast(s)') /\ (Reaches(s) => Reaches(s)'),
             \A q \in Readers : seek[q].pc = "joined" => rpc'[q] = rpc[q] /\ rindex'[q] = rindex[q]
      PROVE  SeekInv'
  <2>1. IInv' /\ CInv' /\ AllKept
    BY <1>0, <1>1, NextInv, WindowNext
  <2>2. ASSUME NEW q \in Readers PROVE SeekOK(q)'
    BY <1>1, <2>1, SearchesKept
  <2>3. seek' \in [Readers -> Search] /\ DOMAIN seek' = Readers
    BY <1>0, <1>1
  <2> QED
    BY <1>1, <2>1, <2>2, <2>3 DEF SeekInv
<1>2. CASE WriterNext /\ UNCHANGED <<seek, old>>
  <2>1. OrderOK'
    BY <1>0, <1>2, OrderStep
  <2>2. UNCHANGED <<rpc, rindex>>
    BY <1>2, WriterFrame
  <2>3. [Next]_vars
    BY <1>2 DEF Next
  <2> QED
    BY <1>0, <1>1, <1>2, <2>1, <2>2, <2>3, NamesMove
<1>3. ASSUME UNCHANGED <<dirVars, writerVars>>
      PROVE  /\ OrderOK'
             /\ pc # "down" =>
                  /\ pc' # "down"
                  /\ \A s \in Nat : (AtLeast(s) => AtLeast(s)') /\ (Reaches(s) => Reaches(s)')
  <2>1. UNCHANGED <<dir, file, pc>>
    BY <1>3 DEF dirVars, writerVars
  <2>2. Present' = Present
    BY <2>1 DEF Present
  <2> QED
    BY <1>0, <2>1, <2>2, OrderFrame DEF AtLeast, Reaches
<1>4. ASSUME NEW r \in Readers, seek[r].pc = "none", ReaderNext(r), UNCHANGED seek PROVE SeekInv'
  <2>1. /\ UNCHANGED <<dirVars, writerVars>>
        /\ \A q \in Readers : q # r => rpc'[q] = rpc[q] /\ rindex'[q] = rindex[q]
    BY <1>0, <1>4, OwnStep
  <2>2. [Next]_vars
    BY <1>4 DEF Next
  <2>3. \A q \in Readers : seek[q].pc = "joined" => rpc'[q] = rpc[q] /\ rindex'[q] = rindex[q]
    BY <1>4, <2>1
  <2> QED
    BY <1>1, <1>3, <1>4, <2>1, <2>2, <2>3
<1>5. ASSUME NEW r \in Readers, OpenOrRead(r) \/ SeekStep(r) PROVE SeekInv'
  BY <1>4, <1>5, ListingStep, JoinStep DEF SeekStep, OpenOrRead
<1>6. CASE UNCHANGED seekVars
  <2>1. UNCHANGED vars /\ UNCHANGED seek
    BY <1>6 DEF seekVars
  <2>2. UNCHANGED <<dirVars, writerVars>> /\ UNCHANGED <<rpc, rindex>>
    BY <2>1 DEF vars, readerVars
  <2> QED
    BY <1>1, <1>3, <2>1, <2>2
<1> QED
  BY <1>2, <1>5, <1>6 DEF SeekNext

-----------------------------------------------------------------------------
(* Theorems *)

\* Nothing is known of the index before a search, and the channel is empty.
LEMMA SeekInitInv ==
  ASSUME SeekInit
  PROVE  SeekInv
<1>1. IInv
  BY InitInv DEF SeekInit
<1>2. CInv
  <2>1. Present = {} /\ pc = "down" /\ epoch = 0 /\ \A r \in Readers : rpc[r] = "closed"
    BY DEF SeekInit, Init, Present
  <2> QED
    BY <2>1 DEF CInv, WindowOK, LiveOK, FinishPc
<1>3. OrderOK
  BY DEF SeekInit, Init, OrderOK, Created
<1>4. NoSeek \in Search /\ NoSeek.pc = "none"
  BY DEF NoSeek, Search, SeekPc
<1>5. SearchOK(NoSeek)
  BY <1>4 DEF SearchOK, ListingPc
<1>6. seek = [r \in Readers |-> NoSeek]
  BY DEF SeekInit
<1> HIDE DEF NoSeek
<1>7. ASSUME NEW r \in Readers PROVE SeekOK(r)
  BY <1>4, <1>5, <1>6 DEF SeekOK
<1> QED
  BY <1>1, <1>2, <1>3, <1>4, <1>6, <1>7 DEF SeekInv

\* An index a search has seen before the first segment is before every segment still on disk.
LEMMA PrunedBeforeTail ==
  ASSUME Channel, NEW x \in Nat, SeenPruned(x)
  PROVE  x < Tail
<1>1. PICK i \in Created : IsPublished(i) /\ x < file[i].base /\ AtLeast(file[i].seq)
  BY DEF SeenPruned
<1>2. PICK t \in Present : PublishedName(t) /\ file[i].seq <= t
  BY <1>1, NameFor
<1>3. /\ ChannelType /\ \A s \in Present : s \in Nat /\ s \in Seqs
      /\ file[i].seq \in Nat /\ file[i].base \in Nat /\ End(i) \in Nat /\ file[i].base <= End(i)
  BY ChannelFacts
<1>4. PICK e \in Present : e = Earliest /\ \A u \in Present : e <= u
  BY <1>2, <1>3, EarliestFacts
<1>5. PublishedName(e) /\ file[i].seq <= e /\ e \in Seqs /\ e \in Nat
  <2>1. CASE e = t
    BY <1>2, <1>3, <2>1
  <2>2. CASE e # t
    <3>1. e < t
      BY <1>2, <1>3, <1>4, <2>2
    <3> QED
      BY <1>1, <1>2, <1>3, <1>4, <3>1 DEF Channel, ChannelInv, NamesOK, AtLeast
  <2> QED
    BY <2>1, <2>2
<1>6. /\ dir[e] \in Created /\ IsPublished(dir[e]) /\ file[dir[e]].seq = e
      /\ file[dir[e]].base \in Nat
      /\ \A j \in Created : IsPublished(j) /\ file[j].seq = e => j = dir[e]
  BY <1>5, NamedFile
<1>7. file[i].base <= file[dir[e]].base
  <2>1. CASE file[i].seq = e
    BY <1>1, <1>6, <1>3, <2>1
  <2>2. CASE file[i].seq # e
    <3>1. file[i].seq < file[dir[e]].seq
      BY <1>3, <1>5, <1>6, <2>2
    <3>2. End(i) <= file[dir[e]].base
      BY <1>1, <1>6, <3>1, OlderEnds
    <3> QED
      BY <1>3, <1>6, <3>2
  <2> QED
    BY <2>1, <2>2
<1>8. x < file[dir[e]].base
  BY <1>1, <1>3, <1>6, <1>7
<1> QED
  BY <1>4, <1>8 DEF Tail

\* The invariant holds in every reachable state, whatever is rolled, unlinked and read; and a
\* reader whose reopen fails is put back on the record it was at.
THEOREM SeekInvariant ==
  ASSUME MaxCrashes = 0
  PROVE  SeekSpec => [](SeekInv /\ OldInv)
<1>1. SeekInit => SeekInv /\ OldInv
  <2>1. NoReader \in OldReader /\ NoReader.pc = "none"
    BY DEF NoReader, OldReader, NoFile
  <2>2. SeekInit => OldInv
    BY <2>1 DEF SeekInit, OldInv, OldOK
  <2> QED
    BY <2>2, SeekInitInv
<1>2. SeekInv /\ OldInv /\ [SeekNext]_seekVars => SeekInv' /\ OldInv'
  BY SeekNextInv, OldNextInv
<1> QED
  BY <1>1, <1>2, PTL DEF SeekSpec

\* A seek tells the truth about its index, as long as no writer dies between a roll and its prune
\* (locate).
THEOREM SeeksExact ==
  ASSUME MaxCrashes = 0
  PROVE  SeekSpec => []SeekExact
<1>1. SeekInv => SeekExact
  <2> SUFFICES ASSUME SeekInv, NEW r \in Readers
               PROVE  /\ seek[r].pc = "pruned" => seek[r].index < Tail
                      /\ seek[r].pc = "past" => seek[r].index > seek[r].head
                      /\ seek[r].pc # "corrupt"
                      /\ seek[r].pc = "joined" =>
                           /\ rindex[r] = seek[r].index
                           /\ file[rinst[r]].base <= rindex[r] /\ rindex[r] <= End(rinst[r])
    BY DEF SeekExact
  <2>0. Channel /\ ReaderOK(r)
    BY DEF SeekInv, IInv, CInv, Channel, ReadersOK
  <2>1. PICK k \in Search : /\ k = seek[r] /\ SearchOK(k)
                            /\ k.pc = "joined" => rpc[r] = "scan" /\ rindex[r] = k.index
    BY DEF SeekInv, SeekOK
  <2>2. k.pc = "pruned" => k.index < Tail
    <3>1. k.index \in Nat
      BY DEF Search
    <3> QED
      BY <2>0, <2>1, <3>1, PrunedBeforeTail DEF SearchOK
  <2>3. (k.pc = "past" => k.index > k.head) /\ k.pc # "corrupt"
    BY <2>1 DEF SearchOK
  <2>4. k.pc = "joined" =>
          /\ rindex[r] = k.index
          /\ file[rinst[r]].base <= rindex[r] /\ rindex[r] <= End(rinst[r])
    BY <2>0, <2>1 DEF ReaderOK, GivenPc
  <2> QED
    BY <2>1, <2>2, <2>3, <2>4
<1> QED
  BY <1>1, SeekInvariant, PTL
=============================================================================
