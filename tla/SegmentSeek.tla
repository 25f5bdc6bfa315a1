---------------------------- MODULE SegmentSeek -----------------------------
(* Opening a channel of SegmentRoll at a record index, and seeking an open    *)
(* reader to one (Reader::locate): a search over one listing of the directory *)
(* while the writer rolls and retention unlinks what was listed.  A seek, or  *)
(* any other reopen, that fails leaves the reader where it was.               *)
EXTENDS SegmentRoll

VARIABLES
  seek,  \* each reader's search: the index, the listing, the bounds of the search and
         \* the channel's head when it was called
  old    \* the reader a fresh open is to replace, NoReader if there is none

seekVars == <<vars, seek, old>>

NoSeek == [pc |-> "none", index |-> 0, seqs |-> {}, lo |-> 0, hi |-> 0, head |-> 0]
NoReader == [pc |-> "none", seq |-> 0, inst |-> NoFile, index |-> 0, past |-> FALSE]

\* The n-th of the listing, in order.
Nth(seqs, n) == CHOOSE s \in seqs : Cardinality({t \in seqs : t < s}) = n
LastOf(seqs) == Nth(seqs, Cardinality(seqs) - 1)

\* tail_record_index and head_record_index: the first record on disk, and the next to come.
Tail == file[dir[Earliest]].base
Head ==
  LET published == {s \in Present : PublishedName(s)} IN
  IF published = {} THEN 0 ELSE End(dir[LastOf(published)])

SeekTo(r, x) == seek' = [seek EXCEPT ![r] = x] /\ UNCHANGED old

\* locate: list the directory ...
SeekList(r) ==
  /\ seek[r].pc = "none" /\ old[r].pc = "none"
  /\ rpc[r] \in {"closed", "scan", "overtaken"} /\ Present # {}
  /\ \E i \in 0..(Head + 1) :
       SeekTo(r, [NoSeek EXCEPT !.pc = "listed", !.index = i, !.seqs = Present, !.head = Head])
  /\ UNCHANGED vars

\* ... after a segment vanished, again, for the same index ...
SeekAgain(r) ==
  /\ seek[r].pc = "again" /\ Present # {}
  /\ SeekTo(r, [seek[r] EXCEPT !.pc = "listed", !.seqs = Present])
  /\ UNCHANGED vars

\* ... leave out a newest file that is not published ...
SeekPublished(r) ==
  LET seqs == seek[r].seqs
      last == LastOf(seqs)
  IN
  /\ seek[r].pc = "listed"
  /\ SeekTo(r, IF Cardinality(seqs) > 1 /\ ~PublishedName(last)
               THEN [seek[r] EXCEPT !.seqs = @ \ {last}] ELSE [seek[r] EXCEPT !.pc = "first"])
  /\ UNCHANGED vars

\* probe: open a listed segment by name; gone, the listing is stale; unpublished, an error.
Probe(r, s, found) ==
  /\ SeekTo(r, IF dir[s] = NoFile THEN [NoSeek EXCEPT !.pc = "again", !.index = seek[r].index,
                                                     !.head = seek[r].head]
               ELSE IF ~PublishedName(s) THEN [seek[r] EXCEPT !.pc = "not_found"] ELSE found)
  /\ UNCHANGED vars

\* ... the index must not be before the first listed ...
SeekFirst(r) ==
  LET s == Nth(seek[r].seqs, 0) IN
  /\ seek[r].pc = "first"
  /\ Probe(r, s, [seek[r] EXCEPT !.pc = IF seek[r].index < file[dir[s]].base THEN "pruned"
                                        ELSE "last"])

\* ... nor past the end of the last ...
SeekLast(r) ==
  LET s == LastOf(seek[r].seqs) IN
  /\ seek[r].pc = "last"
  /\ Probe(r, s, [seek[r] EXCEPT !.pc = IF seek[r].index > End(dir[s]) THEN "past" ELSE "search",
                                 !.hi = Cardinality(seek[r].seqs) - 1])

\* Mutant: a segment that starts just after the index is taken for one that holds it.
SeekSearchOffByOne(r) ==
  LET lo == seek[r].lo
      mid == lo + (seek[r].hi - lo + 1) \div 2
      s == Nth(seek[r].seqs, mid)
  IN
  /\ seek[r].pc = "search" /\ lo < seek[r].hi
  /\ Probe(r, s, IF file[dir[s]].base <= seek[r].index + 1 THEN [seek[r] EXCEPT !.lo = mid]
                 ELSE [seek[r] EXCEPT !.hi = mid - 1])

\* ... then search for the last segment that starts at or before the index ...
SeekSearch(r) ==
  LET lo == seek[r].lo
      mid == lo + (seek[r].hi - lo + 1) \div 2
      s == Nth(seek[r].seqs, mid)
  IN
  /\ seek[r].pc = "search" /\ lo < seek[r].hi
  /\ Probe(r, s, IF file[dir[s]].base <= seek[r].index THEN [seek[r] EXCEPT !.lo = mid]
                 ELSE [seek[r] EXCEPT !.hi = mid - 1])

\* ... and open it ...
SeekOpen(r) ==
  LET s == Nth(seek[r].seqs, seek[r].lo) IN
  /\ seek[r].pc = "search" /\ seek[r].lo = seek[r].hi
  /\ Probe(r, s, [seek[r] EXCEPT !.pc = "walk", !.lo = dir[s]])

\* ... walk it to the record, or to its end if that is where the index is, and start there.
SeekWalk(r) ==
  LET i == seek[r].lo IN
  /\ seek[r].pc = "walk"
  /\ IF seek[r].index > End(i)
     THEN SeekTo(r, [seek[r] EXCEPT !.pc = "corrupt"]) /\ UNCHANGED vars
     ELSE /\ Join(r, i, seek[r].index)
          /\ rseq' = [rseq EXCEPT ![r] = file[i].seq]
          /\ SeekTo(r, [seek[r] EXCEPT !.pc = "joined"])
          /\ UNCHANGED <<dirVars, writerVars, rpast>>

SeekReturn(r) ==
  /\ seek[r].pc \in {"pruned", "past", "not_found", "corrupt", "joined"}
  /\ SeekTo(r, NoSeek)
  /\ UNCHANGED vars

\* rewind and seek_to_head: a fresh LateJoin or Live open, with the reader kept aside ...
Reopen(r) ==
  /\ seek[r].pc = "none" /\ old[r].pc = "none" /\ rpc[r] \in {"scan", "overtaken"}
  /\ old' = [old EXCEPT ![r] = [pc |-> rpc[r], seq |-> rseq[r], inst |-> rinst[r],
                                index |-> rindex[r], past |-> rpast[r]]]
  /\ Stale(r)
  /\ UNCHANGED <<dirVars, writerVars, seek>>

\* ... which an error at any step of the open leaves exactly where it was ...
ReopenFails(r) ==
  /\ old[r].pc # "none"
  /\ rpc' = [rpc EXCEPT ![r] = old[r].pc]
  /\ rseq' = [rseq EXCEPT ![r] = old[r].seq]
  /\ rinst' = [rinst EXCEPT ![r] = old[r].inst]
  /\ rindex' = [rindex EXCEPT ![r] = old[r].index]
  /\ rpast' = [rpast EXCEPT ![r] = old[r].past]
  /\ old' = [old EXCEPT ![r] = NoReader]
  /\ UNCHANGED <<dirVars, writerVars, repoch, seek>>

\* ... and the reader the open returns replaces.
OpenOrRead(r) ==
  /\ seek[r].pc = "none"
  /\ ReaderNext(r)
  /\ old' = [old EXCEPT ![r] = IF rpc'[r] \in {"scan", "stranded"} THEN NoReader ELSE @]
  /\ UNCHANGED seek

SeekStep(r) ==
  \/ SeekList(r) \/ SeekAgain(r) \/ SeekPublished(r) \/ SeekFirst(r) \/ SeekLast(r)
  \/ SeekSearch(r) \/ SeekOpen(r) \/ SeekWalk(r) \/ SeekReturn(r)
  \/ Reopen(r) \/ ReopenFails(r)

SeekInit ==
  /\ Init
  /\ seek = [r \in Readers |-> NoSeek]
  /\ old = [r \in Readers |-> NoReader]

SeekNext ==
  \/ WriterNext /\ UNCHANGED <<seek, old>>
  \/ \E r \in Readers : OpenOrRead(r) \/ SeekStep(r)

SeekSpec == SeekInit /\ [][SeekNext]_seekVars

-----------------------------------------------------------------------------
\* A seek tells the truth about its index, whatever is rolled and unlinked while it searches: it
\* reports it pruned only when it is before the tail, past the head only when it was so at the
\* call, never finds a segment that should hold it and does not, and otherwise the next record
\* read is the one asked for (locate).
SeekExact ==
  \A r \in Readers :
    /\ seek[r].pc = "pruned" => seek[r].index < Tail
    /\ seek[r].pc = "past" => seek[r].index > seek[r].head
    /\ seek[r].pc # "corrupt"
    /\ seek[r].pc = "joined" =>
         /\ rindex[r] = seek[r].index
         /\ file[rinst[r]].base <= rindex[r] /\ rindex[r] <= End(rinst[r])
=============================================================================
