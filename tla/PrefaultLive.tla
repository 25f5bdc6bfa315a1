---------------------------- MODULE PrefaultLive ----------------------------
(* A reader that opens a channel Live while its writer and the helper of      *)
(* PrefaultRoll roll it and delete what retention drops.                      *)
EXTENDS PrefaultRoll

VARIABLE
  j  \* the open: the segment picked (seq), and whether its write_position, once
     \* loaded, lay past the segment's Roll

\* find_latest_published_sequence
LatestPublished == CHOOSE s \in Seqs : Published(s) /\ \A t \in Seqs : Published(t) => t <= s

\* open_with: list, and open what is newest.
List ==
  /\ j.pc = "list"
  /\ j' = [j EXCEPT !.pc = "load", !.seq = LatestPublished]

\* live_start: load write_position ...
Load ==
  /\ j.pc = "load"
  /\ j' = [j EXCEPT !.pc = "next", !.past = w.seq > j.seq]

\* ... then ask whether the next segment is published ...
CheckNext ==
  /\ j.pc = "next"
  /\ j' = [j EXCEPT !.pc = IF j.seq < MaxSeq /\ Published(j.seq + 1) THEN "list" ELSE "self"]

\* ... or this one is gone; if neither, start at the slot write_position names.
CheckSelf ==
  /\ j.pc = "self"
  /\ j' = [j EXCEPT !.pc = IF OnDisk(j.seq) THEN "joined" ELSE "list"]

LiveInit == Init /\ j = [pc |-> "list", seq |-> 0, past |-> FALSE]
LiveNext ==
  \/ Next /\ UNCHANGED j
  \/ (List \/ Load \/ CheckNext \/ CheckSelf) /\ UNCHANGED vars
LiveSpec == LiveInit /\ [][LiveNext]_<<vars, j>>

\* A reader that starts at the slot write_position names has not loaded it from a segment whose
\* roll had finished: the check "cannot miss it" (live_start), since retention unlinks oldest
\* first.
JoinsTail == j.pc = "joined" => ~j.past

=============================================================================
