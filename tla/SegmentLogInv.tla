--------------------------- MODULE SegmentLogInv ----------------------------
(***************************************************************************)
(* The inductive invariant of SegmentLog, from which SegmentLog_proofs     *)
(* derives its safety properties for every region size, roll size and set  *)
(* of readers.  TLC checks it on the small instances first.                *)
(***************************************************************************)
EXTENDS SegmentLog

Passed(p) == Committed(p) /\ slots[p].type # "Roll"

\* The chain of headers.  Every slot on it holds a header, lies on an ALIGN boundary with
\* room for a Roll, and is apart from the others; a passed record leads to the next slot, one
\* not passed is the last.  Headers off the chain are pre-installed ones left behind.
ChainOK ==
  /\ 0 \in DOMAIN chain /\ chain[0] = 0
  /\ \A p \in DOMAIN chain :
       /\ p \in DOMAIN slots
       /\ p % ALIGN = 0 /\ RollFits(p)
       /\ Passed(p) => After(p) \in DOMAIN chain /\ chain[After(p)] = chain[p] + UsersAt(p)
       /\ ~Passed(p) => \A q \in DOMAIN chain : q <= p
  /\ \A p, q \in DOMAIN chain : p < q => p + HEADER_SLOT <= q
  /\ \A p \in DOMAIN slots : p \notin DOMAIN chain => slots[p] = Preinstalled

\* Where the writer is about to write: at the last slot, or just past it.
WritingPc == {"idle", "reserve", "relay", "commit", "skip", "skip_preinstall", "skip_stage",
              "skip_commit", "roll", "roll_stage", "roll_publish", "roll_commit"}
PublishingPc == {"count", "wp", "skip_wp", "recount", "recover_count", "recover_wp"}
RolledPc == {"roll_wp", "finish_wp"}

\* Room left at p for a record of `size` bytes and a Roll after it.
HasRoom(p, size) == Offset(p) + NeededTotal(size) <= RegionSize
Laid(p) == p \in DOMAIN slots /\ slots[p] = Preinstalled

WriterOK ==
  /\ pc # "no_room"
  /\ pc \in WritingPc =>
       /\ next \in DOMAIN chain /\ ~slots[next].committed
       /\ wp = next + HEADER_SLOT /\ count = chain[next]
  /\ pc \in PublishingPc =>
       /\ next \in DOMAIN chain /\ ~slots[next].committed
       /\ wp - HEADER_SLOT \in DOMAIN chain /\ Passed(wp - HEADER_SLOT)
  /\ pc \in RolledPc =>
       /\ next \in DOMAIN chain /\ CommittedType(next, "Roll")
       /\ wp = next + HEADER_SLOT /\ count = chain[next]
  /\ pc \in {"idle", "reserve"} /\ pending # NoSize =>
       HasRoom(next, pending) /\ Laid(NextSlot(next, pending))
  /\ pc \notin {"idle", "reserve"} => pending = NoSize
  /\ pc \in {"relay", "commit"} =>
       HasRoom(next, arg) /\ slots[next].type = "User" /\ slots[next].len = arg
  /\ pc = "commit" => Laid(NextSlot(next, arg))
  /\ pc \in {"skip_stage", "skip_commit"} => Laid(NextRegion)
  /\ pc = "skip_commit" => slots[next].type = "Skip" /\ slots[next].len = SkipLen
  /\ pc \in {"roll_publish", "roll_commit"} => slots[next].type = "Roll"
  /\ pc = "count" => count + 1 = chain[next]
  /\ pc \in {"wp", "skip_wp", "recover_wp"} => count = chain[next]
  /\ pc = "recount" => walk.pos \in DOMAIN chain /\ walk.users = chain[walk.pos]
  /\ pc = "recover_count" => walk.users = chain[next]
  /\ pc = "finish_commit" =>
       /\ next \in DOMAIN chain /\ ~slots[next].committed /\ slots[next].type = "Roll"
       /\ wp = next + HEADER_SLOT
  /\ pc \in (WritingPc \cup PublishingPc) \ {"roll_commit"} => succ # "published"
  /\ pc \in {"roll_commit", "finish_commit", "stranded"} \cup RolledPc => succ = "published"

\* The advisory pair: the position is a slot of the chain, and if that record is not passed
\* the count is exact for it; or it is past a committed Roll and the count is final.
PairOK ==
  \/ /\ wp - HEADER_SLOT \in DOMAIN chain
     /\ ~Passed(wp - HEADER_SLOT) => count = chain[wp - HEADER_SLOT]
     /\ CommittedType(wp - HEADER_SLOT, "Roll") => succ = "published"
  \/ /\ succ = "published"
     /\ \E t \in DOMAIN chain :
          /\ CommittedType(t, "Roll")
          /\ wp = t + ROLL_TOTAL + HEADER_SLOT
          /\ count = chain[t]

\* What each stage of a Live open may rely on, up to the scan.
ReaderOK(r) ==
  /\ rpc[r] = "scan" => rpos[r] \in DOMAIN chain /\ rindex[r] = chain[rpos[r]]
  /\ rpc[r] \in {"live_count", "live_newer"} => rpos[r] \in DOMAIN chain \/ succ = "published"
  /\ rpc[r] = "live_count" => rpos[r] <= wp - HEADER_SLOT
  /\ rpc[r] \in {"live_newer", "live_slot"} =>
       (rpos[r] \in DOMAIN chain /\ ~Passed(rpos[r]) => rindex[r] = chain[rpos[r]])
  /\ rpc[r] \in {"live_slot", "live_walk"} => rpos[r] \in DOMAIN chain
  /\ rpc[r] = "live_walk" =>
       rwalk[r].pos \in DOMAIN chain /\ rwalk[r].users = chain[rwalk[r].pos]

\* The inductive invariant.  The parts are about the headers, the writer and its recovery,
\* the pair a Live open loads, and the readers.
IInv ==
  /\ TypeOK
  /\ ChainOK
  /\ WriterOK
  /\ PairOK
  /\ \A r \in Readers : ReaderOK(r)
-----------------------------------------------------------------------------
(* What recovery and the refinement of ChannelLog need besides. *)

\* A record that can be passed: the channel header at 0, a user record with room for a Roll
\* after it in its region, or a Skip that ends with its region.
PassedFits(p) ==
  \/ slots[p].type = "Channel" /\ p = 0
  \/ slots[p].type = "User" /\ HasRoom(p, slots[p].len)
  \/ slots[p].type = "Skip" /\ Offset(p) + HEADER_SLOT + slots[p].len = RegionSize

\* The chain has no gap a walk could miss: records follow each other in order, each region
\* that holds one starts with one, and all are in the file.
ChainWalkable ==
  /\ Passed(0)
  /\ \A p \in DOMAIN chain :
       /\ Passed(p) => PassedFits(p)
       /\ MappedWithin(p, fileLen)
       /\ \A k \in 0..Region(p) : k * RegionSize \in DOMAIN chain
  /\ \A p, q \in DOMAIN chain : p < q => After(p) <= q /\ chain[p] <= chain[q]

\* The published position is at most one record behind, and the slot after that record is as
\* it was laid.
LagOK ==
  /\ wp # HEADER_SLOT
  /\ wp - HEADER_SLOT \in DOMAIN chain /\ Passed(wp - HEADER_SLOT) => Laid(After(wp - HEADER_SLOT))

\* A published successor starts where this segment ends, and the last slot is the Roll to it,
\* which write_position names or is past.
SuccessorOK ==
  /\ succ = "published" =>
       /\ succBase = count
       /\ \E t \in DOMAIN chain :
            /\ slots[t].type = "Roll" /\ count = chain[t]
            /\ \/ wp = t + HEADER_SLOT
               \/ slots[t].committed /\ wp = t + ROLL_TOTAL + HEADER_SLOT
  /\ \A p \in DOMAIN chain : CommittedType(p, "Roll") => succ = "published"

RecoveryOK ==
  /\ pc # "refused"
  /\ pc = "stranded" => walk.pos \in DOMAIN chain
  /\ pc \in {"skip_preinstall", "skip_stage", "skip_commit"} => MappedWithin(NextRegion, fileLen)

FollowOK(r) ==
  /\ rpc[r] # "error"
  /\ rpc[r] = "followed" => succ = "published" /\ rindex[r] = succBase
  /\ rpc[r] \in LivePc => rpos[r] \in DOMAIN chain \/ succ = "published"
  /\ rpc[r] = "live_walk" => rwalk[r].pos <= rpos[r]

\* Inductive together with IInv.
RInv ==
  /\ ChainWalkable
  /\ LagOK
  /\ SuccessorOK
  /\ RecoveryOK
  /\ \A r \in Readers : FollowOK(r)
=============================================================================
