------------------------------ MODULE Geometry ------------------------------
(***************************************************************************)
(* Offsets and sizes of one segment file: header slots, record sizes, the  *)
(* regions a segment is mapped in, and the length a segment is created     *)
(* with.  Offsets are file offsets in bytes.                               *)
(***************************************************************************)
EXTENDS Integers

CONSTANTS
  RegionSize,   \* region_size: the mapping unit, a multiple of ALIGN
  FileRollSize  \* file_roll_size: 0 for a channel that never rolls by size

ALIGN == 8
HEADER_SLOT == 16
FIRST_RECORD == 208
ROLL_PAYLOAD == 40
ROLL_TOTAL == HEADER_SLOT + ROLL_PAYLOAD

\* What Writer::open_or_create and WriterBuilder::build require of the sizes.
ASSUME RegionSizeAssumption ==
  /\ RegionSize \in Nat
  /\ RegionSize % ALIGN = 0
  /\ RegionSize >= FIRST_RECORD + ROLL_TOTAL

ASSUME FileRollSizeAssumption ==
  /\ FileRollSize \in Nat
  /\ FileRollSize = 0 \/ FileRollSize >= 2 * RegionSize

-----------------------------------------------------------------------------

\* align_up: the least multiple of ALIGN that is at least x.
AlignUp(x) == ((x + (ALIGN - 1)) \div ALIGN) * ALIGN

\* The header slot after a record at `pos` with `len` payload bytes.
NextSlot(pos, len) == AlignUp(pos + HEADER_SLOT + len)

\* Mutant: no room kept for the Roll.
NeededTotalNoRoll(size) == AlignUp(HEADER_SLOT + size)

\* try_reserve's needed_total: the record, padded, and room for a Roll after it.
NeededTotal(size) == AlignUp(HEADER_SLOT + size) + ROLL_TOTAL

\* try_reserve's two early refusals: no roll could make such a record fit.
CanFit(size) ==
  /\ NeededTotal(size) <= RegionSize
  /\ FileRollSize > 0 => FIRST_RECORD + NeededTotal(size) <= FileRollSize

Region(pos) == pos \div RegionSize
Offset(pos) == pos % RegionSize
RegionStart(pos) == pos - Offset(pos)
Leftover(pos) == RegionSize - Offset(pos)

\* A mapping of the region holding `pos` lies inside a file of `len` bytes.
MappedWithin(pos, len) == (Region(pos) + 1) * RegionSize <= len

\* The record does not fit before the file's roll point, or before the region's end.
MustRollFile(pos, size) == FileRollSize > 0 /\ pos + NeededTotal(size) > FileRollSize
MustSkip(pos, size) == Offset(pos) + NeededTotal(size) > RegionSize

\* roll_file's room check at the slot where the Roll goes.
RollFits(pos) == Leftover(pos) >= ROLL_TOTAL

\* The length a segment is created with: every region it can use before it rolls.
PreallocationLen ==
  IF FileRollSize = 0 THEN RegionSize
  ELSE LET rem == FileRollSize % RegionSize
       IN IF rem = 0 THEN FileRollSize ELSE FileRollSize + (RegionSize - rem)
=============================================================================
