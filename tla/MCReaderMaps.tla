---------------------------- MODULE MCReaderMaps ----------------------------
EXTENDS ReaderMaps

\* Segments of two regions: the first record of segment 0 is too large for what its header
\* leaves of region 0.
MCLayout ==
  [s \in Seqs |-> IF s = 0 THEN <<0, 1>> ELSE IF s = MaxSeq THEN <<2 * s - 1>>
                  ELSE <<2 * s, 2 * s + 1>>]
=============================================================================
