---------------------------- MODULE MCSegmentLog ----------------------------
(***************************************************************************)
(* SegmentLog for TLC.  The sizes are the code's own: regions of one 4 KiB *)
(* page.  A record of 4024 bytes fills a region to the last byte that      *)
(* leaves room for a Roll, one of 1904 fits twice in a region but not in   *)
(* the first one, after the channel header; one of 0 is a bare header.     *)
(***************************************************************************)
EXTENDS SegmentLogInv

MCSizes == {0, 1904, 4024}
MCSizesEdge == {0, 4024}
=============================================================================
