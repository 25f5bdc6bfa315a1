--------------------------- MODULE MCSegmentRoll ----------------------------
EXTENDS SegmentRoll
=============================================================================
