--------------------------- MODULE MCSegmentSeek ----------------------------
EXTENDS SegmentSeek
=============================================================================
