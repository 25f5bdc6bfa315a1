------------------------------ MODULE MCWaitAny ------------------------------
EXTENDS WaitAny

CONSTANTS r1, r2

\* Two channels: one of two segments, 0 and 1, read by r1, and one of one segment, 2, read by r2.
\* Segment s takes up to s records.
MCChannelOf == [s \in Segs |-> IF s = 2 THEN 2 ELSE 0]
MCMaxRecords == [s \in Segs |-> s]
MCReads == [r \in Readers |-> IF r = r2 THEN 2 ELSE 0]
MCGroup == <<r1, r2>>
=============================================================================
