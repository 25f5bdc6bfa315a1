------------------------------- MODULE MCWake -------------------------------
EXTENDS Wake

\* One channel, three records in each segment.
MCChannelOf == [s \in Segs |-> 0]
MCMaxRecords == [s \in Segs |-> 3]
MCReads == [r \in Readers |-> 0]
=============================================================================
