----------------------------- MODULE ChannelLog -----------------------------
(***************************************************************************)
(* What a channel promises its readers, with no files in it: an append-    *)
(* only log of user records, of which the newest may be committed and not  *)
(* yet published, and readers that read it in order from where they joined.*)
(***************************************************************************)
EXTENDS Integers

CONSTANT Readers

VARIABLES
  committed,  \* user records committed: a reader can be delivered these
  published,  \* user records the advisory position accounts for
  cursor,     \* index of the next record of each reader, NotJoined before it joins
  floor       \* records published when a Live open looked; NotJoined when none runs

vars == <<committed, published, cursor, floor>>

NotJoined == -1

Init ==
  /\ committed = 0
  /\ published = 0
  /\ cursor = [r \in Readers |-> NotJoined]
  /\ floor = [r \in Readers |-> NotJoined]

\* A record is committed only when the one before it has been published.
Commit ==
  /\ committed = published
  /\ committed' = committed + 1
  /\ UNCHANGED <<published, cursor, floor>>

\* By the writer that committed it, or by the one that recovers it.
Publish ==
  /\ published < committed
  /\ published' = committed
  /\ UNCHANGED <<committed, cursor, floor>>

\* A late joiner starts at the first record.
JoinAtStart(r) ==
  /\ cursor[r] = NotJoined /\ floor[r] = NotJoined
  /\ cursor' = [cursor EXCEPT ![r] = 0]
  /\ UNCHANGED <<committed, published, floor>>

\* A Live open looks at the head, perhaps more than once ...
LookAtHead(r) ==
  /\ cursor[r] = NotJoined
  /\ floor' = [floor EXCEPT ![r] = published]
  /\ UNCHANGED <<committed, published, cursor>>

\* ... and starts no earlier than what was published when it looked, and on a record
\* boundary; or gives up.
JoinAtHead(r) ==
  /\ floor[r] # NotJoined
  /\ \E k \in floor[r]..committed : cursor' = [cursor EXCEPT ![r] = k]
  /\ floor' = [floor EXCEPT ![r] = NotJoined]
  /\ UNCHANGED <<committed, published>>

GiveUp(r) ==
  /\ floor[r] # NotJoined
  /\ floor' = [floor EXCEPT ![r] = NotJoined]
  /\ UNCHANGED <<committed, published, cursor>>

\* The next record, exactly one.
Read(r) ==
  /\ cursor[r] # NotJoined
  /\ cursor[r] < committed
  /\ cursor' = [cursor EXCEPT ![r] = @ + 1]
  /\ UNCHANGED <<committed, published, floor>>

Next ==
  \/ Commit
  \/ Publish
  \/ \E r \in Readers :
       JoinAtStart(r) \/ LookAtHead(r) \/ JoinAtHead(r) \/ GiveUp(r) \/ Read(r)

Spec == Init /\ [][Next]_vars
=============================================================================
