------------------------------ MODULE Archiver ------------------------------
(***************************************************************************)
(* The S3 archiver (consumers/archiver.py): a consumer group of its own    *)
(* that collects records in memory, uploads every BatchSize of them as one *)
(* object and then commits its position in all partitions.                 *)
(*                                                                         *)
(* pc is where archive() is: fetch -> upload -> commit -> fetch, and with  *)
(* stopping set, in its finally block, upload -> commit -> down.           *)
(* put_object blocks the event loop, so archive() can only be cancelled    *)
(* while it waits for a record or for the commit.                          *)
(*                                                                         *)
(* A record is its place in the topic.  The name of an object holds the    *)
(* offset of the last record of its batch and the second of the upload; it *)
(* does not hold the partition.                                            *)
(***************************************************************************)
EXTENDS Naturals, FiniteSets

CONSTANTS Partitions,
          None,         \* no record
          BatchSize,    \* snapshot_batch_size (100 in the code)
          MaxOffset,    \* bound: records per partition
          MaxSecond     \* bound: seconds that pass

Place  == [part : Partitions, offset : Nat]
Key    == [offset : Nat, second : Nat]
Object == [key : Key, part : Partitions, records : SUBSET Place]

ASSUME ArchiverAssumption ==
  /\ BatchSize \in Nat \ {0} /\ MaxOffset \in Nat /\ MaxSecond \in Nat
  /\ None \notin Place

VARIABLES
  end,         \* Kafka: the number of records in each partition
  committed,   \* Kafka: the position committed by cqrs-archiver-group
  objects,     \* S3: the objects; part is the partition of the last record
  second,      \* int(time.time())
  pc,
  stopping,    \* whether the finally block runs
  position,    \* the offset of the next record of each partition
  batch,       \* the records collected
  last,        \* the last of them, whose offset is last_offset
  clashed      \* history: records of two partitions' batches of the same name

archiver == <<pc, stopping, position, batch, last>>
vars     == <<end, committed, objects, second, archiver, clashed>>

Init == /\ end = [q \in Partitions |-> 0]
        /\ committed = [q \in Partitions |-> 0]
        /\ objects = {}
        /\ second = 0
        /\ pc = "fetch" /\ stopping = FALSE
        /\ position = [q \in Partitions |-> 0]
        /\ batch = {} /\ last = None
        /\ clashed = {}

-----------------------------------------------------------------------------
(* The environment.                                                        *)

Produce(q) ==
  /\ end[q] < MaxOffset
  /\ end' = [end EXCEPT ![q] = @ + 1]
  /\ UNCHANGED <<committed, objects, second, archiver, clashed>>

Tick ==
  /\ second < MaxSecond
  /\ second' = second + 1
  /\ UNCHANGED <<end, committed, objects, archiver, clashed>>

-----------------------------------------------------------------------------
(* archive().                                                              *)

Goto(l) == pc' = l /\ UNCHANGED <<stopping, position, batch, last>>

\* The process is gone and with it the batch.
Down == /\ pc' = "down" /\ stopping' = FALSE
        /\ position' = committed' /\ batch' = {} /\ last' = None

\* Mutant: last_offset is the offset to go on from.
FetchNextOffset(q) ==
  /\ pc = "fetch" /\ position[q] < end[q]
  /\ batch' = batch \cup {[part |-> q, offset |-> position[q]]}
  /\ last' = [part |-> q, offset |-> position[q] + 1]
  /\ position' = [position EXCEPT ![q] = @ + 1]
  /\ pc' = IF Cardinality(batch') >= BatchSize THEN "upload" ELSE "fetch"
  /\ UNCHANGED <<end, committed, objects, second, stopping, clashed>>

\* async for msg in consumer
Fetch(q) ==
  LET r == [part |-> q, offset |-> position[q]] IN
  /\ pc = "fetch" /\ position[q] < end[q]
  /\ batch' = batch \cup {r}
  /\ last' = r
  /\ position' = [position EXCEPT ![q] = @ + 1]
  /\ pc' = IF Cardinality(batch') >= BatchSize THEN "upload" ELSE "fetch"
  /\ UNCHANGED <<end, committed, objects, second, stopping, clashed>>

\* upload_batch_to_s3: put_object replaces an object of the same name.
Put == LET k   == [offset |-> last.offset, second |-> second]
           old == {x \in objects : x.key = k}
       IN /\ objects' = (objects \ old) \cup {[key |-> k, part |-> last.part, records |-> batch]}
          /\ clashed' = IF \A x \in old : x.part = last.part THEN clashed
                         ELSE clashed \cup batch \cup UNION {x.records : x \in old}

Upload ==
  /\ pc = "upload"
  /\ Put
  /\ Goto("commit")
  /\ UNCHANGED <<end, committed, second>>

\* Mutant: a batch whose upload failed is dropped.
UploadDropsBatch ==
  /\ pc = "upload"
  /\ Put \/ UNCHANGED <<objects, clashed>>
  /\ UNCHANGED <<end, committed, second>>
  /\ IF stopping THEN Down
                 ELSE pc' = "fetch" /\ batch' = {} /\ UNCHANGED <<stopping, position, last>>

\* The error is logged and the batch kept: it is uploaded with the next record.
UploadFails ==
  /\ pc = "upload"
  /\ Put \/ UNCHANGED <<objects, clashed>>
  /\ UNCHANGED <<end, committed, second>>
  /\ IF stopping THEN Down ELSE Goto("fetch")

\* consumer.commit(): the position in every partition.
Commit ==
  /\ pc = "commit"
  /\ committed' = position
  /\ IF stopping THEN Down
                 ELSE pc' = "fetch" /\ batch' = {} /\ UNCHANGED <<stopping, position, last>>
  /\ UNCHANGED <<end, objects, second, clashed>>

CommitFails ==
  /\ pc = "commit"
  /\ committed' \in {committed, position}
  /\ IF stopping THEN Down ELSE Goto("fetch")
  /\ UNCHANGED <<end, objects, second, clashed>>

\* archive() is cancelled (Ctrl-C) or the consumer raises: the finally block.
Stop ==
  /\ pc \in {"fetch", "commit"} /\ ~stopping
  /\ IF pc = "commit" THEN committed' \in {committed, position} ELSE UNCHANGED committed
  /\ IF batch = {} THEN Down
                   ELSE pc' = "upload" /\ stopping' = TRUE /\ UNCHANGED <<position, batch, last>>
  /\ UNCHANGED <<end, objects, second, clashed>>

-----------------------------------------------------------------------------
Crash ==
  /\ pc # "down"
  /\ UNCHANGED <<end, committed, objects, second, clashed>>
  /\ Down

Restart ==
  /\ pc = "down"
  /\ Goto("fetch")
  /\ UNCHANGED <<end, committed, objects, second, clashed>>

Next == \/ \E q \in Partitions : Produce(q) \/ Fetch(q)
        \/ Tick
        \/ Upload \/ UploadFails \/ Commit \/ CommitFails
        \/ Stop \/ Crash \/ Restart

Spec == Init /\ [][Next]_vars

-----------------------------------------------------------------------------
(* Properties.                                                             *)

\* Every variable keeps its type, and no offset runs ahead of another.
TypeOK == /\ end \in [Partitions -> Nat]
          /\ committed \in [Partitions -> Nat]
          /\ position \in [Partitions -> Nat]
          /\ \A q \in Partitions : committed[q] <= position[q] /\ position[q] <= end[q]
          /\ objects \in SUBSET Object
          /\ second \in Nat
          /\ pc \in {"fetch", "upload", "commit", "down"}
          /\ stopping \in BOOLEAN
          /\ batch \in SUBSET Place
          /\ last \in Place \cup {None}
          /\ \A r \in batch : r.offset < position[r.part]
          /\ pc \in {"upload", "commit"} => batch # {}
          /\ batch # {} => last \in batch
          /\ clashed \in SUBSET Place

Archived == UNION {x.records : x \in objects}

\* archiver.py: "If we need to replay events from 6 months ago -> read from
\* S3", and the archiver never reads a committed record again: every one is in S3,
\* through failed uploads and commits, shutdowns and crashes at any point, and
\* although a restarted archiver replaces objects it wrote before.  The one
\* exception is the name clash: two batches that end at the same offset of two
\* partitions in the same second share one object.
CommittedIsArchived ==
  \A q \in Partitions : \A n \in 0..(committed[q] - 1) :
    [part |-> q, offset |-> n] \in Archived \cup clashed
=============================================================================
