--------------------------- MODULE ArchiverProofs ---------------------------
(***************************************************************************)
(* The archive is complete, for any number of partitions and any batch     *)
(* size.  CommittedIsArchived is not inductive: an upload replaces objects *)
(* of the same name, so the invariant also says what such an object may    *)
(* hold.  A committed record is in an object whose name lies below the     *)
(* committed offset of its partition (CommittedKept); an upload under such *)
(* a name repeats the batch that wrote it (Repeats).                       *)
(***************************************************************************)
EXTENDS Archiver, TLAPS

Rec(q, n) == [part |-> q, offset |-> n]

Kept(r) == r \in clashed \/ \E x \in objects : r \in x.records /\ x.key.offset < committed[x.part]

CommittedKept == \A q \in Partitions, n \in Nat : n < committed[q] => Kept(Rec(q, n))

\* What was read since the last commit is in the batch.
Collected == \A q \in Partitions, n \in Nat :
               committed[q] <= n /\ n < position[q] => Rec(q, n) \in batch

SameName(x) == x.key = [offset |-> last.offset, second |-> second] /\ x.part = last.part

\* An upload of the batch under a name that is in use below the committed
\* offset replaces a part of the batch.
Repeats == batch # {} /\ (pc = "commit" \/ last.offset < committed[last.part]) =>
             \A x \in objects : SameName(x) => x.records \subseteq batch

\* Between the upload and the commit the batch is in S3.
Uploaded == pc = "commit" => \E x \in objects : /\ x.key.offset = last.offset
                                                /\ x.part = last.part /\ x.records = batch

NamesArePast == \A x \in objects : x.key.second <= second

Inv == TypeOK /\ CommittedKept /\ Collected /\ Repeats /\ Uploaded /\ NamesArePast

\* The invariant holds before anything is read.
LEMMA InitInv == Init => Inv
<1> SUFFICES ASSUME Init PROVE Inv
  OBVIOUS
<1>1. TypeOK
  <2>1. stopping \in BOOLEAN
    BY DEF Init
  <2>2. /\ end \in [Partitions -> Nat] /\ committed \in [Partitions -> Nat]
        /\ position \in [Partitions -> Nat] /\ second \in Nat
        /\ \A q \in Partitions : committed[q] <= position[q] /\ position[q] <= end[q]
    BY DEF Init
  <2>3. objects = {} /\ batch = {} /\ clashed = {} /\ last = None /\ pc = "fetch"
    BY DEF Init
  <2> QED  BY <2>1, <2>2, <2>3 DEF TypeOK
<1>2. CommittedKept /\ Collected
  BY DEF Init, CommittedKept, Collected
<1>3. Repeats /\ Uploaded /\ NamesArePast
  BY DEF Init, Repeats, Uploaded, NamesArePast
<1> QED  BY <1>1, <1>2, <1>3 DEF Inv

-----------------------------------------------------------------------------
\* An upload keeps S3 well formed; afterwards only the batch has its name.
LEMMA PutType ==
  ASSUME TypeOK, batch # {}, Put
  PROVE  objects' \in SUBSET Object /\ clashed' \in SUBSET Place
<1> DEFINE k == [offset |-> last.offset, second |-> second]
           new == [key |-> k, part |-> last.part, records |-> batch]
           old == {x \in objects : x.key = k}
<1>1. last \in Place /\ batch \subseteq Place /\ objects \subseteq Object /\ second \in Nat
  BY DEF TypeOK
<1>2. k \in Key
  BY <1>1 DEF Key, Place
<1>3. new \in Object
  BY <1>1, <1>2 DEF Object, Place
<1>4. objects' = (objects \ old) \cup {new}
  BY DEF Put
<1>5. UNION {x.records : x \in old} \subseteq Place
  BY <1>1 DEF Object
<1>6. clashed' \subseteq clashed \cup batch \cup UNION {x.records : x \in old}
  BY DEF Put
<1>7. clashed \subseteq Place
  BY DEF TypeOK
<1> HIDE DEF new, old
<1> QED  BY <1>1, <1>3, <1>4, <1>5, <1>6, <1>7

\* What Put does to an object, to the history, and to the names.
LEMMA PutEffect ==
  ASSUME TypeOK, batch # {}, Put, second' = second
  PROVE  \E new \in objects' :
           /\ new.key = [offset |-> last.offset, second |-> second]
           /\ new.part = last.part /\ new.records = batch
           /\ \A x \in objects' : x = new \/ (x \in objects /\ x.key # new.key)
           /\ \A x \in objects : x \in objects' \/ x.key = new.key
           /\ \A x \in objects : x.key = new.key /\ x.part # last.part => x.records \subseteq clashed'
           /\ clashed \subseteq clashed'
<1> DEFINE k == [offset |-> last.offset, second |-> second]
           new == [key |-> k, part |-> last.part, records |-> batch]
           old == {x \in objects : x.key = k}
<1>1. objects' = (objects \ old) \cup {new}
  BY DEF Put
<1>2. clashed' = IF \A x \in old : x.part = last.part THEN clashed
                   ELSE clashed \cup batch \cup UNION {x.records : x \in old}
  BY DEF Put
<1>3. \A x \in objects : x.key = k /\ x.part # last.part => x.records \subseteq clashed'
  <2> SUFFICES ASSUME NEW x \in objects, x.key = k, x.part # last.part
               PROVE  x.records \subseteq clashed'
    OBVIOUS
  <2>1. x \in old
    OBVIOUS
  <2>2. clashed' = clashed \cup batch \cup UNION {y.records : y \in old}
    BY <1>2, <2>1
  <2> HIDE DEF old
  <2> QED  BY <2>1, <2>2
<1>4. clashed \subseteq clashed'
  BY <1>2
<1>5. new.key = k /\ new.part = last.part /\ new.records = batch
  OBVIOUS
<1>6. new \in objects' /\ \A x \in objects' : x = new \/ (x \in objects /\ x.key # k)
  BY <1>1
<1>7. \A x \in objects : x \in objects' \/ x.key = k
  BY <1>1
<1> HIDE DEF new, old
<1> QED  BY <1>3, <1>4, <1>5, <1>6, <1>7

\* An upload, whether or not its answer arrives, loses no committed record.
LEMMA PutKeeps ==
  ASSUME Inv, batch # {}, Put, second' = second, committed' = committed
  PROVE  /\ CommittedKept' /\ NamesArePast'
         /\ \A x \in objects' : SameName(x) => x.records \subseteq batch
         /\ \E x \in objects' : x.key.offset = last.offset /\ x.part = last.part /\ x.records = batch
<1>1. TypeOK /\ CommittedKept /\ Repeats /\ NamesArePast
  BY DEF Inv
<1>2. PICK new \in objects' :
           /\ new.key = [offset |-> last.offset, second |-> second]
           /\ new.part = last.part /\ new.records = batch
           /\ \A x \in objects' : x = new \/ (x \in objects /\ x.key # new.key)
           /\ \A x \in objects : x \in objects' \/ x.key = new.key
           /\ \A x \in objects : x.key = new.key /\ x.part # last.part => x.records \subseteq clashed'
           /\ clashed \subseteq clashed'
  BY <1>1, PutEffect
<1>3. new.key.offset = last.offset /\ new.key.second = second /\ second \in Nat
  BY <1>1, <1>2 DEF TypeOK
<1>4. ASSUME NEW r, Kept(r) PROVE Kept(r)'
  <2>1. CASE r \in clashed
    BY <1>2, <2>1 DEF Kept
  <2>2. ASSUME NEW x \in objects, r \in x.records, x.key.offset < committed[x.part]
        PROVE  Kept(r)'
    <3>1. CASE x \in objects'
      BY <2>2, <3>1 DEF Kept
    <3>2. CASE x.key = new.key /\ x.part # last.part
      BY <1>2, <2>2, <3>2 DEF Kept
    <3>3. CASE x.key = new.key /\ x.part = last.part
      <4>1. SameName(x) /\ last.offset < committed[last.part]
        BY <1>2, <1>3, <2>2, <3>3 DEF SameName
      <4>2. r \in batch
        BY <1>1, <2>2, <4>1 DEF Repeats
      <4>3. r \in new.records /\ new.key.offset < committed'[new.part]
        BY <1>2, <1>3, <4>1, <4>2
      <4> QED  BY <4>3 DEF Kept
    <3> QED  BY <1>2, <3>1, <3>2, <3>3
  <2> QED  BY <1>4, <2>1, <2>2 DEF Kept
<1>5. CommittedKept'
  BY <1>1, <1>4 DEF CommittedKept
<1>6. NamesArePast'
  BY <1>1, <1>2, <1>3 DEF NamesArePast
<1>7. \A x \in objects' : SameName(x) => x.records \subseteq batch
  BY <1>2 DEF SameName
<1> QED  BY <1>2, <1>3, <1>5, <1>6, <1>7

-----------------------------------------------------------------------------
\* The process goes down: only the stores matter.
LEMMA DownType ==
  ASSUME TypeOK, Down, UNCHANGED <<end, second>>, committed' \in {committed, position},
         objects' \in SUBSET Object, clashed' \in SUBSET Place
  PROVE  TypeOK'
<1>1. stopping' \in BOOLEAN
  BY DEF Down
<1>2. /\ committed' \in [Partitions -> Nat] /\ position' = committed'
      /\ \A q \in Partitions : committed'[q] <= end[q]
  BY DEF TypeOK, Down
<1>3. pc' = "down" /\ batch' = {} /\ last' = None
  BY DEF Down
<1> QED  BY <1>1, <1>2, <1>3 DEF TypeOK

\* archive() goes on with the batch it has.
LEMMA GotoType ==
  ASSUME TypeOK, NEW l \in {"fetch", "commit"}, Goto(l), l = "commit" => batch # {},
         UNCHANGED <<end, second>>, committed' \in {committed, position},
         objects' \in SUBSET Object, clashed' \in SUBSET Place
  PROVE  TypeOK'
<1>1. stopping' \in BOOLEAN
  BY DEF Goto, TypeOK
<1>2. /\ committed' \in [Partitions -> Nat] /\ position' = position
      /\ \A q \in Partitions : committed'[q] <= position[q] /\ position[q] <= end[q]
  BY DEF TypeOK, Goto
<1>3. pc' = l /\ batch' = batch /\ last' = last
  BY DEF Goto
<1> QED  BY <1>1, <1>2, <1>3 DEF TypeOK

\* Every step of the archiver and of its environment keeps the types.
LEMMA TypeStep == TypeOK /\ [Next]_vars => TypeOK'
<1> SUFFICES ASSUME TypeOK, [Next]_vars PROVE TypeOK'
  OBVIOUS
<1>0. /\ stopping \in BOOLEAN /\ objects \in SUBSET Object /\ clashed \in SUBSET Place
      /\ pc \in {"upload", "commit"} => batch # {}
  BY DEF TypeOK
<1> USE DEF archiver
<1>1. CASE UNCHANGED vars
  BY <1>1 DEF vars, TypeOK
<1>2. ASSUME NEW q \in Partitions, Produce(q) PROVE TypeOK'
  <2>1. /\ end' \in [Partitions -> Nat] /\ \A p \in Partitions : end[p] <= end'[p]
        /\ UNCHANGED <<committed, objects, second, archiver, clashed>>
    BY <1>2 DEF Produce, TypeOK
  <2>2. \A p \in Partitions : position[p] <= end'[p]
    BY <2>1 DEF TypeOK
  <2> QED  BY <2>1, <2>2 DEF TypeOK
<1>3. CASE Tick
  BY <1>3 DEF Tick, TypeOK
<1>4. ASSUME NEW q \in Partitions, Fetch(q) PROVE TypeOK'
  <2> DEFINE r == [part |-> q, offset |-> position[q]]
  <2>1. /\ position[q] < end[q] /\ batch' = batch \cup {r} /\ last' = r
        /\ position' = [position EXCEPT ![q] = @ + 1] /\ pc' \in {"upload", "fetch"}
        /\ UNCHANGED <<end, committed, objects, second, stopping, clashed>>
    BY <1>4 DEF Fetch
  <2>2. r \in Place /\ r.offset = position[q] /\ r.part = q
    BY DEF Place, TypeOK
  <2> HIDE DEF r
  <2>3. /\ position' \in [Partitions -> Nat] /\ position'[q] = position[q] + 1
        /\ \A p \in Partitions : p # q => position'[p] = position[p]
    BY <2>1 DEF TypeOK
  <2>4. \A p \in Partitions : committed[p] <= position'[p] /\ position'[p] <= end[p]
    BY <2>1, <2>3 DEF TypeOK
  <2>5. \A b \in batch' : b.offset < position'[b.part]
    BY <2>1, <2>2, <2>3 DEF TypeOK, Place
  <2> QED  BY <2>1, <2>2, <2>3, <2>4, <2>5 DEF TypeOK
<1>5. CASE Upload
  <2>1. objects' \in SUBSET Object /\ clashed' \in SUBSET Place
    BY <1>0, <1>5, PutType DEF Upload
  <2> QED  BY <1>0, <1>5, <2>1, GotoType DEF Upload
<1>6. CASE UploadFails
  <2>1. objects' \in SUBSET Object /\ clashed' \in SUBSET Place
    BY <1>0, <1>6, PutType DEF UploadFails
  <2> QED  BY <1>6, <2>1, GotoType, DownType DEF UploadFails
<1>7. CASE Commit
  <2>1. CASE stopping
    BY <1>0, <1>7, <2>1, DownType DEF Commit
  <2>2. CASE ~stopping
    BY <1>0, <1>7, <2>2 DEF Commit, TypeOK
  <2> QED  BY <1>0, <2>1, <2>2
<1>8. CASE CommitFails
  BY <1>0, <1>8, GotoType, DownType DEF CommitFails
<1>9. CASE Stop
  <2>1. CASE batch = {}
    BY <1>0, <1>9, <2>1, DownType DEF Stop
  <2>2. CASE batch # {}
    <3>1. /\ committed' \in {committed, position} /\ pc' = "upload" /\ stopping' = TRUE
          /\ UNCHANGED <<position, batch, last, end, objects, second, clashed>>
      BY <1>9, <2>2 DEF Stop
    <3>2. committed' \in [Partitions -> Nat] /\ \A q \in Partitions : committed'[q] <= position[q]
      BY <3>1 DEF TypeOK
    <3>3. stopping' \in BOOLEAN
      BY <3>1
    <3> QED  BY <2>2, <3>1, <3>2, <3>3 DEF TypeOK
  <2> QED  BY <2>1, <2>2
<1>10. CASE Crash
  BY <1>0, <1>10, DownType DEF Crash
<1>11. CASE Restart
  BY <1>0, <1>11, GotoType DEF Restart
<1> QED  BY <1>1, <1>2, <1>3, <1>4, <1>5, <1>6, <1>7, <1>8, <1>9, <1>10, <1>11 DEF Next

-----------------------------------------------------------------------------
\* A commit, whether or not its answer arrives, covers only what is in S3.
LEMMA CommitKeeps ==
  ASSUME Inv, pc = "commit", committed' \in {committed, position}, UNCHANGED <<objects, clashed>>
  PROVE  CommittedKept'
<1>1. TypeOK /\ CommittedKept /\ Collected /\ Uploaded
  BY DEF Inv
<1>2. PICK new \in objects : new.key.offset = last.offset /\ new.part = last.part /\ new.records = batch
  BY <1>1 DEF Uploaded
<1>3. /\ last \in Place /\ last.part \in Partitions /\ last.offset < position[last.part]
  BY <1>1 DEF TypeOK, Place
<1>4. CASE committed' = committed
  BY <1>1, <1>4 DEF CommittedKept, Kept
<1>5. CASE committed' = position
  <2>1. ASSUME NEW q \in Partitions, NEW n \in Nat, n < position[q] PROVE Kept(Rec(q, n))'
    <3>1. CASE n < committed[q]
      <4>1. CASE Rec(q, n) \in clashed
        BY <4>1 DEF Kept
      <4>2. ASSUME NEW x \in objects, Rec(q, n) \in x.records, x.key.offset < committed[x.part]
            PROVE  Kept(Rec(q, n))'
        <5>1. x.part \in Partitions /\ x.key.offset \in Nat
          BY <1>1 DEF TypeOK, Object, Key
        <5>2. x.key.offset < position[x.part]
          BY <1>1, <4>2, <5>1 DEF TypeOK
        <5> QED  BY <1>5, <4>2, <5>2 DEF Kept
      <4> QED  BY <1>1, <3>1, <4>1, <4>2 DEF CommittedKept, Kept
    <3>2. CASE committed[q] <= n
      <4>1. Rec(q, n) \in batch
        BY <1>1, <2>1, <3>2 DEF Collected
      <4> QED  BY <1>2, <1>3, <1>5, <4>1 DEF Kept
    <3> QED  BY <1>1, <3>1, <3>2 DEF TypeOK
  <2> QED  BY <1>5, <2>1 DEF CommittedKept
<1> QED  BY <1>4, <1>5

\* A process that goes down starts again after the committed offsets, with no
\* batch.
LEMMA DownOK ==
  ASSUME Down, committed' \in [Partitions -> Nat]
  PROVE  Collected' /\ Repeats' /\ Uploaded'
<1>1. position' = committed' /\ batch' = {} /\ pc' = "down"
  BY DEF Down
<1>2. Collected'
  BY <1>1 DEF Collected
<1> QED  BY <1>1, <1>2 DEF Repeats, Uploaded

\* Nothing the invariant says of the stores changes.
LEMMA StoresUnchanged ==
  ASSUME Inv, UNCHANGED <<committed, objects, second, clashed>>
  PROVE  CommittedKept' /\ NamesArePast'
BY DEF Inv, CommittedKept, Kept, NamesArePast

\* The batch stays, and the offsets may be committed.
LEMMA BatchUnchanged ==
  ASSUME Inv, UNCHANGED <<position, batch, last, second>>, committed' \in {committed, position},
         pc' # "commit",
         \/ committed' = committed /\ objects' = objects
         \/ batch # {} => \A x \in objects' : SameName(x) => x.records \subseteq batch
  PROVE  Collected' /\ Repeats' /\ Uploaded'
<1>1. Collected /\ Repeats /\ TypeOK
  BY DEF Inv
<1>2. Collected'
  <2> SUFFICES ASSUME NEW q \in Partitions, NEW n \in Nat, committed'[q] <= n, n < position[q]
               PROVE  Rec(q, n) \in batch
    BY DEF Collected, Rec
  <2>1. committed' = position => FALSE
    BY <1>1 DEF TypeOK
  <2> QED  BY <1>1, <2>1 DEF Collected
<1>3. \A x : SameName(x)' <=> SameName(x)
  BY DEF SameName
<1>4. Repeats'
  BY <1>1, <1>3 DEF Repeats
<1> QED  BY <1>2, <1>4 DEF Uploaded

\* Every step keeps the invariant.
LEMMA InvStep == Inv /\ [Next]_vars => Inv'
<1> SUFFICES ASSUME Inv, [Next]_vars PROVE Inv'
  OBVIOUS
<1>0. /\ TypeOK /\ CommittedKept /\ Collected /\ Repeats /\ Uploaded /\ NamesArePast
      /\ TypeOK' /\ committed' \in [Partitions -> Nat]
      /\ pc \in {"upload", "commit"} => batch # {}
  BY TypeStep DEF Inv, TypeOK
<1> USE DEF archiver
<1> SUFFICES CommittedKept' /\ Collected' /\ Repeats' /\ Uploaded' /\ NamesArePast'
  BY <1>0 DEF Inv
<1> DEFINE Goal == CommittedKept' /\ Collected' /\ Repeats' /\ Uploaded' /\ NamesArePast'
<1>1. CASE UNCHANGED vars
  BY <1>0, <1>1 DEF vars, CommittedKept, Kept, Collected, Repeats, SameName, Uploaded, NamesArePast
<1>2. ASSUME NEW q \in Partitions, Produce(q) PROVE Goal
  BY <1>0, <1>2 DEF Produce, CommittedKept, Kept, Collected, Repeats, SameName, Uploaded, NamesArePast
<1>3. CASE Tick
  <2>1. \A x \in objects : x.key.second # second'
    BY <1>0, <1>3 DEF Tick, NamesArePast, TypeOK, Object, Key
  <2>2. Repeats'
    <3>1. \A x \in objects' : SameName(x)' => x.key.second = second'
      BY DEF SameName
    <3>2. objects' = objects
      BY <1>3 DEF Tick
    <3> QED  BY <2>1, <3>1, <3>2 DEF Repeats
  <2>3. NamesArePast'
    BY <1>0, <1>3 DEF Tick, NamesArePast, TypeOK, Object, Key
  <2>4. CommittedKept' /\ Collected' /\ Uploaded'
    BY <1>0, <1>3 DEF Tick, CommittedKept, Kept, Collected, Uploaded
  <2> QED  BY <2>2, <2>3, <2>4
<1>4. ASSUME NEW q \in Partitions, Fetch(q) PROVE Goal
  <2>1. /\ batch' = batch \cup {Rec(q, position[q])} /\ last' = Rec(q, position[q])
        /\ position' = [position EXCEPT ![q] = @ + 1] /\ pc' \in {"upload", "fetch"}
        /\ UNCHANGED <<committed, objects, second, clashed>>
    BY <1>4 DEF Fetch, Rec
  <2>2. CommittedKept' /\ NamesArePast'
    BY <2>1, StoresUnchanged
  <2>3. Collected'
    <3> SUFFICES ASSUME NEW p \in Partitions, NEW n \in Nat, committed[p] <= n, n < position'[p]
                 PROVE  Rec(p, n) \in batch'
      BY <2>1 DEF Collected, Rec
    <3>1. CASE p = q /\ n = position[q]
      BY <2>1, <3>1
    <3>2. CASE n < position[p]
      BY <1>0, <2>1, <3>2 DEF Collected
    <3>3. n < position[p] \/ (p = q /\ n = position[q])
      BY <1>0, <2>1 DEF TypeOK
    <3> QED  BY <3>1, <3>2, <3>3
  <2>4. last'.offset = position[q] /\ last'.part = q
    BY <2>1 DEF Rec
  <2>5. Repeats'
    BY <1>0, <2>1, <2>4 DEF Repeats, TypeOK
  <2>6. Uploaded'
    BY <2>1 DEF Uploaded
  <2> QED  BY <2>2, <2>3, <2>5, <2>6
<1>5. CASE Upload
  <2>1. /\ Put /\ batch # {} /\ second' = second /\ committed' = committed /\ pc' = "commit"
        /\ UNCHANGED <<position, batch, last>>
    BY <1>0, <1>5 DEF Upload, Goto
  <2>2. /\ CommittedKept' /\ NamesArePast'
        /\ \A x \in objects' : SameName(x) => x.records \subseteq batch
        /\ \E x \in objects' : x.key.offset = last.offset /\ x.part = last.part /\ x.records = batch
    BY <2>1, PutKeeps
  <2>3. Collected'
    BY <1>0, <2>1 DEF Collected
  <2>4. Repeats'
    BY <2>1, <2>2 DEF Repeats, SameName
  <2>5. Uploaded'
    BY <2>1, <2>2 DEF Uploaded
  <2> QED  BY <2>2, <2>3, <2>4, <2>5
<1>6. CASE UploadFails
  <2>1. /\ batch # {} /\ second' = second /\ committed' = committed
        /\ Put \/ UNCHANGED <<objects, clashed>>
        /\ Goto("fetch") \/ Down
    BY <1>0, <1>6 DEF UploadFails
  <2>2. CommittedKept' /\ NamesArePast'
        /\ (objects' = objects \/ \A x \in objects' : SameName(x) => x.records \subseteq batch)
    <3>1. CASE Put
      BY <2>1, <3>1, PutKeeps
    <3>2. CASE UNCHANGED <<objects, clashed>>
      BY <2>1, <3>2, StoresUnchanged
    <3> QED  BY <1>6, <3>1, <3>2 DEF UploadFails
  <2>3. CASE Down
    BY <1>0, <2>2, <2>3, DownOK
  <2>4. CASE Goto("fetch")
    BY <2>1, <2>2, <2>4, BatchUnchanged DEF Goto
  <2> QED  BY <1>6, <2>3, <2>4 DEF UploadFails
<1>7. CASE Commit
  <2>1. pc = "commit" /\ committed' = position /\ UNCHANGED <<objects, clashed, second>>
    BY <1>7 DEF Commit
  <2>2. CommittedKept' /\ NamesArePast'
    BY <1>0, <2>1, CommitKeeps DEF NamesArePast
  <2>3. CASE Down
    BY <1>0, <2>2, <2>3, DownOK
  <2>4. CASE pc' = "fetch" /\ batch' = {} /\ position' = position
    <3>1. Collected'
      BY <1>0, <2>1, <2>4 DEF Collected, TypeOK
    <3> QED  BY <2>2, <2>4, <3>1 DEF Repeats, Uploaded
  <2> QED  BY <1>7, <2>3, <2>4 DEF Commit
<1>8. CASE CommitFails \/ (Stop /\ pc = "commit")
  <2>1. /\ pc = "commit" /\ committed' \in {committed, position}
        /\ UNCHANGED <<objects, clashed, second>> /\ batch # {}
    BY <1>0, <1>8 DEF CommitFails, Stop
  <2>2. CommittedKept' /\ NamesArePast'
    BY <1>0, <2>1, CommitKeeps DEF NamesArePast
  <2>3. CASE Down
    BY <1>0, <2>2, <2>3, DownOK
  <2>4. CASE pc' # "commit" /\ UNCHANGED <<position, batch, last>>
    <3>1. \A x \in objects' : SameName(x) => x.records \subseteq batch
      BY <1>0, <2>1 DEF Repeats
    <3> QED  BY <2>1, <2>2, <2>4, <3>1, BatchUnchanged
  <2> QED  BY <1>8, <2>3, <2>4 DEF CommitFails, Stop, Goto
<1>9. CASE Stop /\ pc # "commit"
  <2>1. UNCHANGED <<committed, objects, second, clashed>>
    BY <1>9 DEF Stop
  <2>2. CommittedKept' /\ NamesArePast'
    BY <2>1, StoresUnchanged
  <2>3. CASE Down
    BY <1>0, <2>2, <2>3, DownOK
  <2>4. CASE pc' = "upload" /\ UNCHANGED <<position, batch, last>>
    BY <2>1, <2>2, <2>4, BatchUnchanged
  <2> QED  BY <1>9, <2>3, <2>4 DEF Stop
<1>10. CASE Crash
  BY <1>0, <1>10, DownOK, StoresUnchanged DEF Crash
<1>11. CASE Restart
  <2>1. UNCHANGED <<committed, objects, second, clashed, position, batch, last>> /\ pc' = "fetch"
    BY <1>11 DEF Restart, Goto
  <2> QED  BY <2>1, StoresUnchanged, BatchUnchanged
<1> QED  BY <1>1, <1>2, <1>3, <1>4, <1>5, <1>6, <1>7, <1>8, <1>9, <1>10, <1>11 DEF Next

-----------------------------------------------------------------------------
(* The theorems.                                                           *)

\* The inductive invariant holds of every behaviour of the archiver.
THEOREM Invariance == Spec => []Inv
BY InitInv, InvStep, PTL DEF Spec

\* Type correctness; in particular no offset runs ahead of another.
THEOREM TypeCorrect == Spec => []TypeOK
<1>1. Inv => TypeOK  BY DEF Inv
<1> QED  BY <1>1, Invariance, PTL

\* Every record the archiver has committed is in S3, or was in one of two
\* batches of different partitions that got the same name.
THEOREM ArchiveIsComplete == Spec => []CommittedIsArchived
<1>1. Inv => CommittedIsArchived
  <2> SUFFICES ASSUME Inv, NEW q \in Partitions, NEW n \in 0..(committed[q] - 1)
               PROVE  Rec(q, n) \in Archived \cup clashed
    BY DEF CommittedIsArchived, Rec
  <2>1. committed[q] \in Nat
    BY DEF Inv, TypeOK
  <2>2. n \in Nat /\ n < committed[q]
    BY <2>1
  <2>3. Kept(Rec(q, n))
    BY <2>2 DEF Inv, CommittedKept
  <2> QED  BY <2>3 DEF Kept, Archived
<1> QED  BY <1>1, Invariance, PTL
=============================================================================
