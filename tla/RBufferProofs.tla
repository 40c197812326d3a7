--------------------------- MODULE RBufferProofs ---------------------------
(***************************************************************************)
(* The ring buffer is correct for every size, every set of producers and   *)
(* every set of pointers: its two sides never work on the same slot, and   *)
(* it implements the bounded FIFO queue of BoundedQueue.                   *)
(***************************************************************************)
EXTENDS RBuffer, SequenceTheorems, TLAPS

(* The slots strictly between the read and the write position.             *)
InUse(i) ==
  IF read_pos < write_pos THEN read_pos < i /\ i < write_pos
                          ELSE read_pos < i \/ i < write_pos

(* The mutex is held by the producer that is inside rbuffer_insert, which  *)
(* is also the only one that has a pointer to insert.                      *)
MutexInv ==
  \A p \in Producers :
    /\ ppc[p] # "idle" <=> mutex = p
    /\ ppc[p] # "idle" <=> data[p] # NULL

(* The positions meet only when nobody is between the test and the         *)
(* publication, on either side.                                            *)
PositionInv ==
  /\ \A p \in Producers : ppc[p] \in {"store", "publish"} => write_pos # read_pos
  /\ cpc # "idle" => After(read_pos) # write_pos

(* A slot holds a pointer exactly when it is in use, but for the slot that *)
(* was stored to and is not yet published and the slot that was cleared    *)
(* and whose reading is not yet published.                                 *)
SlotInv ==
  \A i \in Slots :
    ring[i] # NULL <=>
      \/ InUse(i) /\ ~(cpc = "publish" /\ i = After(read_pos))
      \/ i = write_pos /\ \E p \in Producers : ppc[p] = "publish"

(* What is on its way is what will be published.                           *)
TransitInv ==
  /\ \A p \in Producers : ppc[p] = "publish" => ring[write_pos] = data[p]
  /\ cpc = "clear" => taken = ring[After(read_pos)]
  /\ cpc = "publish" => taken # NULL

IInv == TypeOK /\ MutexInv /\ PositionInv /\ SlotInv /\ TransitInv

-----------------------------------------------------------------------------
(* The position arithmetic without the modulo.                             *)
LEMMA AfterIs ==
  ASSUME NEW i \in Slots
  PROVE  /\ After(i) \in Slots
         /\ After(i) = IF i + 1 = Size THEN 0 ELSE i + 1
  BY SizeAssumption DEF After, Slots

LEMMA AfterInjective ==
  ASSUME NEW i \in Slots, NEW j \in Slots, After(i) = After(j)
  PROVE  i = j
  BY SizeAssumption, AfterIs DEF Slots

THEOREM InitIInv == Init => IInv
<1> SUFFICES ASSUME Init PROVE IInv
  OBVIOUS
<1> USE SizeAssumption
<1>1. TypeOK
  BY DEF Init, TypeOK, Slots
<1>2. MutexInv
  BY NoOneAssumption DEF Init, MutexInv
<1>3. PositionInv
  BY DEF Init, PositionInv
<1>4. SlotInv
  BY DEF Init, SlotInv, InUse, Slots
<1>5. TransitInv
  BY DEF Init, TransitInv
<1> QED
  BY <1>1, <1>2, <1>3, <1>4, <1>5 DEF IInv

(* Every step keeps the invariant, one action at a time.                   *)
THEOREM NextIInv == IInv /\ [Next]_vars => IInv'
<1> SUFFICES ASSUME IInv, [Next]_vars
             PROVE  IInv'
  OBVIOUS
<1> USE SizeAssumption, NoOneAssumption, ValuesAssumption
<1>a. TypeOK /\ MutexInv /\ PositionInv /\ SlotInv /\ TransitInv
  BY DEF IInv
<1>b. /\ write_pos \in Slots /\ read_pos \in Slots
      /\ After(write_pos) \in Slots /\ After(read_pos) \in Slots
      /\ After(write_pos) = IF write_pos + 1 = Size THEN 0 ELSE write_pos + 1
      /\ After(read_pos) = IF read_pos + 1 = Size THEN 0 ELSE read_pos + 1
  BY <1>a, AfterIs DEF TypeOK
<1>1. ASSUME NEW p \in Producers, NEW v \in Values, CallInsert(p, v)
      PROVE  IInv'
  <2> USE <1>1, <1>a DEF CallInsert, cvars
  <2>1. TypeOK'
    BY DEF TypeOK
  <2>2. MutexInv'
    BY DEF MutexInv, TypeOK
  <2>3. PositionInv'
    BY DEF PositionInv, TypeOK, After
  <2>4. SlotInv'
    BY DEF SlotInv, InUse, TypeOK, After
  <2>5. TransitInv'
    BY DEF TransitInv, TypeOK, After
  <2> QED
    BY <2>1, <2>2, <2>3, <2>4, <2>5 DEF IInv
<1>2. ASSUME NEW p \in Producers, InsertFull(p)
      PROVE  IInv'
  <2> USE <1>2, <1>a DEF InsertFull, ReturnInsert, cvars
  <2>1. TypeOK'
    BY DEF TypeOK
  <2>2. MutexInv'
    BY DEF MutexInv, TypeOK
  <2>3. PositionInv'
    BY DEF PositionInv, TypeOK, After
  <2>4. SlotInv'
    BY DEF SlotInv, InUse, TypeOK, After
  <2>5. TransitInv'
    BY DEF TransitInv, TypeOK, After
  <2> QED
    BY <2>1, <2>2, <2>3, <2>4, <2>5 DEF IInv
<1>3. ASSUME NEW p \in Producers, InsertNotFull(p)
      PROVE  IInv'
  <2> USE <1>3, <1>a DEF InsertNotFull, cvars
  <2>1. TypeOK'
    BY DEF TypeOK
  <2>2. MutexInv'
    BY DEF MutexInv, TypeOK
  <2>3. PositionInv'
    BY DEF PositionInv, TypeOK, After
  <2>4. SlotInv'
    BY DEF SlotInv, InUse, TypeOK, After
  <2>5. TransitInv'
    BY DEF TransitInv, TypeOK, After
  <2> QED
    BY <2>1, <2>2, <2>3, <2>4, <2>5 DEF IInv
<1>4. ASSUME NEW p \in Producers, StoreSlot(p)
      PROVE  IInv'
  <2> USE <1>4, <1>a, <1>b DEF StoreSlot, cvars
  <2>1. TypeOK'
    BY DEF TypeOK
  <2>2. MutexInv'
    BY DEF MutexInv, TypeOK
  <2>3. PositionInv'
    BY DEF PositionInv, TypeOK, After
  <2>4. SlotInv'
    <3>1. data[p] # NULL /\ ppc'[p] = "publish"
      BY DEF MutexInv, TypeOK
    <3>2. ~InUse(write_pos)
      BY DEF InUse, Slots
    <3>3. \A q \in Producers : ppc[q] # "publish"
      BY DEF MutexInv
    <3>4. \A i \in Slots : InUse(i)' = InUse(i)
      BY DEF InUse
    <3>5. After(read_pos)' = After(read_pos)
      BY DEF After
    <3> QED
      BY <3>1, <3>2, <3>3, <3>4, <3>5 DEF SlotInv, TypeOK
  <2>5. TransitInv'
    BY DEF TransitInv, PositionInv, MutexInv, TypeOK, After
  <2> QED
    BY <2>1, <2>2, <2>3, <2>4, <2>5 DEF IInv
<1>5. ASSUME NEW p \in Producers, PublishWrite(p)
      PROVE  IInv'
  <2> USE <1>5, <1>a, <1>b DEF PublishWrite, ReturnInsert, cvars
  <2>1. TypeOK'
    BY DEF TypeOK
  <2>2. MutexInv'
    BY DEF MutexInv, TypeOK
  <2>3. PositionInv'
    BY AfterInjective DEF PositionInv, MutexInv, TypeOK, After
  <2>4. SlotInv'
    <3>1. \A q \in Producers : ppc'[q] # "publish"
      BY DEF MutexInv, TypeOK
    <3>2. \A i \in Slots : InUse(i)' <=> InUse(i) \/ i = write_pos
      BY DEF InUse, PositionInv, Slots
    <3>3. After(read_pos)' = After(read_pos)
      BY DEF After
    <3>4. cpc = "publish" => After(read_pos) # write_pos
      BY DEF PositionInv
    <3> QED
      BY <3>1, <3>2, <3>3, <3>4 DEF SlotInv, TypeOK
  <2>5. TransitInv'
    BY DEF TransitInv, MutexInv, TypeOK, After
  <2> QED
    BY <2>1, <2>2, <2>3, <2>4, <2>5 DEF IInv
<1>6. CASE GetEmpty \/ GetNotEmpty
  <2> USE <1>6, <1>a, <1>b DEF GetEmpty, GetNotEmpty, pvars, HasNext
  <2>1. TypeOK'
    BY DEF TypeOK
  <2>2. MutexInv'
    BY DEF MutexInv
  <2>3. PositionInv'
    BY DEF PositionInv, After
  <2>4. SlotInv'
    BY DEF SlotInv, InUse, After
  <2>5. TransitInv'
    BY DEF TransitInv, After
  <2> QED
    BY <2>1, <2>2, <2>3, <2>4, <2>5 DEF IInv
<1>7. CASE LoadSlot
  <2> USE <1>7, <1>a, <1>b DEF LoadSlot, pvars
  <2>1. TypeOK'
    BY DEF TypeOK
  <2>2. MutexInv'
    BY DEF MutexInv
  <2>3. PositionInv'
    BY DEF PositionInv, After
  <2>4. SlotInv'
    BY DEF SlotInv, InUse, After
  <2>5. TransitInv'
    BY DEF TransitInv, After
  <2> QED
    BY <2>1, <2>2, <2>3, <2>4, <2>5 DEF IInv
<1>8. CASE ClearSlot
  <2> USE <1>8, <1>a, <1>b DEF ClearSlot, pvars
  <2>1. TypeOK'
    BY DEF TypeOK
  <2>2. MutexInv'
    BY DEF MutexInv
  <2>3. PositionInv'
    BY DEF PositionInv, After
  <2>a. After(read_pos)' = After(read_pos) /\ \A i \in Slots : InUse(i)' = InUse(i)
    BY DEF InUse, After
  <2>b. InUse(After(read_pos)) /\ After(read_pos) # write_pos
    BY DEF PositionInv, InUse, Slots
  <2>4. SlotInv'
    BY <2>a, <2>b DEF SlotInv, TypeOK
  <2>5. TransitInv'
    BY <2>a, <2>b DEF TransitInv, SlotInv, TypeOK
  <2> QED
    BY <2>1, <2>2, <2>3, <2>4, <2>5 DEF IInv
<1>9. CASE PublishRead
  <2> USE <1>9, <1>a, <1>b DEF PublishRead, pvars
  <2>1. TypeOK'
    BY DEF TypeOK
  <2>2. MutexInv'
    BY DEF MutexInv
  <2>3. PositionInv'
    BY DEF PositionInv
  <2>4. SlotInv'
    <3>1. \A i \in Slots : InUse(i)' <=> InUse(i) /\ i # After(read_pos)
      BY DEF InUse, PositionInv, Slots
    <3> QED
      BY <3>1 DEF SlotInv, PositionInv
  <2>5. TransitInv'
    BY DEF TransitInv
  <2> QED
    BY <2>1, <2>2, <2>3, <2>4, <2>5 DEF IInv
<1>10. CASE UNCHANGED vars
  BY <1>10, <1>a DEF IInv, vars, pvars, cvars, TypeOK, MutexInv, PositionInv,
                     SlotInv, TransitInv, InUse, After
<1> QED
  BY <1>1, <1>2, <1>3, <1>4, <1>5, <1>6, <1>7, <1>8, <1>9, <1>10
  DEF Next, Consume, Produce

THEOREM Invariance == Spec => []IInv
  BY InitIInv, NextIInv, PTL DEF Spec

(* Type correctness, for every size of the ring.                           *)
THEOREM TypeCorrect == Spec => []TypeOK
  BY Invariance, PTL DEF IInv

(* The two sides never work on the same slot.                              *)
THEOREM SidesStayApart == Spec => []SidesApart
<1>1. IInv => SidesApart
  <2> SUFFICES ASSUME IInv PROVE SidesApart
    OBVIOUS
  <2> USE SizeAssumption DEF IInv
  <2>a. /\ write_pos \in Slots /\ read_pos \in Slots
        /\ After(read_pos) \in Slots
        /\ After(read_pos) = IF read_pos + 1 = Size THEN 0 ELSE read_pos + 1
    BY AfterIs DEF TypeOK
  <2>1. ASSUME NEW p \in Producers, ppc[p] = "store"
        PROVE  ring[write_pos] = NULL
    <3>1. \A q \in Producers : ppc[q] # "publish"
      BY <2>1 DEF MutexInv
    <3>2. ~InUse(write_pos)
      BY <2>1, <2>a DEF InUse, PositionInv, Slots
    <3> QED
      BY <3>1, <3>2, <2>a DEF SlotInv
  <2>2. ASSUME cpc \in {"load", "clear"}
        PROVE  ring[After(read_pos)] # NULL
    <3>1. InUse(After(read_pos))
      BY <2>2, <2>a DEF InUse, PositionInv, Slots
    <3> QED
      BY <2>2, <3>1, <2>a DEF SlotInv
  <2> QED
    BY <2>1, <2>2 DEF SidesApart, PositionInv
<1> QED
  BY <1>1, Invariance, PTL

(* rbuffer_has_next never becomes false but by the consumer's own reading. *)
THEOREM HasNextStays == Spec => HasNextStable
<1>1. IInv /\ IInv' /\ [Next]_vars
        => [HasNext /\ ~HasNext' => cpc = "publish" /\ cpc' = "idle"]_vars
  <2> SUFFICES ASSUME IInv, [Next]_vars, HasNext, ~HasNext'
               PROVE  cpc = "publish" /\ cpc' = "idle"
    OBVIOUS
  <2>1. CASE PublishRead
    BY <2>1 DEF PublishRead
  <2>2. CASE GetEmpty \/ GetNotEmpty \/ LoadSlot \/ ClearSlot \/ UNCHANGED vars
    BY <2>2 DEF GetEmpty, GetNotEmpty, LoadSlot, ClearSlot, vars, HasNext, After
  <2>3. ASSUME NEW p \in Producers, PublishWrite(p)
        PROVE  FALSE
    BY <2>3, AfterInjective
    DEF PublishWrite, HasNext, After, IInv, PositionInv, TypeOK
  <2>4. ASSUME NEW p \in Producers,
               \/ \E v \in Values : CallInsert(p, v)
               \/ InsertFull(p) \/ InsertNotFull(p) \/ StoreSlot(p)
        PROVE  FALSE
    BY <2>4 DEF CallInsert, InsertFull, InsertNotFull, StoreSlot, HasNext, After
  <2> QED
    BY <2>1, <2>2, <2>3, <2>4 DEF Next, Consume, Produce
<1> QED
  BY <1>1, Invariance, PTL DEF Spec, HasNextStable

-----------------------------------------------------------------------------
(* The refinement: what the ring's positions say of the abstract queue.    *)

QueueTyped ==
  /\ Count \in 0 .. Size - 1
  /\ Queue \in Seq(Values \cup {NULL})
  /\ Len(Queue) = Count

LEMMA QueueIsSequence == IInv => QueueTyped
<1> SUFFICES ASSUME IInv PROVE QueueTyped
  OBVIOUS
<1> USE SizeAssumption DEF IInv, TypeOK, Slots
<1>1. Count \in 0 .. Size - 1
  BY DEF Count
<1>2. \A d \in 1 .. Count : Place(read_pos, d) \in Slots
  BY <1>1 DEF Place
<1>3. Queue \in [1 .. Count -> Values \cup {NULL}]
  BY <1>1, <1>2 DEF Queue
<1> QED
  BY <1>1, <1>3 DEF QueueTyped

LEMMA QueueIsSequenceNext == IInv' => QueueTyped'
  BY QueueIsSequence, PTL

(* The places of a full or partly filled ring are different slots, none of *)
(* them the write position.                                                *)
LEMMA PlacesDiffer ==
  ASSUME IInv
  PROVE  /\ \A d \in 1 .. Count : Place(read_pos, d) \in Slots
         /\ \A d \in 1 .. Count : Place(read_pos, d) # write_pos
         /\ \A d, e \in 1 .. Count :
              Place(read_pos, d) = Place(read_pos, e) => d = e
         /\ Count > 0 => Place(read_pos, 1) = After(read_pos)
         /\ Count < Size - 1 => Place(read_pos, Count + 1) = write_pos
<1>1. /\ Size \in Nat /\ read_pos \in 0 .. Size - 1 /\ write_pos \in 0 .. Size - 1
      /\ After(read_pos) = IF read_pos + 1 = Size THEN 0 ELSE read_pos + 1
  BY SizeAssumption, AfterIs DEF IInv, TypeOK, Slots
<1>2. Count \in 0 .. Size - 1
  BY <1>1 DEF Count
<1>3. \A d \in 1 .. Count : Place(read_pos, d) \in Slots
  BY <1>1, <1>2 DEF Place, Slots
<1>4. \A d \in 1 .. Count : Place(read_pos, d) # write_pos
  BY <1>1 DEF Place, Count
<1>5. \A d, e \in 1 .. Count : Place(read_pos, d) = Place(read_pos, e) => d = e
  BY <1>1, <1>2 DEF Place
<1>6. Count > 0 => Place(read_pos, 1) = After(read_pos)
  BY <1>1 DEF Place
<1>7. Count < Size - 1 => Place(read_pos, Count + 1) = write_pos
  BY <1>1 DEF Place, Count
<1> QED
  BY <1>3, <1>4, <1>5, <1>6, <1>7

LEMMA EmptyAndFull ==
  ASSUME IInv
  PROVE  /\ Count = 0 <=> ~HasNext
         /\ Count = Size - 1 <=> write_pos = read_pos
  BY SMTT(30), SizeAssumption, AfterIs DEF IInv, TypeOK, Slots, HasNext, Count

(* Publishing the write position appends the producer's pointer.           *)
LEMMA PublishWriteIsPut ==
  ASSUME IInv, IInv', NEW p \in Producers, PublishWrite(p)
  PROVE  Abstract!Put(p)
<1> USE SizeAssumption
<1>a. QueueTyped /\ QueueTyped'
  BY QueueIsSequence, QueueIsSequenceNext
<1>1. /\ data[p] # NULL /\ data' = [data EXCEPT ![p] = NULL]
      /\ write_pos # read_pos /\ ring[write_pos] = data[p]
      /\ data[p] \in Values \cup {NULL}
  BY DEF IInv, MutexInv, PositionInv, TransitInv, PublishWrite, ReturnInsert,
         TypeOK
<1>2. Count < Size - 1
  BY <1>1, <1>a, EmptyAndFull DEF QueueTyped
<1>3. Count' = Count + 1
  <2>1. /\ write_pos \in Slots /\ read_pos \in Slots
        /\ write_pos' = IF write_pos + 1 = Size THEN 0 ELSE write_pos + 1
        /\ read_pos' = read_pos
    BY AfterIs DEF PublishWrite, IInv, TypeOK
  <2> QED
    BY <1>1, <2>1 DEF Slots, Count
<1>4. /\ Place(read_pos, Count + 1) = write_pos
      /\ \A d : Place(read_pos, d)' = Place(read_pos, d)
  BY <1>2, PlacesDiffer DEF PublishWrite, Place
<1>5. cpc = "publish" => Count > 0
  BY <1>a, EmptyAndFull DEF QueueTyped, IInv, PositionInv, HasNext
<1>6. Queue' = Append(Queue, data[p])
  <2>1. /\ Queue \in Seq(Values \cup {NULL}) /\ Len(Queue) = Count
        /\ Queue' \in Seq(Values \cup {NULL}) /\ Len(Queue') = Count + 1
    BY <1>3, <1>a DEF QueueTyped
  <2>2. \A d \in 1 .. Count + 1 :
           Queue'[d] = IF d = 1 /\ cpc = "publish" THEN taken
                                                   ELSE ring[Place(read_pos, d)]
    BY <1>3, <1>4 DEF Queue, PublishWrite, cvars
  <2>3. \A d \in 1 .. Count :
           Queue[d] = IF d = 1 /\ cpc = "publish" THEN taken
                                                  ELSE ring[Place(read_pos, d)]
    BY DEF Queue
  <2>4. \A d \in 1 .. Count + 1 : Queue'[d] = Append(Queue, data[p])[d]
    BY <1>1, <1>4, <1>5, <2>1, <2>2, <2>3, AppendProperties
  <2> QED
    BY <2>1, <2>4, <1>1, AppendProperties, SeqEqual
<1> QED
  BY <1>1, <1>2, <1>6, <1>a DEF QueueTyped, Abstract!Put, PublishWrite, cvars

(* Publishing the read position removes the head and returns it.           *)
LEMMA PublishReadIsTake ==
  ASSUME IInv, IInv', PublishRead
  PROVE  Abstract!Take
<1> USE SizeAssumption
<1>a. QueueTyped /\ QueueTyped'
  BY QueueIsSequence, QueueIsSequenceNext
<1>1. Count > 0
  BY <1>a, EmptyAndFull DEF QueueTyped, IInv, PositionInv, PublishRead, HasNext
<1>2. /\ write_pos \in Slots /\ read_pos \in Slots /\ write_pos' = write_pos
      /\ read_pos' = IF read_pos + 1 = Size THEN 0 ELSE read_pos + 1
      /\ After(read_pos) # write_pos
  BY AfterIs DEF PublishRead, IInv, TypeOK, PositionInv
<1>3. Count' = Count - 1
  BY <1>2, AfterIs DEF Slots, Count
<1>4. \A d \in 1 .. Count - 1 : Place(read_pos, d)' = Place(read_pos, d + 1)
  BY <1>2, <1>a DEF Place, Slots, QueueTyped
<1>5. Queue # << >> /\ Head(Queue) = taken
  BY <1>1, <1>a DEF Queue, QueueTyped, PublishRead
<1>6. Queue' = Tail(Queue)
  <2>1. /\ Tail(Queue) \in Seq(Values \cup {NULL})
        /\ Len(Tail(Queue)) = Count - 1
        /\ \A d \in 1 .. Count - 1 : Tail(Queue)[d] = Queue[d + 1]
    BY <1>5, <1>a, HeadTailProperties DEF QueueTyped
  <2>2. /\ Queue' \in Seq(Values \cup {NULL})
        /\ Len(Queue') = Count - 1
    BY <1>3, <1>a DEF QueueTyped
  <2>3. \A d \in 1 .. Count - 1 : Queue'[d] = ring[Place(read_pos, d + 1)]
    BY <1>3, <1>4 DEF Queue, PublishRead
  <2>4. \A d \in 1 .. Count - 1 : Queue[d + 1] = ring[Place(read_pos, d + 1)]
    BY <1>a DEF Queue, QueueTyped
  <2>5. \A d \in 1 .. Count - 1 : Queue'[d] = Tail(Queue)[d]
    BY <2>1, <2>3, <2>4
  <2> QED
    BY <2>1, <2>2, <2>5, SeqEqual
<1> QED
  BY <1>5, <1>6 DEF Abstract!Take, PublishRead, pvars

(* No other step changes the abstract queue.                               *)
LEMMA QueueUnchanged ==
  ASSUME IInv, IInv', [Next]_vars, ~PublishRead,
         \A p \in Producers : ~PublishWrite(p)
  PROVE  Queue' = Queue
<1> USE SizeAssumption
<1>a. write_pos' = write_pos /\ read_pos' = read_pos
  BY DEF Next, Consume, Produce, CallInsert, InsertFull, InsertNotFull, StoreSlot,
         GetEmpty, GetNotEmpty, LoadSlot, ClearSlot, vars
<1>b. Count' = Count /\ \A d : Place(read_pos, d)' = Place(read_pos, d)
  BY <1>a DEF Count, Place
<1>c. QueueTyped
  BY QueueIsSequence
<1>1. ASSUME NEW p \in Producers, StoreSlot(p)
      PROVE  Queue' = Queue
  <2>1. \A d \in 1 .. Count : Place(read_pos, d) \in Slots
                              /\ Place(read_pos, d) # write_pos
    BY PlacesDiffer
  <2> QED
    BY <1>1, <1>b, <2>1 DEF StoreSlot, cvars, Queue, IInv, TypeOK
<1>2. CASE ClearSlot
  <2>1. /\ \A d \in 1 .. Count : Place(read_pos, d) \in Slots
        /\ \A d \in 1 .. Count : d # 1 => Place(read_pos, d) # After(read_pos)
        /\ Count > 0 => Place(read_pos, 1) = After(read_pos)
    <3>1. Count > 0 => 1 \in 1 .. Count
      BY <1>c DEF QueueTyped
    <3> QED
      BY <3>1, <1>c, PlacesDiffer DEF QueueTyped
  <2>2. taken = ring[After(read_pos)] /\ taken' = taken
    BY <1>2 DEF ClearSlot, IInv, TransitInv
  <2>3. \A d \in 1 .. Count : d # 1 =>
           ring'[Place(read_pos, d)] = ring[Place(read_pos, d)]
    BY <1>2, <2>1 DEF ClearSlot, IInv, TypeOK
  <2>4. \A d \in 1 .. Count :
           (IF d = 1 /\ cpc' = "publish" THEN taken' ELSE ring'[Place(read_pos, d)])
             = (IF d = 1 /\ cpc = "publish" THEN taken ELSE ring[Place(read_pos, d)])
    BY <1>2, <2>1, <2>2, <2>3, <1>c DEF ClearSlot, QueueTyped
  <2> QED
    BY <1>b, <2>4 DEF Queue
<1>3. CASE LoadSlot
  BY <1>3, <1>b DEF LoadSlot, Queue
<1>4. CASE GetEmpty \/ GetNotEmpty \/ UNCHANGED vars
  BY <1>4, <1>b DEF GetEmpty, GetNotEmpty, vars, cvars, Queue
<1>5. ASSUME NEW p \in Producers,
             \/ \E v \in Values : CallInsert(p, v)
             \/ InsertFull(p) \/ InsertNotFull(p)
      PROVE  Queue' = Queue
  BY <1>5, <1>b DEF CallInsert, InsertFull, InsertNotFull, cvars, Queue
<1> QED
  BY <1>1, <1>2, <1>3, <1>4, <1>5 DEF Next, Consume, Produce

(* The ring buffer implements the bounded FIFO queue, for every size.      *)
THEOREM RingImplementsQueue == Spec => ImplementsQueue
<1>1. Init => Abstract!Init
  <2> SUFFICES ASSUME Init PROVE Abstract!Init
    OBVIOUS
  <2>1. IInv /\ Count = 0
    BY InitIInv, SizeAssumption DEF Init, Count
  <2>2. Queue = << >>
    BY <2>1, QueueIsSequence DEF QueueTyped
  <2> QED
    BY <2>2 DEF Init, Abstract!Init
<1>2. IInv /\ IInv' /\ [Next]_vars => [Abstract!Next]_(Abstract!vars)
  <2> SUFFICES ASSUME IInv, IInv', [Next]_vars
               PROVE  [Abstract!Next]_(Abstract!vars)
    OBVIOUS
  <2>a. QueueTyped
    BY QueueIsSequence
  <2>1. ASSUME NEW p \in Producers, PublishWrite(p)
        PROVE  Abstract!Next
    BY <2>1, PublishWriteIsPut DEF Abstract!Next
  <2>2. CASE PublishRead
    BY <2>2, PublishReadIsTake DEF Abstract!Next
  <2>3. CASE ~PublishRead /\ \A p \in Producers : ~PublishWrite(p)
    <3>a. Queue' = Queue
      BY <2>3, QueueUnchanged
    <3>1. ASSUME NEW p \in Producers, NEW v \in Values, CallInsert(p, v)
          PROVE  Abstract!Offer(p, v)
      BY <3>1, <3>a DEF CallInsert, cvars, Abstract!Offer, IInv, MutexInv
    <3>2. ASSUME NEW p \in Producers, InsertFull(p)
          PROVE  Abstract!Refuse(p)
      BY <3>2, <3>a, <2>a, EmptyAndFull
      DEF InsertFull, ReturnInsert, cvars, Abstract!Refuse, IInv, MutexInv, QueueTyped
    <3>3. ASSUME GetEmpty
          PROVE  Abstract!TakeNothing
      BY <3>3, <3>a, <2>a, EmptyAndFull
      DEF GetEmpty, pvars, Abstract!TakeNothing, QueueTyped
    <3>4. CASE \/ \E p \in Producers : InsertNotFull(p) \/ StoreSlot(p)
               \/ GetNotEmpty \/ LoadSlot \/ ClearSlot
               \/ UNCHANGED vars
      BY <3>4, <3>a DEF InsertNotFull, StoreSlot, GetNotEmpty, LoadSlot, ClearSlot,
                        vars, pvars, cvars, Abstract!vars
    <3> QED
      BY <2>3, <3>1, <3>2, <3>3, <3>4 DEF Next, Consume, Produce, Abstract!Next
  <2> QED
    BY <2>1, <2>2, <2>3
<1> QED
  BY <1>1, <1>2, Invariance, PTL DEF Spec, ImplementsQueue, Abstract!Spec
=============================================================================
