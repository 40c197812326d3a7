------------------------------ MODULE RBuffer ------------------------------
(***************************************************************************)
(* The ring buffer of ioriot (datas/rbuffer.c), one access to its shared   *)
(* fields at a time.  One thread, the consumer, reads without a lock.      *)
(* Producers insert without a lock where there is a single one (the task   *)
(* queue of a replay thread, the queues of the generator) and under a      *)
(* mutex where there are several (rworker_s.task_buffer and                *)
(* rworker_s.rthread_buffer): a set of producers around one mutex covers   *)
(* both.                                                                   *)
(*                                                                         *)
(* The accesses happen in program order: the program is built without      *)
(* optimisation, and rbuffer.h refuses to build for anything but x86_64,   *)
(* where stores are seen in the order in which they were made.             *)
(***************************************************************************)
EXTENDS Integers, Sequences

CONSTANTS Size,        (* rbuffer_s.size: the number of slots              *)
          Producers,   (* the threads that insert                          *)
          Values,      (* the pointers they insert                         *)
          NULL,        (* the null pointer                                 *)
          NoOne        (* nobody holds the producers' mutex                *)

ASSUME SizeAssumption == Size \in Nat \ {0}
ASSUME ValuesAssumption == NULL \notin Values
ASSUME NoOneAssumption == NoOne \notin Producers

VARIABLES ring,        (* rbuffer_s.ring                                   *)
          write_pos,   (* rbuffer_s.write_pos                              *)
          read_pos,    (* rbuffer_s.read_pos                               *)
          mutex,       (* the producer inside rbuffer_insert, or NoOne     *)
          ppc,         (* ppc[p]: where producer p is                      *)
          data,        (* data[p]: the argument of p's rbuffer_insert      *)
          cpc,         (* where the consumer is                            *)
          taken,       (* the local variable data of rbuffer_get_next      *)
          out          (* what the consumer's last call returned           *)

pvars == <<mutex, ppc, data>>
cvars == <<cpc, taken, out>>
vars == <<ring, write_pos, read_pos, pvars, cvars>>

Slots == 0 .. Size - 1

(* The slot after i.                                                       *)
After(i) == (i + 1) % Size

-----------------------------------------------------------------------------
(* rbuffer_new: every slot is empty and the write position is just after   *)
(* the read position.                                                      *)
Init ==
  /\ ring = [i \in Slots |-> NULL]
  /\ write_pos = 0
  /\ read_pos = Size - 1
  /\ mutex = NoOne
  /\ ppc = [p \in Producers |-> "idle"]
  /\ data = [p \in Producers |-> NULL]
  /\ cpc = "idle"
  /\ taken = NULL
  /\ out = NULL

-----------------------------------------------------------------------------
(* The producers.                                                          *)

(* Faulty variant: a producer that does not wait for the mutex.            *)
CallInsertUnlocked(p, v) ==
  /\ ppc[p] = "idle"
  /\ mutex' = p
  /\ data' = [data EXCEPT ![p] = v]
  /\ ppc' = [ppc EXCEPT ![p] = "check"]
  /\ UNCHANGED <<ring, write_pos, read_pos, cvars>>

(* A producer takes the mutex and calls rbuffer_insert(r, v).              *)
CallInsert(p, v) ==
  /\ ppc[p] = "idle"
  /\ mutex = NoOne
  /\ mutex' = p
  /\ data' = [data EXCEPT ![p] = v]
  /\ ppc' = [ppc EXCEPT ![p] = "check"]
  /\ UNCHANGED <<ring, write_pos, read_pos, cvars>>

(* The return from rbuffer_insert, and the release of the mutex.           *)
ReturnInsert(p) ==
  /\ mutex' = NoOne
  /\ data' = [data EXCEPT ![p] = NULL]
  /\ ppc' = [ppc EXCEPT ![p] = "idle"]

(* Faulty variant: full one slot too early.                                *)
InsertFullEarly(p) ==
  /\ ppc[p] = "check"
  /\ write_pos = read_pos \/ After(write_pos) = read_pos
  /\ ReturnInsert(p)
  /\ UNCHANGED <<ring, write_pos, read_pos, cvars>>

(* The positions meet: the ring is full and the call returns false.        *)
InsertFull(p) ==
  /\ ppc[p] = "check"
  /\ write_pos = read_pos
  /\ ReturnInsert(p)
  /\ UNCHANGED <<ring, write_pos, read_pos, cvars>>

(* Faulty variant: the test for a full ring is missing.                    *)
InsertAlways(p) ==
  /\ ppc[p] = "check"
  /\ ppc' = [ppc EXCEPT ![p] = "store"]
  /\ UNCHANGED <<ring, write_pos, read_pos, mutex, data, cvars>>

InsertNotFull(p) ==
  /\ ppc[p] = "check"
  /\ write_pos # read_pos
  /\ ppc' = [ppc EXCEPT ![p] = "store"]
  /\ UNCHANGED <<ring, write_pos, read_pos, mutex, data, cvars>>

(* r->ring[r->write_pos] = data                                            *)
StoreSlot(p) ==
  /\ ppc[p] = "store"
  /\ ring' = [ring EXCEPT ![write_pos] = data[p]]
  /\ ppc' = [ppc EXCEPT ![p] = "publish"]
  /\ UNCHANGED <<write_pos, read_pos, mutex, data, cvars>>

(* Faulty variant: a write position that does not wrap.                    *)
PublishNoWrap(p) ==
  /\ ppc[p] = "publish"
  /\ write_pos' = write_pos + 1
  /\ ReturnInsert(p)
  /\ UNCHANGED <<ring, read_pos, cvars>>

(* r->write_pos = (r->write_pos+1) % r->size, and the call returns true.   *)
PublishWrite(p) ==
  /\ ppc[p] = "publish"
  /\ write_pos' = After(write_pos)
  /\ ReturnInsert(p)
  /\ UNCHANGED <<ring, read_pos, cvars>>

-----------------------------------------------------------------------------
(* The consumer.                                                           *)

(* rbuffer_has_next.                                                       *)
HasNext == After(read_pos) # write_pos

(* rbuffer_get_next finds the ring empty and returns NULL.                 *)
GetEmpty ==
  /\ cpc = "idle"
  /\ ~HasNext
  /\ out' = NULL
  /\ UNCHANGED <<ring, write_pos, read_pos, pvars, cpc, taken>>

GetNotEmpty ==
  /\ cpc = "idle"
  /\ HasNext
  /\ cpc' = "load"
  /\ UNCHANGED <<ring, write_pos, read_pos, pvars, taken, out>>

(* void *data = r->ring[read_pos]                                          *)
LoadSlot ==
  /\ cpc = "load"
  /\ taken' = ring[After(read_pos)]
  /\ cpc' = "clear"
  /\ UNCHANGED <<ring, write_pos, read_pos, pvars, out>>

(* r->ring[read_pos] = NULL                                                *)
ClearSlot ==
  /\ cpc = "clear"
  /\ ring' = [ring EXCEPT ![After(read_pos)] = NULL]
  /\ cpc' = "publish"
  /\ UNCHANGED <<write_pos, read_pos, pvars, taken, out>>

(* r->read_pos = read_pos, and the call returns what it loaded.            *)
PublishRead ==
  /\ cpc = "publish"
  /\ read_pos' = After(read_pos)
  /\ out' = taken
  /\ taken' = NULL
  /\ cpc' = "idle"
  /\ UNCHANGED <<ring, write_pos, pvars>>

-----------------------------------------------------------------------------
Produce(p) ==
  \/ \E v \in Values : CallInsert(p, v)
  \/ InsertFull(p)
  \/ InsertNotFull(p)
  \/ StoreSlot(p)
  \/ PublishWrite(p)

Consume == GetEmpty \/ GetNotEmpty \/ LoadSlot \/ ClearSlot \/ PublishRead

Next == Consume \/ \E p \in Producers : Produce(p)

Spec == Init /\ [][Next]_vars

-----------------------------------------------------------------------------
(* The range of every variable.                                            *)
TypeOK ==
  /\ ring \in [Slots -> Values \cup {NULL}]
  /\ write_pos \in Slots
  /\ read_pos \in Slots
  /\ mutex \in Producers \cup {NoOne}
  /\ ppc \in [Producers -> {"idle", "check", "store", "publish"}]
  /\ data \in [Producers -> Values \cup {NULL}]
  /\ cpc \in {"idle", "load", "clear", "publish"}
  /\ taken \in Values \cup {NULL}
  /\ out \in Values \cup {NULL}

(* The slot d places after the slot i, for d up to Size.                   *)
Place(i, d) == IF i + d < Size THEN i + d ELSE i + d - Size

(* How many pointers the ring holds: the slots strictly between the read   *)
(* position and the write position.                                        *)
Count == IF write_pos > read_pos THEN write_pos - read_pos - 1
                                 ELSE write_pos - read_pos - 1 + Size

(* The queue that the ring stands for.  Between the consumer's clearing of *)
(* a slot and its publishing of the read position, the oldest pointer is   *)
(* in the consumer's hands only.                                           *)
Queue ==
  [d \in 1 .. Count |->
     IF d = 1 /\ cpc = "publish" THEN taken ELSE ring[Place(read_pos, d)]]

Abstract == INSTANCE BoundedQueue
              WITH Capacity <- Size - 1, queue <- Queue, offer <- data

(* The unlocked ring is a linearizable bounded FIFO queue: each call takes *)
(* effect at one instant, and does what BoundedQueue says.  rbuffer.h      *)
(* promises this of one producer and one consumer.                         *)
ImplementsQueue == Abstract!Spec

(* No insert overwrites a pointer that was not consumed, and no get reads  *)
(* a slot that is not yet stored to: the two sides never work on the same  *)
(* slot (rbuffer.c:45 against rbuffer.c:82-83).                            *)
SidesApart ==
  /\ \A p \in Producers :
       ppc[p] = "store" => ring[write_pos] = NULL
  /\ cpc \in {"load", "clear"} => ring[After(read_pos)] # NULL
  /\ \A p \in Producers :
       ppc[p] \in {"store", "publish"} /\ cpc # "idle"
          => write_pos # After(read_pos)

(* Once rbuffer_has_next told the consumer that there is a pointer, it     *)
(* stays there until the consumer itself takes it, whatever the producers  *)
(* do.  rthread_pthread_start leaves its idle loop on that answer.         *)
HasNextStable ==
  [][HasNext /\ ~HasNext' => cpc = "publish" /\ cpc' = "idle"]_vars
=============================================================================
