---------------------------- MODULE BoundedQueue ----------------------------
(***************************************************************************)
(* What ioriot's ring buffer promises its users (datas/rbuffer.h): a FIFO  *)
(* queue of at most Capacity pointers.  rbuffer_insert refuses a pointer   *)
(* only when the queue is full, rbuffer_get_next returns NULL only when it *)
(* is empty, and what comes out is what went in, in the same order, with   *)
(* nothing lost, duplicated or made up.                                    *)
(*                                                                         *)
(* Every action is the instant at which a call takes effect.               *)
(***************************************************************************)
EXTENDS Naturals, Sequences

CONSTANTS Capacity,    (* how many pointers the queue holds                *)
          Producers,   (* the threads that may call rbuffer_insert         *)
          Values,      (* the pointers they insert                         *)
          NULL         (* the null pointer                                 *)

VARIABLES queue,       (* the pointers in the queue, oldest first          *)
          offer,       (* offer[p]: what p is inserting, or NULL           *)
          out          (* what the consumer's last call returned           *)

vars == <<queue, offer, out>>

Init ==
  /\ queue = << >>
  /\ offer = [p \in Producers |-> NULL]
  /\ out = NULL

(* Producer p calls rbuffer_insert with v.                                 *)
Offer(p, v) ==
  /\ offer[p] = NULL
  /\ offer' = [offer EXCEPT ![p] = v]
  /\ UNCHANGED <<queue, out>>

(* The call enters v in the queue and returns true ...                     *)
Put(p) ==
  /\ offer[p] # NULL
  /\ Len(queue) < Capacity
  /\ queue' = Append(queue, offer[p])
  /\ offer' = [offer EXCEPT ![p] = NULL]
  /\ UNCHANGED out

(* ... or finds the queue full and returns false.                          *)
Refuse(p) ==
  /\ offer[p] # NULL
  /\ Len(queue) = Capacity
  /\ offer' = [offer EXCEPT ![p] = NULL]
  /\ UNCHANGED <<queue, out>>

(* rbuffer_get_next returns the oldest pointer and removes it ...          *)
Take ==
  /\ queue # << >>
  /\ out' = Head(queue)
  /\ queue' = Tail(queue)
  /\ UNCHANGED offer

(* ... or finds the queue empty and returns NULL.                          *)
TakeNothing ==
  /\ queue = << >>
  /\ out' = NULL
  /\ UNCHANGED <<queue, offer>>

Next ==
  \/ \E p \in Producers, v \in Values : Offer(p, v)
  \/ \E p \in Producers : Put(p) \/ Refuse(p)
  \/ Take
  \/ TakeNothing

Spec == Init /\ [][Next]_vars
=============================================================================
