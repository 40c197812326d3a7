-------------------------- MODULE DescriptorTable --------------------------
(***************************************************************************)
(* What the generator does to descriptors, without its maps, objects and   *)
(* numbers of paths: every process has a table of open descriptors, each   *)
(* entry with a number that no other open ever had and with the path that  *)
(* was opened, and a log of what was done to which number.                 *)
(***************************************************************************)
EXTENDS Integers, Sequences

CONSTANTS Pids,     (* the processes                                       *)
          Fds,      (* their descriptors                                   *)
          Paths,    (* the paths                                           *)
          First,    (* the numbers start after this                        *)
          None      (* no entry; the path of a line without one            *)

VARIABLES table,    (* table[p][f]: what p's descriptor f stands for       *)
          opened,   (* the last number given to an open                    *)
          log       (* what was done, in order                             *)

vars == <<table, opened, log>>

Init ==
  /\ table = [p \in Pids |-> [f \in Fds |-> None]]
  /\ opened = First
  /\ log = << >>

Entry(n, x) == [no |-> n, path |-> x]
Line(op, e) == [op |-> op, no |-> e.no, path |-> e.path]

(* An open of a free descriptor.                                           *)
Open(p, f, x) ==
  LET e == Entry(opened + 1, x)
  IN  /\ table[p][f] = None
      /\ table' = [table EXCEPT ![p][f] = e]
      /\ opened' = opened + 1
      /\ log' = Append(log, Line("open", e))

(* An open of a descriptor that is still in use closes it first.           *)
OpenAgain(p, f, x) ==
  LET e == Entry(opened + 1, x)
  IN  /\ table[p][f] # None
      /\ table' = [table EXCEPT ![p][f] = e]
      /\ opened' = opened + 1
      /\ log' = Append(Append(log, Line("close", table[p][f])),
                       Line("open", e))

Use(p, f) ==
  /\ table[p][f] # None
  /\ log' = Append(log, Line("use", table[p][f]))
  /\ UNCHANGED <<table, opened>>

(* A close, by the process or at its end.                                  *)
Close(p, f) ==
  /\ table[p][f] # None
  /\ table' = [table EXCEPT ![p][f] = None]
  /\ log' = Append(log, Line("close", table[p][f]))
  /\ UNCHANGED opened

PathOp(x) ==
  /\ log' = Append(log, Line("path", Entry(0, x)))
  /\ UNCHANGED <<table, opened>>

Next ==
  \/ \E p \in Pids, f \in Fds :
       \/ \E x \in Paths : Open(p, f, x) \/ OpenAgain(p, f, x)
       \/ Use(p, f)
       \/ Close(p, f)
  \/ \E x \in Paths \cup {None} : PathOp(x)

Spec == Init /\ [][Next]_vars
=============================================================================
