---------------------------- MODULE IoRiotProofs ----------------------------
(***************************************************************************)
(* What main promises of its child processes, for every set of mount       *)
(* points, every number of purgers and workers and every capture: -P and   *)
(* -T leave nothing behind, -R replays only after the init, and every line *)
(* is counted.                                                             *)
(*                                                                         *)
(* And the init mode, for every INIT section, every set of paths and mount *)
(* points and queues of any length: however its threads are scheduled, it  *)
(* leaves the files, and has counted, what the lines make one after        *)
(* another.                                                                *)
(***************************************************************************)
EXTENDS IoRiot, FiniteSetTheorems, SequenceTheorems, WellFoundedInduction, TLAPS


(* -P: what is still there is on a mount point that has its purger before  *)
(* it, or running.                                                         *)
PurgeInv ==
  /\ mpc \in {"cleanup", "ended"}
  /\ fs = [z \in FsPaths |-> fs[z]]
  /\ ~failed =>
       /\ \A z \in FsPaths : Mount[z] \in topurge \cup purgers \/ fs[z] = Absent
       /\ mpc = "ended" => topurge = {} /\ purgers = {}

(* -T: ioriot ends after the trees were moved.                             *)
TrashInv ==
  /\ mpc \in {"cleanup", "ended"}
  /\ purgers = {}
  /\ mpc = "ended" /\ ~failed => fs = NoTree

(* -R: there are no workers before the init was waited for, and what it    *)
(* ended with does not change any more.                                    *)
InitFirst ==
  /\ mpc \in {"init", "replay", "wait", "stats", "ended"}
  /\ mpc = "init" => forked = 0 /\ \A w \in Workers : wstate[w] = "none"
  /\ mpc \in {"replay", "wait", "stats"} \/ forked > 0 => ipc \in {"success", "unforked"}
  /\ forked = 0 => \A w \in Workers : wstate[w] = "none"
  /\ forked \in Nat
  /\ purgers = {}
  /\ wstate = [w \in Workers |-> wstate[w]]

IInv ==
  /\ mode = "-P" => PurgeInv
  /\ mode = "-T" => TrashInv
  /\ mode = "-R" => InitFirst

(* The replay of -R has workers only if the init was successful, or could  *)
(* not be forked: the first half of ReplayAfterInit (main.c:265).          *)
NoReplayWithoutInit == mode = "-R" /\ forked > 0 => ipc \in {"success", "unforked"}

USE DEF SUCCESS, ERROR

-----------------------------------------------------------------------------
LEMMA InitInv == Init => IInv
<1> SUFFICES ASSUME Init PROVE IInv
  OBVIOUS
<1>1. fs = [z \in FsPaths |-> fs[z]]
  BY InitAssumption DEF Init, InitStart
<1>2. \A z \in FsPaths : Mount[z] \in topurge
  BY DEF Init, Mounts
<1>3. mode = "-P" => PurgeInv
  BY <1>1, <1>2 DEF Init, PurgeInv
<1>4. mode = "-T" => TrashInv
  BY DEF Init, TrashInv
<1>5. mode = "-R" => InitFirst
  BY DEF Init, InitFirst
<1> QED
  BY <1>3, <1>4, <1>5 DEF IInv

(* What none of the three invariants reads may change.                     *)
Seen == <<mode, mpc, topurge, purgers, failed, fs, ipc, forked, wstate>>

LEMMA SeenKept ==
  ASSUME IInv, UNCHANGED Seen
  PROVE  IInv'
BY DEF IInv, PurgeInv, TrashInv, InitFirst, Seen, NoTree

(* -P and -T.                                                              *)
LEMMA CleanupStep ==
  ASSUME IInv,
         \/ TrashAll \/ StartPurger \/ PurgeEnds \/ CleanupFails
         \/ \E m \in Mounts : Purge(m) \/ PurgerFails(m)
  PROVE  IInv'
<1>1. CASE TrashAll
  BY <1>1 DEF TrashAll, End, options, purge, workers, imain, ithreads, IInv,
              TrashInv, NoTree
<1>2. CASE StartPurger
  <2>1. topurge' \cup purgers' = topurge \cup purgers \cup {Min(topurge)}
    BY <1>2 DEF StartPurger
  <2>2. mode' = "-P" /\ mpc = "cleanup" /\ mpc' = mpc /\ fs' = fs /\ failed' = failed
    BY <1>2 DEF StartPurger, options, ivars
  <2> QED
    BY <2>1, <2>2, <1>2 DEF StartPurger, options, IInv, PurgeInv
<1>3. CASE PurgeEnds
  BY <1>3 DEF PurgeEnds, End, options, purge, ivars, IInv, PurgeInv
<1>4. CASE CleanupFails
  <2>1. failed' /\ mpc' = "ended" /\ mpc = "cleanup" /\ UNCHANGED <<mode, fs, purge>>
    BY <1>4 DEF CleanupFails, End, options, ivars
  <2> QED
    BY <2>1 DEF purge, IInv, PurgeInv, TrashInv, InitFirst
<1>5. ASSUME NEW m \in Mounts, Purge(m)
      PROVE  IInv'
  <2>1. fs' = [z \in FsPaths |-> IF Mount[z] = m THEN Absent ELSE fs[z]]
    BY <1>5 DEF Purge
  <2>2. UNCHANGED <<mode, mpc, topurge, failed>> /\ m \in purgers
    BY <1>5 DEF Purge, options
  <2>3. purgers' = purgers \ {m}
    BY <1>5 DEF Purge
  <2>4. CASE mode = "-P"
    <3>1. fs' = [z \in FsPaths |-> fs'[z]]
      BY <2>1
    <3>2. ASSUME NEW z \in FsPaths, Mount[z] \in topurge \cup purgers \/ fs[z] = Absent
          PROVE  Mount[z] \in topurge' \cup purgers' \/ fs'[z] = Absent
      BY <2>1, <2>2, <2>3, <3>2
    <3> QED
      BY <2>2, <2>3, <2>4, <3>1, <3>2 DEF IInv, PurgeInv
  <2> QED
    BY <2>2, <2>4 DEF IInv, TrashInv, InitFirst
<1>6. ASSUME NEW m \in Mounts, PurgerFails(m)
      PROVE  IInv'
  <2>1. failed' /\ UNCHANGED <<mode, mpc, fs>> /\ m \in purgers
    BY <1>6 DEF PurgerFails, options, ivars
  <2> QED
    BY <2>1 DEF IInv, PurgeInv, TrashInv, InitFirst
<1> QED
  BY <1>1, <1>2, <1>3, <1>4, <1>5, <1>6

(* The init of -i and -R.                                                  *)
LEMMA InitStep ==
  ASSUME IInv, RunInit \/ InitEnds \/ InitWaited \/ InitForkFails
  PROVE  IInv'
<1>1. CASE RunInit
  BY <1>1 DEF RunInit, purge, options, workers, IInv, PurgeInv, TrashInv, InitFirst
<1>2. CASE InitEnds
  BY <1>2 DEF InitEnds, End, purge, options, workers, ivars, IInv
<1>3. CASE InitWaited
  <2>1. mpc = "init" /\ mode = "-R" /\ UNCHANGED <<mode, purgers, ipc, forked, wstate>>
    BY <1>3 DEF InitWaited, purge, options, workers, ivars, imain
  <2>2. mpc' \in {"replay", "ended"}
    BY <1>3 DEF InitWaited, End
  <2>3. mpc' = "replay" => ipc = "success"
    BY <1>3 DEF InitWaited, End, InitResult, WaitStatus
  <2> QED
    BY <2>1, <2>2, <2>3 DEF IInv, InitFirst
<1>4. CASE InitForkFails
  <2>1. mpc = "init" /\ mode = "-R" /\ UNCHANGED <<mode, purgers, forked, wstate>>
    BY <1>4 DEF InitForkFails, purge, options, workers
  <2>2. mpc' \in {"replay", "ended"} /\ ipc' = "unforked"
    BY <1>4 DEF InitForkFails, End
  <2> QED
    BY <2>1, <2>2 DEF IInv, InitFirst
<1> QED
  BY <1>1, <1>2, <1>3, <1>4

(* The replay of -r and -R.                                                *)
LEMMA ReplayStep ==
  ASSUME IInv,
         \/ StartWorker \/ WorkerForkFails \/ AllForked
         \/ \E w \in Workers : Worker(w)
         \/ ReapWorker \/ AllReaped \/ AddStats \/ ReplayReturns
  PROVE  IInv'
<1> USE DEF End, purge, options, workers, ivars, imain, IInv, PurgeInv, TrashInv,
            InitFirst
<1>1. CASE StartWorker
  <2>1. /\ mpc = "replay" /\ forked' = forked + 1
        /\ wstate' = [wstate EXCEPT ![forked + 1] = "running"]
        /\ UNCHANGED <<mode, mpc, purge, failed, fs, ipc>>
    BY <1>1 DEF StartWorker
  <2>2. ASSUME mode = "-R" PROVE InitFirst'
    <3>1. wstate' = [w \in Workers |-> wstate'[w]]
      BY <2>1, <2>2
    <3>2. forked' \in Nat /\ forked' # 0
      BY <2>1, <2>2
    <3> QED
      BY <2>1, <2>2, <3>1, <3>2
  <2> QED
    BY <2>1, <2>2
<1>2. CASE WorkerForkFails
  BY <1>2 DEF WorkerForkFails
<1>3. CASE AllForked
  BY <1>3 DEF AllForked
<1>4. ASSUME NEW w \in Workers, WorkerLine(w) PROVE IInv'
  BY <1>4, SeenKept DEF WorkerLine, Seen
<1>5. ASSUME NEW w \in Workers, WorkerExits(w) PROVE IInv'
  BY <1>5 DEF WorkerExits
<1>6. ASSUME NEW w \in Workers, WorkerFails(w) PROVE IInv'
  BY <1>6 DEF WorkerFails
<1>7. CASE ReapWorker
  BY <1>7 DEF ReapWorker
<1>8. CASE AllReaped
  BY <1>8 DEF AllReaped
<1>9. CASE AddStats \/ ReplayReturns
  BY <1>9 DEF AddStats, ReplayReturns
<1> QED
  BY <1>1, <1>2, <1>3, <1>4, <1>5, <1>6, <1>7, <1>8, <1>9 DEF Worker

LEMMA NextInv == IInv /\ [Next]_vars => IInv'
<1> SUFFICES ASSUME IInv, [Next]_vars PROVE IInv'
  OBVIOUS
<1>1. CASE RunCapture
  BY <1>1, SeenKept DEF RunCapture, ivars, imain, mvars, options, purge, workers, Seen
<1>2. CASE CaptureEnds \/ CaptureFails
  BY <1>2 DEF CaptureEnds, CaptureFails, End, options, purge, IInv, PurgeInv,
              TrashInv, InitFirst
<1>3. CASE UNCHANGED vars
  BY <1>3, SeenKept DEF vars, ivars, imain, mvars, options, purge, workers, Seen
<1> QED
  BY <1>1, <1>2, <1>3, CleanupStep, InitStep, ReplayStep DEF Next

LEMMA InvHolds == Spec => []IInv
BY InitInv, NextInv, PTL DEF Spec

-----------------------------------------------------------------------------
(* ioriot -P and -T end, when nothing failed, with nothing left of earlier *)
(* tests on any mount point (mounts.c:323-350).                            *)
THEOREM CleanedUpHolds == Spec => []CleanedUp
<1>1. ASSUME IInv PROVE CleanedUp
  <2>1. ASSUME mode = "-P", mpc = "ended", ~failed PROVE fs = NoTree
    BY <1>1, <2>1 DEF IInv, PurgeInv, NoTree
  <2> QED
    BY <1>1, <2>1 DEF IInv, TrashInv, CleanedUp
<1> QED
  BY <1>1, InvHolds, PTL

(* The replay of -R starts no worker before an init that was successful,   *)
(* unless the init could not be forked (main.c:262-266).                   *)
THEOREM ReplayWaitsForInit == Spec => []NoReplayWithoutInit
<1>1. IInv => NoReplayWithoutInit
  BY DEF IInv, InitFirst, NoReplayWithoutInit
<1> QED
  BY <1>1, InvHolds, PTL

-----------------------------------------------------------------------------
(* The statistics.                                                         *)

(* The lines of the workers after the first n.                             *)
LinesAfter(n) == {i \in DOMAIN lines : (lines[i] % num_workers) + 1 > n}

(* A worker that runs has counted the lines it does not have before it any *)
(* more; the total has the lines of the workers that are no longer stacked.*)
Counted ==
  /\ mpc \in {"init", "replay", "wait", "stats", "ended"}
  /\ mpc = "init" => mode = "-R" /\ ipc # "error" /\ forked = 0
  /\ forked \in 0 .. num_workers
  /\ mpc \in {"init", "replay", "wait"} => stacked = forked /\ ioops = 0
  /\ mpc \in {"wait", "stats"} => forked = num_workers
  /\ \A w \in Workers : w > forked => wstate[w] = "none" /\ wioops[w] = 0
  /\ \A w \in Workers : w <= forked =>
       /\ wstate[w] \in {"running", "ended", "reaped"}
       /\ left[w] \subseteq LinesOf(w)
       /\ wioops[w] \in Nat
       /\ wioops[w] + Cardinality(left[w]) = Cardinality(LinesOf(w))
       /\ wstate[w] # "running" => left[w] = {}
  /\ mpc \in {"stats", "ended"} => \A w \in Workers : wstate[w] # "running"
  /\ mpc = "stats" => stacked \in 0 .. num_workers
                      /\ ioops = Cardinality(LinesAfter(stacked))
  /\ mpc = "ended" => ioops = Len(lines)

CountInv ==
  /\ lines \in Seq(Nat)
  /\ num_workers \in Workers
  /\ wstate = [w \in Workers |-> wstate[w]]
  /\ left = [w \in Workers |-> left[w]]
  /\ wioops = [w \in Workers |-> wioops[w]]
  /\ mode \in {"-r", "-R"} /\ ~failed => Counted

LEMMA LinesFinite ==
  ASSUME CountInv
  PROVE  /\ num_workers \in Nat /\ num_workers >= 1 /\ Len(lines) \in Nat
         /\ DOMAIN lines = 1 .. Len(lines)
         /\ \A S \in SUBSET DOMAIN lines : IsFiniteSet(S) /\ Cardinality(S) \in Nat
         /\ \A i \in DOMAIN lines : lines[i] % num_workers \in 0 .. num_workers - 1
<1>1. num_workers \in Nat /\ num_workers >= 1 /\ Len(lines) \in Nat
      /\ DOMAIN lines = 1 .. Len(lines)
  BY ReplayAssumption DEF CountInv, Workers
<1>2. IsFiniteSet(1 .. Len(lines))
  BY <1>1, FS_Interval
<1>3. \A S \in SUBSET DOMAIN lines : IsFiniteSet(S) /\ Cardinality(S) \in Nat
  BY <1>1, <1>2, FS_Subset, FS_CardinalityType
<1>4. \A i \in DOMAIN lines : lines[i] % num_workers \in 0 .. num_workers - 1
  <2> SUFFICES ASSUME NEW i \in DOMAIN lines
               PROVE  lines[i] % num_workers \in 0 .. num_workers - 1
    OBVIOUS
  <2>1. lines[i] \in Nat
    BY DEF CountInv
  <2> QED
    BY <1>1, <2>1
<1> QED
  BY <1>1, <1>3, <1>4

(* The total grows by the lines of one worker.                             *)
LEMMA OneWorkerMore ==
  ASSUME CountInv, NEW n \in 1 .. num_workers
  PROVE  Cardinality(LinesAfter(n - 1)) = Cardinality(LinesAfter(n)) + Cardinality(LinesOf(n))
<1>1. /\ num_workers \in Nat /\ n \in Nat
      /\ \A i \in DOMAIN lines : lines[i] % num_workers \in Int
  BY LinesFinite
<1>2. LinesAfter(n - 1) = LinesAfter(n) \cup LinesOf(n)
      /\ LinesAfter(n) \cap LinesOf(n) = {}
  BY <1>1 DEF LinesAfter, LinesOf
<1>3. LinesAfter(n) \in SUBSET DOMAIN lines /\ LinesOf(n) \in SUBSET DOMAIN lines
  BY DEF LinesAfter, LinesOf
<1>4. /\ IsFiniteSet(LinesAfter(n)) /\ IsFiniteSet(LinesOf(n))
      /\ Cardinality(LinesAfter(n)) \in Nat /\ Cardinality(LinesOf(n)) \in Nat
  BY <1>3, LinesFinite
<1>5. Cardinality(LinesAfter(n) \cup LinesOf(n)) =
        Cardinality(LinesAfter(n)) + Cardinality(LinesOf(n))
          - Cardinality(LinesAfter(n) \cap LinesOf(n))
  BY <1>4, FS_Union
<1>6. Cardinality(LinesAfter(n) \cap LinesOf(n)) = 0
  BY <1>2, FS_EmptySet
<1>7. Cardinality(LinesAfter(n - 1)) = Cardinality(LinesAfter(n) \cup LinesOf(n))
  BY <1>2
<1> DEFINE a == Cardinality(LinesAfter(n))
           b == Cardinality(LinesOf(n))
           c == Cardinality(LinesAfter(n) \cap LinesOf(n))
<1>8. /\ a \in Nat /\ b \in Nat /\ c = 0
      /\ Cardinality(LinesAfter(n - 1)) = a + b - c
  BY <1>4, <1>5, <1>6, <1>7
<1> HIDE DEF a, b, c
<1>9. Cardinality(LinesAfter(n - 1)) = a + b
  BY <1>8
<1> QED
  BY <1>9 DEF a, b

LEMMA CountInit == Init => CountInv
<1> SUFFICES ASSUME Init PROVE CountInv
  OBVIOUS
<1>1. lines \in Seq(Nat) /\ num_workers \in Workers
  BY ReplayAssumption DEF Init
<1>2. num_workers \in Nat
  BY <1>1 DEF Workers
<1>3. mode \in {"-r", "-R"} => Counted
  BY <1>2 DEF Init, InitStart, Counted, Workers
<1> QED
  BY <1>1, <1>3 DEF CountInv, Init

(* The steps that count nothing.                                           *)
CountSeen == <<options, ipc, forked, workers, totalling>>

LEMMA CountKept ==
  ASSUME CountInv, UNCHANGED CountSeen, failed => failed', mpc' = mpc \/ failed'
  PROVE  CountInv'
BY DEF CountInv, Counted, CountSeen, options, workers, totalling, LinesOf, LinesAfter

LEMMA CountInitPart ==
  ASSUME CountInv, RunInit \/ InitEnds \/ InitWaited \/ InitForkFails
  PROVE  CountInv'
<1>1. CASE RunInit
  <2>1. /\ UNCHANGED <<options, mpc, forked, workers, totalling>>
        /\ failed' = (failed \/ ipc' = "error") /\ mpc = "init"
    BY <1>1 DEF RunInit
  <2> QED
    BY ZenonT(40), <2>1 DEF CountInv, Counted, options, workers, totalling, LinesOf, LinesAfter
<1>2. CASE InitEnds
  <2>1. mode = "-i" /\ UNCHANGED <<options, workers, totalling, failed>>
    BY <1>2 DEF InitEnds
  <2> QED
    BY <2>1 DEF CountInv, options, workers
<1>3. CASE InitWaited
  <2>1. /\ UNCHANGED <<options, forked, workers, totalling, failed>>
        /\ mpc = "init" /\ ipc \in {"success", "error"}
        /\ ipc = "success" => mpc' = "replay"
    BY <1>3 DEF InitWaited, InitResult, WaitStatus
  <2>2. CASE ipc = "error" \/ failed \/ mode \notin {"-r", "-R"}
    <3>1. ~(mode' \in {"-r", "-R"} /\ ~failed')
      BY <2>1, <2>2 DEF CountInv, Counted, options
    <3> QED
      BY <2>1, <3>1 DEF CountInv, options, workers
  <2>3. CASE ipc = "success" /\ ~failed /\ mode \in {"-r", "-R"}
    BY <2>1, <2>3 DEF CountInv, Counted, options, workers, totalling, LinesOf, LinesAfter
  <2> QED
    BY <2>1, <2>2, <2>3
<1>4. CASE InitForkFails
  <2>1. UNCHANGED <<options, workers>> /\ failed'
    BY <1>4 DEF InitForkFails, options
  <2> QED
    BY <2>1 DEF CountInv, options, workers
<1> QED
  BY <1>1, <1>2, <1>3, <1>4

LEMMA CountStarts ==
  ASSUME CountInv, StartWorker
  PROVE  CountInv'
<1> DEFINE n == forked + 1
<1>1. /\ UNCHANGED <<options, mpc, wexit, wioops, ioops, failed>>
      /\ mpc = "replay" /\ forked < num_workers /\ forked' = n /\ stacked' = stacked + 1
      /\ wstate' = [wstate EXCEPT ![n] = "running"]
      /\ left' = [left EXCEPT ![n] = LinesOf(n)]
  BY DEF StartWorker
<1>2. /\ UNCHANGED <<lines, num_workers, mode>>
      /\ wstate' = [w \in Workers |-> wstate'[w]] /\ left' = [w \in Workers |-> left'[w]]
  BY <1>1 DEF CountInv, options
<1>3. ASSUME mode \in {"-r", "-R"}, ~failed
      PROVE  Counted'
  <2>1. Counted /\ forked \in Nat /\ num_workers \in Nat /\ n \in Workers
    <3>1. Counted
      BY <1>3 DEF CountInv
    <3>2. forked \in Nat
      BY <3>1 DEF Counted
    <3>3. num_workers \in Nat /\ num_workers <= MaxWorkers
      BY ReplayAssumption DEF CountInv, Workers
    <3>4. forked < num_workers /\ MaxWorkers \in Nat
      BY <1>1, ReplayAssumption
    <3>5. n \in Workers
      BY <3>2, <3>3, <3>4 DEF Workers
    <3> QED
      BY <3>1, <3>2, <3>3, <3>5
  <2>2. /\ wstate'[n] = "running" /\ left'[n] = LinesOf(n)
        /\ \A w \in Workers \ {n} : wstate'[w] = wstate[w] /\ left'[w] = left[w]
    BY <1>1, <2>1 DEF CountInv
  <2>3. wioops[n] = 0
    BY <2>1 DEF Counted
  <2>4. Cardinality(LinesOf(n)) \in Nat
    <3>1. LinesOf(n) \in SUBSET DOMAIN lines
      BY DEF LinesOf
    <3> QED
      BY <3>1, LinesFinite
  <2> HIDE DEF n
  <2>5. \A w \in Workers : LinesOf(w)' = LinesOf(w)
    BY <1>2 DEF LinesOf
  <2>6. \A w \in Workers : w > n => wstate'[w] = "none" /\ wioops'[w] = 0
    BY <1>1, <2>1, <2>2 DEF Counted, n, Workers
  <2>7. \A w \in Workers : w <= n =>
          /\ wstate'[w] \in {"running", "ended", "reaped"}
          /\ left'[w] \subseteq LinesOf(w)
          /\ wioops'[w] \in Nat
          /\ wioops'[w] + Cardinality(left'[w]) = Cardinality(LinesOf(w))
          /\ wstate'[w] # "running" => left'[w] = {}
    <3> SUFFICES ASSUME NEW w \in Workers, w <= n
                 PROVE  /\ wstate'[w] \in {"running", "ended", "reaped"}
                        /\ left'[w] \subseteq LinesOf(w)
                        /\ wioops'[w] \in Nat
                        /\ wioops'[w] + Cardinality(left'[w]) = Cardinality(LinesOf(w))
                        /\ wstate'[w] # "running" => left'[w] = {}
      OBVIOUS
    <3>1. CASE w = n
      BY <1>1, <2>2, <2>3, <2>4, <3>1
    <3>2. CASE w # n
      <4>1. w <= forked
        BY <2>1, <3>2 DEF n, Workers
      <4> QED
        BY <1>1, <2>1, <2>2, <3>2, <4>1 DEF Counted
    <3> QED
      BY <3>1, <3>2
  <2>8. forked' \in 0 .. num_workers /\ stacked' = forked' /\ ioops' = 0
    BY <1>1, <2>1 DEF Counted, n
  <2> QED
    BY <1>1, <1>2, <2>5, <2>6, <2>7, <2>8 DEF Counted
<1> QED
  BY <1>1, <1>2, <1>3 DEF CountInv

LEMMA CountLine ==
  ASSUME CountInv, NEW w \in Workers, WorkerLine(w)
  PROVE  CountInv'
<1>1. PICK i \in left[w] : left' = [left EXCEPT ![w] = left[w] \ {i}]
  BY DEF WorkerLine
<1>2. /\ UNCHANGED <<options, mpc, ipc, forked, wstate, wexit, totalling, failed>>
      /\ wstate[w] = "running" /\ wioops' = [wioops EXCEPT ![w] = wioops[w] + 1]
  BY DEF WorkerLine, ivars, imain
<1>3. /\ UNCHANGED <<lines, num_workers, mode, ioops, stacked>>
      /\ left' = [u \in Workers |-> left'[u]] /\ wioops' = [u \in Workers |-> wioops'[u]]
  BY <1>1, <1>2 DEF CountInv, options, totalling
<1>4. ASSUME mode \in {"-r", "-R"}, ~failed
      PROVE  Counted'
  <2>1. Counted
    BY <1>4 DEF CountInv
  <2>2. /\ left'[w] = left[w] \ {i} /\ wioops'[w] = wioops[w] + 1
        /\ \A u \in Workers \ {w} : left'[u] = left[u] /\ wioops'[u] = wioops[u]
    BY <1>1, <1>2 DEF CountInv
  <2>3. w <= forked /\ ~(w > forked)
    <3>1. ~(w > forked)
      BY <1>2, <2>1 DEF Counted
    <3>2. w \in Int /\ forked \in Int
      BY <2>1 DEF Counted, Workers
    <3> QED
      BY <3>1, <3>2
  <2>4. /\ left[w] \subseteq LinesOf(w) /\ wioops[w] \in Nat
        /\ wioops[w] + Cardinality(left[w]) = Cardinality(LinesOf(w))
    BY <2>1, <2>3 DEF Counted
  <2>5. IsFiniteSet(left[w]) /\ Cardinality(left[w]) \in Nat
    <3>1. left[w] \in SUBSET DOMAIN lines
      BY <2>4 DEF LinesOf
    <3> QED
      BY <3>1, LinesFinite
  <2>6. Cardinality(left[w] \ {i}) = Cardinality(left[w]) - 1
    BY <2>5, FS_RemoveElement
  <2>7. /\ left'[w] \subseteq LinesOf(w) /\ wioops'[w] \in Nat
        /\ wioops'[w] + Cardinality(left'[w]) = Cardinality(LinesOf(w))
    BY <2>2, <2>4, <2>5, <2>6
  <2>8. \A u \in Workers : LinesOf(u)' = LinesOf(u)
    BY <1>3 DEF LinesOf
  <2>9. \A n : LinesAfter(n)' = LinesAfter(n)
    BY <1>3 DEF LinesAfter
  <2>10. \A u \in Workers : u <= forked =>
           /\ wstate'[u] \in {"running", "ended", "reaped"}
           /\ left'[u] \subseteq LinesOf(u)
           /\ wioops'[u] \in Nat
           /\ wioops'[u] + Cardinality(left'[u]) = Cardinality(LinesOf(u))
           /\ wstate'[u] # "running" => left'[u] = {}
    <3> SUFFICES ASSUME NEW u \in Workers, u <= forked
                 PROVE  /\ wstate'[u] \in {"running", "ended", "reaped"}
                        /\ left'[u] \subseteq LinesOf(u)
                        /\ wioops'[u] \in Nat
                        /\ wioops'[u] + Cardinality(left'[u]) = Cardinality(LinesOf(u))
                        /\ wstate'[u] # "running" => left'[u] = {}
      OBVIOUS
    <3>1. CASE u = w
      BY <1>2, <2>7, <3>1
    <3>2. CASE u # w
      BY <1>2, <2>1, <2>2, <3>2 DEF Counted
    <3> QED
      BY <3>1, <3>2
  <2>11. \A u \in Workers : u > forked => wstate'[u] = "none" /\ wioops'[u] = 0
    BY <1>2, <2>1, <2>2, <2>3 DEF Counted
  <2>12. mpc \notin {"stats", "ended"}
    BY <1>2, <2>1 DEF Counted
  <2> QED
    BY <1>2, <1>3, <2>1, <2>8, <2>10, <2>11, <2>12 DEF Counted
<1> QED
  BY <1>2, <1>3, <1>4 DEF CountInv

LEMMA CountWaits ==
  ASSUME CountInv, AllForked \/ (\E w \in Workers : WorkerExits(w)) \/ ReapWorker \/ AllReaped
  PROVE  CountInv'
<1>1. /\ UNCHANGED <<options, ipc, forked, left, wioops, totalling, failed>>
  BY DEF AllForked, WorkerExits, ReapWorker, AllReaped, ivars, imain, workers
<1>2. UNCHANGED <<lines, num_workers, mode, ioops, stacked>>
  BY <1>1 DEF options, totalling
<1>3. wstate' = [w \in Workers |-> wstate'[w]]
  BY DEF CountInv, AllForked, WorkerExits, ReapWorker, AllReaped, workers
<1>4. ASSUME mode \in {"-r", "-R"}, ~failed
      PROVE  Counted'
  <2>1. Counted
    BY <1>4 DEF CountInv
  <2>2. /\ \A w \in Workers : LinesOf(w)' = LinesOf(w)
        /\ \A n : LinesAfter(n)' = LinesAfter(n)
    BY <1>2 DEF LinesOf, LinesAfter
  <2>3. CASE AllForked
    <3>1. mpc = "replay" /\ forked = num_workers /\ mpc' = "wait" /\ wstate' = wstate
      BY <2>3 DEF AllForked, workers
    <3> QED
      BY <1>1, <1>2, <2>1, <2>2, <3>1 DEF Counted
  <2>4. ASSUME NEW w \in Workers, WorkerExits(w)
        PROVE  Counted'
    <3>1. /\ wstate[w] = "running" /\ left[w] = {} /\ mpc' = mpc
          /\ wstate' = [wstate EXCEPT ![w] = "ended"]
      BY <2>4 DEF WorkerExits
    <3>2. /\ wstate'[w] = "ended"
          /\ \A u \in Workers \ {w} : wstate'[u] = wstate[u]
      BY <3>1 DEF CountInv
    <3>3. ~(w > forked)
      BY <2>1, <3>1 DEF Counted
    <3> QED
      BY <1>1, <1>2, <2>1, <2>2, <3>1, <3>2, <3>3 DEF Counted
  <2>5. CASE ReapWorker
    <3>1. PICK w \in Workers : /\ wstate[w] = "ended"
                               /\ wstate' = [wstate EXCEPT ![w] = "reaped"]
      BY <2>5 DEF ReapWorker
    <3>2. mpc' = mpc /\ mpc = "wait"
      BY <2>5 DEF ReapWorker
    <3>3. /\ wstate'[w] = "reaped"
          /\ \A u \in Workers \ {w} : wstate'[u] = wstate[u]
      BY <3>1 DEF CountInv
    <3>4. ~(w > forked)
      BY <2>1, <3>1 DEF Counted
    <3> QED
      BY <1>1, <1>2, <2>1, <2>2, <3>1, <3>2, <3>3, <3>4 DEF Counted
  <2>6. CASE AllReaped
    <3>1. /\ mpc = "wait" /\ mpc' = "stats" /\ wstate' = wstate
          /\ \A w \in Workers : wstate[w] # "running"
      BY <2>6 DEF AllReaped, workers
    <3>2. stacked = num_workers /\ ioops = 0 /\ stacked \in 0 .. num_workers
      BY <2>1, <3>1 DEF Counted
    <3>3. LinesAfter(stacked) = {}
      <4>1. \A i \in DOMAIN lines : ~((lines[i] % num_workers) + 1 > num_workers)
        BY LinesFinite
      <4> QED
        BY <3>2, <4>1 DEF LinesAfter
    <3>4. ioops = Cardinality(LinesAfter(stacked))
      BY <3>2, <3>3, FS_EmptySet
    <3> QED
      BY <1>1, <1>2, <2>1, <2>2, <3>1, <3>2, <3>4 DEF Counted
  <2> QED
    BY <2>3, <2>4, <2>5, <2>6
<1> QED
  BY <1>1, <1>2, <1>3, <1>4 DEF CountInv

LEMMA CountTotals ==
  ASSUME CountInv, AddStats \/ ReplayReturns
  PROVE  CountInv'
<1>1. /\ UNCHANGED <<options, ipc, forked, workers, failed>> /\ mpc = "stats"
  BY DEF AddStats, ReplayReturns, ivars, imain
<1>2. UNCHANGED <<lines, num_workers, mode, wstate, left, wioops>>
  BY <1>1 DEF options, workers
<1>3. ASSUME mode \in {"-r", "-R"}, ~failed
      PROVE  Counted'
  <2>1. Counted /\ stacked \in 0 .. num_workers /\ ioops = Cardinality(LinesAfter(stacked))
        /\ forked = num_workers
    BY <1>1, <1>3 DEF CountInv, Counted
  <2>2. /\ \A w \in Workers : LinesOf(w)' = LinesOf(w)
        /\ \A n : LinesAfter(n)' = LinesAfter(n)
    BY <1>2 DEF LinesOf, LinesAfter
  <2>3. CASE AddStats
    <3>1. /\ stacked > 0 /\ ioops' = ioops + wioops[stacked] /\ stacked' = stacked - 1
          /\ mpc' = mpc
      BY <2>3 DEF AddStats
    <3>2. stacked \in 1 .. num_workers /\ stacked \in Workers /\ stacked <= forked
          /\ stacked - 1 \in 0 .. num_workers
      BY SMTT(30), <2>1, <3>1, ReplayAssumption DEF CountInv, Workers
    <3>3. wioops[stacked] = Cardinality(LinesOf(stacked))
      <4>1. /\ left[stacked] = {} /\ wioops[stacked] \in Nat
            /\ wioops[stacked] + Cardinality(left[stacked]) = Cardinality(LinesOf(stacked))
        BY <1>1, <2>1, <3>2 DEF Counted
      <4>2. Cardinality(left[stacked]) = 0
        BY <4>1, FS_EmptySet
      <4> QED
        BY <4>1, <4>2
    <3>4. ioops' = Cardinality(LinesAfter(stacked'))
      BY <2>1, <3>1, <3>2, <3>3, OneWorkerMore
    <3>5. ioops' = Cardinality(LinesAfter(stacked)')
      BY <2>2, <3>4 DEF LinesAfter
    <3> QED
      BY <1>1, <1>2, <2>1, <2>2, <3>1, <3>2, <3>5 DEF Counted
  <2>4. CASE ReplayReturns
    <3>1. stacked = 0 /\ mpc' = "ended" /\ UNCHANGED <<ioops, stacked>>
      BY <2>4 DEF ReplayReturns, End, totalling
    <3>2. LinesAfter(0) = 1 .. Len(lines) /\ Len(lines) \in Nat
      BY LinesFinite DEF LinesAfter
    <3>3. ioops = Len(lines)
      <4>1. Cardinality(1 .. Len(lines)) = Len(lines)
        <5> DEFINE n == Len(lines)
        <5>1. n \in Nat
          BY <3>2
        <5> HIDE DEF n
        <5>2. Cardinality(1 .. n) = IF 1 > n THEN 0 ELSE n - 1 + 1
          BY <5>1, FS_Interval
        <5>3. Cardinality(1 .. n) = n
          BY <5>1, <5>2
        <5> QED
          BY <5>3 DEF n
      <4> QED
        BY <2>1, <3>1, <3>2, <4>1
    <3> QED
      BY <1>1, <1>2, <2>1, <2>2, <3>1, <3>3 DEF Counted
  <2> QED
    BY <2>3, <2>4
<1> QED
  BY <1>1, <1>2, <1>3 DEF CountInv

LEMMA CountNext == CountInv /\ [Next]_vars => CountInv'
<1> SUFFICES ASSUME CountInv, [Next]_vars PROVE CountInv'
  OBVIOUS
<1>1. CASE RunCapture \/ UNCHANGED vars
  BY <1>1, CountKept DEF RunCapture, vars, mvars, ivars, imain, CountSeen
<1>2. CASE StartPurger \/ WorkerForkFails \/ CaptureFails \/ CleanupFails
           \/ (\E m \in Mounts : Purge(m) \/ PurgerFails(m))
  <2>1. UNCHANGED CountSeen /\ (failed => failed') /\ (mpc' = mpc \/ failed')
    BY <1>2 DEF StartPurger, WorkerForkFails, CaptureFails, CleanupFails, Purge,
                PurgerFails, ivars, imain, CountSeen
  <2> QED
    BY <2>1, CountKept
<1>3. CASE CaptureEnds \/ TrashAll \/ PurgeEnds
  <2>1. mpc \in {"capture", "cleanup"} /\ UNCHANGED <<options, workers, failed>>
    BY <1>3 DEF CaptureEnds, TrashAll, PurgeEnds
  <2> QED
    BY <2>1 DEF CountInv, Counted, options, workers
<1>4. ASSUME NEW w \in Workers, WorkerFails(w)
      PROVE  CountInv'
  <2>1. /\ UNCHANGED options /\ failed' /\ UNCHANGED <<left, wioops>>
        /\ wstate' = [wstate EXCEPT ![w] = "ended"]
    BY <1>4 DEF WorkerFails
  <2> QED
    BY <2>1 DEF CountInv, options
<1> QED
  BY <1>1, <1>2, <1>3, <1>4, CountInitPart, CountStarts, CountLine, CountWaits,
     CountTotals DEF Next, Worker

(* When nothing has failed the statistics of a replay count every line of  *)
(* the file once (replay.c:195-227), for every file and number of workers. *)
THEOREM EveryLineCountedHolds == Spec => []EveryLineCounted
<1>1. Spec => []CountInv
  BY CountInit, CountNext, PTL DEF Spec
<1>2. CountInv => EveryLineCounted
  BY DEF CountInv, Counted, EveryLineCounted
<1> QED
  BY <1>1, <1>2, PTL

-----------------------------------------------------------------------------
(* What the first number has, and with every number the next, all have.    *)
LEMMA UpTo ==
  ASSUME NEW S, NEW a \in Nat, NEW b \in Nat, a \in S,
         \A i \in a .. b - 1 : i \in S => i + 1 \in S
  PROVE  \A i \in a .. b : i \in S
<1> DEFINE T == {i \in a .. b : i \notin S}
<1>1. CASE T # {}
  <2>1. T \subseteq Nat
    OBVIOUS
  <2>2. PICK x \in T : \A y \in T : ~(<<y, x>> \in OpToRel(<, Nat))
    <3> HIDE DEF T
    <3> QED
      BY <1>1, <2>1, NatLessThanWellFounded, WFMin
  <2>3. x \in a .. b /\ x \notin S /\ x # a
    OBVIOUS
  <2>4. x - 1 \in a .. b - 1 /\ x - 1 \in Nat /\ (x - 1) + 1 = x /\ x - 1 < x /\ x \in Nat
    BY <2>3
  <2>5. x - 1 \notin T
    BY <2>2, <2>4 DEF OpToRel
  <2> QED
    BY <2>3, <2>4, <2>5
<1>2. CASE T = {}
  BY <1>2
<1> QED
  BY <1>1, <1>2

-----------------------------------------------------------------------------
(* Sums of the first n values of a function.                               *)

Total(v, n) ==
  LET t[i \in 0 .. n] == IF i = 0 THEN 0 ELSE t[i - 1] + v[i]
  IN  t[n]

IsTotal(t, v, n) == t = [i \in 0 .. n |-> IF i = 0 THEN 0 ELSE t[i - 1] + v[i]]

LEMMA TotalIs ==
  ASSUME NEW v, NEW n \in Nat
  PROVE  \E t : IsTotal(t, v, n) /\ Total(v, n) = t[n]
<1> DEFINE Ns == {k \in Nat : \E t : IsTotal(t, v, k)}
<1>1. 0 \in Ns
  <2>1. IsTotal([i \in 0 .. 0 |-> 0], v, 0)
    BY DEF IsTotal
  <2> QED
    BY <2>1
<1>2. ASSUME NEW k \in 0 .. n - 1, k \in Ns
      PROVE  k + 1 \in Ns
  <2>1. PICK t : IsTotal(t, v, k)
    BY <1>2
  <2> DEFINE u == [i \in 0 .. k + 1 |-> IF i = k + 1 THEN t[k] + v[k + 1] ELSE t[i]]
  <2>2. ASSUME NEW i \in 0 .. k + 1
        PROVE  u[i] = IF i = 0 THEN 0 ELSE u[i - 1] + v[i]
    <3>1. CASE i = k + 1
      <4>1. u[i] = t[k] + v[k + 1] /\ u[i - 1] = t[k] /\ i # 0
        BY <3>1
      <4> QED
        BY <3>1, <4>1
    <3>2. CASE i = 0
      <4>1. u[i] = t[i] /\ t[i] = 0
        BY <2>1, <3>2 DEF IsTotal
      <4> QED
        BY <3>2, <4>1
    <3>3. CASE i \in 1 .. k
      <4>1. u[i] = t[i] /\ t[i] = t[i - 1] + v[i] /\ u[i - 1] = t[i - 1] /\ i # 0
        BY <2>1, <3>3 DEF IsTotal
      <4> QED
        BY <4>1
    <3> QED
      BY <3>1, <3>2, <3>3
  <2>3. IsTotal(u, v, k + 1)
    BY <2>2 DEF IsTotal
  <2>4. k + 1 \in Nat
    BY <1>2
  <2> HIDE DEF u
  <2> QED
    BY <2>3, <2>4
<1>3. n \in Ns
  <2>1. 0 \in Nat /\ n \in 0 .. n
    OBVIOUS
  <2> HIDE DEF Ns
  <2> QED
    BY <1>1, <1>2, <2>1, UpTo
<1> DEFINE c == CHOOSE t : IsTotal(t, v, n)
<1>4. IsTotal(c, v, n)
  BY <1>3
<1>5. Total(v, n) = c[n]
  BY DEF Total, IsTotal
<1> QED
  BY <1>4, <1>5

LEMMA TotalZero ==
  ASSUME NEW n \in Nat, NEW v, \A i \in 1 .. n : v[i] = 0
  PROVE  Total(v, n) = 0
<1>1. PICK t : IsTotal(t, v, n) /\ Total(v, n) = t[n]
  BY TotalIs
<1> DEFINE S == {i \in 0 .. n : t[i] = 0}
<1>2. 0 \in S
  BY <1>1 DEF IsTotal
<1>3. ASSUME NEW i \in 0 .. n - 1, i \in S
      PROVE  i + 1 \in S
  <2>1. i + 1 \in 0 .. n /\ i + 1 # 0 /\ (i + 1) - 1 = i /\ i + 1 \in 1 .. n
    OBVIOUS
  <2>2. t[i + 1] = t[i] + v[i + 1]
    BY <1>1, <2>1 DEF IsTotal
  <2> QED
    BY <1>3, <2>1, <2>2
<1>4. 0 \in Nat /\ n \in 0 .. n
  OBVIOUS
<1>5. n \in S
  <2> HIDE DEF S
  <2> QED
    BY <1>2, <1>3, <1>4, UpTo
<1> QED
  BY <1>1, <1>5

LEMMA TotalType ==
  ASSUME NEW n \in Nat, NEW v, \A i \in 1 .. n : v[i] \in Int
  PROVE  Total(v, n) \in Int
<1>1. PICK t : IsTotal(t, v, n) /\ Total(v, n) = t[n]
  BY TotalIs
<1> DEFINE S == {i \in 0 .. n : t[i] \in Int}
<1>3. 0 \in S
  BY <1>1 DEF IsTotal
<1>4. ASSUME NEW i \in 0 .. n - 1, i \in S
      PROVE  i + 1 \in S
  <2>1. i + 1 \in 0 .. n /\ i + 1 # 0 /\ (i + 1) - 1 = i /\ i + 1 \in 1 .. n
    OBVIOUS
  <2>2. t[i + 1] = t[i] + v[i + 1] /\ v[i + 1] \in Int
    BY <1>1, <2>1 DEF IsTotal
  <2> QED
    BY <1>4, <2>1, <2>2
<1>5. 0 \in Nat /\ n \in 0 .. n
  OBVIOUS
<1>6. n \in S
  <2> HIDE DEF S
  <2> QED
    BY <1>3, <1>4, <1>5, UpTo
<1> QED
  BY <1>1, <1>6

(* Equal values have equal sums.                                           *)
LEMMA TotalSame ==
  ASSUME NEW n \in Nat, NEW v, NEW w, \A i \in 1 .. n : w[i] = v[i]
  PROVE  Total(w, n) = Total(v, n)
<1>1. PICK t : IsTotal(t, v, n) /\ Total(v, n) = t[n]
  BY TotalIs
<1>2. PICK u : IsTotal(u, w, n) /\ Total(w, n) = u[n]
  BY TotalIs
<1> DEFINE S == {i \in 0 .. n : u[i] = t[i]}
<1>3. 0 \in S
  BY <1>1, <1>2 DEF IsTotal
<1>4. ASSUME NEW i \in 0 .. n - 1, i \in S
      PROVE  i + 1 \in S
  <2>1. i + 1 \in 0 .. n /\ i + 1 # 0 /\ (i + 1) - 1 = i /\ i + 1 \in 1 .. n
    OBVIOUS
  <2>2. t[i + 1] = t[i] + v[i + 1] /\ u[i + 1] = u[i] + w[i + 1]
    BY <1>1, <1>2, <2>1 DEF IsTotal
  <2> QED
    BY <1>4, <2>1, <2>2
<1>5. 0 \in Nat /\ n \in 0 .. n
  OBVIOUS
<1>6. n \in S
  <2> HIDE DEF S
  <2> QED
    BY <1>3, <1>4, <1>5, UpTo
<1> QED
  BY <1>1, <1>2, <1>6

(* One value is more by c.                                                 *)
OneMore(w, v, n, l, c) ==
  /\ l \in 1 .. n /\ w[l] = v[l] + c
  /\ \A i \in 1 .. n : v[i] \in Int /\ (i # l => w[i] = v[i])

LEMMA TotalOneMore ==
  ASSUME NEW n \in Nat, NEW v, NEW w, NEW l, NEW c \in Int, OneMore(w, v, n, l, c)
  PROVE  Total(w, n) = Total(v, n) + c
<1>0. l \in 1 .. n /\ w[l] = v[l] + c
  BY DEF OneMore
<1>v. \A i \in 1 .. n : v[i] \in Int /\ (i # l => w[i] = v[i])
  BY DEF OneMore
<1>1. PICK t : IsTotal(t, v, n) /\ Total(v, n) = t[n]
  BY TotalIs
<1>2. PICK u : IsTotal(u, w, n) /\ Total(w, n) = u[n]
  BY TotalIs
<1> DEFINE b == l - 1
<1>3. t[b] \in Int /\ u[b] = t[b]
  <2> DEFINE S == {i \in 0 .. b : t[i] \in Int /\ u[i] = t[i]}
  <2>1. 0 \in S
    BY <1>0, <1>1, <1>2 DEF IsTotal
  <2>2. ASSUME NEW i \in 0 .. b - 1, i \in S
        PROVE  i + 1 \in S
    <3>1. /\ i + 1 \in 0 .. b /\ i + 1 # 0 /\ (i + 1) - 1 = i /\ i + 1 \in 1 .. n
          /\ i + 1 # l /\ i + 1 \in 0 .. n
      BY <1>0
    <3>2. t[i + 1] = t[i] + v[i + 1] /\ u[i + 1] = u[i] + w[i + 1]
      BY <1>1, <1>2, <3>1 DEF IsTotal
    <3>3. w[i + 1] = v[i + 1] /\ v[i + 1] \in Int
      BY <1>v, <3>1
    <3> QED
      BY <2>2, <3>1, <3>2, <3>3
  <2>3. 0 \in Nat /\ b \in Nat /\ b \in 0 .. b
    BY <1>0
  <2>4. b \in S
    <3> HIDE DEF S, b
    <3> QED
      BY <2>1, <2>2, <2>3, UpTo
  <2> QED
    BY <2>4
<1>4. t[l] = t[b] + v[l] /\ u[l] = u[b] + w[l]
  BY <1>0, <1>1, <1>2 DEF IsTotal
<1> DEFINE S == {i \in l .. n : t[i] \in Int /\ u[i] = t[i] + c}
<1>5. l \in S
  <2>1. v[l] \in Int
    BY <1>0, <1>v
  <2> QED
    BY <1>0, <1>3, <1>4, <2>1
<1>6. ASSUME NEW i \in l .. n - 1, i \in S
      PROVE  i + 1 \in S
  <2>1. /\ i + 1 \in 0 .. n /\ i + 1 # 0 /\ (i + 1) - 1 = i /\ i + 1 \in 1 .. n
        /\ i + 1 # l /\ i + 1 \in l .. n
    BY <1>0
  <2>2. t[i + 1] = t[i] + v[i + 1] /\ u[i + 1] = u[i] + w[i + 1]
    BY <1>1, <1>2, <2>1 DEF IsTotal
  <2>3. w[i + 1] = v[i + 1] /\ v[i + 1] \in Int
    BY <1>v, <2>1
  <2> QED
    BY <1>6, <2>1, <2>2, <2>3
<1>7. l \in Nat /\ n \in l .. n
  BY <1>0
<1>8. n \in S
  <2> HIDE DEF S, b
  <2> QED
    BY <1>5, <1>6, <1>7, UpTo
<1> QED
  BY <1>1, <1>2, <1>8

(* One value more at the end, or before the first.                         *)
LEMMA TotalAppend ==
  ASSUME NEW n \in Nat, NEW v, NEW w, \A i \in 1 .. n + 1 : w[i] \in Int,
         \A i \in 1 .. n : w[i] = v[i]
  PROVE  Total(w, n + 1) = Total(v, n) + w[n + 1]
<1> DEFINE k == n + 1
<1>0. k \in Nat /\ k \in 0 .. k /\ k # 0 /\ k - 1 = n /\ n \in 0 .. n
  OBVIOUS
<1>1. PICK t : IsTotal(t, v, n) /\ Total(v, n) = t[n]
  BY TotalIs
<1>2. PICK u : IsTotal(u, w, k) /\ Total(w, k) = u[k]
  <2> HIDE DEF k
  <2> QED
    BY <1>0, TotalIs
<1>3. u[k] = u[n] + w[k]
  <2> HIDE DEF k
  <2> QED
    BY <1>0, <1>2 DEF IsTotal
<1> DEFINE S == {i \in 0 .. n : t[i] = u[i]}
<1>4. 0 \in S
  BY <1>1, <1>2 DEF IsTotal
<1>5. ASSUME NEW i \in 0 .. n - 1, i \in S
      PROVE  i + 1 \in S
  <2>1. i + 1 \in 0 .. n /\ i + 1 # 0 /\ (i + 1) - 1 = i /\ i + 1 \in 1 .. n /\ i + 1 \in 0 .. k
    OBVIOUS
  <2>2. t[i + 1] = t[i] + v[i + 1] /\ u[i + 1] = u[i] + w[i + 1]
    BY <1>1, <1>2, <2>1 DEF IsTotal
  <2> QED
    BY <1>5, <2>1, <2>2
<1>6. n \in S
  <2>1. 0 \in Nat
    OBVIOUS
  <2> HIDE DEF S, k
  <2> QED
    BY <1>0, <1>4, <1>5, <2>1, UpTo
<1> QED
  BY <1>1, <1>2, <1>3, <1>6

LEMMA TotalTail ==
  ASSUME NEW n \in Nat, NEW v, NEW w, \A i \in 1 .. n + 1 : w[i] \in Int,
         \A i \in 1 .. n : w[i + 1] = v[i]
  PROVE  Total(w, n + 1) = w[1] + Total(v, n)
<1> DEFINE k == n + 1
<1>0. k \in Nat
  OBVIOUS
<1>1. PICK t : IsTotal(t, v, n) /\ Total(v, n) = t[n]
  BY TotalIs
<1>2. PICK u : IsTotal(u, w, k) /\ Total(w, k) = u[k]
  <2> HIDE DEF k
  <2> QED
    BY <1>0, TotalIs
<1> DEFINE S == {i \in 0 .. n : t[i] \in Int /\ u[i + 1] = w[1] + t[i]}
<1>3. 0 \in S
  <2>1. t[0] = 0 /\ u[0] = 0 /\ u[1] = u[1 - 1] + w[1] /\ 1 - 1 = 0 /\ w[1] \in Int
    BY <1>1, <1>2 DEF IsTotal
  <2> QED
    BY <2>1
<1>4. ASSUME NEW i \in 0 .. n - 1, i \in S
      PROVE  i + 1 \in S
  <2>1. /\ i + 1 \in 0 .. n /\ i + 1 # 0 /\ (i + 1) - 1 = i /\ i + 1 \in 1 .. n
        /\ (i + 1) + 1 \in 0 .. k /\ (i + 1) + 1 # 0 /\ ((i + 1) + 1) - 1 = i + 1
        /\ (i + 1) + 1 \in 1 .. n + 1 /\ 1 \in 1 .. n + 1
    OBVIOUS
  <2>2. t[i + 1] = t[i] + v[i + 1] /\ u[(i + 1) + 1] = u[i + 1] + w[(i + 1) + 1]
    BY <1>1, <1>2, <2>1 DEF IsTotal
  <2>3. w[(i + 1) + 1] = v[i + 1] /\ v[i + 1] \in Int /\ w[1] \in Int
    BY <2>1
  <2> QED
    BY <1>4, <2>1, <2>2, <2>3
<1>5. 0 \in Nat /\ n \in 0 .. n
  OBVIOUS
<1>6. n \in S
  <2> HIDE DEF S, k
  <2> QED
    BY <1>3, <1>4, <1>5, UpTo
<1> QED
  BY <1>1, <1>2, <1>6

-----------------------------------------------------------------------------
(* The lines, one after another.                                           *)

Made(s, r, i) ==
  IF i = 0 THEN [fs |-> NoTree, stats |-> NoStats]
  ELSE LET one == RunTask(r.fs, s[i])
       IN  [fs |-> one.fs, stats |-> Plus(r.stats, one.stats)]

LEMMA WorkedIs ==
  ASSUME NEW S, NEW s \in Seq(S)
  PROVE  \A i \in 0 .. Len(s) : Worked(s)[i] = Made(s, Worked(s)[i - 1], i)
<1> DEFINE IsWorked(g, n) == g = [i \in 0 .. n |-> Made(s, g[i - 1], i)]
           Ns == {n \in Nat : \E g : IsWorked(g, n)}
<1>1. 0 \in Ns
  <2>1. IsWorked([i \in 0 .. 0 |-> Made(s, s, 0)], 0)
    BY DEF Made
  <2> QED
    BY <2>1
<1>2. ASSUME NEW n \in 0 .. Len(s) - 1, n \in Ns
      PROVE  n + 1 \in Ns
  <2>1. PICK g : IsWorked(g, n)
    BY <1>2
  <2> DEFINE h == [i \in 0 .. n + 1 |-> IF i = n + 1 THEN Made(s, g[n], n + 1) ELSE g[i]]
  <2>2. ASSUME NEW i \in 0 .. n + 1
        PROVE  h[i] = Made(s, h[i - 1], i)
    <3>1. CASE i = n + 1
      <4>1. h[i] = Made(s, g[n], n + 1) /\ h[i - 1] = g[n]
        BY <3>1
      <4> QED
        BY <3>1, <4>1
    <3>2. CASE i = 0
      <4>1. h[i] = g[i] /\ g[i] = Made(s, g[i - 1], i)
        BY <2>1, <3>2
      <4> QED
        BY <3>2, <4>1 DEF Made
    <3>3. CASE i \in 1 .. n
      <4>1. h[i] = g[i] /\ g[i] = Made(s, g[i - 1], i) /\ h[i - 1] = g[i - 1]
        BY <2>1, <3>3
      <4> QED
        BY <4>1
    <3> QED
      BY <3>1, <3>2, <3>3
  <2>3. IsWorked(h, n + 1)
    BY <2>2
  <2>4. n + 1 \in Nat
    BY <1>2
  <2> HIDE DEF h, IsWorked
  <2> QED
    BY <2>3, <2>4
<1>3. Len(s) \in Ns
  <2>1. Len(s) \in Nat /\ Len(s) \in 0 .. Len(s)
    OBVIOUS
  <2> DEFINE k == Len(s)
  <2> HIDE DEF Ns, k
  <2>2. \A i \in 0 .. k - 1 : i \in Ns => i + 1 \in Ns
    BY <1>2 DEF k
  <2>3. \A i \in 0 .. k : i \in Ns
    BY <1>1, <2>1, <2>2, UpTo DEF k
  <2> QED
    BY <2>1, <2>3 DEF k
<1>4. IsWorked(Worked(s), Len(s))
  BY <1>3 DEF Worked, Made
<1> QED
  BY <1>4

-----------------------------------------------------------------------------
(* What a line does depends on and changes only its own mount point.       *)

IsTree(f) == f = [x \in FsPaths |-> f[x]]
Same(f, g, m) == \A x \in FsPaths : Mount[x] = m => f[x] = g[x]
IsStats(a) == a \in [dirs : Nat, files : Nat, sizes : Nat]

(* The results r of f and q of g.                                          *)
Alike(r, q, f, m) ==
  /\ IsTree(r.fs) /\ IsTree(q.fs)
  /\ r.stats = q.stats /\ IsStats(r.stats)
  /\ Same(r.fs, q.fs, m)
  /\ \A x \in FsPaths : Mount[x] # m => r.fs[x] = f[x]

LEMMA MakeDirsLocal ==
  ASSUME NEW x \in FsPaths, NEW f, NEW g, IsTree(f), IsTree(g), Same(f, g, Mount[x])
  PROVE  Alike(MakeDirs(f, x), MakeDirs(g, x), f, Mount[x])
<1> DEFINE New(h) == {d \in Chain[x] : h[d].kind # "dir"}
           Tree(h) == [d \in FsPaths |-> IF d \in New(h) THEN [Absent EXCEPT !.kind = "dir"]
                                         ELSE h[d]]
           Count(h) == [NoStats EXCEPT !.dirs = Cardinality(New(h))]
<1>1. \A d \in Chain[x] : d \in FsPaths /\ Mount[d] = Mount[x]
  BY ChainAssumption
<1>2. New(f) = New(g)
  BY <1>1 DEF Same
<1>3. IsFiniteSet(New(f)) /\ Cardinality(New(f)) \in Nat
  BY ChainAssumption, FS_Subset, FS_CardinalityType
<1>4. /\ MakeDirs(f, x).fs = Tree(f) /\ MakeDirs(f, x).stats = Count(f)
      /\ MakeDirs(g, x).fs = Tree(g) /\ MakeDirs(g, x).stats = Count(g)
  BY DEF MakeDirs
<1>5. IsStats(Count(f))
  <2> HIDE DEF New
  <2> QED
    BY <1>3 DEF IsStats, NoStats
<1>6. IsTree(Tree(f)) /\ IsTree(Tree(g))
  BY DEF IsTree
<1>7. \A d \in FsPaths : Mount[d] = Mount[x] => Tree(f)[d] = Tree(g)[d]
  <2> HIDE DEF New
  <2> QED
    BY <1>2 DEF Same
<1>8. \A d \in FsPaths : Mount[d] # Mount[x] => Tree(f)[d] = f[d]
  BY <1>1
<1>9. Count(f) = Count(g)
  BY <1>2
<1> QED
  <2> HIDE DEF Tree, Count, New
  <2> QED
    BY <1>4, <1>5, <1>6, <1>7, <1>8, <1>9 DEF Alike, Same

LEMMA WithParentLocal ==
  ASSUME NEW x \in FsPaths, NEW f, NEW g, IsTree(f), IsTree(g), Same(f, g, Mount[x])
  PROVE  Alike(WithParent(f, x), WithParent(g, x), f, Mount[x])
<1>1. CASE Cardinality(Chain[x]) = 1
  BY <1>1 DEF WithParent, Alike, IsStats, NoStats
<1>2. CASE Cardinality(Chain[x]) # 1
  <2>1. \E d \in FsPaths : Chain[d] = Chain[x] \ {x}
    BY <1>2, ChainAssumption
  <2>2. ParentOf(x) \in FsPaths /\ Chain[ParentOf(x)] = Chain[x] \ {x}
    BY <2>1 DEF ParentOf
  <2>3. Mount[ParentOf(x)] = Mount[x]
    BY <2>2, ChainAssumption
  <2> QED
    BY <1>2, <2>2, <2>3, MakeDirsLocal DEF WithParent
<1> QED
  BY <1>1, <1>2

(* One path more is written.                                               *)
LEMMA WriteLocal ==
  ASSUME NEW r, NEW q, NEW f, NEW x \in FsPaths, Alike(r, q, f, Mount[x]), NEW e,
         NEW a, NEW b, a.fs = [r.fs EXCEPT ![x] = e], b.fs = [q.fs EXCEPT ![x] = e],
         a.stats = b.stats, IsStats(a.stats)
  PROVE  Alike(a, b, f, Mount[x])
BY ZenonT(60) DEF Alike, IsTree, Same

LEMMA RunTaskLocal ==
  ASSUME NEW l \in InitLine, NEW f, NEW g, IsTree(f), IsTree(g), Same(f, g, Mount[l.path])
  PROVE  Alike(RunTask(f, l), RunTask(g, l), f, Mount[l.path])
<1> DEFINE x == l.path
           p == WithParent(f, x)
           q == WithParent(g, x)
<1>1. /\ x \in FsPaths /\ l.bytes \in Nat /\ f[x] = g[x]
      /\ l.kind \in {"dir", "file", "link"}
  BY DEF InitLine, Same
<1>2. Alike(p, q, f, Mount[x])
  BY <1>1, WithParentLocal
<1>3. p.fs[x] = q.fs[x] /\ p.stats = q.stats /\ IsStats(p.stats)
  BY <1>1, <1>2 DEF Alike, Same
<1>4. CASE l.kind = "dir"
  BY <1>1, <1>4, MakeDirsLocal DEF RunTask
<1>5. CASE l.kind = "link"
  <2>1. CASE p.fs[x].kind = "dir"
    BY <1>2, <1>3, <1>5, <2>1 DEF RunTask, MakeLink
  <2>2. CASE p.fs[x].kind # "dir"
    <3> DEFINE e == [Absent EXCEPT !.kind = "link"]
               a == [fs |-> [p.fs EXCEPT ![x] = e], stats |-> [p.stats EXCEPT !.files = 1]]
               b == [fs |-> [q.fs EXCEPT ![x] = e], stats |-> [q.stats EXCEPT !.files = 1]]
    <3>1. RunTask(f, l) = a /\ RunTask(g, l) = b
      BY <1>3, <1>5, <2>2 DEF RunTask, MakeLink
    <3>2. a.stats = b.stats /\ IsStats(a.stats)
      <4> HIDE DEF p, q
      <4> QED
        BY <1>3 DEF IsStats
    <3>3. a.fs = [p.fs EXCEPT ![x] = e] /\ b.fs = [q.fs EXCEPT ![x] = e]
      OBVIOUS
    <3> HIDE DEF p, q, e, a, b, x
    <3>4. Alike(a, b, f, Mount[x])
      BY SMTT(30), <1>1, <1>2, <3>2, <3>3, WriteLocal
    <3> QED
      BY SMTT(30), <3>1, <3>4 DEF x
  <2> QED
    BY <2>1, <2>2
<1>6. CASE l.kind = "file"
  <2> DEFINE new == [kind |-> "file", size |-> 2, data |-> 0 .. 1]
  <2>1. CASE f[x].kind = "file"
    <3> DEFINE e == Written(f[x], l)
               a == [fs |-> [f EXCEPT ![x] = e],
                     stats |-> [NoStats EXCEPT !.files = 1, !.sizes = l.bytes]]
               b == [fs |-> [g EXCEPT ![x] = e],
                     stats |-> [NoStats EXCEPT !.files = 1, !.sizes = l.bytes]]
               r == [fs |-> f, stats |-> NoStats]
               s == [fs |-> g, stats |-> NoStats]
    <3>1. RunTask(f, l) = a /\ RunTask(g, l) = b
      BY <1>1, <1>6, <2>1 DEF RunTask, MakeFile, IsTree
    <3>2. a.stats = b.stats /\ IsStats(a.stats)
      BY <1>1 DEF IsStats, NoStats
    <3>3. a.fs = [r.fs EXCEPT ![x] = e] /\ b.fs = [s.fs EXCEPT ![x] = e]
      OBVIOUS
    <3>4. Alike(r, s, f, Mount[x])
      BY DEF Alike, IsStats, NoStats
    <3> HIDE DEF e, a, b, x, r, s
    <3>5. Alike(a, b, f, Mount[x])
      BY SMTT(30), <1>1, <3>2, <3>3, <3>4, WriteLocal
    <3> QED
      BY <3>1, <3>5 DEF x
  <2>2. CASE f[x].kind # "file" /\ p.fs[x].kind = "dir"
    BY <1>1, <1>2, <1>3, <1>6, <2>2 DEF RunTask, MakeFile
  <2>3. CASE f[x].kind # "file" /\ p.fs[x].kind # "dir"
    <3> DEFINE e == Written(new, l)
               a == [fs |-> [p.fs EXCEPT ![x] = e],
                     stats |-> [p.stats EXCEPT !.files = 1, !.sizes = l.bytes]]
               b == [fs |-> [q.fs EXCEPT ![x] = e],
                     stats |-> [q.stats EXCEPT !.files = 1, !.sizes = l.bytes]]
    <3>1. RunTask(f, l) = a /\ RunTask(g, l) = b
      BY <1>1, <1>3, <1>6, <2>3 DEF RunTask, MakeFile
    <3>2. a.stats = b.stats /\ IsStats(a.stats)
      <4> HIDE DEF p, q
      <4> QED
        BY <1>1, <1>3 DEF IsStats
    <3>3. a.fs = [p.fs EXCEPT ![x] = e] /\ b.fs = [q.fs EXCEPT ![x] = e]
      OBVIOUS
    <3> HIDE DEF p, q, e, a, b, x
    <3>4. Alike(a, b, f, Mount[x])
      BY <1>1, <1>2, <3>2, <3>3, WriteLocal
    <3> QED
      BY <3>1, <3>4 DEF x
  <2> QED
    BY <2>1, <2>2, <2>3
<1> QED
  BY <1>1, <1>4, <1>5, <1>6

-----------------------------------------------------------------------------
(* Lines that other mount points are about leave a mount point alone.      *)

LEMMA WorkedStep ==
  ASSUME NEW s \in Seq(InitLine), NEW i \in 0 .. Len(s) - 1
  PROVE  /\ s[i + 1] \in InitLine
         /\ Worked(s)[i + 1].fs = RunTask(Worked(s)[i].fs, s[i + 1]).fs
         /\ Worked(s)[i + 1].stats =
              Plus(Worked(s)[i].stats, RunTask(Worked(s)[i].fs, s[i + 1]).stats)
<1>1. i + 1 \in 0 .. Len(s) /\ (i + 1) - 1 = i /\ i + 1 # 0 /\ i + 1 \in 1 .. Len(s)
  OBVIOUS
<1>2. Worked(s)[i + 1] = Made(s, Worked(s)[i], i + 1)
  BY <1>1, WorkedIs
<1> QED
  BY <1>1, <1>2 DEF Made

LEMMA PlusIs ==
  ASSUME NEW a, NEW b, IsStats(a), IsStats(b)
  PROVE  /\ IsStats(Plus(a, b))
         /\ \A n \in {"dirs", "files", "sizes"} : Plus(a, b)[n] = a[n] + b[n]
<1>1. /\ a = [dirs |-> a.dirs, files |-> a.files, sizes |-> a.sizes]
      /\ a.dirs \in Nat /\ a.files \in Nat /\ a.sizes \in Nat
      /\ b.dirs \in Nat /\ b.files \in Nat /\ b.sizes \in Nat
  BY DEF IsStats
<1>2. DOMAIN a = {"dirs", "files", "sizes"}
  BY <1>1
<1>3. Plus(a, b) = [n \in {"dirs", "files", "sizes"} |-> a[n] + b[n]]
  BY <1>2 DEF Plus
<1>4. Plus(a, b) = [dirs |-> a.dirs + b.dirs, files |-> a.files + b.files,
                    sizes |-> a.sizes + b.sizes]
  BY <1>3
<1> QED
  BY <1>1, <1>3, <1>4 DEF IsStats

LEMMA WorkedOK ==
  ASSUME NEW s \in Seq(InitLine)
  PROVE  \A i \in 0 .. Len(s) : IsTree(Worked(s)[i].fs) /\ IsStats(Worked(s)[i].stats)
<1> DEFINE k == Len(s)
           OK == {i \in 0 .. k : IsTree(Worked(s)[i].fs) /\ IsStats(Worked(s)[i].stats)}
<1>1. k \in Nat
  OBVIOUS
<1>2. 0 \in OK
  <2>1. Worked(s)[0] = Made(s, Worked(s)[0 - 1], 0)
    BY <1>1, WorkedIs
  <2>2. Worked(s)[0] = [fs |-> NoTree, stats |-> NoStats]
    BY <2>1 DEF Made
  <2>3. IsTree(NoTree) /\ IsStats(NoStats)
    BY DEF IsTree, NoTree, IsStats, NoStats
  <2>4. Worked(s)[0].fs = NoTree /\ Worked(s)[0].stats = NoStats
    BY <2>2
  <2> QED
    BY <1>1, <2>3, <2>4
<1>3. ASSUME NEW i \in 0 .. k - 1, i \in OK
      PROVE  i + 1 \in OK
  <2> DEFINE r == RunTask(Worked(s)[i].fs, s[i + 1])
  <2>1. /\ s[i + 1] \in InitLine /\ Worked(s)[i + 1].fs = r.fs
        /\ Worked(s)[i + 1].stats = Plus(Worked(s)[i].stats, r.stats)
    BY WorkedStep
  <2>2. IsTree(r.fs) /\ IsStats(r.stats)
    BY <1>3, <2>1, RunTaskLocal DEF Alike, Same
  <2> HIDE DEF r
  <2>3. IsStats(Plus(Worked(s)[i].stats, r.stats))
    BY <1>3, <2>2, PlusIs
  <2> QED
    BY <1>1, <1>3, <2>1, <2>2, <2>3
<1> HIDE DEF k, OK
<1>4. \A i \in 0 .. k : i \in OK
  BY <1>1, <1>2, <1>3, UpTo
<1> QED
  BY <1>4 DEF k, OK

LEMMA OthersIdle ==
  ASSUME NEW s \in Seq(InitLine), NEW m, NEW i \in 0 .. Len(s), NEW j \in i .. Len(s),
         \A l \in i + 1 .. j : Mount[s[l].path] # m
  PROVE  Same(Worked(s)[i].fs, Worked(s)[j].fs, m)
<1> DEFINE OK == {l \in i .. j : Same(Worked(s)[i].fs, Worked(s)[l].fs, m)}
<1>1. i \in Nat /\ j \in Nat /\ i \in i .. j /\ j \in i .. j
  OBVIOUS
<1>2. i \in OK
  BY <1>1 DEF Same
<1>3. ASSUME NEW l \in i .. j - 1, l \in OK
      PROVE  l + 1 \in OK
  <2>1. l \in 0 .. Len(s) - 1 /\ l \in 0 .. Len(s) /\ l + 1 \in i + 1 .. j /\ l + 1 \in i .. j
    BY <1>1
  <2>2. s[l + 1] \in InitLine /\ Worked(s)[l + 1].fs = RunTask(Worked(s)[l].fs, s[l + 1]).fs
    BY <2>1, WorkedStep
  <2>3. IsTree(Worked(s)[l].fs)
    BY <2>1, WorkedOK
  <2>4. Mount[s[l + 1].path] # m
    BY <2>1
  <2> DEFINE f == Worked(s)[l].fs
             r == RunTask(f, s[l + 1])
  <2>5. Alike(r, r, f, Mount[s[l + 1].path])
    <3>1. Same(f, f, Mount[s[l + 1].path])
      BY DEF Same
    <3> QED
      BY <2>2, <2>3, <3>1, RunTaskLocal
  <2>6. \A x \in FsPaths : Mount[x] = m => r.fs[x] = f[x]
    BY <2>4, <2>5 DEF Alike
  <2> QED
    BY <1>3, <2>1, <2>2, <2>6 DEF Same
<1> HIDE DEF OK
<1>4. \A l \in i .. j : l \in OK
  BY <1>1, <1>2, <1>3, UpTo
<1> QED
  BY <1>1, <1>4 DEF OK

-----------------------------------------------------------------------------
(* The state of init_run and its threads.                                  *)

IsTask(t) ==
  /\ t = [line |-> t.line, stats |-> t.stats]
  /\ t.line \in InitLine /\ IsStats(t.stats)

(* None or the one that is there.                                          *)
IsLocal(c) == c = None \/ \E k \in ITasks : c = <<k>>

MainOK ==
  /\ section \in Seq(InitLine)
  /\ next_line \in 1 .. Len(section) + 1
  /\ iteam \in Seq(Mounts)
  /\ IsLocal(itask) /\ (itask # None <=> ipc = "insert")
  /\ IsStats(totals) /\ IsStats(lost)
  /\ ipc = "trash" => next_line = 1 /\ \A m \in Mounts : itpc[m] = "none"
  /\ ipc = "insert" => next_line <= Len(section)
  /\ ipc \in {"join", "joined", "success"} => next_line = Len(section) + 1
  /\ ipc = "join" => iteam # <<>>
  /\ ipc = "success" => iteam = <<>> /\ reuse_queue = <<>>

(* A thread is waited for until it has ended, which is after all lines are *)
(* given away, and leaves nothing.                                         *)
ThreadOK(m) ==
  /\ queue[m] \in Seq(ITasks) /\ IsLocal(icur[m])
  /\ itpc[m] \in {"none", "loop", "test", "drain", "ended"}
  /\ itpc[m] \in {"none", "ended"} => queue[m] = <<>> /\ icur[m] = None
  /\ itpc[m] \notin {"none", "ended"} => \E i \in 1 .. Len(iteam) : iteam[i] = m
  /\ itpc[m] \in {"drain", "ended"} => iterminate[m]
  /\ iterminate[m] => ipc \in {"join", "joined", "success"}
IthreadsOK ==
  /\ queue = [m \in Mounts |-> queue[m]] /\ icur = [m \in Mounts |-> icur[m]]
  /\ itpc = [m \in Mounts |-> itpc[m]] /\ iterminate = [m \in Mounts |-> iterminate[m]]
  /\ \A m \in Mounts : ThreadOK(m)

(* The tasks that m's thread has before it.                                *)
Pend(m) == icur[m] \o queue[m]

(* A task is in one place, and one that is to be done has counted nothing. *)
ToDo(k) == task_of[k] # None /\ task_of[k].stats = NoStats
ReuseOK ==
  /\ reuse_queue \in Seq(ITasks)
  /\ \A i, j \in 1 .. Len(reuse_queue) : reuse_queue[i] = reuse_queue[j] => i = j
  /\ \A i \in 1 .. Len(reuse_queue) : task_of[reuse_queue[i]] # None
PendOK(m) ==
  \A i \in 1 .. Len(Pend(m)) :
    /\ ToDo(Pend(m)[i])
    /\ \A j \in 1 .. Len(reuse_queue) : reuse_queue[j] # Pend(m)[i]
    /\ \A o \in Mounts : \A j \in 1 .. Len(Pend(o)) :
         Pend(o)[j] = Pend(m)[i] => o = m /\ j = i
LocalOK(k) ==
  /\ ToDo(k) /\ task_of[k].line = section[next_line]
  /\ \A j \in 1 .. Len(reuse_queue) : reuse_queue[j] # k
  /\ \A m \in Mounts : \A i \in 1 .. Len(Pend(m)) : Pend(m)[i] # k
TasksOK ==
  /\ task_of = [k \in ITasks |-> task_of[k]]
  /\ \A k \in ITasks : task_of[k] = None \/ IsTask(task_of[k])
  /\ ReuseOK
  /\ \A m \in Mounts : PendOK(m)
  /\ \A k \in ITasks : itask = <<k>> => LocalOK(k)

(* Of the lines l of mount point m before line n, those up to u are done   *)
(* and the others are in the hands of its thread, as p, in their order.    *)
Handed(l, n, tasks, m, u, p) ==
  \E ns \in [1 .. Len(p) -> u + 1 .. n - 1] :
    /\ \A i \in 1 .. Len(p) : tasks[p[i]].line = l[ns[i]] /\ Mount[l[ns[i]].path] = m
    /\ \A i, j \in 1 .. Len(p) : i < j => ns[i] < ns[j]
    /\ \A k \in u + 1 .. n - 1 :
         Mount[l[k].path] = m => \E i \in 1 .. Len(p) : ns[i] = k
(* Its files are what the former make.                                     *)
AsFar(m, u) ==
  /\ u \in 0 .. next_line - 1
  /\ Handed(section, next_line, task_of, m, u, Pend(m))
  /\ ipc # "trash" => Same(fs, Worked(section)[u].fs, m)
AllAsFar(upto) == \A m \in Mounts : AsFar(m, upto[m])

(* What line l counts, what lines up to upto count, and what tasks carry.  *)
Fields == {"dirs", "files", "sizes"}
LineCounts(s, l, f) == RunTask(Worked(s)[l - 1].fs, s[l]).stats[f]
IsDone(s, l, upto) == l <= upto[Mount[s[l].path]]
DoneCounts(s, upto, f) ==
  [l \in 1 .. Len(s) |-> IF IsDone(s, l, upto) THEN LineCounts(s, l, f) ELSE 0]
Carried(q, tasks, f) == [i \in 1 .. Len(q) |-> tasks[q[i]].stats[f]]

(* Nothing that was counted is lost or doubled.                            *)
Balanced(upto) ==
  \A f \in Fields :
    totals[f] + lost[f] + Total(Carried(reuse_queue, task_of, f), Len(reuse_queue))
      = Total(DoneCounts(section, upto, f), Len(section))

(* Every task is somewhere.                                                *)
Somewhere(k) ==
  \/ itask = <<k>>
  \/ \E i \in 1 .. Len(reuse_queue) : reuse_queue[i] = k
  \/ \E m \in Mounts : \E i \in 1 .. Len(Pend(m)) : Pend(m)[i] = k
NoneLost == \A k \in ITasks : task_of[k] # None => Somewhere(k)

(* The options under which there is an init.                               *)
ModeOK ==
  /\ ipc # "trash" \/ mpc = "init" => mode \in {"-i", "-R"}
  /\ mpc = "cleanup" => mode \in {"-T", "-P"}
  /\ purgers # {} => mode = "-P"
  /\ ipc = "unforked" => mpc # "init"

InitsOK ==
  /\ IsTree(fs)
  /\ MainOK /\ IthreadsOK /\ TasksOK /\ NoneLost
  /\ \E upto \in [Mounts -> 0 .. next_line - 1] : AllAsFar(upto) /\ Balanced(upto)
Runs == ipc \notin {"error", "unforked"}
InitModeInv == ModeOK /\ (Runs => InitsOK)

-----------------------------------------------------------------------------
(* The tasks before a thread, when it or init_run acts.                    *)

LEMMA PendIs ==
  ASSUME IthreadsOK, NEW m \in Mounts
  PROVE  /\ queue[m] \in Seq(ITasks) /\ icur[m] \in Seq(ITasks) /\ Pend(m) \in Seq(ITasks)
         /\ icur[m] = None => Pend(m) = queue[m]
<1>1. queue[m] \in Seq(ITasks) /\ IsLocal(icur[m])
  BY DEF IthreadsOK, ThreadOK
<1>2. icur[m] \in Seq(ITasks)
  <2>1. CASE icur[m] = <<>>
    BY <2>1, EmptySeq
  <2>2. ASSUME NEW k \in ITasks, icur[m] = <<k>>
        PROVE  icur[m] \in Seq(ITasks)
    BY <2>2
  <2> QED
    BY <1>1, <2>1, <2>2 DEF IsLocal, None
<1> QED
  BY <1>1, <1>2, ConcatProperties, ConcatEmptySeq DEF Pend, None

LEMMA HeadFirst ==
  ASSUME NEW S, NEW s \in Seq(S), s # <<>>
  PROVE  <<Head(s)>> \o Tail(s) = s
<1>1. /\ Head(s) \in S /\ Tail(s) \in Seq(S) /\ Head(s) = s[1]
      /\ Len(Tail(s)) = Len(s) - 1 /\ Len(s) \in Nat \ {0}
      /\ \A i \in 1 .. Len(s) - 1 : Tail(s)[i] = s[i + 1]
  BY HeadTailProperties, EmptySeq
<1>2. <<Head(s)>> \in Seq(S) /\ Len(<<Head(s)>>) = 1 /\ <<Head(s)>>[1] = s[1]
  BY <1>1
<1> DEFINE u == <<Head(s)>> \o Tail(s)
<1>3. /\ u \in Seq(S) /\ Len(u) = Len(s)
      /\ \A i \in 1 .. Len(s) :
           u[i] = IF i <= 1 THEN <<Head(s)>>[i] ELSE Tail(s)[i - 1]
  BY <1>1, <1>2, ConcatProperties
<1>4. ASSUME NEW i \in 1 .. Len(s)
      PROVE  u[i] = s[i]
  <2>1. CASE i = 1
    BY <1>2, <1>3, <2>1
  <2>2. CASE i # 1
    <3>1. i - 1 \in 1 .. Len(s) - 1 /\ (i - 1) + 1 = i /\ ~(i <= 1)
      BY <1>1, <2>2
    <3> QED
      BY <1>1, <1>3, <3>1
  <2> QED
    BY <2>1, <2>2
<1> HIDE DEF u
<1>5. u = s
  BY <1>3, <1>4, SeqEqual
<1> QED
  BY <1>5 DEF u

(* From p to q one task was added at the end, or the first one removed.    *)
Added(q, p, k) ==
  /\ q \in Seq(ITasks) /\ Len(q) = Len(p) + 1 /\ q[Len(p) + 1] = k
  /\ \A i \in 1 .. Len(p) : q[i] = p[i]
Removed(q, p, k) ==
  /\ q \in Seq(ITasks) /\ Len(p) = Len(q) + 1 /\ p[1] = k
  /\ \A i \in 1 .. Len(q) : q[i] = p[i + 1]

LEMMA AppendAdds ==
  ASSUME NEW p \in Seq(ITasks), NEW k \in ITasks
  PROVE  Added(Append(p, k), p, k)
BY AppendProperties DEF Added

LEMMA TailRemoves ==
  ASSUME NEW p \in Seq(ITasks), p # <<>>
  PROVE  Removed(Tail(p), p, Head(p)) /\ Head(p) \in ITasks
<1>1. Len(p) \in Nat \ {0}
  BY EmptySeq
<1> QED
  BY <1>1, HeadTailProperties DEF Removed

LEMMA TakePend ==
  ASSUME IthreadsOK, NEW m \in Mounts, TakeItask(m)
  PROVE  \A o \in Mounts : Pend(o)' = Pend(o)
<1>1. /\ icur' = [icur EXCEPT ![m] = <<Head(queue[m])>>]
      /\ queue' = [queue EXCEPT ![m] = Tail(queue[m])]
      /\ icur[m] = None /\ queue[m] # <<>>
      /\ queue = [o \in Mounts |-> queue[o]] /\ icur = [o \in Mounts |-> icur[o]]
  BY DEF TakeItask, IthreadsOK
<1>2. /\ icur'[m] = <<Head(queue[m])>> /\ queue'[m] = Tail(queue[m])
      /\ \A o \in Mounts : o # m => icur'[o] = icur[o] /\ queue'[o] = queue[o]
  BY <1>1
<1>3. icur'[m] \o queue'[m] = queue[m]
  BY <1>1, <1>2, PendIs, HeadFirst
<1>4. Pend(m) = queue[m]
  BY <1>1, PendIs
<1> QED
  BY <1>2, <1>3, <1>4 DEF Pend

LEMMA InsertPend ==
  ASSUME IthreadsOK, NEW m \in Mounts, NEW k \in ITasks,
         queue' = [queue EXCEPT ![m] = Append(queue[m], k)], icur' = icur
  PROVE  /\ Added(Pend(m)', Pend(m), k)
         /\ \A o \in Mounts : o # m => Pend(o)' = Pend(o)
<1>1. /\ queue'[m] = Append(queue[m], k)
      /\ \A o \in Mounts : o # m => queue'[o] = queue[o]
  BY DEF IthreadsOK
<1>2. queue[m] \in Seq(ITasks) /\ icur[m] \in Seq(ITasks) /\ Pend(m) \in Seq(ITasks)
  BY PendIs
<1>3. <<k>> \in Seq(ITasks)
  OBVIOUS
<1>4. Append(queue[m], k) = queue[m] \o <<k>>
  BY <1>2, AppendIsConcat
<1>5. icur[m] \o (queue[m] \o <<k>>) = (icur[m] \o queue[m]) \o <<k>>
  <2> DEFINE one == <<k>>
  <2> HIDE DEF one
  <2>1. one \in Seq(ITasks)
    BY <1>3 DEF one
  <2>2. \A a, b, c \in Seq(ITasks) : (a \o b) \o c = a \o (b \o c)
    BY SMTT(30), ConcatAssociative
  <2>3. (icur[m] \o queue[m]) \o one = icur[m] \o (queue[m] \o one)
    BY ZenonT(40), <1>2, <2>1, <2>2
  <2> QED
    BY <2>3 DEF one
<1>6. (icur[m] \o queue[m]) \o <<k>> = Append(icur[m] \o queue[m], k)
  BY <1>2, AppendIsConcat DEF Pend
<1>7. Pend(m)' = Append(Pend(m), k)
  BY <1>1, <1>4, <1>5, <1>6 DEF Pend
<1> QED
  BY <1>1, <1>2, <1>7, AppendAdds DEF Pend

LEMMA RunPend ==
  ASSUME IthreadsOK, NEW m \in Mounts, RunItask(m)
  PROVE  /\ icur[m][1] \in ITasks
         /\ Removed(Pend(m)', Pend(m), icur[m][1])
         /\ \A o \in Mounts : o # m => Pend(o)' = Pend(o)
<1>1. /\ icur' = [icur EXCEPT ![m] = None] /\ queue' = queue /\ icur[m] # None
      /\ icur = [o \in Mounts |-> icur[o]]
  BY DEF RunItask, IthreadsOK
<1>2. PICK k \in ITasks : icur[m] = <<k>>
  BY <1>1 DEF IthreadsOK, ThreadOK, IsLocal
<1>3. icur'[m] = <<>> /\ \A o \in Mounts : o # m => icur'[o] = icur[o]
  BY <1>1 DEF None
<1>4. queue[m] \in Seq(ITasks) /\ <<k>> \in Seq(ITasks) /\ Len(<<k>>) = 1 /\ <<k>>[1] = k
  BY PendIs
<1>5. Pend(m)' = queue[m]
  BY <1>1, <1>3, <1>4, ConcatEmptySeq DEF Pend
<1> DEFINE p == <<k>> \o queue[m]
<1>6. /\ Len(p) = 1 + Len(queue[m])
      /\ \A i \in 1 .. 1 + Len(queue[m]) : p[i] = IF i <= 1 THEN <<k>>[i] ELSE queue[m][i - 1]
  BY <1>4, ConcatProperties
<1>7. Pend(m) = p
  BY <1>2 DEF Pend
<1> HIDE DEF p
<1>8. Len(queue[m]) \in Nat
  BY <1>4
<1>9. p[1] = k
  BY <1>4, <1>6, <1>8
<1>10. ASSUME NEW i \in 1 .. Len(queue[m])
       PROVE  queue[m][i] = p[i + 1]
  <2>1. i + 1 \in 1 .. 1 + Len(queue[m]) /\ ~(i + 1 <= 1) /\ (i + 1) - 1 = i
    BY <1>8
  <2> QED
    BY <1>6, <2>1
<1>11. Removed(Pend(m)', Pend(m), k)
  BY SMTT(30), <1>4, <1>5, <1>6, <1>7, <1>8, <1>9, <1>10 DEF Removed
<1> QED
  BY SMTT(30), <1>1, <1>2, <1>3, <1>11 DEF Pend

-----------------------------------------------------------------------------
(* A step of init_run or of a thread keeps the parts of the state in order.*)

USE DEF Runs

(* What a thread runs.                                                     *)
LEMMA RunFacts ==
  ASSUME InitsOK, NEW m \in Mounts, RunItask(m)
  PROVE  LET k == icur[m][1]
             r == RunTask(fs, task_of[k].line)
         IN  /\ k \in ITasks /\ IsTask(task_of[k]) /\ task_of[k].stats = NoStats
             /\ Alike(r, r, fs, Mount[task_of[k].line.path])
             /\ IsStats(Plus(task_of[k].stats, r.stats))
             /\ Len(Pend(m)) \in Nat \ {0} /\ Pend(m)[1] = k
<1> DEFINE k == icur[m][1]
           r == RunTask(fs, task_of[k].line)
<1>0. IthreadsOK /\ TasksOK /\ IsTree(fs)
  BY DEF InitsOK
<1>1. k \in ITasks /\ Removed(Pend(m)', Pend(m), k)
  BY <1>0, RunPend
<1>2. Len(Pend(m)) \in Nat /\ Len(Pend(m)') \in Nat
  BY <1>0, <1>1, PendIs DEF Removed
<1>3. Len(Pend(m)) \in Nat \ {0} /\ Pend(m)[1] = k /\ 1 \in 1 .. Len(Pend(m))
  BY <1>1, <1>2 DEF Removed
<1>4. ToDo(k)
  BY <1>0, <1>3 DEF TasksOK, PendOK
<1>5. IsTask(task_of[k]) /\ task_of[k].stats = NoStats
  BY <1>0, <1>1, <1>4 DEF TasksOK, ToDo
<1>6. Alike(r, r, fs, Mount[task_of[k].line.path])
  BY SMTT(30), <1>0, <1>5, RunTaskLocal DEF IsTask, Same
<1>7. IsStats(Plus(task_of[k].stats, r.stats))
  BY <1>5, <1>6, PlusIs DEF IsTask, Alike
<1> QED
  BY <1>1, <1>3, <1>5, <1>6, <1>7

LEMMA MainStep ==
  ASSUME InitsOK, Runs, InitNext, ipc' # "error"
  PROVE  MainOK'
<1>0. MainOK /\ IthreadsOK /\ TasksOK
  BY DEF InitsOK
<1>1. CASE Trash
  BY <1>0, <1>1 DEF Trash, ithreads, MainOK
<1>2. CASE ReadInitLine
  <2>1. /\ UNCHANGED <<section, next_line, iteam, lost>> /\ ipc = "read" /\ ipc' = "insert"
        /\ next_line <= Len(section) /\ GetItask
    BY <1>2 DEF ReadInitLine
  <2>2. CASE reuse_queue # <<>>
    <3>1. Head(reuse_queue) \in ITasks /\ task_of[Head(reuse_queue)] # None
      <4>1. Len(reuse_queue) \in Nat \ {0} /\ Head(reuse_queue) = reuse_queue[1]
        BY <1>0, <2>2, EmptySeq DEF TasksOK, ReuseOK
      <4> QED
        BY <1>0, <4>1 DEF TasksOK, ReuseOK
    <3>2. IsStats(task_of[Head(reuse_queue)].stats)
      BY <1>0, <3>1 DEF TasksOK, IsTask
    <3>3. /\ itask' = <<Head(reuse_queue)>>
          /\ totals' = Plus(totals, task_of[Head(reuse_queue)].stats)
      BY <2>1, <2>2 DEF GetItask
    <3>4. IsStats(totals)'
      BY <1>0, <3>2, <3>3, PlusIs DEF MainOK, IsStats
    <3>5. IsLocal(itask)' /\ itask' # None
      BY <3>1, <3>3 DEF IsLocal, None
    <3> QED
      BY <1>0, <2>1, <3>4, <3>5 DEF MainOK
  <2>3. CASE reuse_queue = <<>>
    <3>1. \E k \in ITasks : itask' = <<k>>
      BY <2>1, <2>3 DEF GetItask
    <3>2. IsLocal(itask)' /\ itask' # None
      BY <3>1 DEF IsLocal, None
    <3>3. totals' = totals
      BY <2>1, <2>3 DEF GetItask
    <3> QED
      BY <1>0, <2>1, <3>2, <3>3 DEF MainOK
  <2> QED
    BY <2>2, <2>3
<1>3. CASE StartIthread
  <2> DEFINE m == ThreadOf(section[next_line].path)
  <2>1. /\ UNCHANGED <<section, ipc, next_line, itask, totals, lost, reuse_queue>>
        /\ ipc = "insert" /\ iteam' = Append(iteam, m)
    BY <1>3 DEF StartIthread
  <2>2. section[next_line] \in InitLine
    BY <1>0, <2>1 DEF MainOK
  <2>3. m \in Mounts
    BY <2>2 DEF ThreadOf, Mounts, InitLine
  <2> HIDE DEF m
  <2>4. iteam' \in Seq(Mounts)
    BY <1>0, <2>1, <2>3, AppendProperties DEF MainOK
  <2> QED
    BY <1>0, <2>1, <2>4 DEF MainOK
<1>4. CASE InsertItask
  BY <1>0, <1>4 DEF InsertItask, MainOK, IsLocal
<1>5. CASE TerminateIthread
  BY <1>0, <1>5 DEF TerminateIthread, ithreads, MainOK
<1>6. CASE JoinIthread
  <2>1. /\ UNCHANGED <<section, next_line, itask, totals, lost, reuse_queue>>
        /\ ipc = "join" /\ ipc' = "joined" /\ iteam' = Front(iteam)
    BY <1>6 DEF JoinIthread
  <2>2. iteam \in Seq(Mounts) /\ iteam # <<>>
    BY <1>0, <2>1 DEF MainOK
  <2>3. Front(iteam) \in Seq(Mounts)
    BY <2>2 DEF Front
  <2> QED
    BY <1>0, <2>1, <2>3 DEF MainOK
<1>7. CASE CountItask
  <2>1. /\ UNCHANGED <<section, ipc, next_line, itask, iteam, ithreads, lost>>
        /\ reuse_queue # <<>> /\ totals' = Plus(totals, task_of[Head(reuse_queue)].stats)
        /\ ipc \in {"joined", "read"}
    BY <1>7 DEF CountItask, AllJoined
  <2>2. Len(reuse_queue) \in Nat \ {0} /\ Head(reuse_queue) = reuse_queue[1]
    BY <1>0, <2>1, EmptySeq DEF TasksOK, ReuseOK
  <2>3. Head(reuse_queue) \in ITasks /\ task_of[Head(reuse_queue)] # None
    BY <1>0, <2>2 DEF TasksOK, ReuseOK
  <2>4. IsStats(totals)'
    BY <1>0, <2>1, <2>3, PlusIs DEF TasksOK, IsTask, MainOK
  <2> QED
    BY <1>0, <2>1, <2>4 DEF MainOK
<1>8. CASE FinishInit
  BY <1>0, <1>8 DEF FinishInit, AllJoined, ithreads, MainOK
<1>9. ASSUME NEW m \in Mounts, TakeItask(m) \/ TestIterminate(m) \/ QueueEmpty(m)
      PROVE  MainOK'
  <2>1. UNCHANGED <<imain, lost, reuse_queue>> /\ (ipc = "trash" => FALSE)
    BY <1>0, <1>9 DEF TakeItask, TestIterminate, QueueEmpty, MainOK
  <2> QED
    BY <1>0, <2>1 DEF imain, MainOK
<1>10. ASSUME NEW m \in Mounts, RunItask(m)
       PROVE  MainOK'
  <2>1. UNCHANGED <<imain, itpc>> /\ ipc # "success"
    BY <1>10 DEF RunItask, InitNext
  <2>2. IsStats(lost)'
    <3> DEFINE c == Plus(task_of[icur[m][1]].stats, RunTask(fs, task_of[icur[m][1]].line).stats)
    <3>1. IsStats(c)
      BY <1>10, RunFacts
    <3>2. lost' = Plus(lost, c) \/ lost' = lost
      BY <1>10 DEF RunItask
    <3> HIDE DEF c
    <3> QED
      BY <1>0, <3>1, <3>2, PlusIs DEF MainOK
  <2> QED
    BY SMTT(30), <1>0, <2>1, <2>2 DEF imain, MainOK
<1> QED
  BY <1>1, <1>2, <1>3, <1>4, <1>5, <1>6, <1>7, <1>8, <1>9, <1>10 DEF InitNext, InitError

(* A thread that the step is not about.                                    *)
LEMMA ThreadKept ==
  ASSUME NEW m \in Mounts, ThreadOK(m),
         queue'[m] = queue[m], icur'[m] = icur[m], itpc'[m] = itpc[m],
         iterminate'[m] = iterminate[m],
         \A i \in 1 .. Len(iteam) : iteam[i] = m =>
           itpc[m] \in {"none", "ended"} \/ \E j \in 1 .. Len(iteam') : iteam'[j] = m,
         ipc \in {"join", "joined", "success"} => ipc' \in {"join", "joined", "success"}
  PROVE  ThreadOK(m)'
BY DEF ThreadOK, IsLocal

LEMMA ThreadsStep ==
  ASSUME InitsOK, Runs, InitNext, ipc' # "error"
  PROVE  IthreadsOK'
<1>0. MainOK /\ IthreadsOK /\ TasksOK
  BY DEF InitsOK
<1>t. \A m \in Mounts : ThreadOK(m)
  BY <1>0 DEF IthreadsOK
<1>k. ASSUME UNCHANGED <<queue, icur, itpc, iterminate, iteam>>,
             ipc \in {"join", "joined", "success"} => ipc' \in {"join", "joined", "success"}
      PROVE  IthreadsOK'
  <2>1. \A m \in Mounts : ThreadOK(m)'
    BY <1>t, <1>k, ThreadKept
  <2> QED
    BY <1>0, <1>k, <2>1 DEF IthreadsOK
<1>1. CASE Trash \/ ReadInitLine \/ CountItask \/ FinishInit
  BY <1>1, <1>k DEF Trash, ReadInitLine, CountItask, FinishInit, ithreads
<1>3. CASE StartIthread
  <2>2. section[next_line] \in InitLine
    BY <1>0, <1>3 DEF StartIthread, MainOK
  <2>3. PICK m \in Mounts : m = ThreadOf(section[next_line].path)
    BY <2>2 DEF ThreadOf, Mounts, InitLine
  <2>1. /\ UNCHANGED <<queue, icur, iterminate, ipc>> /\ itpc[m] = "none"
        /\ itpc' = [itpc EXCEPT ![m] = "loop"] /\ iteam' = Append(iteam, m)
        /\ ipc = "insert"
    BY <1>3, <2>3 DEF StartIthread
  <2>4. /\ itpc' = [o \in Mounts |-> itpc'[o]] /\ itpc'[m] = "loop"
        /\ \A o \in Mounts : o # m => itpc'[o] = itpc[o]
    BY <1>0, <2>1, <2>3 DEF IthreadsOK
  <2>5. /\ Len(iteam') = Len(iteam) + 1 /\ Len(iteam) \in Nat
        /\ iteam'[Len(iteam) + 1] = m
        /\ \A i \in 1 .. Len(iteam) : iteam'[i] = iteam[i]
    BY <1>0, <2>1, <2>3, AppendProperties DEF MainOK
  <2>6. ASSUME NEW o \in Mounts, o # m
        PROVE  ThreadOK(o)'
    <3>1. \A i \in 1 .. Len(iteam) : iteam[i] = o => \E j \in 1 .. Len(iteam') : iteam'[j] = o
      BY <2>5
    <3> QED
      BY <1>t, <2>1, <2>4, <2>6, <3>1, ThreadKept
  <2>7. ThreadOK(m)'
    <3>1. \E i \in 1 .. Len(iteam') : iteam'[i] = m
      BY <2>5
    <3>2. ThreadOK(m)
      BY <1>t, <2>3
    <3> QED
      BY <2>1, <2>4, <3>1, <3>2 DEF ThreadOK, IsLocal
  <2> QED
    BY <1>0, <2>1, <2>4, <2>6, <2>7 DEF IthreadsOK
<1>4. CASE InsertItask
  <2>2. section[next_line] \in InitLine
    BY <1>0, <1>4 DEF InsertItask, MainOK
  <2>3. PICK m \in Mounts : m = ThreadOf(section[next_line].path)
    BY <2>2 DEF ThreadOf, Mounts, InitLine
  <2>1. /\ UNCHANGED <<icur, itpc, iterminate, iteam>> /\ itpc[m] # "none"
        /\ queue' = [queue EXCEPT ![m] = Append(@, itask[1])]
        /\ ipc = "insert" /\ ipc' = "read"
    BY <1>4, <2>3 DEF InsertItask
  <2>4. itask[1] \in ITasks
    BY <1>0, <2>1 DEF MainOK, IsLocal
  <2>5. /\ queue' = [o \in Mounts |-> queue'[o]] /\ queue'[m] = Append(queue[m], itask[1])
        /\ \A o \in Mounts : o # m => queue'[o] = queue[o]
    BY <1>0, <2>1, <2>3 DEF IthreadsOK
  <2>6. ASSUME NEW o \in Mounts, o # m
        PROVE  ThreadOK(o)'
    BY <1>t, <2>1, <2>5, <2>6, ThreadKept
  <2>7. ThreadOK(m)'
    <3>1. ThreadOK(m)
      BY <1>t, <2>3
    <3>2. queue'[m] \in Seq(ITasks)
      BY <2>4, <2>5, <3>1, AppendProperties DEF ThreadOK
    <3>3. itpc[m] \in {"loop", "test"}
      BY <2>1, <3>1 DEF ThreadOK
    <3> QED
      BY <2>1, <3>1, <3>2, <3>3 DEF ThreadOK, IsLocal
  <2> QED
    BY <1>0, <2>1, <2>5, <2>6, <2>7 DEF IthreadsOK
<1>5. CASE TerminateIthread
  <2>1. /\ UNCHANGED <<queue, icur, itpc, iteam>> /\ ipc' = "join" /\ iteam # <<>>
        /\ iterminate' = [iterminate EXCEPT ![Last(iteam)] = TRUE]
    BY <1>5 DEF TerminateIthread, ithreads
  <2>2. iterminate' = [o \in Mounts |-> iterminate'[o]]
        /\ \A o \in Mounts : iterminate'[o] = iterminate[o] \/ iterminate'[o] = TRUE
    BY <1>0, <2>1 DEF IthreadsOK
  <2>3. ASSUME NEW o \in Mounts
        PROVE  ThreadOK(o)'
    BY <1>t, <2>1, <2>2 DEF ThreadOK, IsLocal
  <2> QED
    BY <1>0, <2>1, <2>2, <2>3 DEF IthreadsOK
<1>6. CASE JoinIthread
  <2>1. /\ UNCHANGED <<queue, icur, itpc, iterminate>> /\ ipc' = "joined"
        /\ itpc[Last(iteam)] = "ended" /\ iteam' = Front(iteam) /\ ipc = "join"
    BY <1>6 DEF JoinIthread, ithreads
  <2>2. iteam \in Seq(Mounts) /\ iteam # <<>>
    BY <1>0, <2>1 DEF MainOK
  <2>3. Len(iteam) \in Nat \ {0} /\ itpc[iteam[Len(iteam)]] = "ended"
    BY <2>1, <2>2, EmptySeq DEF Last
  <2>4. /\ Len(iteam') = Len(iteam) - 1
        /\ \A i \in 1 .. Len(iteam) - 1 : iteam'[i] = iteam[i]
    <3> DEFINE n == Len(iteam) - 1
    <3>1. n \in Int /\ n \in Nat /\ iteam' = SubSeq(iteam, 1, n)
      BY <2>1, <2>3 DEF Front
    <3>2. \A i \in 1 .. n : iteam[i] \in Mounts
      BY <2>2
    <3> HIDE DEF n
    <3>3. /\ Len(SubSeq(iteam, 1, n)) = IF 1 <= n THEN n - 1 + 1 ELSE 0
          /\ \A i \in 1 .. n - 1 + 1 : SubSeq(iteam, 1, n)[i] = iteam[1 + i - 1]
      BY <3>1, <3>2, SubSeqProperties
    <3>4. Len(iteam') = n /\ \A i \in 1 .. n : iteam'[i] = iteam[i]
      BY <3>1, <3>3
    <3> QED
      BY <3>4 DEF n
  <2>5. ASSUME NEW o \in Mounts
        PROVE  ThreadOK(o)'
    <3>1. ASSUME NEW i \in 1 .. Len(iteam), iteam[i] = o, itpc[o] # "ended"
          PROVE  \E j \in 1 .. Len(iteam') : iteam'[j] = o
      <4>1. i \in 1 .. Len(iteam) - 1
        BY <2>3, <3>1
      <4> QED
        BY <2>4, <3>1, <4>1
    <3> QED
      BY <1>t, <2>1, <3>1, ThreadKept
  <2> QED
    BY <1>0, <2>1, <2>5 DEF IthreadsOK
<1>7. ASSUME NEW m \in Mounts, TakeItask(m)
      PROVE  IthreadsOK'
  <2>1. /\ UNCHANGED <<itpc, iterminate, iteam, ipc>>
        /\ icur' = [icur EXCEPT ![m] = <<Head(queue[m])>>]
        /\ queue' = [queue EXCEPT ![m] = Tail(queue[m])]
        /\ itpc[m] \in {"loop", "drain"} /\ queue[m] # <<>>
    BY <1>7 DEF TakeItask, imain
  <2>2. ThreadOK(m)
    BY <1>t
  <2>3. Head(queue[m]) \in ITasks /\ Tail(queue[m]) \in Seq(ITasks)
    BY <2>1, <2>2, HeadTailProperties DEF ThreadOK
  <2>4. /\ queue' = [o \in Mounts |-> queue'[o]] /\ icur' = [o \in Mounts |-> icur'[o]]
        /\ queue'[m] = Tail(queue[m]) /\ icur'[m] = <<Head(queue[m])>>
        /\ \A o \in Mounts : o # m => queue'[o] = queue[o] /\ icur'[o] = icur[o]
    BY <1>0, <2>1 DEF IthreadsOK
  <2>5. ASSUME NEW o \in Mounts, o # m
        PROVE  ThreadOK(o)'
    BY <1>t, <2>1, <2>4, <2>5, ThreadKept
  <2>6. ThreadOK(m)'
    BY <2>1, <2>2, <2>3, <2>4 DEF ThreadOK, IsLocal
  <2> QED
    BY <1>0, <2>1, <2>4, <2>5, <2>6 DEF IthreadsOK
<1>8. ASSUME NEW m \in Mounts, RunItask(m)
      PROVE  IthreadsOK'
  <2>1. /\ UNCHANGED <<queue, itpc, iterminate, iteam, ipc>>
        /\ icur' = [icur EXCEPT ![m] = None]
    BY <1>8 DEF RunItask, imain
  <2>2. /\ icur' = [o \in Mounts |-> icur'[o]] /\ icur'[m] = None
        /\ \A o \in Mounts : o # m => icur'[o] = icur[o]
    BY <1>0, <2>1 DEF IthreadsOK
  <2>3. ASSUME NEW o \in Mounts
        PROVE  ThreadOK(o)'
    BY <1>t, <2>1, <2>2 DEF ThreadOK, IsLocal
  <2> QED
    BY <1>0, <2>1, <2>2, <2>3 DEF IthreadsOK
<1>9. ASSUME NEW m \in Mounts, TestIterminate(m) \/ QueueEmpty(m)
      PROVE  IthreadsOK'
  <2>1. /\ UNCHANGED <<queue, icur, iterminate, iteam, ipc>>
        /\ \E to \in {"loop", "test", "drain", "ended"} :
             /\ itpc' = [itpc EXCEPT ![m] = to]
             /\ to = "drain" => iterminate[m]
             /\ to = "ended" => itpc[m] = "drain" /\ queue[m] = <<>> /\ icur[m] = None
             /\ itpc[m] \notin {"none", "ended"}
    BY <1>9 DEF TestIterminate, QueueEmpty, imain
  <2>2. /\ itpc' = [o \in Mounts |-> itpc'[o]]
        /\ \A o \in Mounts : o # m => itpc'[o] = itpc[o]
    BY <1>0, <2>1 DEF IthreadsOK
  <2>3. ASSUME NEW o \in Mounts, o # m
        PROVE  ThreadOK(o)'
    BY <1>t, <2>1, <2>2, <2>3, ThreadKept
  <2>4. ThreadOK(m)'
    <3>1. ThreadOK(m)
      BY <1>t
    <3>2. PICK to \in {"loop", "test", "drain", "ended"} :
             /\ itpc' = [itpc EXCEPT ![m] = to]
             /\ to = "drain" => iterminate[m]
             /\ to = "ended" => itpc[m] = "drain" /\ queue[m] = <<>> /\ icur[m] = None
             /\ itpc[m] \notin {"none", "ended"}
      BY <2>1
    <3>3. itpc'[m] = to
      BY <1>0, <3>2 DEF IthreadsOK
    <3> QED
      BY <2>1, <3>1, <3>2, <3>3 DEF ThreadOK, IsLocal
  <2> QED
    BY <1>0, <2>1, <2>2, <2>3, <2>4 DEF IthreadsOK
<1> QED
  BY <1>1, <1>3, <1>4, <1>5, <1>6, <1>7, <1>8, <1>9 DEF InitNext, InitError

(* The tasks in the hands of the threads stay there, and are as before.    *)
LEMMA PendKept ==
  ASSUME NEW m \in Mounts, PendOK(m),
         \A o \in Mounts : Pend(o)' = Pend(o),
         \A i \in 1 .. Len(Pend(m)) : task_of'[Pend(m)[i]] = task_of[Pend(m)[i]],
         \A j \in 1 .. Len(reuse_queue') : \E i \in 1 .. Len(reuse_queue) :
           reuse_queue[i] = reuse_queue'[j]
  PROVE  PendOK(m)'
BY DEF PendOK, ToDo

LEMMA TasksKept ==
  ASSUME TasksOK, UNCHANGED <<section, next_line, itask, task_of, reuse_queue>>,
         \A m \in Mounts : Pend(m)' = Pend(m)
  PROVE  TasksOK'
BY DEF TasksOK, ReuseOK, PendOK, LocalOK, ToDo, IsTask

(* init_run gets task k, which nobody has.                                 *)
LEMMA GetKeepsTasks ==
  ASSUME TasksOK, NEW k \in ITasks, NEW t, IsTask(t), t.stats = NoStats,
         t.line = section[next_line], t # None, UNCHANGED <<section, next_line>>,
         itask' = <<k>>, task_of' = [task_of EXCEPT ![k] = t],
         \A m \in Mounts : Pend(m)' = Pend(m),
         \A m \in Mounts : \A i \in 1 .. Len(Pend(m)) : Pend(m)[i] # k /\ Pend(m)[i] \in ITasks,
         reuse_queue' \in Seq(ITasks),
         \A i, j \in 1 .. Len(reuse_queue') : reuse_queue'[i] = reuse_queue'[j] => i = j,
         \A j \in 1 .. Len(reuse_queue') :
           /\ reuse_queue'[j] # k
           /\ \E i \in 1 .. Len(reuse_queue) : reuse_queue[i] = reuse_queue'[j]
  PROVE  TasksOK'
<1>1. /\ task_of' = [o \in ITasks |-> task_of'[o]] /\ task_of'[k] = t
      /\ \A o \in ITasks : o # k => task_of'[o] = task_of[o]
  BY DEF TasksOK
<1>2. \A o \in ITasks : task_of'[o] = None \/ IsTask(task_of'[o])
  BY <1>1 DEF TasksOK
<1>3. ReuseOK'
  <2>1. ASSUME NEW j \in 1 .. Len(reuse_queue')
        PROVE  task_of'[reuse_queue'[j]] # None
    <3>1. reuse_queue'[j] \in ITasks
      OBVIOUS
    <3> QED
      BY <1>1, <3>1 DEF TasksOK, ReuseOK
  <2> QED
    BY <2>1 DEF ReuseOK
<1>4. \A m \in Mounts : PendOK(m)'
  BY <1>1, PendKept DEF TasksOK
<1>5. LocalOK(k)'
  BY <1>1 DEF LocalOK, ToDo
<1>6. \A o \in ITasks : itask' = <<o>> => o = k
  OBVIOUS
<1> QED
  BY <1>1, <1>2, <1>3, <1>4, <1>5, <1>6 DEF TasksOK, IsTask

LEMMA PendTypes ==
  ASSUME IthreadsOK, NEW m \in Mounts
  PROVE  Len(Pend(m)) \in Nat /\ \A i \in 1 .. Len(Pend(m)) : Pend(m)[i] \in ITasks
BY PendIs

(* It hands k over to the thread of m.                                     *)
LEMMA InsertKeepsTasks ==
  ASSUME IthreadsOK, TasksOK, NEW m \in Mounts, NEW k \in ITasks, itask = <<k>>,
         Added(Pend(m)', Pend(m), k), \A o \in Mounts : o # m => Pend(o)' = Pend(o),
         UNCHANGED <<task_of, reuse_queue>>, itask' = None
  PROVE  TasksOK'
<1>1. LocalOK(k)
  BY DEF TasksOK
<1>2. ASSUME NEW o \in Mounts, NEW i \in 1 .. Len(Pend(o)')
      PROVE  \/ o = m /\ i = Len(Pend(m)) + 1 /\ Pend(o)'[i] = k
             \/ i \in 1 .. Len(Pend(o)) /\ Pend(o)'[i] = Pend(o)[i]
  BY PendTypes DEF Added
<1>3. ASSUME NEW o \in Mounts
      PROVE  PendOK(o)'
  <2>1. ASSUME NEW i \in 1 .. Len(Pend(o)')
        PROVE  /\ task_of[Pend(o)'[i]] # None /\ task_of[Pend(o)'[i]].stats = NoStats
               /\ \A j \in 1 .. Len(reuse_queue) : reuse_queue[j] # Pend(o)'[i]
    <3>1. CASE Pend(o)'[i] = k
      BY <1>1, <3>1 DEF LocalOK, ToDo
    <3>2. CASE i \in 1 .. Len(Pend(o)) /\ Pend(o)'[i] = Pend(o)[i]
      BY <3>2 DEF TasksOK, PendOK, ToDo
    <3> QED
      BY <1>2, <3>1, <3>2
  <2>2. ASSUME NEW i \in 1 .. Len(Pend(o)'), NEW p \in Mounts, NEW j \in 1 .. Len(Pend(p)'),
               Pend(p)'[j] = Pend(o)'[i]
        PROVE  p = o /\ j = i
    <3>1. CASE i \in 1 .. Len(Pend(o)) /\ Pend(o)'[i] = Pend(o)[i]
      <4>1. Pend(p)'[j] # k
        BY <1>1, <2>2, <3>1 DEF LocalOK
      <4>2. j \in 1 .. Len(Pend(p)) /\ Pend(p)'[j] = Pend(p)[j]
        BY <1>2, <4>1
      <4> QED
        BY <2>2, <3>1, <4>2 DEF TasksOK, PendOK
    <3>2. CASE o = m /\ i = Len(Pend(m)) + 1 /\ Pend(o)'[i] = k
      <4>1. ~(j \in 1 .. Len(Pend(p)) /\ Pend(p)'[j] = Pend(p)[j])
        BY <1>1, <2>2, <3>2 DEF LocalOK
      <4> QED
        BY <1>2, <3>2, <4>1
    <3> QED
      BY <1>2, <3>1, <3>2
  <2> QED
    BY <2>1, <2>2 DEF PendOK, ToDo
<1>4. \A o \in ITasks : itask' # <<o>>
  BY DEF None
<1> QED
  BY <1>3, <1>4 DEF TasksOK, ReuseOK, IsTask

(* Task k, the first of m, is done: it is destroyed, or goes to reuse_queue*)
(* with what it has counted.                                               *)
LEMMA RunKeepsTasks ==
  ASSUME IthreadsOK, TasksOK, NEW m \in Mounts, NEW k \in ITasks,
         Removed(Pend(m)', Pend(m), k), \A o \in Mounts : o # m => Pend(o)' = Pend(o),
         UNCHANGED <<section, next_line, itask>>, NEW t, task_of' = [task_of EXCEPT ![k] = t],
         \/ t = None /\ reuse_queue' = reuse_queue
         \/ t # None /\ IsTask(t) /\ reuse_queue' = Append(reuse_queue, k)
  PROVE  TasksOK'
<1>1. /\ task_of' = [o \in ITasks |-> task_of'[o]] /\ task_of'[k] = t
      /\ \A o \in ITasks : o # k => task_of'[o] = task_of[o]
  BY DEF TasksOK
<1>2. \A o \in ITasks : task_of'[o] = None \/ IsTask(task_of'[o])
  BY <1>1 DEF TasksOK
<1>3. /\ Len(Pend(m)) \in Nat /\ Len(Pend(m)') \in Nat /\ Len(Pend(m)) = Len(Pend(m)') + 1
      /\ 1 \in 1 .. Len(Pend(m)) /\ Pend(m)[1] = k
  BY PendTypes DEF Removed
<1> DEFINE Before(o, i) == IF o = m THEN i + 1 ELSE i
<1>4. ASSUME NEW o \in Mounts, NEW i \in 1 .. Len(Pend(o)')
      PROVE  /\ Before(o, i) \in 1 .. Len(Pend(o)) /\ Pend(o)'[i] = Pend(o)[Before(o, i)]
             /\ o = m => Before(o, i) # 1
  BY <1>3 DEF Removed
<1>5. ASSUME NEW o \in Mounts, NEW i \in 1 .. Len(Pend(o)')
      PROVE  Pend(o)'[i] # k /\ Pend(o)'[i] \in ITasks
  <2>1. Before(o, i) \in 1 .. Len(Pend(o)) /\ Pend(o)'[i] = Pend(o)[Before(o, i)]
        /\ (o = m => Before(o, i) # 1)
    BY <1>4
  <2> HIDE DEF Before
  <2>2. PendOK(m)
    BY DEF TasksOK
  <2>3. Pend(o)[Before(o, i)] # k
    BY <1>3, <2>1, <2>2 DEF PendOK
  <2> QED
    BY <2>1, <2>3, PendTypes
<1>6. /\ ReuseOK
      /\ \A j \in 1 .. Len(reuse_queue) : reuse_queue[j] # k /\ reuse_queue[j] \in ITasks
  BY <1>3 DEF TasksOK, PendOK, ReuseOK
<1>7. /\ \A j \in 1 .. Len(reuse_queue') :
           \/ reuse_queue'[j] = k
           \/ j \in 1 .. Len(reuse_queue) /\ reuse_queue'[j] = reuse_queue[j]
      /\ ReuseOK'
  <2>1. CASE t = None /\ reuse_queue' = reuse_queue
    BY <1>1, <1>6, <2>1 DEF ReuseOK
  <2>2. CASE t # None /\ reuse_queue' = Append(reuse_queue, k)
    <3>1. /\ Len(reuse_queue') = Len(reuse_queue) + 1 /\ Len(reuse_queue) \in Nat
          /\ reuse_queue'[Len(reuse_queue) + 1] = k /\ reuse_queue' \in Seq(ITasks)
          /\ \A j \in 1 .. Len(reuse_queue) : reuse_queue'[j] = reuse_queue[j]
      BY <1>6, <2>2, AppendProperties DEF ReuseOK
    <3>2. \A j \in 1 .. Len(reuse_queue') :
            \/ j = Len(reuse_queue) + 1 /\ reuse_queue'[j] = k
            \/ j \in 1 .. Len(reuse_queue) /\ reuse_queue'[j] = reuse_queue[j]
      BY <3>1
    <3>3. \A i, j \in 1 .. Len(reuse_queue') : reuse_queue'[i] = reuse_queue'[j] => i = j
      BY <1>6, <3>2 DEF ReuseOK
    <3>4. \A j \in 1 .. Len(reuse_queue') : task_of'[reuse_queue'[j]] # None
      BY <1>1, <1>6, <2>2, <3>2 DEF ReuseOK
    <3> QED
      BY <3>1, <3>2, <3>3, <3>4 DEF ReuseOK
  <2> QED
    BY <2>1, <2>2
<1>8. ASSUME NEW o \in Mounts
      PROVE  PendOK(o)'
  <2>1. ASSUME NEW i \in 1 .. Len(Pend(o)')
        PROVE  /\ task_of'[Pend(o)'[i]] # None /\ task_of'[Pend(o)'[i]].stats = NoStats
               /\ \A j \in 1 .. Len(reuse_queue') : reuse_queue'[j] # Pend(o)'[i]
    <3>1. /\ Before(o, i) \in 1 .. Len(Pend(o)) /\ Pend(o)'[i] = Pend(o)[Before(o, i)]
          /\ Pend(o)'[i] # k /\ Pend(o)'[i] \in ITasks
      BY <1>4, <1>5
    <3> HIDE DEF Before
    <3>2. PendOK(o)
      BY DEF TasksOK
    <3> QED
      BY <1>1, <1>7, <3>1, <3>2 DEF PendOK, ToDo
  <2>2. ASSUME NEW i \in 1 .. Len(Pend(o)'), NEW p \in Mounts, NEW j \in 1 .. Len(Pend(p)'),
               Pend(p)'[j] = Pend(o)'[i]
        PROVE  p = o /\ j = i
    <3>1. /\ Before(o, i) \in 1 .. Len(Pend(o)) /\ Pend(o)'[i] = Pend(o)[Before(o, i)]
          /\ Before(p, j) \in 1 .. Len(Pend(p)) /\ Pend(p)'[j] = Pend(p)[Before(p, j)]
      BY <1>4
    <3>2. p = o /\ Before(p, j) = Before(o, i)
      <4> HIDE DEF Before
      <4>1. PendOK(o)
        BY DEF TasksOK
      <4> QED
        BY <2>2, <3>1, <4>1 DEF PendOK
    <3> QED
      BY <3>2
  <2> QED
    BY <2>1, <2>2 DEF PendOK, ToDo
<1>9. ASSUME NEW o \in ITasks, itask' = <<o>>
      PROVE  LocalOK(o)'
  <2>1. LocalOK(o) /\ o # k
    BY <1>3, <1>9 DEF TasksOK, LocalOK
  <2>2. \A p \in Mounts : \A i \in 1 .. Len(Pend(p)') : Pend(p)'[i] # o
    <3> SUFFICES ASSUME NEW p \in Mounts, NEW i \in 1 .. Len(Pend(p)') PROVE Pend(p)'[i] # o
      OBVIOUS
    <3>1. Before(p, i) \in 1 .. Len(Pend(p)) /\ Pend(p)'[i] = Pend(p)[Before(p, i)]
      BY <1>4
    <3> HIDE DEF Before
    <3> QED
      BY <2>1, <3>1 DEF LocalOK
  <2> QED
    BY <1>1, <1>7, <2>1, <2>2 DEF LocalOK, ToDo
<1> QED
  BY <1>1, <1>2, <1>7, <1>8, <1>9 DEF TasksOK, IsTask

LEMMA FreeTask ==
  ASSUME NEW l \in InitLine
  PROVE  LET t == [line |-> l, stats |-> NoStats]
         IN  IsTask(t) /\ t.stats = NoStats /\ t.line = l /\ t # None
<1> DEFINE t == [line |-> l, stats |-> NoStats]
<1>1. t.line = l /\ t.stats = NoStats /\ t = [line |-> t.line, stats |-> t.stats]
  OBVIOUS
<1>2. IsStats(NoStats)
  BY DEF IsStats, NoStats
<1>3. DOMAIN t = {"line", "stats"} /\ DOMAIN <<>> = {}
  OBVIOUS
<1>4. "line" \in DOMAIN t
  BY <1>3
<1>5. t # <<>>
  <2> HIDE DEF t
  <2> QED
    BY <1>3, <1>4
<1> HIDE DEF t
<1>6. IsTask(t) /\ t.stats = NoStats /\ t.line = l /\ t # None
  BY <1>1, <1>2, <1>5 DEF IsTask, None
<1> QED
  BY <1>6 DEF t

LEMMA TasksStep ==
  ASSUME InitsOK, Runs, InitNext, ipc' # "error"
  PROVE  TasksOK'
<1>0. MainOK /\ IthreadsOK /\ TasksOK
  BY DEF InitsOK
<1>k. ASSUME UNCHANGED <<section, next_line, itask, task_of, reuse_queue, icur, queue>>
      PROVE  TasksOK'
  BY <1>0, <1>k, TasksKept DEF Pend
<1>1. CASE Trash \/ StartIthread \/ TerminateIthread \/ JoinIthread \/ FinishInit
  BY <1>1, <1>k DEF Trash, StartIthread, TerminateIthread, JoinIthread, FinishInit, ithreads
<1>2. CASE ReadInitLine
  <2> DEFINE t == [line |-> section[next_line], stats |-> NoStats]
  <2>1. /\ UNCHANGED <<section, next_line, icur, queue>> /\ ipc = "read" /\ GetItask
        /\ next_line <= Len(section)
    BY <1>2 DEF ReadInitLine, ithreads
  <2>2. section[next_line] \in InitLine
    BY <1>0, <2>1 DEF MainOK
  <2>3. IsTask(t) /\ t.stats = NoStats /\ t.line = section[next_line] /\ t # None
    BY <2>2, FreeTask
  <2>4. \A m \in Mounts : Pend(m)' = Pend(m)
    BY <2>1 DEF Pend
  <2>5. ReuseOK /\ \A m \in Mounts : PendOK(m)
    BY <1>0 DEF TasksOK
  <2>6. CASE reuse_queue # <<>>
    <3> DEFINE k == Head(reuse_queue)
    <3>1. Removed(reuse_queue', reuse_queue, k) /\ k \in ITasks
      BY <2>1, <2>5, <2>6, TailRemoves DEF ReuseOK, GetItask
    <3>2. /\ itask' = <<k>> /\ task_of' = [task_of EXCEPT ![k] = t]
      BY <2>1, <2>6 DEF GetItask
    <3> HIDE DEF t, k
    <3>3. Len(reuse_queue') \in Nat /\ Len(reuse_queue) = Len(reuse_queue') + 1
          /\ reuse_queue[1] = k /\ 1 \in 1 .. Len(reuse_queue) /\ reuse_queue' \in Seq(ITasks)
      BY <3>1 DEF Removed
    <3>4. ASSUME NEW j \in 1 .. Len(reuse_queue')
          PROVE  /\ j + 1 \in 1 .. Len(reuse_queue) /\ j + 1 # 1
                 /\ reuse_queue'[j] = reuse_queue[j + 1]
      BY <3>1, <3>3 DEF Removed
    <3>5. \A i, j \in 1 .. Len(reuse_queue') : reuse_queue'[i] = reuse_queue'[j] => i = j
      <4> SUFFICES ASSUME NEW i \in 1 .. Len(reuse_queue'), NEW j \in 1 .. Len(reuse_queue'),
                          reuse_queue'[i] = reuse_queue'[j]
                   PROVE  i = j
        OBVIOUS
      <4>1. i + 1 = j + 1
        BY <2>5, <3>4 DEF ReuseOK
      <4> QED
        BY <4>1
    <3>6. \A j \in 1 .. Len(reuse_queue') :
            /\ reuse_queue'[j] # k
            /\ \E i \in 1 .. Len(reuse_queue) : reuse_queue[i] = reuse_queue'[j]
      <4> SUFFICES ASSUME NEW j \in 1 .. Len(reuse_queue')
                   PROVE  /\ reuse_queue'[j] # k
                          /\ \E i \in 1 .. Len(reuse_queue) : reuse_queue[i] = reuse_queue'[j]
        OBVIOUS
      <4>1. /\ j + 1 \in 1 .. Len(reuse_queue) /\ j + 1 # 1
            /\ reuse_queue'[j] = reuse_queue[j + 1]
        BY <3>4
      <4>2. reuse_queue[j + 1] # reuse_queue[1]
        BY <2>5, <3>3, <4>1 DEF ReuseOK
      <4> QED
        BY <3>3, <4>1, <4>2
    <3>7. \A m \in Mounts : \A i \in 1 .. Len(Pend(m)) : Pend(m)[i] # k /\ Pend(m)[i] \in ITasks
      BY <1>0, <2>5, <3>3, PendTypes DEF PendOK
    <3> QED
      BY <1>0, <2>1, <2>3, <2>4, <3>1, <3>2, <3>3, <3>5, <3>6, <3>7, GetKeepsTasks
  <2>7. CASE reuse_queue = <<>>
    <3>1. PICK k \in ITasks : /\ task_of[k] = None /\ itask' = <<k>>
                              /\ task_of' = [task_of EXCEPT ![k] = t]
      BY <2>1, <2>7 DEF GetItask
    <3>2. reuse_queue' = reuse_queue
      BY <2>1, <2>7 DEF GetItask
    <3> HIDE DEF t
    <3>3. \A m \in Mounts : \A i \in 1 .. Len(Pend(m)) : Pend(m)[i] # k /\ Pend(m)[i] \in ITasks
      BY <1>0, <2>5, <3>1, PendTypes DEF PendOK, ToDo
    <3>4. \A j \in 1 .. Len(reuse_queue') :
            /\ reuse_queue'[j] # k
            /\ \E i \in 1 .. Len(reuse_queue) : reuse_queue[i] = reuse_queue'[j]
      BY <2>5, <3>1, <3>2 DEF ReuseOK
    <3>5. /\ reuse_queue' \in Seq(ITasks)
          /\ \A i, j \in 1 .. Len(reuse_queue') : reuse_queue'[i] = reuse_queue'[j] => i = j
      BY <2>5, <3>2 DEF ReuseOK
    <3> QED
      BY <1>0, <2>1, <2>3, <2>4, <3>1, <3>3, <3>4, <3>5, GetKeepsTasks
  <2> QED
    BY <2>6, <2>7
<1>3. CASE InsertItask
  <2>1. section[next_line] \in InitLine
    BY <1>0, <1>3 DEF InsertItask, MainOK
  <2>2. PICK m \in Mounts : m = ThreadOf(section[next_line].path)
    BY <2>1 DEF ThreadOf, Mounts, InitLine
  <2>3. /\ queue' = [queue EXCEPT ![m] = Append(@, itask[1])]
        /\ UNCHANGED <<icur, task_of, reuse_queue>> /\ itask' = None /\ ipc = "insert"
    BY <1>3, <2>2 DEF InsertItask
  <2>4. PICK k \in ITasks : itask = <<k>>
    BY <1>0, <2>3 DEF MainOK, IsLocal
  <2>5. itask[1] = k
    BY <2>4
  <2>6. queue' = [queue EXCEPT ![m] = Append(queue[m], k)]
    BY <2>3, <2>5
  <2>7. Added(Pend(m)', Pend(m), k) /\ \A o \in Mounts : o # m => Pend(o)' = Pend(o)
    BY <1>0, <2>3, <2>6, InsertPend
  <2> QED
    BY <1>0, <2>3, <2>4, <2>7, InsertKeepsTasks
<1>4. CASE CountItask
  <2> DEFINE k == Head(reuse_queue)
  <2>1. /\ UNCHANGED <<section, next_line, itask, icur, queue>> /\ reuse_queue # <<>>
        /\ task_of' = [task_of EXCEPT ![k] = None]
        /\ reuse_queue' = Tail(reuse_queue) /\ ipc \in {"read", "joined"}
    BY <1>4 DEF CountItask, AllJoined, ithreads
  <2>2. itask = None
    BY <1>0, <2>1 DEF MainOK
  <2>3. ReuseOK /\ \A m \in Mounts : PendOK(m)
    BY <1>0 DEF TasksOK
  <2>4. Removed(reuse_queue', reuse_queue, k) /\ k \in ITasks
    BY <2>1, <2>3, TailRemoves DEF ReuseOK
  <2> HIDE DEF k
  <2>5. Len(reuse_queue') \in Nat /\ Len(reuse_queue) = Len(reuse_queue') + 1
        /\ reuse_queue[1] = k /\ 1 \in 1 .. Len(reuse_queue) /\ reuse_queue' \in Seq(ITasks)
    BY <2>4 DEF Removed
  <2>6. ASSUME NEW j \in 1 .. Len(reuse_queue')
        PROVE  /\ j + 1 \in 1 .. Len(reuse_queue) /\ j + 1 # 1
               /\ reuse_queue'[j] = reuse_queue[j + 1]
    BY <2>4, <2>5 DEF Removed
  <2>7. /\ task_of' = [o \in ITasks |-> task_of'[o]] /\ task_of'[k] = None
        /\ \A o \in ITasks : o # k => task_of'[o] = task_of[o]
    BY <1>0, <2>1, <2>4 DEF TasksOK
  <2>8. ReuseOK'
    <3>1. ASSUME NEW i \in 1 .. Len(reuse_queue')
          PROVE  /\ task_of'[reuse_queue'[i]] # None
                 /\ \A j \in 1 .. Len(reuse_queue') : reuse_queue'[i] = reuse_queue'[j] => i = j
      <4>1. /\ i + 1 \in 1 .. Len(reuse_queue) /\ i + 1 # 1
            /\ reuse_queue'[i] = reuse_queue[i + 1]
        BY <2>6
      <4>2. reuse_queue[i + 1] # k /\ reuse_queue[i + 1] \in ITasks
        BY <2>3, <2>5, <4>1 DEF ReuseOK
      <4>3. task_of'[reuse_queue'[i]] # None
        BY <2>3, <2>7, <4>1, <4>2 DEF ReuseOK
      <4>4. ASSUME NEW j \in 1 .. Len(reuse_queue'), reuse_queue'[i] = reuse_queue'[j]
            PROVE  i = j
        <5>1. i + 1 = j + 1
          BY <2>3, <2>6, <4>1, <4>4 DEF ReuseOK
        <5> QED
          BY <5>1
      <4> QED
        BY <4>3, <4>4
    <3> QED
      BY <2>5, <3>1 DEF ReuseOK
  <2>9. ASSUME NEW m \in Mounts
        PROVE  PendOK(m)'
    <3>1. \A i \in 1 .. Len(Pend(m)) : Pend(m)[i] # k /\ Pend(m)[i] \in ITasks
      BY <1>0, <2>3, <2>5, PendTypes DEF PendOK
    <3>2. \A j \in 1 .. Len(reuse_queue') : \E i \in 1 .. Len(reuse_queue) :
            reuse_queue[i] = reuse_queue'[j]
      BY <2>6
    <3>3. \A o \in Mounts : Pend(o)' = Pend(o)
      BY <2>1 DEF Pend
    <3>4. \A i \in 1 .. Len(Pend(m)) : task_of'[Pend(m)[i]] = task_of[Pend(m)[i]]
      BY <2>7, <3>1
    <3> QED
      BY <2>3, <3>2, <3>3, <3>4, PendKept
  <2>10. \A o \in ITasks : itask' # <<o>>
    BY <2>1, <2>2 DEF None
  <2> QED
    BY <1>0, <2>7, <2>8, <2>9, <2>10 DEF TasksOK, IsTask
<1>5. ASSUME NEW m \in Mounts, TakeItask(m)
      PROVE  TasksOK'
  BY <1>0, <1>5, TakePend, TasksKept DEF TakeItask, imain
<1>6. ASSUME NEW m \in Mounts, RunItask(m)
      PROVE  TasksOK'
  <2> DEFINE k == icur[m][1]
             r == RunTask(fs, task_of[k].line)
             c == Plus(task_of[k].stats, r.stats)
             full == Len(reuse_queue) = ReuseCap
             u == [task_of[k] EXCEPT !.stats = c]
             t == IF full THEN None ELSE u
  <2>1. /\ k \in ITasks /\ Removed(Pend(m)', Pend(m), k)
        /\ \A o \in Mounts : o # m => Pend(o)' = Pend(o)
    BY <1>0, <1>6, RunPend
  <2>2. /\ UNCHANGED <<section, next_line, itask>>
        /\ task_of' = [task_of EXCEPT ![k] = t]
        /\ reuse_queue' = IF full THEN reuse_queue ELSE Append(reuse_queue, k)
    BY <1>6 DEF RunItask, imain
  <2>3. IsTask(task_of[k]) /\ IsStats(c)
    BY <1>6, RunFacts
  <2>4. u = [line |-> task_of[k].line, stats |-> c] /\ task_of[k].line \in InitLine
    <3> HIDE DEF k, c
    <3> QED
      BY <2>3 DEF IsTask
  <2>5. IsTask(u)
    <3> HIDE DEF k, c, u
    <3> QED
      BY <2>3, <2>4 DEF IsTask
  <2>6. u # None
    <3> HIDE DEF k, c, u
    <3>1. DOMAIN u = {"line", "stats"} /\ DOMAIN <<>> = {}
      BY <2>4
    <3> QED
      BY <3>1 DEF None
  <2>7. \/ t = None /\ reuse_queue' = reuse_queue
        \/ t # None /\ IsTask(t) /\ reuse_queue' = Append(reuse_queue, k)
    <3> HIDE DEF u, full
    <3> QED
      BY <2>2, <2>5, <2>6
  <2>8. \E o \in ITasks : o = k
    BY <2>1
  <2> HIDE DEF k, t
  <2> QED
    BY <1>0, <2>1, <2>2, <2>7, RunKeepsTasks
<1>7. ASSUME NEW m \in Mounts, TestIterminate(m) \/ QueueEmpty(m)
      PROVE  TasksOK'
  BY <1>7, <1>k DEF TestIterminate, QueueEmpty, imain
<1> QED
  BY <1>1, <1>2, <1>3, <1>4, <1>5, <1>6, <1>7 DEF InitNext, InitError

-----------------------------------------------------------------------------
(* How far the threads are.                                                *)

LEMMA AsFarKept ==
  ASSUME NEW m \in Mounts, NEW u, AsFar(m, u), UNCHANGED <<section, next_line>>,
         Pend(m)' = Pend(m),
         \A i \in 1 .. Len(Pend(m)) : task_of'[Pend(m)[i]].line = task_of[Pend(m)[i]].line,
         ipc' # "trash" => ipc # "trash" /\ Same(fs', fs, m)
  PROVE  AsFar(m, u)'
BY SMTT(30) DEF AsFar, Handed, Same

(* A task more for m's thread, or a line more of another mount point.      *)
LEMMA InsertHands ==
  ASSUME NEW s, NEW n \in Nat, NEW tasks, NEW m, NEW u \in Nat, NEW p \in Seq(ITasks),
         Handed(s, n, tasks, m, u, p), u <= n - 1, NEW q,
         \/ /\ Mount[s[n].path] = m
            /\ \E k \in ITasks : Added(q, p, k) /\ tasks[k].line = s[n]
         \/ Mount[s[n].path] # m /\ q = p
  PROVE  Handed(s, n + 1, tasks, m, u, q)
<1>1. PICK ns \in [1 .. Len(p) -> u + 1 .. n - 1] :
        /\ \A i \in 1 .. Len(p) : tasks[p[i]].line = s[ns[i]] /\ Mount[s[ns[i]].path] = m
        /\ \A i, j \in 1 .. Len(p) : i < j => ns[i] < ns[j]
        /\ \A k \in u + 1 .. n - 1 :
             Mount[s[k].path] = m => \E i \in 1 .. Len(p) : ns[i] = k
  BY DEF Handed
<1>2. Len(p) \in Nat
  OBVIOUS
<1> DEFINE New == u + 1 .. (n + 1) - 1
<1>3. /\ \A l \in New : l \in u + 1 .. n - 1 \/ l = n
      /\ u + 1 .. n - 1 \subseteq New /\ n \in New
      /\ \A l \in u + 1 .. n - 1 : l < n
  OBVIOUS
<1> HIDE DEF New
<1>4. CASE Mount[s[n].path] # m /\ q = p
  <2>1. ns \in [1 .. Len(q) -> New]
    BY <1>3, <1>4
  <2>2. \A l \in New : Mount[s[l].path] = m => \E i \in 1 .. Len(q) : ns[i] = l
    BY <1>1, <1>3, <1>4
  <2> QED
    BY SMTT(30), <1>1, <1>4, <2>1, <2>2 DEF Handed, New
<1>5. ASSUME NEW k \in ITasks, Added(q, p, k), tasks[k].line = s[n], Mount[s[n].path] = m
      PROVE  Handed(s, n + 1, tasks, m, u, q)
  <2> DEFINE last == Len(p) + 1
             os == [i \in 1 .. last |-> IF i = last THEN n ELSE ns[i]]
  <2>1. /\ last \in Nat /\ Len(q) = last /\ q[last] = k
        /\ \A i \in 1 .. Len(p) : q[i] = p[i]
    BY <1>2, <1>5 DEF Added
  <2>2. /\ \A i \in 1 .. last : i = last \/ i \in 1 .. Len(p)
        /\ \A i \in 1 .. Len(p) : i \in 1 .. last /\ i # last
        /\ \A i \in 1 .. last : i <= last
        /\ last \in 1 .. last
    BY <1>2
  <2>3. os[last] = n /\ \A i \in 1 .. Len(p) : os[i] = ns[i]
    BY <2>2
  <2>4. os \in [1 .. last -> New]
    BY <1>1, <1>3, <2>2
  <2> HIDE DEF os, last
  <2>5. ASSUME NEW i \in 1 .. last
        PROVE  tasks[q[i]].line = s[os[i]] /\ Mount[s[os[i]].path] = m
    <3>1. CASE i = last
      BY <1>5, <2>1, <2>3, <3>1
    <3>2. CASE i \in 1 .. Len(p)
      BY SMTT(30), <1>1, <2>1, <2>3, <3>2
    <3> QED
      BY <2>2, <3>1, <3>2
  <2>6. ASSUME NEW i \in 1 .. last, NEW j \in 1 .. last, i < j
        PROVE  os[i] < os[j]
    <3>1. i # last
      BY <2>1, <2>2, <2>6
    <3>2. i \in 1 .. Len(p) /\ os[i] = ns[i] /\ ns[i] \in u + 1 .. n - 1
      BY <1>1, <2>2, <2>3, <3>1
    <3>3. CASE j = last
      BY <1>3, <2>3, <3>2, <3>3
    <3>4. CASE j \in 1 .. Len(p)
      BY <1>1, <2>3, <2>6, <3>2, <3>4
    <3> QED
      BY <2>2, <3>3, <3>4
  <2>7. ASSUME NEW l \in New, Mount[s[l].path] = m
        PROVE  \E i \in 1 .. last : os[i] = l
    <3>1. CASE l = n
      BY <2>2, <2>3, <3>1
    <3>2. CASE l \in u + 1 .. n - 1
      <4>1. PICK i \in 1 .. Len(p) : ns[i] = l
        BY <1>1, <2>7, <3>2
      <4> QED
        BY <2>2, <2>3, <4>1
    <3> QED
      BY <1>3, <3>1, <3>2
  <2> QED
    BY ZenonT(120), <2>1, <2>4, <2>5, <2>6, <2>7 DEF Handed, New
<1> QED
  BY <1>4, <1>5

(* The first of m's tasks is the next line of m that is not done.          *)
LEMMA RunHands ==
  ASSUME NEW s, NEW n \in Nat, NEW tasks, NEW m, NEW u \in Nat, NEW p \in Seq(ITasks),
         Handed(s, n, tasks, m, u, p), NEW k, NEW q, Removed(q, p, k), NEW after,
         \A i \in 1 .. Len(q) : after[q[i]].line = tasks[q[i]].line
  PROVE  \E l \in u + 1 .. n - 1 :
           /\ tasks[k].line = s[l] /\ Mount[s[l].path] = m
           /\ \A i \in u + 1 .. l - 1 : Mount[s[i].path] # m
           /\ Handed(s, n, after, m, l, q)
<1>1. PICK os \in [1 .. Len(p) -> u + 1 .. n - 1] :
        /\ \A i \in 1 .. Len(p) : tasks[p[i]].line = s[os[i]] /\ Mount[s[os[i]].path] = m
        /\ \A i, j \in 1 .. Len(p) : i < j => os[i] < os[j]
        /\ \A l \in u + 1 .. n - 1 :
             Mount[s[l].path] = m => \E i \in 1 .. Len(p) : os[i] = l
  BY DEF Handed
<1>2. /\ Len(p) \in Nat /\ Len(q) \in Nat /\ Len(p) = Len(q) + 1 /\ p[1] = k
      /\ \A i \in 1 .. Len(q) : q[i] = p[i + 1] /\ i + 1 \in 1 .. Len(p)
      /\ 1 \in 1 .. Len(p)
      /\ \A i \in 1 .. Len(p) : i = 1 \/ (i - 1 \in 1 .. Len(q) /\ (i - 1) + 1 = i)
  BY DEF Removed
<1> DEFINE l == os[1]
           ns == [i \in 1 .. Len(q) |-> os[i + 1]]
<1>3. l \in u + 1 .. n - 1 /\ tasks[k].line = s[l] /\ Mount[s[l].path] = m
  BY <1>1, <1>2
<1>4. \A i \in 1 .. Len(p) : i = 1 \/ os[i] > l
  BY <1>1, <1>2
<1>5. ASSUME NEW i \in u + 1 .. l - 1
      PROVE  Mount[s[i].path] # m
  <2>1. i \in u + 1 .. n - 1
    BY <1>3
  <2>2. i < l
    BY <1>3
  <2>3. \A j \in 1 .. Len(p) : os[j] # i
    BY SMTT(30), <1>2, <1>4, <2>2, <1>3
  <2> QED
    BY <1>1, <2>1, <2>3
<1>6. ns \in [1 .. Len(q) -> l + 1 .. n - 1]
  <2>1. ASSUME NEW i \in 1 .. Len(q)
        PROVE  os[i + 1] \in l + 1 .. n - 1
    <3>1. i + 1 \in 1 .. Len(p) /\ i + 1 # 1
      BY <1>2
    <3>2. os[i + 1] \in u + 1 .. n - 1 /\ os[i + 1] > l
      BY <1>1, <1>4, <3>1
    <3> QED
      BY SMTT(30), <1>3, <3>2
  <2> QED
    BY <2>1
<1>7. ASSUME NEW i \in 1 .. Len(q)
      PROVE  after[q[i]].line = s[ns[i]] /\ Mount[s[ns[i]].path] = m
  BY SMTT(30), <1>1, <1>2
<1>8. ASSUME NEW i \in 1 .. Len(q), NEW j \in 1 .. Len(q), i < j
      PROVE  ns[i] < ns[j]
  <2>1. i + 1 \in 1 .. Len(p) /\ j + 1 \in 1 .. Len(p) /\ i + 1 < j + 1
    BY <1>2, <1>8
  <2> QED
    BY <1>1, <2>1
<1>9. ASSUME NEW i \in l + 1 .. n - 1, Mount[s[i].path] = m
      PROVE  \E j \in 1 .. Len(q) : ns[j] = i
  <2>1. i \in u + 1 .. n - 1 /\ i # l
    BY <1>3, <1>9
  <2>2. PICK j \in 1 .. Len(p) : os[j] = i
    BY <1>1, <1>9, <2>1
  <2>3. j - 1 \in 1 .. Len(q) /\ (j - 1) + 1 = j
    BY <1>2, <2>1, <2>2
  <2>4. ns[j - 1] = i
    BY <2>2, <2>3
  <2> QED
    BY <2>3, <2>4
<1> HIDE DEF l, ns
<1>10. Handed(s, n, after, m, l, q)
  BY <1>6, <1>7, <1>8, <1>9 DEF Handed
<1> QED
  BY <1>3, <1>5, <1>10

(* The thread of m runs a task: the next line of m after upto[m], of which *)
(* it makes what it makes when the lines run one after another.            *)
LEMMA RunLine ==
  ASSUME InitsOK, NEW m \in Mounts, RunItask(m), NEW u, AsFar(m, u), ipc # "trash"
  PROVE  \E l \in u + 1 .. next_line - 1 :
           /\ l \in 1 .. Len(section)
           /\ task_of[icur[m][1]].line = section[l] /\ Mount[section[l].path] = m
           /\ \A i \in u + 1 .. l - 1 : Mount[section[i].path] # m
           /\ RunTask(fs, section[l]).stats =
                RunTask(Worked(section)[l - 1].fs, section[l]).stats
           /\ AsFar(m, l)'
<1> DEFINE k == icur[m][1]
           p == Pend(m)
           q == Pend(m)'
           r == RunTask(fs, task_of[k].line)
<1>0. MainOK /\ IthreadsOK /\ TasksOK /\ IsTree(fs)
  BY DEF InitsOK
<1>1. /\ k \in ITasks /\ Removed(q, p, k) /\ p \in Seq(ITasks)
      /\ Alike(r, r, fs, Mount[task_of[k].line.path])
  BY <1>0, RunPend, PendIs, RunFacts
<1>2. /\ section \in Seq(InitLine) /\ Len(section) \in Nat
      /\ next_line \in 1 .. Len(section) + 1 /\ u \in 0 .. next_line - 1
      /\ Handed(section, next_line, task_of, m, u, p)
      /\ Same(fs, Worked(section)[u].fs, m)
  BY <1>0 DEF MainOK, AsFar
<1>3. UNCHANGED <<section, next_line, ipc>> /\ fs' = r.fs
      /\ \E t : task_of' = [task_of EXCEPT ![k] = t]
  BY DEF RunItask, imain
<1>4. ASSUME NEW i \in 1 .. Len(q)
      PROVE  task_of'[q[i]].line = task_of[q[i]].line
  <2>1. q[i] = p[i + 1] /\ i + 1 \in 1 .. Len(p) /\ 1 \in 1 .. Len(p) /\ p[1] = k /\ i + 1 # 1
    BY <1>1 DEF Removed
  <2>2. q[i] # k
    BY <1>0, <2>1 DEF TasksOK, PendOK
  <2>3. q[i] \in ITasks
    BY <1>1, <2>1
  <2> QED
    BY <1>0, <1>3, <2>2, <2>3 DEF TasksOK
<1>5. PICK l \in u + 1 .. next_line - 1 :
        /\ task_of[k].line = section[l] /\ Mount[section[l].path] = m
        /\ \A i \in u + 1 .. l - 1 : Mount[section[i].path] # m
        /\ Handed(section, next_line, task_of', m, l, q)
  <2> HIDE DEF p, q, k
  <2>1. u \in Nat /\ next_line \in Nat
    BY <1>2
  <2> QED
    BY SMTT(30), <1>1, <1>2, <1>4, <2>1, RunHands
<1>6. /\ l \in 0 .. next_line - 1 /\ l - 1 \in u .. Len(section) /\ u \in 0 .. Len(section)
      /\ l - 1 \in 0 .. Len(section) - 1 /\ l - 1 \in 0 .. Len(section) /\ (l - 1) + 1 = l
      /\ l \in 1 .. Len(section)
  BY <1>2
<1> DEFINE w == Worked(section)[l - 1].fs
           o == RunTask(w, section[l])
<1>7. Same(Worked(section)[u].fs, w, m)
  BY <1>2, <1>5, <1>6, OthersIdle
<1>8. Same(fs, w, m)
  BY <1>2, <1>7 DEF Same
<1>9. section[l] \in InitLine /\ Worked(section)[l].fs = o.fs /\ IsTree(w)
  BY SMTT(30), <1>2, <1>6, WorkedStep, WorkedOK
<1>10. Alike(r, o, fs, m)
  BY SMTT(30), <1>0, <1>5, <1>8, <1>9, RunTaskLocal
<1>11. r.stats = o.stats /\ Same(r.fs, Worked(section)[l].fs, m)
  BY <1>9, <1>10 DEF Alike
<1>12. AsFar(m, l)'
  BY <1>3, <1>5, <1>6, <1>11 DEF AsFar
<1> QED
  BY <1>5, <1>6, <1>11, <1>12

(* An action that leaves the lines, the tasks before the threads and the   *)
(* files as they are.                                                      *)
LEMMA AllFarKept ==
  ASSUME InitsOK, UNCHANGED <<section, next_line, fs>>,
         \A m \in Mounts : Pend(m)' = Pend(m),
         \A m \in Mounts : \A i \in 1 .. Len(Pend(m)) :
           task_of'[Pend(m)[i]].line = task_of[Pend(m)[i]].line,
         ipc' # "trash" => ipc # "trash",
         NEW upto \in [Mounts -> 0 .. next_line - 1], AllAsFar(upto)
  PROVE  AllAsFar(upto)'
<1> SUFFICES ASSUME NEW m \in Mounts
             PROVE  AsFar(m, upto[m])'
  BY DEF AllAsFar
<1>1. AsFar(m, upto[m]) /\ Same(fs', fs, m)
  BY DEF AllAsFar, Same
<1> QED
  BY <1>1, AsFarKept

(* No line is done in a step in which no thread runs a task.               *)
LEMMA FarKept ==
  ASSUME InitsOK, Runs, InitNext, ipc' # "error", \A m \in Mounts : ~RunItask(m),
         NEW upto \in [Mounts -> 0 .. next_line - 1], AllAsFar(upto)
  PROVE  upto \in [Mounts -> 0 .. next_line' - 1] /\ AllAsFar(upto)'
<1> DEFINE Goal == upto \in [Mounts -> 0 .. next_line' - 1] /\ AllAsFar(upto)'
<1>0. MainOK /\ IthreadsOK /\ TasksOK
  BY DEF InitsOK
<1>a. /\ section \in Seq(InitLine) /\ Len(section) \in Nat
      /\ next_line \in 1 .. Len(section) + 1
  BY <1>0 DEF MainOK
<1>k. ASSUME UNCHANGED <<section, next_line, fs, icur, queue>>,
             \A m \in Mounts : \A i \in 1 .. Len(Pend(m)) :
               task_of'[Pend(m)[i]].line = task_of[Pend(m)[i]].line,
             ipc' # "trash" => ipc # "trash"
      PROVE  Goal
  <2>1. \A m \in Mounts : Pend(m)' = Pend(m)
    BY <1>k DEF Pend
  <2>2. AllAsFar(upto)'
    BY <1>k, <2>1, AllFarKept
  <2> QED
    BY <1>k, <2>2
<1>1. CASE Trash
  <2>1. /\ UNCHANGED <<section, next_line, task_of, icur, queue>> /\ fs' = NoTree
        /\ ipc = "trash" /\ next_line = 1
    BY <1>0, <1>1 DEF Trash, ithreads, MainOK
  <2>2. Worked(section)[0].fs = NoTree
    <3>1. 0 \in 0 .. Len(section)
      BY <1>a
    <3>2. Worked(section)[0] = Made(section, Worked(section)[0 - 1], 0)
      BY <1>a, <3>1, WorkedIs
    <3> QED
      BY <3>2 DEF Made
  <2>3. ASSUME NEW m \in Mounts
        PROVE  AsFar(m, upto[m])'
    <3>1. upto[m] = 0 /\ AsFar(m, upto[m])
      BY <2>1 DEF AllAsFar
    <3>2. Pend(m)' = Pend(m)
      BY <2>1 DEF Pend
    <3>3. Same(fs', Worked(section)[upto[m]].fs, m)
      BY <2>1, <2>2, <3>1 DEF Same
    <3> QED
      BY <2>1, <3>1, <3>2, <3>3 DEF AsFar
  <2> QED
    BY <2>1, <2>3 DEF AllAsFar
<1>2. CASE ReadInitLine
  <2>1. /\ UNCHANGED <<section, next_line, fs, icur, queue>> /\ ipc # "trash" /\ GetItask
    BY <1>2 DEF ReadInitLine, ithreads
  <2>2. ASSUME NEW m \in Mounts, NEW i \in 1 .. Len(Pend(m))
        PROVE  task_of'[Pend(m)[i]] = task_of[Pend(m)[i]]
    <3>1. /\ ToDo(Pend(m)[i]) /\ Pend(m)[i] \in ITasks
          /\ \A j \in 1 .. Len(reuse_queue) : reuse_queue[j] # Pend(m)[i]
      BY <1>0, PendTypes DEF TasksOK, PendOK
    <3>2. CASE reuse_queue # <<>>
      <4>1. \E t : task_of' = [task_of EXCEPT ![Head(reuse_queue)] = t]
        BY <2>1, <3>2 DEF GetItask
      <4>2. Len(reuse_queue) \in Nat \ {0} /\ Head(reuse_queue) = reuse_queue[1]
        BY <1>0, <3>2, EmptySeq DEF TasksOK, ReuseOK
      <4>3. 1 \in 1 .. Len(reuse_queue)
        BY <4>2
      <4> QED
        BY <1>0, <3>1, <4>1, <4>2, <4>3 DEF TasksOK
    <3>3. CASE reuse_queue = <<>>
      <4>1. PICK k \in ITasks : /\ task_of[k] = None
                                /\ \E t : task_of' = [task_of EXCEPT ![k] = t]
        BY <2>1, <3>3 DEF GetItask
      <4> QED
        BY <1>0, <3>1, <4>1 DEF TasksOK, ToDo
    <3> QED
      BY <3>2, <3>3
  <2> QED
    BY <1>k, <2>1, <2>2
<1>3. CASE StartIthread \/ TerminateIthread \/ JoinIthread \/ FinishInit
  BY <1>3, <1>k DEF StartIthread, TerminateIthread, JoinIthread, FinishInit, AllJoined, ithreads
<1>4. CASE InsertItask
  <2>1. section[next_line] \in InitLine
    BY <1>0, <1>4 DEF InsertItask, MainOK
  <2>2. PICK m \in Mounts : m = ThreadOf(section[next_line].path)
    BY <2>1 DEF ThreadOf, Mounts, InitLine
  <2>3. /\ queue' = [queue EXCEPT ![m] = Append(@, itask[1])] /\ next_line' = next_line + 1
        /\ UNCHANGED <<section, fs, icur, task_of>> /\ ipc = "insert"
    BY <1>4, <2>2 DEF InsertItask
  <2>4. PICK k \in ITasks : itask = <<k>>
    BY <1>0, <2>3 DEF MainOK, IsLocal
  <2>5. task_of[k].line = section[next_line] /\ itask[1] = k
    BY <1>0, <2>4 DEF TasksOK, LocalOK
  <2>6. Added(Pend(m)', Pend(m), k) /\ \A o \in Mounts : o # m => Pend(o)' = Pend(o)
    BY <1>0, <2>3, <2>5, InsertPend
  <2>7. ASSUME NEW o \in Mounts
        PROVE  AsFar(o, upto[o])'
    <3> DEFINE u == upto[o]
    <3>1. /\ u \in 0 .. next_line - 1 /\ Handed(section, next_line, task_of, o, u, Pend(o))
          /\ Same(fs, Worked(section)[u].fs, o)
      BY <2>3 DEF AllAsFar, AsFar
    <3>2. /\ u \in Nat /\ next_line \in Nat /\ u <= next_line - 1 /\ Pend(o) \in Seq(ITasks)
          /\ u \in 0 .. (next_line + 1) - 1
      BY <1>0, <1>a, <3>1, PendIs
    <3>3. \/ /\ Mount[section[next_line].path] = o
             /\ \E t \in ITasks : /\ Added(Pend(o)', Pend(o), t)
                                  /\ task_of[t].line = section[next_line]
          \/ Mount[section[next_line].path] # o /\ Pend(o)' = Pend(o)
      BY <2>2, <2>5, <2>6 DEF ThreadOf
    <3>4. Handed(section, next_line + 1, task_of, o, u, Pend(o)')
      BY <3>1, <3>2, <3>3, InsertHands
    <3> QED
      BY <2>3, <3>1, <3>2, <3>4 DEF AsFar
  <2>8. upto \in [Mounts -> 0 .. next_line' - 1]
    BY <1>a, <2>3
  <2> QED
    BY <2>7, <2>8 DEF AllAsFar
<1>5. CASE CountItask
  <2>1. /\ UNCHANGED <<section, next_line, fs, icur, queue, ipc>> /\ reuse_queue # <<>>
        /\ task_of' = [task_of EXCEPT ![Head(reuse_queue)] = None]
    BY <1>5 DEF CountItask, ithreads
  <2>2. ASSUME NEW m \in Mounts, NEW i \in 1 .. Len(Pend(m))
        PROVE  task_of'[Pend(m)[i]] = task_of[Pend(m)[i]]
    <3>1. /\ Pend(m)[i] \in ITasks
          /\ \A j \in 1 .. Len(reuse_queue) : reuse_queue[j] # Pend(m)[i]
      BY <1>0, PendTypes DEF TasksOK, PendOK
    <3>2. Len(reuse_queue) \in Nat \ {0} /\ Head(reuse_queue) = reuse_queue[1]
      BY <1>0, <2>1, EmptySeq DEF TasksOK, ReuseOK
    <3>3. 1 \in 1 .. Len(reuse_queue)
      BY <3>2
    <3> QED
      BY <1>0, <2>1, <3>1, <3>2, <3>3 DEF TasksOK
  <2> QED
    BY <1>k, <2>1, <2>2
<1>6. ASSUME NEW m \in Mounts, TakeItask(m)
      PROVE  Goal
  <2>1. UNCHANGED <<section, next_line, fs, ipc, task_of>>
    BY <1>6 DEF TakeItask, imain
  <2>2. \A o \in Mounts : Pend(o)' = Pend(o)
    BY <1>0, <1>6, TakePend
  <2>3. AllAsFar(upto)'
    BY <2>1, <2>2, AllFarKept
  <2> QED
    BY <2>1, <2>3
<1>7. ASSUME NEW m \in Mounts, TestIterminate(m) \/ QueueEmpty(m)
      PROVE  Goal
  BY <1>7, <1>k DEF TestIterminate, QueueEmpty, imain
<1> QED
  BY <1>1, <1>2, <1>3, <1>4, <1>5, <1>6, <1>7 DEF InitNext, InitError

(* A thread that runs a task does one line more of its mount point.        *)
LEMMA FarMoves ==
  ASSUME InitsOK, NEW m \in Mounts, RunItask(m),
         NEW upto \in [Mounts -> 0 .. next_line - 1], AllAsFar(upto)
  PROVE  \E l \in upto[m] + 1 .. next_line - 1 :
           /\ l \in 1 .. Len(section) /\ Mount[section[l].path] = m
           /\ \A i \in upto[m] + 1 .. l - 1 : Mount[section[i].path] # m
           /\ RunTask(fs, task_of[icur[m][1]].line).stats =
                RunTask(Worked(section)[l - 1].fs, section[l]).stats
           /\ [upto EXCEPT ![m] = l] \in [Mounts -> 0 .. next_line' - 1]
           /\ AllAsFar([upto EXCEPT ![m] = l])'
<1>0. MainOK /\ IthreadsOK /\ TasksOK
  BY DEF InitsOK
<1> DEFINE k == icur[m][1]
           r == RunTask(fs, task_of[k].line)
<1>1. ipc # "trash"
  <2>1. icur[m] # None
    BY DEF RunItask
  <2> QED
    BY <1>0, <2>1 DEF MainOK, IthreadsOK, ThreadOK
<1>2. /\ UNCHANGED <<section, next_line, ipc>> /\ fs' = r.fs
      /\ \E t : task_of' = [task_of EXCEPT ![k] = t]
  BY DEF RunItask, imain
<1>3. PICK l \in upto[m] + 1 .. next_line - 1 :
        /\ l \in 1 .. Len(section)
        /\ task_of[k].line = section[l] /\ Mount[section[l].path] = m
        /\ \A i \in upto[m] + 1 .. l - 1 : Mount[section[i].path] # m
        /\ RunTask(fs, section[l]).stats =
             RunTask(Worked(section)[l - 1].fs, section[l]).stats
        /\ AsFar(m, l)'
  BY <1>1, RunLine DEF AllAsFar
<1>4. /\ Alike(r, r, fs, Mount[task_of[k].line.path]) /\ k \in ITasks
      /\ Len(Pend(m)) \in Nat \ {0} /\ Pend(m)[1] = k
      /\ \A o \in Mounts : o # m => Pend(o)' = Pend(o)
  BY <1>0, RunFacts, RunPend
<1>5. RunTask(fs, task_of[icur[m][1]].line).stats =
        RunTask(Worked(section)[l - 1].fs, section[l]).stats
  BY <1>3
<1> HIDE DEF k, r
<1>6. ASSUME NEW o \in Mounts, o # m
      PROVE  AsFar(o, upto[o])'
  <2>1. Same(fs', fs, o)
    BY <1>2, <1>3, <1>4, <1>6 DEF Alike, Same
  <2>2. ASSUME NEW i \in 1 .. Len(Pend(o))
        PROVE  task_of'[Pend(o)[i]].line = task_of[Pend(o)[i]].line
    <3>1. 1 \in 1 .. Len(Pend(m)) /\ PendOK(m)
      BY <1>0, <1>4 DEF TasksOK
    <3>2. Pend(o)[i] # Pend(m)[1]
      BY <1>6, <3>1 DEF PendOK
    <3>3. Pend(o)[i] # k /\ Pend(o)[i] \in ITasks
      BY <1>0, <1>4, <3>2, PendTypes
    <3> QED
      BY <1>0, <1>2, <3>3 DEF TasksOK
  <2> QED
    BY <1>1, <1>2, <1>4, <1>6, <2>1, <2>2, AsFarKept DEF AllAsFar
<1> DEFINE far == [upto EXCEPT ![m] = l]
<1>7. l \in 0 .. next_line - 1
  BY <1>0, <1>3 DEF MainOK
<1>8. far \in [Mounts -> 0 .. next_line' - 1] /\ far[m] = l
      /\ \A o \in Mounts : o # m => far[o] = upto[o]
  BY <1>2, <1>7
<1> HIDE DEF far
<1>9. AllAsFar(far)'
  BY <1>3, <1>6, <1>8 DEF AllAsFar
<1> QED
  BY <1>3, <1>5, <1>8, <1>9 DEF far

-----------------------------------------------------------------------------
(* What is counted.                                                        *)

LEMMA CountsOK ==
  ASSUME NEW s \in Seq(InitLine), NEW f \in Fields
  PROVE  \A l \in 1 .. Len(s) : LineCounts(s, l, f) \in Int
<1> SUFFICES ASSUME NEW l \in 1 .. Len(s)
             PROVE  LineCounts(s, l, f) \in Int
  OBVIOUS
<1> DEFINE w == Worked(s)[l - 1].fs
           r == RunTask(w, s[l])
<1>1. l - 1 \in 0 .. Len(s) /\ s[l] \in InitLine
  OBVIOUS
<1>2. IsTree(w)
  BY <1>1, WorkedOK
<1>3. Same(w, w, Mount[s[l].path])
  BY DEF Same
<1>4. Alike(r, r, w, Mount[s[l].path])
  <2> HIDE DEF w
  <2> QED
    BY <1>1, <1>2, <1>3, RunTaskLocal
<1>5. IsStats(r.stats)
  BY <1>4 DEF Alike
<1> HIDE DEF r
<1>6. r.stats[f] \in Int
  BY <1>5 DEF IsStats, Fields
<1> QED
  BY <1>6 DEF LineCounts, r

LEMMA StatsTypes ==
  ASSUME NEW a, IsStats(a), NEW f \in Fields
  PROVE  a[f] \in Int
BY DEF IsStats, Fields

(* An action that counts nothing.                                          *)
LEMMA BalanceKept ==
  ASSUME NEW upto, Balanced(upto), UNCHANGED <<section, totals, lost, reuse_queue>>,
         reuse_queue \in Seq(ITasks),
         \A i \in 1 .. Len(reuse_queue) : task_of'[reuse_queue[i]] = task_of[reuse_queue[i]]
  PROVE  Balanced(upto)'
<1> SUFFICES ASSUME NEW f \in Fields
             PROVE  /\ Total(Carried(reuse_queue, task_of', f), Len(reuse_queue))
                         = Total(Carried(reuse_queue, task_of, f), Len(reuse_queue))
  BY DEF Balanced
<1> DEFINE v == Carried(reuse_queue, task_of, f)
           w == Carried(reuse_queue, task_of', f)
<1>1. Len(reuse_queue) \in Nat
  OBVIOUS
<1>2. \A i \in 1 .. Len(reuse_queue) : w[i] = v[i]
  BY DEF Carried
<1> HIDE DEF v, w
<1>3. Total(w, Len(reuse_queue)) = Total(v, Len(reuse_queue))
  BY <1>1, <1>2, TotalSame
<1> QED
  BY <1>3 DEF v, w

(* What tasks in reuse_queue carry.                                        *)
LEMMA CarriedTypes ==
  ASSUME TasksOK, NEW f \in Fields
  PROVE  /\ Len(reuse_queue) \in Nat
         /\ \A i \in 1 .. Len(reuse_queue) : Carried(reuse_queue, task_of, f)[i] \in Int
<1>1. reuse_queue \in Seq(ITasks)
  BY DEF TasksOK, ReuseOK
<1>2. ASSUME NEW i \in 1 .. Len(reuse_queue)
      PROVE  Carried(reuse_queue, task_of, f)[i] \in Int
  <2>1. reuse_queue[i] \in ITasks /\ task_of[reuse_queue[i]] # None
    BY <1>1 DEF TasksOK, ReuseOK
  <2>2. task_of[reuse_queue[i]].stats[f] \in Int
    BY <2>1, StatsTypes DEF TasksOK, IsTask
  <2> QED
    BY <2>2 DEF Carried
<1> QED
  BY <1>1, <1>2

(* init_run adds up what the first task in reuse_queue carries.            *)
LEMMA BalanceOfExtract ==
  ASSUME TasksOK, NEW upto, Balanced(upto), UNCHANGED <<section, lost>>,
         IsStats(totals), IsStats(lost), reuse_queue # <<>>,
         reuse_queue' = Tail(reuse_queue),
         totals' = Plus(totals, task_of[Head(reuse_queue)].stats),
         \E t : task_of' = [task_of EXCEPT ![Head(reuse_queue)] = t]
  PROVE  Balanced(upto)'
<1> DEFINE k == Head(reuse_queue)
           n == Len(reuse_queue')
<1>1. ReuseOK
  BY DEF TasksOK
<1>2. Removed(reuse_queue', reuse_queue, k) /\ k \in ITasks
  BY <1>1, TailRemoves DEF ReuseOK
<1>3. /\ n \in Nat /\ Len(reuse_queue) = n + 1 /\ reuse_queue[1] = k
      /\ 1 \in 1 .. Len(reuse_queue)
      /\ \A i \in 1 .. n : reuse_queue'[i] = reuse_queue[i + 1]
                           /\ i + 1 \in 1 .. Len(reuse_queue) /\ i + 1 # 1
  BY <1>2 DEF Removed
<1> HIDE DEF k
<1>4. ASSUME NEW i \in 1 .. n
      PROVE  task_of'[reuse_queue'[i]] = task_of[reuse_queue[i + 1]]
  <2>1. reuse_queue[i + 1] # k /\ reuse_queue[i + 1] \in ITasks
    BY <1>1, <1>3 DEF ReuseOK
  <2> QED
    BY <1>3, <2>1 DEF TasksOK, k
<1>5. IsStats(task_of[k].stats)
  BY <1>1, <1>2, <1>3 DEF TasksOK, ReuseOK, IsTask
<1> SUFFICES ASSUME NEW f \in Fields
             PROVE  totals'[f] + lost[f] + Total(Carried(reuse_queue', task_of', f), n)
                      = Total(DoneCounts(section, upto, f), Len(section))
  BY DEF Balanced
<1> DEFINE v == Carried(reuse_queue', task_of', f)
           w == Carried(reuse_queue, task_of, f)
<1>6. \A i \in 1 .. n + 1 : w[i] \in Int
  BY <1>3, CarriedTypes
<1>7. \A i \in 1 .. n : w[i + 1] = v[i]
  BY <1>3, <1>4 DEF Carried
<1>8. w[1] = task_of[k].stats[f]
  BY <1>3 DEF Carried
<1>9. totals'[f] = totals[f] + task_of[k].stats[f]
  BY <1>5, PlusIs DEF Fields, k
<1>10. totals[f] \in Int /\ lost[f] \in Int /\ task_of[k].stats[f] \in Int
  BY <1>5, StatsTypes
<1>11. \A i \in 1 .. n : v[i] \in Int
  <2> SUFFICES ASSUME NEW i \in 1 .. n PROVE v[i] \in Int
    OBVIOUS
  <2>1. i + 1 \in 1 .. n + 1
    BY <1>3
  <2> HIDE DEF v, w
  <2> QED
    BY <1>6, <1>7, <2>1
<1>12. totals[f] + lost[f] + Total(w, n + 1)
         = Total(DoneCounts(section, upto, f), Len(section))
  BY <1>3 DEF Balanced
<1> HIDE DEF v, w, n
<1>13. Total(w, n + 1) = w[1] + Total(v, n) /\ Total(v, n) \in Int
  BY <1>3, <1>6, <1>7, <1>11, TotalTail, TotalType
<1>14. totals'[f] + lost[f] + Total(v, n)
         = Total(DoneCounts(section, upto, f), Len(section))
  BY SMTT(30), <1>8, <1>9, <1>10, <1>12, <1>13
<1> QED
  BY <1>14 DEF v

(* What a thread has counted in its task goes with the task, or is lost    *)
(* with it.                                                                *)
LEMMA BalanceOfRun ==
  ASSUME InitsOK, NEW m \in Mounts, RunItask(m),
         NEW upto \in [Mounts -> 0 .. next_line - 1], Balanced(upto),
         NEW l \in upto[m] + 1 .. next_line - 1, l \in 1 .. Len(section),
         Mount[section[l].path] = m,
         \A i \in upto[m] + 1 .. l - 1 : Mount[section[i].path] # m,
         RunTask(fs, task_of[icur[m][1]].line).stats =
           RunTask(Worked(section)[l - 1].fs, section[l]).stats
  PROVE  Balanced([upto EXCEPT ![m] = l])'
<1>0. MainOK /\ IthreadsOK /\ TasksOK
  BY DEF InitsOK
<1> DEFINE k == icur[m][1]
           r == RunTask(fs, task_of[k].line)
           counted == Plus(task_of[k].stats, r.stats)
           full == Len(reuse_queue) = ReuseCap
           n == Len(reuse_queue)
           far == [upto EXCEPT ![m] = l]
<1>1. /\ UNCHANGED <<section, totals>>
      /\ task_of' = [task_of EXCEPT ![k] =
                       IF full THEN None ELSE [task_of[k] EXCEPT !.stats = counted]]
      /\ reuse_queue' = IF full THEN reuse_queue ELSE Append(reuse_queue, k)
      /\ lost' = IF full THEN Plus(lost, counted) ELSE lost
  BY DEF RunItask, imain
<1>2. /\ k \in ITasks /\ IsTask(task_of[k]) /\ task_of[k].stats = NoStats
      /\ IsStats(r.stats) /\ IsStats(counted)
      /\ Len(Pend(m)) \in Nat \ {0} /\ Pend(m)[1] = k
  <2>1. /\ k \in ITasks /\ IsTask(task_of[k]) /\ task_of[k].stats = NoStats
        /\ Alike(r, r, fs, Mount[task_of[k].line.path]) /\ IsStats(counted)
        /\ Len(Pend(m)) \in Nat \ {0} /\ Pend(m)[1] = k
    BY RunFacts
  <2> HIDE DEF k, r, counted
  <2> QED
    BY SMTT(30), <2>1 DEF Alike
<1>3. /\ ReuseOK /\ reuse_queue \in Seq(ITasks) /\ n \in Nat
      /\ \A i \in 1 .. n : reuse_queue[i] # k /\ reuse_queue[i] \in ITasks
  <2>1. 1 \in 1 .. Len(Pend(m))
    BY <1>2
  <2>2. ReuseOK /\ PendOK(m)
    BY <1>0 DEF TasksOK
  <2> HIDE DEF k, n
  <2>3. reuse_queue \in Seq(ITasks)
    BY <2>2 DEF ReuseOK
  <2>4. \A j \in 1 .. Len(reuse_queue) : reuse_queue[j] # k
    BY ZenonT(60), <1>2, <2>1, <2>2 DEF PendOK
  <2> QED
    BY <2>2, <2>3, <2>4 DEF n
<1>4. section \in Seq(InitLine) /\ Len(section) \in Nat
      /\ next_line \in 1 .. Len(section) + 1
      /\ IsStats(totals) /\ IsStats(lost)
  BY <1>0 DEF MainOK
<1>5. r.stats = RunTask(Worked(section)[l - 1].fs, section[l]).stats
  BY SMTT(30)
<1> HIDE DEF k, r, full, n
<1>6. task_of' = [o \in ITasks |-> task_of'[o]]
      /\ \A o \in ITasks : o # k => task_of'[o] = task_of[o]
  BY <1>0, <1>1 DEF TasksOK
<1> SUFFICES ASSUME NEW f \in Fields
             PROVE  totals[f] + lost'[f]
                      + Total(Carried(reuse_queue', task_of', f), Len(reuse_queue'))
                      = Total(DoneCounts(section, far, f), Len(section))
  BY <1>1 DEF Balanced
<1> DEFINE c == LineCounts(section, l, f)
           v == DoneCounts(section, upto, f)
           w == DoneCounts(section, far, f)
           p == Carried(reuse_queue, task_of, f)
           q == Carried(reuse_queue', task_of', f)
<1>7. \A i \in 1 .. Len(section) : v[i] \in Int
  BY <1>4, CountsOK DEF DoneCounts
<1>8. c \in Int
  BY <1>4, CountsOK
<1>9. w[l] = v[l] + c
  <2>1. upto[m] < l /\ far[m] = l /\ ~(l <= upto[m])
    OBVIOUS
  <2>2. IsDone(section, l, far) /\ ~IsDone(section, l, upto)
    BY <2>1 DEF IsDone
  <2>3. w[l] = c /\ v[l] = 0
    BY <2>2 DEF DoneCounts
  <2> HIDE DEF v, w, c
  <2> QED
    BY <1>8, <2>3
<1>10. ASSUME NEW i \in 1 .. Len(section), i # l
       PROVE  w[i] = v[i]
  <2>1. section[i] \in InitLine
    BY <1>4
  <2>2. Mount[section[i].path] \in Mounts
    BY <2>1 DEF InitLine, Mounts
  <2>3. IsDone(section, i, far) <=> IsDone(section, i, upto)
    <3>1. CASE Mount[section[i].path] # m
      BY <2>2, <3>1 DEF IsDone
    <3>2. CASE Mount[section[i].path] = m
      <4>1. far[m] = l
        OBVIOUS
      <4>2. ~(i \in upto[m] + 1 .. l - 1)
        BY <3>2
      <4>3. i <= l <=> i <= upto[m]
        BY <1>10, <4>2
      <4> QED
        BY <3>2, <4>1, <4>3 DEF IsDone
    <3> QED
      BY <3>1, <3>2
  <2> QED
    BY <2>3 DEF DoneCounts
<1>11. Total(w, Len(section)) = Total(v, Len(section)) + c
  <2> HIDE DEF v, w, c
  <2>1. PICK n2 \in Nat : n2 = Len(section)
    BY <1>4
  <2>2. PICK c2 \in Int : c2 = c
    BY <1>8
  <2>3. OneMore(w, v, n2, l, c2)
    BY <1>7, <1>9, <1>10, <2>1, <2>2 DEF OneMore
  <2>4. Total(w, n2) = Total(v, n2) + c2
    BY <2>3, TotalOneMore
  <2> QED
    BY <2>1, <2>2, <2>4
<1>12. counted[f] = c
  <2>1. IsStats(NoStats) /\ NoStats[f] = 0
    BY DEF IsStats, NoStats, Fields
  <2>2. counted[f] = NoStats[f] + r.stats[f]
    BY <1>2, <2>1, PlusIs DEF Fields
  <2>3. r.stats[f] = c
    BY <1>5 DEF LineCounts
  <2> HIDE DEF c
  <2> QED
    BY <1>8, <2>1, <2>2, <2>3
<1>13. totals[f] + lost[f] + Total(p, n) = Total(v, Len(section))
  BY DEF Balanced, n
<1>14. totals[f] \in Int /\ lost[f] \in Int /\ Total(p, n) \in Int
  <2>1. \A i \in 1 .. n : p[i] \in Int
    BY <1>0, CarriedTypes DEF n
  <2> HIDE DEF p
  <2> QED
    BY <1>3, <1>4, <2>1, StatsTypes, TotalType
<1> HIDE DEF far, c, v, w, counted
<1>15. CASE full
  <2>1. lost'[f] = lost[f] + c
    BY SMTT(30), <1>1, <1>2, <1>4, <1>12, <1>15, PlusIs DEF Fields
  <2>2. reuse_queue' = reuse_queue
    BY <1>1, <1>15
  <2>3. \A i \in 1 .. n : q[i] = p[i]
    BY <1>3, <1>6, <2>2 DEF Carried, n
  <2>4. Len(reuse_queue') = n
    BY <2>2 DEF n
  <2> HIDE DEF p, q
  <2>5. Total(q, n) = Total(p, n)
    BY <1>3, <2>3, TotalSame
  <2>6. totals[f] + lost'[f] + Total(q, n) = Total(w, Len(section))
    BY SMTT(30), <1>8, <1>11, <1>13, <1>14, <2>1, <2>5
  <2> QED
    BY <2>4, <2>6 DEF q, w
<1>16. CASE ~full
  <2>1. lost' = lost /\ reuse_queue' = Append(reuse_queue, k)
    BY <1>1, <1>16
  <2>2. /\ Len(reuse_queue') = n + 1 /\ reuse_queue'[n + 1] = k
        /\ \A i \in 1 .. n : reuse_queue'[i] = reuse_queue[i]
    BY <1>2, <1>3, <2>1, AppendProperties DEF n
  <2>3. task_of'[k].stats = counted
    <3>1. task_of'[k] = [task_of[k] EXCEPT !.stats = counted]
      BY <1>0, <1>1, <1>2, <1>16 DEF TasksOK
    <3> QED
      BY <1>2, <3>1 DEF IsTask
  <2>4. q[n + 1] = c
    BY SMTT(30), <1>3, <1>12, <2>2, <2>3 DEF Carried
  <2>5. \A i \in 1 .. n : q[i] = p[i]
    BY <1>3, <1>6, <2>2 DEF Carried, n
  <2>6. \A i \in 1 .. n : p[i] \in Int
    BY <1>0, CarriedTypes DEF n
  <2> HIDE DEF p, q
  <2>7. \A i \in 1 .. n + 1 : q[i] \in Int
    <3> SUFFICES ASSUME NEW i \in 1 .. n + 1 PROVE q[i] \in Int
      OBVIOUS
    <3>1. i = n + 1 \/ i \in 1 .. n
      BY <1>3
    <3> QED
      BY <1>8, <2>4, <2>5, <2>6, <3>1
  <2>8. Total(q, n + 1) = Total(p, n) + c
    BY ZenonT(40), <1>3, <2>4, <2>5, <2>7, TotalAppend
  <2>9. totals[f] + lost'[f] + Total(q, n + 1) = Total(w, Len(section))
    BY SMTT(30), <1>8, <1>11, <1>13, <1>14, <2>1, <2>8
  <2> QED
    BY <2>2, <2>9 DEF q, w
<1> QED
  BY <1>15, <1>16

LEMMA FarStep ==
  ASSUME InitsOK, Runs, InitNext, ipc' # "error"
  PROVE  \E upto \in [Mounts -> 0 .. next_line' - 1] : AllAsFar(upto)' /\ Balanced(upto)'
<1>0. MainOK /\ IthreadsOK /\ TasksOK
  BY DEF InitsOK
<1>r. reuse_queue \in Seq(ITasks) /\ ReuseOK
  BY <1>0 DEF TasksOK, ReuseOK
<1>1. PICK upto \in [Mounts -> 0 .. next_line - 1] : AllAsFar(upto) /\ Balanced(upto)
  BY DEF InitsOK
<1>2. ASSUME NEW m \in Mounts, RunItask(m)
      PROVE  \E far \in [Mounts -> 0 .. next_line' - 1] : AllAsFar(far)' /\ Balanced(far)'
  <2>1. PICK l \in upto[m] + 1 .. next_line - 1 :
          /\ l \in 1 .. Len(section) /\ Mount[section[l].path] = m
          /\ \A i \in upto[m] + 1 .. l - 1 : Mount[section[i].path] # m
          /\ RunTask(fs, task_of[icur[m][1]].line).stats =
               RunTask(Worked(section)[l - 1].fs, section[l]).stats
          /\ [upto EXCEPT ![m] = l] \in [Mounts -> 0 .. next_line' - 1]
          /\ AllAsFar([upto EXCEPT ![m] = l])'
    BY <1>1, <1>2, FarMoves
  <2>2. Balanced([upto EXCEPT ![m] = l])'
    BY <1>1, <1>2, <2>1, BalanceOfRun
  <2> QED
    BY <2>1, <2>2
<1>3. CASE \A m \in Mounts : ~RunItask(m)
  <2>1. upto \in [Mounts -> 0 .. next_line' - 1] /\ AllAsFar(upto)'
    BY <1>1, <1>3, FarKept
  <2>2. ASSUME CountItask
        PROVE  Balanced(upto)'
    <3>1. /\ UNCHANGED <<section, lost>> /\ reuse_queue # <<>>
          /\ reuse_queue' = Tail(reuse_queue)
          /\ totals' = Plus(totals, task_of[Head(reuse_queue)].stats)
          /\ \E t : task_of' = [task_of EXCEPT ![Head(reuse_queue)] = t]
      BY <2>2 DEF CountItask
    <3> QED
      BY <1>0, <1>1, <3>1, BalanceOfExtract DEF MainOK
  <2>3. ASSUME ReadInitLine
        PROVE  Balanced(upto)'
    <3>1. UNCHANGED <<section, lost>> /\ GetItask
      BY <2>3 DEF ReadInitLine
    <3>2. CASE reuse_queue # <<>>
      <4>1. /\ reuse_queue' = Tail(reuse_queue)
            /\ totals' = Plus(totals, task_of[Head(reuse_queue)].stats)
            /\ \E t : task_of' = [task_of EXCEPT ![Head(reuse_queue)] = t]
        BY <3>1, <3>2 DEF GetItask
      <4> QED
        BY <1>0, <1>1, <3>1, <3>2, <4>1, BalanceOfExtract DEF MainOK
    <3>3. CASE reuse_queue = <<>>
      <4>1. UNCHANGED <<totals, reuse_queue>> /\ Len(reuse_queue) = 0 /\ 1 .. 0 = {}
        BY <3>1, <3>3, EmptySeq DEF GetItask
      <4> QED
        BY <1>r, <1>1, <3>1, <4>1, BalanceKept
    <3> QED
      BY <3>2, <3>3
  <2>4. ASSUME ~CountItask, ~ReadInitLine
        PROVE  Balanced(upto)'
    <3>1. UNCHANGED <<section, totals, lost, reuse_queue, task_of>>
      BY <1>3, <2>4 DEF InitNext, InitError, Trash, StartIthread, InsertItask,
         TerminateIthread, JoinIthread, FinishInit, TakeItask, TestIterminate, QueueEmpty, imain
    <3> QED
      BY SMTT(30), <1>r, <1>1, <3>1, BalanceKept
  <2> QED
    BY <2>1, <2>2, <2>3, <2>4
<1> QED
  BY <1>2, <1>3

-----------------------------------------------------------------------------
LEMMA SomewhereKept ==
  ASSUME NEW k \in ITasks, Somewhere(k), UNCHANGED <<itask, reuse_queue>>,
         \A m \in Mounts : Pend(m)' = Pend(m)
  PROVE  Somewhere(k)'
BY DEF Somewhere

(* The first of reuse_queue is taken out.                                  *)
LEMMA SomewhereElse ==
  ASSUME NEW k \in ITasks, NEW o \in ITasks, Somewhere(k), k # o,
         Removed(reuse_queue', reuse_queue, o), itask # <<k>>,
         \A m \in Mounts : Pend(m)' = Pend(m)
  PROVE  Somewhere(k)'
<1>1. /\ Len(reuse_queue') \in Nat /\ Len(reuse_queue) = Len(reuse_queue') + 1
      /\ reuse_queue[1] = o
  BY DEF Removed
<1>2. ASSUME NEW i \in 1 .. Len(reuse_queue), reuse_queue[i] = k
      PROVE  \E j \in 1 .. Len(reuse_queue') : reuse_queue'[j] = k
  <2>1. i - 1 \in 1 .. Len(reuse_queue') /\ (i - 1) + 1 = i
    BY <1>1, <1>2
  <2> QED
    BY <1>2, <2>1 DEF Removed
<1> QED
  BY <1>2 DEF Somewhere

LEMMA NoneLostStep ==
  ASSUME InitsOK, Runs, InitNext, ipc' # "error"
  PROVE  NoneLost'
<1>0. MainOK /\ IthreadsOK /\ TasksOK /\ NoneLost
  BY DEF InitsOK
<1>r. reuse_queue \in Seq(ITasks)
  BY <1>0 DEF TasksOK, ReuseOK
<1>1. CASE ReadInitLine
  <2>1. /\ UNCHANGED <<icur, queue>> /\ ipc = "read" /\ GetItask
    BY <1>1 DEF ReadInitLine, ithreads
  <2>2. itask = None /\ \A m \in Mounts : Pend(m)' = Pend(m)
    BY <1>0, <2>1 DEF MainOK, Pend
  <2>3. CASE reuse_queue # <<>>
    <3>0. PICK o \in ITasks : o = Head(reuse_queue)
      BY <1>r, <2>3
    <3>1. Removed(reuse_queue', reuse_queue, o)
      BY <1>r, <2>1, <2>3, <3>0, TailRemoves DEF GetItask
    <3>2. itask' = <<o>> /\ \E t : task_of' = [task_of EXCEPT ![o] = t]
      BY <2>1, <2>3, <3>0 DEF GetItask
    <3>3. ASSUME NEW k \in ITasks, task_of'[k] # None, k # o
          PROVE  Somewhere(k)'
      <4>1. task_of[k] # None /\ itask # <<k>>
        BY <1>0, <2>2, <3>2, <3>3 DEF TasksOK, None
      <4>2. Somewhere(k)
        BY <1>0, <4>1 DEF NoneLost
      <4> QED
        BY <2>2, <3>1, <3>3, <4>1, <4>2, SomewhereElse
    <3>4. Somewhere(o)'
      BY <3>2 DEF Somewhere
    <3> QED
      BY <3>3, <3>4 DEF NoneLost
  <2>4. CASE reuse_queue = <<>>
    <3>1. PICK o \in ITasks : itask' = <<o>> /\ \E t : task_of' = [task_of EXCEPT ![o] = t]
      BY <2>1, <2>4 DEF GetItask
    <3>2. reuse_queue' = reuse_queue
      BY <2>1, <2>4 DEF GetItask
    <3>3. ASSUME NEW k \in ITasks, task_of'[k] # None, k # o
          PROVE  Somewhere(k)'
      <4>1. task_of[k] # None /\ itask # <<k>>
        BY <1>0, <2>2, <3>1, <3>3 DEF TasksOK, None
      <4>2. Somewhere(k)
        BY <1>0, <4>1 DEF NoneLost
      <4> QED
        BY <2>2, <3>2, <4>1, <4>2 DEF Somewhere
    <3>4. Somewhere(o)'
      BY <3>1 DEF Somewhere
    <3> QED
      BY <3>3, <3>4 DEF NoneLost
  <2> QED
    BY <2>3, <2>4
<1>2. CASE InsertItask
  <2>1. section[next_line] \in InitLine
    BY <1>0, <1>2 DEF InsertItask, MainOK
  <2>2. PICK m \in Mounts : m = ThreadOf(section[next_line].path)
    BY <2>1 DEF ThreadOf, Mounts, InitLine
  <2>3. /\ queue' = [queue EXCEPT ![m] = Append(@, itask[1])]
        /\ UNCHANGED <<icur, task_of, reuse_queue>> /\ ipc = "insert"
    BY <1>2, <2>2 DEF InsertItask
  <2>4. PICK o \in ITasks : itask = <<o>>
    BY <1>0, <2>3 DEF MainOK, IsLocal
  <2>5. queue' = [queue EXCEPT ![m] = Append(queue[m], o)]
    <3>1. itask[1] = o
      BY <2>4
    <3> QED
      BY <2>3, <3>1
  <2>6. Added(Pend(m)', Pend(m), o) /\ \A p \in Mounts : p # m => Pend(p)' = Pend(p)
    BY <1>0, <2>3, <2>5, InsertPend
  <2>7. Len(Pend(m)) \in Nat
    BY <1>0, PendTypes
  <2>8. ASSUME NEW k \in ITasks, task_of'[k] # None
        PROVE  Somewhere(k)'
    <3>1. Somewhere(k)
      BY <1>0, <2>3, <2>8 DEF NoneLost
    <3>2. CASE itask = <<k>>
      <4>1. k = o
        BY <2>4, <3>2
      <4>2. Len(Pend(m)) + 1 \in 1 .. Len(Pend(m)') /\ Pend(m)'[Len(Pend(m)) + 1] = k
        BY <2>6, <2>7, <4>1 DEF Added
      <4> QED
        BY <4>2 DEF Somewhere
    <3>3. ASSUME NEW p \in Mounts, NEW i \in 1 .. Len(Pend(p)), Pend(p)[i] = k
          PROVE  Somewhere(k)'
      <4>1. i \in 1 .. Len(Pend(p)') /\ Pend(p)'[i] = k
        BY <2>6, <2>7, <3>3 DEF Added
      <4> QED
        BY <4>1 DEF Somewhere
    <3>4. ASSUME NEW i \in 1 .. Len(reuse_queue), reuse_queue[i] = k
          PROVE  Somewhere(k)'
      BY <2>3, <3>4 DEF Somewhere
    <3> QED
      BY <3>1, <3>2, <3>3, <3>4 DEF Somewhere
  <2> QED
    BY <2>8 DEF NoneLost
<1>3. CASE CountItask
  <2> DEFINE o == Head(reuse_queue)
  <2>1. /\ UNCHANGED <<icur, queue, itask>> /\ reuse_queue # <<>>
        /\ task_of' = [task_of EXCEPT ![o] = None]
        /\ reuse_queue' = Tail(reuse_queue) /\ ipc \in {"read", "joined"}
    BY <1>3 DEF CountItask, AllJoined, ithreads
  <2>2. itask = None /\ \A m \in Mounts : Pend(m)' = Pend(m)
    BY <1>0, <2>1 DEF MainOK, Pend
  <2>3. Removed(reuse_queue', reuse_queue, o) /\ o \in ITasks
    BY <1>r, <2>1, TailRemoves
  <2> HIDE DEF o
  <2>4. ASSUME NEW k \in ITasks, task_of'[k] # None
        PROVE  Somewhere(k)'
    <3>1. task_of[k] # None /\ itask # <<k>> /\ k # o
      BY <1>0, <2>1, <2>2, <2>4 DEF TasksOK, None
    <3>2. Somewhere(k)
      BY <1>0, <3>1 DEF NoneLost
    <3> QED
      BY <2>2, <2>3, <3>1, <3>2, SomewhereElse
  <2> QED
    BY <2>4 DEF NoneLost
<1>4. ASSUME NEW m \in Mounts, TakeItask(m)
      PROVE  NoneLost'
  <2>1. UNCHANGED <<itask, reuse_queue, task_of>> /\ \A o \in Mounts : Pend(o)' = Pend(o)
    BY <1>0, <1>4, TakePend DEF TakeItask, imain
  <2> QED
    BY <1>0, <2>1, SomewhereKept DEF NoneLost
<1>5. ASSUME NEW m \in Mounts, RunItask(m)
      PROVE  NoneLost'
  <2> DEFINE full == Len(reuse_queue) = ReuseCap
  <2>0. PICK o \in ITasks : o = icur[m][1]
    BY <1>0, <1>5, RunPend
  <2>1. /\ Removed(Pend(m)', Pend(m), o)
        /\ \A p \in Mounts : p # m => Pend(p)' = Pend(p)
    BY <1>0, <1>5, <2>0, RunPend
  <2>2. /\ itask' = itask
        /\ \E t : task_of' = [task_of EXCEPT ![o] = IF full THEN None ELSE t]
        /\ reuse_queue' = IF full THEN reuse_queue ELSE Append(reuse_queue, o)
    BY <1>5, <2>0 DEF RunItask, imain
  <2> HIDE DEF full
  <2>3. Len(Pend(m)') \in Nat /\ Len(Pend(m)) = Len(Pend(m)') + 1 /\ Pend(m)[1] = o
    BY <2>1 DEF Removed
  <2>4. Len(reuse_queue) \in Nat
    BY <1>r
  <2>5. \A i \in 1 .. Len(reuse_queue) :
          i \in 1 .. Len(reuse_queue') /\ reuse_queue'[i] = reuse_queue[i]
    BY <1>r, <2>1, <2>2, <2>4, AppendProperties
  <2>6. ASSUME NEW k \in ITasks, task_of'[k] # None, k # o
        PROVE  Somewhere(k)'
    <3>1. Somewhere(k)
      BY <1>0, <2>2, <2>6 DEF TasksOK, NoneLost
    <3>2. ASSUME NEW p \in Mounts, NEW i \in 1 .. Len(Pend(p)), Pend(p)[i] = k
          PROVE  Somewhere(k)'
      <4>1. CASE p = m
        <5>1. i - 1 \in 1 .. Len(Pend(m)') /\ (i - 1) + 1 = i
          BY <2>3, <2>6, <3>2, <4>1
        <5>2. Pend(m)'[i - 1] = k
          BY <2>1, <3>2, <4>1, <5>1 DEF Removed
        <5> QED
          BY <5>1, <5>2 DEF Somewhere
      <4>2. CASE p # m
        BY <2>1, <3>2, <4>2 DEF Somewhere
      <4> QED
        BY <4>1, <4>2
    <3>3. ASSUME NEW i \in 1 .. Len(reuse_queue), reuse_queue[i] = k
          PROVE  Somewhere(k)'
      BY <2>5, <3>3 DEF Somewhere
    <3>4. CASE itask = <<k>>
      BY <2>2, <3>4 DEF Somewhere
    <3> QED
      BY <3>1, <3>2, <3>3, <3>4 DEF Somewhere
  <2>7. ASSUME task_of'[o] # None
        PROVE  Somewhere(o)'
    <3>1. ~full
      BY <1>0, <2>1, <2>2, <2>7 DEF TasksOK
    <3>2. reuse_queue' = Append(reuse_queue, o)
      BY <2>2, <3>1
    <3>3. Len(reuse_queue') = Len(reuse_queue) + 1 /\ reuse_queue'[Len(reuse_queue) + 1] = o
      BY <1>r, <2>1, <3>2, AppendProperties
    <3>4. Len(reuse_queue) + 1 \in 1 .. Len(reuse_queue')
      BY <2>4, <3>3
    <3> QED
      BY <3>3, <3>4 DEF Somewhere
  <2> QED
    BY <2>6, <2>7 DEF NoneLost
<1>6. CASE \/ Trash \/ StartIthread \/ TerminateIthread \/ JoinIthread \/ FinishInit
           \/ \E m \in Mounts : TestIterminate(m) \/ QueueEmpty(m)
  <2>1. UNCHANGED <<itask, reuse_queue, task_of, icur, queue>>
    BY <1>6 DEF Trash, StartIthread, TerminateIthread, JoinIthread, FinishInit,
                TestIterminate, QueueEmpty, imain, ithreads
  <2>2. \A m \in Mounts : Pend(m)' = Pend(m)
    BY <2>1 DEF Pend
  <2> QED
    BY <1>0, <2>1, <2>2, SomewhereKept DEF NoneLost
<1> QED
  BY <1>1, <1>2, <1>3, <1>4, <1>5, <1>6 DEF InitNext, InitError

LEMMA TreeStep ==
  ASSUME InitsOK, Runs, InitNext, ipc' # "error"
  PROVE  IsTree(fs)'
<1>0. IsTree(fs)
  BY DEF InitsOK
<1>1. CASE Trash
  BY <1>1 DEF Trash, IsTree, NoTree
<1>2. ASSUME NEW m \in Mounts, RunItask(m)
      PROVE  IsTree(fs)'
  <2>1. IsTree(RunTask(fs, task_of[icur[m][1]].line).fs)
    BY <1>2, RunFacts DEF Alike
  <2>2. fs' = RunTask(fs, task_of[icur[m][1]].line).fs
    BY <1>2 DEF RunItask
  <2> QED
    BY SMTT(30), <2>1, <2>2
<1>3. CASE fs' = fs
  BY <1>0, <1>3 DEF IsTree
<1> QED
  BY <1>1, <1>2, <1>3 DEF InitNext, InitError, ReadInitLine, StartIthread, InsertItask,
     TerminateIthread, JoinIthread, CountItask, FinishInit, TakeItask, TestIterminate,
     QueueEmpty

LEMMA InitsStep ==
  ASSUME InitsOK, Runs, InitNext, ipc' # "error"
  PROVE  InitsOK'
BY TreeStep, MainStep, ThreadsStep, TasksStep, NoneLostStep, FarStep DEF InitsOK

-----------------------------------------------------------------------------
(* The other actions of ioriot leave the init alone; before it has begun   *)
(* its files may be moved away or removed.                                 *)

LEMMA InitsKept ==
  ASSUME InitsOK, UNCHANGED <<imain, ithreads, task_of, reuse_queue, lost>>,
         fs' = fs \/ (ipc = "trash" /\ IsTree(fs)')
  PROVE  InitsOK'
<1>0. /\ UNCHANGED <<section, ipc, next_line, itask, iterminate, iteam, totals, queue,
                     icur, itpc, task_of, reuse_queue, lost>>
  BY DEF imain, ithreads
<1>1. IsTree(fs)'
  BY DEF InitsOK, IsTree
<1>2. MainOK'
  BY <1>0 DEF InitsOK, MainOK, IsLocal, IsStats
<1>3. IthreadsOK'
  <2>1. \A m \in Mounts : ThreadOK(m)'
    BY <1>0, ThreadKept DEF InitsOK, IthreadsOK
  <2> QED
    BY <1>0, <2>1 DEF InitsOK, IthreadsOK
<1>4. \A m \in Mounts : Pend(m)' = Pend(m)
  BY <1>0 DEF Pend
<1>5. TasksOK'
  BY <1>0, <1>4, TasksKept DEF InitsOK
<1>6. NoneLost'
  BY <1>0, <1>4, SomewhereKept DEF InitsOK, NoneLost
<1>7. \E upto \in [Mounts -> 0 .. next_line' - 1] : AllAsFar(upto)' /\ Balanced(upto)'
  <2>1. PICK upto \in [Mounts -> 0 .. next_line - 1] : AllAsFar(upto) /\ Balanced(upto)
    BY DEF InitsOK
  <2>2. ASSUME NEW m \in Mounts
        PROVE  AsFar(m, upto[m])'
    BY <1>0, <1>4, <2>1, AsFarKept DEF AllAsFar, Same
  <2>3. Balanced(upto)'
    <3>1. reuse_queue \in Seq(ITasks)
      BY DEF InitsOK, TasksOK, ReuseOK
    <3> QED
      BY <1>0, <2>1, <3>1, BalanceKept
  <2> QED
    BY <1>0, <2>1, <2>2, <2>3 DEF AllAsFar
<1> QED
  BY <1>1, <1>2, <1>3, <1>5, <1>6, <1>7 DEF InitsOK

LEMMA InitsInit == Init => InitModeInv
<1> SUFFICES ASSUME Init
             PROVE  InitModeInv
  OBVIOUS
<1>0. InitStart /\ ipc = "trash" /\ next_line = 1
  BY DEF Init, InitStart
<1>1. ModeOK
  BY DEF Init, InitStart, ModeOK
<1>2. IsTree(fs)
  BY InitAssumption DEF Init, InitStart, IsTree
<1>3. section \in Seq(InitLine) /\ Len(section) \in Nat
  BY InitAssumption DEF Init, InitStart
<1>4. MainOK
  <2>1. <<>> \in Seq(Mounts) /\ IsStats(NoStats)
    BY EmptySeq DEF IsStats, NoStats
  <2> QED
    BY <1>0, <1>3, <2>1 DEF InitStart, MainOK, IsLocal
<1>5. IthreadsOK
  <2>1. <<>> \in Seq(ITasks)
    BY EmptySeq
  <2> QED
    BY <1>0, <2>1 DEF InitStart, IthreadsOK, ThreadOK, IsLocal, None
<1>6. \A m \in Mounts : Pend(m) = <<>> /\ Len(Pend(m)) = 0
  <2>1. \A m \in Mounts : queue[m] = <<>> /\ icur[m] = None
    BY <1>0 DEF InitStart
  <2> QED
    BY <1>5, <2>1, PendIs, EmptySeq
<1>7. TasksOK
  <2>1. <<>> \in Seq(ITasks) /\ Len(<<>>) = 0 /\ reuse_queue = <<>>
    BY <1>0, EmptySeq DEF InitStart
  <2>2. ReuseOK
    BY <2>1 DEF ReuseOK
  <2>3. \A k \in ITasks : itask # <<k>>
    BY <1>0 DEF InitStart, None
  <2>4. \A m \in Mounts : PendOK(m)
    BY <1>6 DEF PendOK
  <2> QED
    BY <1>0, <2>2, <2>3, <2>4 DEF InitStart, TasksOK
<1>8. ASSUME NEW m \in Mounts
      PROVE  AsFar(m, 0)
  <2> DEFINE none == [i \in 1 .. 0 |-> 1]
             p == Pend(m)
  <2>1. 1 .. 0 = {} /\ 0 + 1 .. 1 - 1 = {} /\ 0 \in 0 .. 1 - 1 /\ Len(p) = 0
    BY <1>6
  <2>2. none \in [1 .. Len(p) -> 0 + 1 .. 1 - 1]
    BY <2>1
  <2> HIDE DEF none, p
  <2>3. Handed(section, 1, task_of, m, 0, p)
    BY <2>1, <2>2 DEF Handed
  <2> QED
    BY <1>0, <2>1, <2>3 DEF AsFar, p
<1> DEFINE upto == [m \in Mounts |-> 0]
<1>9. upto \in [Mounts -> 0 .. next_line - 1] /\ AllAsFar(upto)
  BY <1>0, <1>8 DEF AllAsFar
<1>10. NoneLost
  BY <1>0 DEF InitStart, NoneLost
<1>11. ASSUME NEW f \in Fields
       PROVE  totals[f] + lost[f] + Total(Carried(reuse_queue, task_of, f), Len(reuse_queue))
                = Total(DoneCounts(section, upto, f), Len(section))
  <2> DEFINE w == DoneCounts(section, upto, f)
             v == Carried(reuse_queue, task_of, f)
  <2>1. ASSUME NEW l \in 1 .. Len(section)
        PROVE  w[l] = 0
    <3>1. section[l] \in InitLine
      BY <1>3
    <3>2. Mount[section[l].path] \in Mounts
      BY <3>1 DEF InitLine, Mounts
    <3>3. upto[Mount[section[l].path]] = 0
      BY <3>2
    <3>4. ~IsDone(section, l, upto)
      BY <3>3 DEF IsDone
    <3> QED
      BY <3>4 DEF DoneCounts
  <2>2. Len(reuse_queue) = 0 /\ totals[f] = 0 /\ lost[f] = 0
    BY <1>0, EmptySeq DEF InitStart, NoStats, Fields
  <2> HIDE DEF w, v
  <2>3. Total(w, Len(section)) = 0
    BY <1>3, <2>1, TotalZero
  <2>4. Total(v, Len(reuse_queue)) = 0
    <3>1. PICK n \in Nat : n = Len(reuse_queue) /\ n = 0
      BY <2>2
    <3>2. \A i \in 1 .. n : v[i] = 0
      BY <3>1
    <3>3. Total(v, n) = 0
      BY <3>2, TotalZero
    <3> QED
      BY <3>1, <3>3
  <2>5. totals[f] + lost[f] + Total(v, Len(reuse_queue)) = Total(w, Len(section))
    BY <2>2, <2>3, <2>4
  <2> QED
    BY <2>5 DEF w, v
<1>12. Balanced(upto)
  BY <1>11 DEF Balanced
<1> HIDE DEF upto
<1> QED
  BY <1>1, <1>2, <1>4, <1>5, <1>7, <1>9, <1>10, <1>12 DEF InitModeInv, InitsOK

LEMMA InitModeNext == InitModeInv /\ [Next]_vars => InitModeInv'
<1> SUFFICES ASSUME InitModeInv, [Next]_vars
             PROVE  InitModeInv'
  OBVIOUS
<1>a. ModeOK /\ (Runs => InitsOK)
  BY DEF InitModeInv
<1>k. ASSUME UNCHANGED ivars, UNCHANGED mode, purgers' \subseteq purgers \/ mode = "-P",
             mpc' # "init" \/ mpc' = mpc, mpc' # "cleanup" \/ mpc' = mpc
      PROVE  InitModeInv'
  <2>1. ipc' = ipc /\ UNCHANGED <<imain, ithreads, task_of, reuse_queue, lost, fs>>
    BY <1>k DEF ivars, imain
  <2>2. ModeOK'
    BY <1>a, <1>k, <2>1 DEF ModeOK
  <2> QED
    BY <1>a, <2>1, <2>2, InitsKept DEF InitModeInv
<1>1. CASE RunInit
  <2>1. InitNext /\ UNCHANGED <<mode, mpc, purgers>> /\ mpc = "init"
    BY SMTT(30), <1>1 DEF RunInit, purge, options
  <2>2. ipc' # "unforked" /\ ipc \notin {"success", "error", "unforked"}
    <3>1. ipc \notin {"success", "error", "unforked"}
      BY <1>a, <2>1 DEF InitNext, ModeOK
    <3> QED
      BY <2>1, <3>1 DEF InitNext, InitError, Trash, ReadInitLine, StartIthread, InsertItask,
         TerminateIthread, JoinIthread, CountItask, FinishInit, TakeItask, RunItask,
         TestIterminate, QueueEmpty, imain
  <2>3. ModeOK'
    BY <1>a, <2>1, <2>2 DEF ModeOK
  <2> QED
    BY <1>a, <2>1, <2>2, <2>3, InitsStep DEF InitModeInv
<1>2. CASE TrashAll \/ \E m \in Mounts : Purge(m)
  <2>1. /\ UNCHANGED <<imain, ithreads, task_of, reuse_queue, lost, mode>>
        /\ mode \in {"-T", "-P"} /\ mpc' \in {mpc, "ended"}
        /\ purgers' \subseteq purgers
    BY <1>a, <1>2 DEF TrashAll, Purge, End, options, purge, ModeOK
  <2>2. IsTree(fs)'
    BY <1>2 DEF TrashAll, Purge, IsTree, NoTree
  <2>3. ipc = "trash" /\ ipc' = ipc
    BY <1>a, <2>1 DEF ModeOK, imain
  <2>4. ModeOK'
    BY <1>a, <2>1, <2>3 DEF ModeOK
  <2> QED
    BY <1>a, <2>1, <2>2, <2>3, <2>4, InitsKept DEF InitModeInv
<1>3. CASE InitForkFails
  <2>1. ipc' = "unforked" /\ mpc' # "init" /\ mpc' # "cleanup" /\ mode = "-R"
        /\ UNCHANGED <<mode, purgers>>
    BY <1>3 DEF InitForkFails, End, options, purge
  <2> QED
    BY <1>a, <2>1 DEF InitModeInv, ModeOK
<1>4. CASE RunCapture \/ UNCHANGED vars
  BY <1>4, <1>k DEF RunCapture, vars, mvars, options, purge
<1>5. CASE CaptureEnds \/ CaptureFails \/ PurgeEnds \/ CleanupFails \/ InitEnds \/ InitWaited
  BY <1>5, <1>k DEF CaptureEnds, CaptureFails, PurgeEnds, CleanupFails, InitEnds, InitWaited,
                    End, options, purge
<1>6. CASE StartPurger \/ \E m \in Mounts : PurgerFails(m)
  BY <1>6, <1>k DEF StartPurger, PurgerFails, options
<1>7. CASE StartWorker \/ WorkerForkFails \/ AllForked \/ ReapWorker \/ AllReaped
           \/ AddStats \/ ReplayReturns
  BY <1>7, <1>k DEF StartWorker, WorkerForkFails, AllForked, ReapWorker, AllReaped,
                    AddStats, ReplayReturns, End, options, purge
<1>8. ASSUME NEW w \in Workers, Worker(w)
      PROVE  InitModeInv'
  BY <1>8, <1>k DEF Worker, WorkerLine, WorkerExits, WorkerFails, End, options, purge
<1> QED
  BY <1>1, <1>2, <1>3, <1>4, <1>5, <1>6, <1>7, <1>8 DEF Next

LEMMA InitModeHolds == Spec => []InitModeInv
BY InitsInit, InitModeNext, PTL DEF Spec

-----------------------------------------------------------------------------
(* No thread and no queue has a task any more.                             *)
LEMMA NothingPending ==
  ASSUME InitsOK, ipc = "success", NEW m \in Mounts
  PROVE  Len(Pend(m)) = 0
<1>1. IthreadsOK /\ iteam = <<>> /\ ThreadOK(m)
  BY DEF InitsOK, MainOK, IthreadsOK
<1>2. Len(iteam) = 0 /\ 1 .. 0 = {}
  BY <1>1, EmptySeq
<1>3. queue[m] = <<>> /\ icur[m] = None
  BY <1>1, <1>2 DEF ThreadOK
<1> QED
  BY <1>1, <1>3, PendIs, EmptySeq

LEMMA SameWhenDone == ASSUME InitModeInv PROVE SameAsOneThread
<1> SUFFICES ASSUME ipc = "success"
             PROVE  fs = OneAfterAnother.fs
  BY DEF SameAsOneThread
<1>0. InitsOK
  BY DEF InitModeInv
<1>1. PICK upto \in [Mounts -> 0 .. next_line - 1] : AllAsFar(upto)
  BY <1>0 DEF InitsOK
<1>2. /\ section \in Seq(InitLine) /\ Len(section) \in Nat
      /\ next_line = Len(section) + 1
  BY <1>0 DEF InitsOK, MainOK
<1> DEFINE all == Worked(section)[Len(section)].fs
<1>3. ASSUME NEW m \in Mounts
      PROVE  Same(fs, all, m)
  <2> DEFINE u == upto[m]
  <2>1. /\ u \in 0 .. Len(section) /\ Len(section) \in u .. Len(section)
        /\ Same(fs, Worked(section)[u].fs, m)
        /\ Handed(section, next_line, task_of, m, u, Pend(m))
    BY <1>1, <1>2 DEF AllAsFar, AsFar
  <2>2. Len(Pend(m)) = 0 /\ 1 .. 0 = {}
    BY <1>0, NothingPending
  <2>3. \A l \in u + 1 .. Len(section) : Mount[section[l].path] # m
    BY <1>2, <2>1, <2>2 DEF Handed
  <2>4. Same(Worked(section)[u].fs, all, m)
    BY <1>2, <2>1, <2>3, OthersIdle
  <2> QED
    BY <2>1, <2>4 DEF Same
<1>4. IsTree(fs) /\ IsTree(all)
  BY <1>0, <1>2, WorkedOK DEF InitsOK
<1>5. ASSUME NEW x \in FsPaths
      PROVE  fs[x] = all[x]
  <2>1. Mount[x] \in Mounts
    BY DEF Mounts
  <2> QED
    BY <1>3, <2>1 DEF Same
<1>6. OneAfterAnother.fs = all
  BY DEF OneAfterAnother
<1> QED
  BY <1>4, <1>5, <1>6 DEF IsTree

(* The sum of what all lines count is what they count one after another.   *)
LEMMA TotalOfLines ==
  ASSUME NEW s \in Seq(InitLine), NEW f \in Fields,
         NEW v, \A l \in 1 .. Len(s) : v[l] = LineCounts(s, l, f)
  PROVE  Total(v, Len(s)) = Worked(s)[Len(s)].stats[f]
<1> DEFINE n == Len(s)
<1>0. n \in Nat /\ n \in 0 .. n /\ 0 \in 0 .. n /\ 0 \in Nat
  OBVIOUS
<1>1. PICK t : IsTotal(t, v, n) /\ Total(v, n) = t[n]
  BY <1>0, TotalIs
<1> DEFINE S == {i \in 0 .. n : t[i] = Worked(s)[i].stats[f]}
<1>2. 0 \in S
  <2>1. Worked(s)[0] = Made(s, Worked(s)[0 - 1], 0)
    BY <1>0, WorkedIs
  <2>2. Worked(s)[0].stats = NoStats
    BY <2>1 DEF Made
  <2>3. NoStats[f] = 0
    BY DEF NoStats, Fields
  <2>4. t[0] = 0
    BY <1>0, <1>1 DEF IsTotal
  <2> QED
    BY <1>0, <2>2, <2>3, <2>4
<1>3. ASSUME NEW i \in 0 .. n - 1, i \in S
      PROVE  i + 1 \in S
  <2> DEFINE w == Worked(s)[i]
             r == RunTask(w.fs, s[i + 1])
  <2>1. i + 1 \in 0 .. n /\ i + 1 # 0 /\ (i + 1) - 1 = i /\ i + 1 \in 1 .. n /\ i \in 0 .. n
    OBVIOUS
  <2>2. /\ s[i + 1] \in InitLine
        /\ Worked(s)[i + 1].stats = Plus(w.stats, r.stats)
    BY WorkedStep
  <2>3. IsTree(w.fs) /\ IsStats(w.stats)
    BY <2>1, WorkedOK
  <2> HIDE DEF w
  <2>4. IsStats(r.stats)
    BY <2>2, <2>3, RunTaskLocal DEF Alike, Same
  <2> HIDE DEF r
  <2>5. Plus(w.stats, r.stats)[f] = w.stats[f] + r.stats[f]
    BY <2>3, <2>4, PlusIs DEF Fields
  <2>6. t[i + 1] = t[i] + v[i + 1]
    BY <1>1, <2>1 DEF IsTotal
  <2>7. v[i + 1] = r.stats[f]
    BY <2>1 DEF LineCounts, r, w
  <2>8. t[i] = w.stats[f]
    BY <1>3 DEF w
  <2> QED
    BY <2>1, <2>2, <2>5, <2>6, <2>7, <2>8
<1>4. n \in S
  <2> HIDE DEF S, n
  <2> QED
    BY <1>0, <1>2, <1>3, UpTo
<1> QED
  BY <1>1, <1>4

LEMMA StatsWhenDone == ASSUME InitModeInv PROVE StatsAddUp
<1> SUFFICES ASSUME ipc = "success"
             PROVE  /\ Plus(totals, lost) = OneAfterAnother.stats
                    /\ \A k \in ITasks : task_of[k] = None
  BY DEF StatsAddUp
<1>0. InitsOK
  BY DEF InitModeInv
<1>1. PICK upto \in [Mounts -> 0 .. next_line - 1] : AllAsFar(upto) /\ Balanced(upto)
  BY <1>0 DEF InitsOK
<1>2. /\ section \in Seq(InitLine) /\ Len(section) \in Nat
      /\ next_line = Len(section) + 1 /\ reuse_queue = <<>> /\ itask = None
      /\ IsStats(totals) /\ IsStats(lost)
  BY <1>0 DEF InitsOK, MainOK
<1>3. Len(reuse_queue) = 0 /\ 1 .. 0 = {}
  BY <1>2, EmptySeq
<1>4. ASSUME NEW l \in 1 .. Len(section)
      PROVE  IsDone(section, l, upto)
  <2>1. section[l] \in InitLine
    BY <1>2
  <2>2. PICK m \in Mounts : m = Mount[section[l].path]
    BY <2>1 DEF InitLine, Mounts
  <2>3. Len(Pend(m)) = 0
    BY <1>0, NothingPending
  <2>4. /\ Handed(section, next_line, task_of, m, upto[m], Pend(m))
        /\ upto[m] \in 0 .. Len(section)
    BY <1>1, <1>2 DEF AllAsFar, AsFar
  <2>5. ~(l \in upto[m] + 1 .. next_line - 1)
    BY <1>3, <2>2, <2>3, <2>4 DEF Handed
  <2>6. l <= upto[m]
    BY <1>2, <2>4, <2>5
  <2> QED
    BY <2>2, <2>6 DEF IsDone
<1> DEFINE all == Worked(section)[Len(section)].stats
<1>5. ASSUME NEW f \in Fields
      PROVE  totals[f] + lost[f] = all[f]
  <2> DEFINE w == DoneCounts(section, upto, f)
             v == Carried(reuse_queue, task_of, f)
  <2>1. \A l \in 1 .. Len(section) : w[l] = LineCounts(section, l, f)
    BY <1>4 DEF DoneCounts
  <2>2. totals[f] + lost[f] + Total(v, Len(reuse_queue)) = Total(w, Len(section))
    BY <1>1 DEF Balanced
  <2> HIDE DEF v, w, all
  <2>3. Total(w, Len(section)) = all[f]
    BY <1>2, <2>1, TotalOfLines DEF all
  <2>4. Total(v, Len(reuse_queue)) = 0
    <3>1. PICK n \in Nat : n = Len(reuse_queue) /\ n = 0
      BY <1>3
    <3>2. \A i \in 1 .. n : v[i] = 0
      BY <3>1
    <3>3. Total(v, n) = 0
      BY <3>2, TotalZero
    <3> QED
      BY <3>1, <3>3
  <2>5. totals[f] \in Int /\ lost[f] \in Int
    BY <1>2, StatsTypes
  <2> QED
    BY <2>2, <2>3, <2>4, <2>5
<1>6. IsStats(all)
  BY <1>2, WorkedOK
<1> HIDE DEF all
<1>7. Plus(totals, lost) = all
  <2>1. IsStats(Plus(totals, lost))
        /\ \A f \in Fields : Plus(totals, lost)[f] = totals[f] + lost[f]
    BY <1>2, PlusIs DEF Fields
  <2>2. \A f \in Fields : Plus(totals, lost)[f] = all[f]
    BY <1>5, <2>1
  <2>3. PICK sum : sum = Plus(totals, lost)
    OBVIOUS
  <2>4. sum.dirs = all.dirs /\ sum.files = all.files /\ sum.sizes = all.sizes
    BY <2>2, <2>3 DEF Fields
  <2>5. sum = all
    BY <1>6, <2>1, <2>3, <2>4 DEF IsStats
  <2> QED
    BY <2>3, <2>5
<1>8. ASSUME NEW k \in ITasks
      PROVE  ~Somewhere(k)
  <2>1. \A m \in Mounts : Len(Pend(m)) = 0
    BY <1>0, NothingPending
  <2>2. itask # <<k>>
    BY <1>2 DEF None
  <2> QED
    BY <1>3, <2>1, <2>2 DEF Somewhere
<1>9. \A k \in ITasks : task_of[k] = None
  BY <1>0, <1>8 DEF InitsOK, NoneLost
<1> QED
  BY <1>7, <1>9 DEF OneAfterAnother, all

(* An init that was successful leaves the files that the lines make one    *)
(* after another, and no others (init.c:216-230, ithread.c:29-50).         *)
THEOREM SameAsOneThreadHolds == Spec => []SameAsOneThread
BY InitModeHolds, SameWhenDone, PTL

(* What a successful init prints and what it lost with the tasks for which *)
(* reuse_queue had no room is what the lines count one after another, and  *)
(* no task is left in memory (init.c:229-241, ithread.c:29-50).            *)
THEOREM StatsAddUpHolds == Spec => []StatsAddUp
BY InitModeHolds, StatsWhenDone, PTL

(* With -R a worker finds these files, unless the init could not be forked *)
(* (main.c:265).                                                           *)
THEOREM ReplayAfterInitHolds == Spec => []ReplayAfterInit
<1>1. NoReplayWithoutInit /\ SameAsOneThread => ReplayAfterInit
  BY DEF NoReplayWithoutInit, SameAsOneThread, ReplayAfterInit
<1> QED
  BY <1>1, ReplayWaitsForInit, SameAsOneThreadHolds, PTL

=============================================================================
