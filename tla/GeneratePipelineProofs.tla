----------------------- MODULE GeneratePipelineProofs -----------------------
(***************************************************************************)
(* The three threads of ioriot -g write every line that is accepted, once  *)
(* and in order, and never share a task object: for a capture of any       *)
(* length and queues of any size.                                          *)
(*                                                                         *)
(* The threads are shown to be one pipe: whatever a stage does to its      *)
(* queue and its local task leaves the sequence of the tasks on their way  *)
(* as it is, unless a line is read or written.                             *)
(***************************************************************************)
EXTENDS GeneratePipeline, SequenceTheorems, FiniteSetTheorems, TLAPS

(* The range of every variable.                                            *)
TypeOK ==
  /\ capture \in Seq(Kinds) /\ Len(capture) <= MaxLines
  /\ pos \in 0 .. Len(capture)
  /\ lineno \in Nat /\ filtered \in Nat /\ num_lines \in Int
  /\ rpc \in {"read", "join_parser", "join_writer", "collect", "done"}
  /\ rtask \in Tasks \cup {None}
  /\ pc \in [Stages -> {"poll", "test", "drain", "exit"}]
  /\ cur \in [Stages -> Tasks \cup {None}]
  /\ terminate \in [Stages -> BOOLEAN]
  /\ queue \in [Stages -> Seq(Tasks)]
  /\ reuse \in Seq(Tasks)
  /\ line \in [Tasks -> 0 .. pos]
  /\ ret \in [Tasks -> {"SUCCESS", "ERROR"}]
  /\ lost \subseteq Tasks
  /\ file \in Seq(Nat)

(* A task in use is on its way, waits for reuse or is lost, and only that. *)
PlaceInv ==
  /\ IsInjective(Pipe) /\ IsInjective(reuse)
  /\ ToSet(Pipe) \cap ToSet(reuse) = {}
  /\ lost \cap (ToSet(Pipe) \cup ToSet(reuse)) = {}
  /\ Allocated = ToSet(Pipe) \cup ToSet(reuse) \cup lost

(* Every task has a line of its own, which is not a comment.               *)
LineInv ==
  /\ \A t, u \in Allocated : line[t] = line[u] => t = u
  /\ \A t \in Allocated : Kind(t) # "comment"

(* The lines in the file and then those on their way are in order, and no  *)
(* accepted line that was read is missing.                                 *)
OrderInv ==
  /\ \A i, j \in DOMAIN Pipe : i < j => line[Pipe[i]] < line[Pipe[j]]
  /\ rpc # "done" =>
       /\ \A i, j \in DOMAIN file : i < j => file[i] < file[j]
       /\ \A i \in DOMAIN file : file[i] \in Good
       /\ \A i \in DOMAIN file, j \in DOMAIN Pipe : file[i] < line[Pipe[j]]
       /\ \A i \in DOMAIN file : file[i] <= pos
       /\ \A l \in Good :
            l <= pos => \/ \E i \in DOMAIN file : file[i] = l
                        \/ \E j \in DOMAIN Pipe : line[Pipe[j]] = l

(* Before the writer only the parser may have refused a task, and a task   *)
(* that the writer is through with tells whether its line was refused.     *)
Bad == {"unparsable", "unknown"}
RetInv ==
  /\ \A t \in ToSet(Pipe) : ret[t] = "ERROR" => Kind(t) = "unparsable"
  /\ \A t \in ToSet(queue["writer"]) \cup ({cur["writer"]} \ {None}) :
       Kind(t) = "unparsable" => ret[t] = "ERROR"
  /\ \A t \in ToSet(reuse) \cup lost : ret[t] = "ERROR" <=> Kind(t) \in Bad

(* A thread that is waited for has been told to stop, and one that has     *)
(* stopped has left nothing.                                               *)
EndInv ==
  /\ rpc # "read" => rtask = None /\ pos = Len(capture)
  /\ terminate["parser"] => rpc # "read"
  /\ terminate["writer"] => pc["parser"] = "exit"
  /\ \A s \in Stages :
       /\ pc[s] \in {"drain", "exit"} => terminate[s]
       /\ pc[s] = "exit" => queue[s] = << >> /\ cur[s] = None
       /\ pc[s] = "test" => cur[s] = None
  /\ rpc \in {"join_writer", "collect", "done"} => pc["parser"] = "exit"
  /\ rpc \in {"collect", "done"} => pc["writer"] = "exit"

(* Every line that was read is counted, and of the refused ones those are  *)
(* not yet counted whose tasks are still in use.                           *)
Refused(n) == {i \in 1 .. n : capture[i] \in Bad}
CountInv ==
  /\ lineno = Cardinality({i \in 1 .. pos : capture[i] # "comment"})
  /\ filtered + Cardinality({t \in Allocated : Kind(t) \in Bad})
       = Cardinality(Refused(pos))

(* What WriteHeader leaves.                                                *)
DoneInv ==
  rpc = "done" =>
    /\ reuse = << >>
    /\ num_lines = lineno - filtered
    /\ Len(file) # 0 /\ file[Len(file)] = InitSection
    /\ \A i, j \in 1 .. Len(file) - 1 : i < j => file[i] < file[j]
    /\ {file[i] : i \in 1 .. Len(file) - 1} = Good

PipeInv ==
  /\ TypeOK /\ PlaceInv /\ LineInv /\ OrderInv /\ RetInv /\ EndInv /\ CountInv
  /\ DoneInv

-----------------------------------------------------------------------------
(* The pipe.                                                               *)

PipeOf(cw, qw, cp, qp, rt) == One(cw) \o qw \o One(cp) \o qp \o One(rt)

LEMMA PipeIs ==
  /\ Pipe = PipeOf(cur["writer"], queue["writer"], cur["parser"],
                   queue["parser"], rtask)
  /\ Pipe' = PipeOf(cur["writer"]', queue["writer"]', cur["parser"]',
                    queue["parser"]', rtask')
BY DEF Pipe, PipeOf, One

LEMMA OneIs ==
  ASSUME NEW t \in Tasks \cup {None}
  PROVE  /\ One(t) \in Seq(Tasks)
         /\ t = None => One(t) = << >>
         /\ t # None => One(t) = << t >>
BY DEF One

LEMMA PipeType ==
  ASSUME NEW cw \in Tasks \cup {None}, NEW qw \in Seq(Tasks),
         NEW cp \in Tasks \cup {None}, NEW qp \in Seq(Tasks),
         NEW rt \in Tasks \cup {None}
  PROVE  /\ PipeOf(cw, qw, cp, qp, rt) \in Seq(Tasks)
         /\ One(cw) \o qw \in Seq(Tasks)
         /\ One(cw) \o qw \o One(cp) \in Seq(Tasks)
         /\ One(cw) \o qw \o One(cp) \o qp \in Seq(Tasks)
BY OneIs, ConcatProperties DEF PipeOf

(* A sequence is its head and the rest.                                    *)
LEMMA HeadFirst ==
  ASSUME NEW s \in Seq(Tasks), s # << >>
  PROVE  << Head(s) >> \o Tail(s) = s
<1>1. /\ Head(s) \in Tasks /\ Tail(s) \in Seq(Tasks)
      /\ Len(Tail(s)) = Len(s) - 1 /\ Len(s) \in Nat \ {0}
      /\ \A i \in 1 .. Len(s) - 1 : Tail(s)[i] = s[i + 1]
      /\ Head(s) = s[1]
  BY HeadTailProperties, EmptySeq
<1>2. << Head(s) >> \in Seq(Tasks) /\ Len(<< Head(s) >>) = 1
      /\ << Head(s) >>[1] = s[1]
  BY <1>1
<1> DEFINE u == << Head(s) >> \o Tail(s)
<1>3. /\ u \in Seq(Tasks) /\ Len(u) = Len(s)
      /\ \A i \in 1 .. Len(s) :
           u[i] = IF i <= 1 THEN << Head(s) >>[i] ELSE Tail(s)[i - 1]
  BY <1>1, <1>2, ConcatProperties
<1>4. \A i \in 1 .. Len(s) : u[i] = s[i]
  <2> SUFFICES ASSUME NEW i \in 1 .. Len(s) PROVE u[i] = s[i]
    OBVIOUS
  <2>1. CASE i = 1
    BY <1>1, <1>2, <1>3, <2>1
  <2>2. CASE i # 1
    <3>1. i - 1 \in 1 .. Len(s) - 1 /\ i - 1 + 1 = i /\ ~(i <= 1)
      BY <1>1, <2>2
    <3>2. Tail(s)[i - 1] = s[i - 1 + 1]
      BY <1>1, <3>1
    <3> QED
      BY <1>3, <3>1, <3>2
  <2> QED
    BY <2>1, <2>2
<1> HIDE DEF u
<1>5. u = s
  BY <1>3, <1>4, SeqEqual
<1> QED
  BY <1>5 DEF u

(* The first of the tasks is the head, and the rest the tail.              *)
LEMMA FirstIsHead ==
  ASSUME NEW t \in Tasks, NEW s \in Seq(Tasks)
  PROVE  /\ << t >> \o s # << >>
         /\ Head(<< t >> \o s) = t
         /\ Tail(<< t >> \o s) = s
<1> DEFINE u == << t >> \o s
<1>1. << t >> \in Seq(Tasks) /\ Len(<< t >>) = 1 /\ << t >>[1] = t /\ Len(s) \in Nat
  OBVIOUS
<1>2. /\ u \in Seq(Tasks) /\ Len(u) = Len(s) + 1
      /\ \A i \in 1 .. Len(s) + 1 : u[i] = IF i <= 1 THEN << t >>[i] ELSE s[i - 1]
  BY <1>1, ConcatProperties
<1> HIDE DEF u
<1>3. u # << >> /\ u[1] = t
  BY <1>1, <1>2
<1>4. Head(u) = t
  BY <1>2, <1>3
<1>5. /\ Tail(u) \in Seq(Tasks) /\ Len(Tail(u)) = Len(s)
      /\ \A i \in 1 .. Len(s) : Tail(u)[i] = u[i + 1]
  BY <1>1, <1>2, <1>3, HeadTailProperties
<1>6. \A i \in 1 .. Len(s) : Tail(u)[i] = s[i]
  <2> SUFFICES ASSUME NEW i \in 1 .. Len(s) PROVE Tail(u)[i] = s[i]
    OBVIOUS
  <2>1. i + 1 \in 1 .. Len(s) + 1 /\ ~(i + 1 <= 1) /\ i + 1 - 1 = i
    BY <1>1
  <2>2. u[i + 1] = s[i + 1 - 1]
    BY <1>2, <2>1
  <2> QED
    BY <1>5, <2>1, <2>2
<1>7. Tail(u) = s
  BY <1>5, <1>6, SeqEqual
<1> QED
  BY <1>3, <1>4, <1>7 DEF u

(* The writer takes the next task from its queue.                          *)
LEMMA TakeForWriter ==
  ASSUME NEW qw \in Seq(Tasks), qw # << >>, NEW cp, NEW qp, NEW rt,
         None \notin Tasks
  PROVE  PipeOf(Head(qw), Tail(qw), cp, qp, rt) = PipeOf(None, qw, cp, qp, rt)
<1>1. Head(qw) \in Tasks
  BY HeadTailProperties
<1>2. One(Head(qw)) \o Tail(qw) = qw
  BY <1>1, HeadFirst DEF One
<1>3. One(None) \o qw = qw
  BY ConcatEmptySeq DEF One
<1> QED
  BY <1>2, <1>3 DEF PipeOf

LEMMA TakeForParser ==
  ASSUME NEW qp \in Seq(Tasks), qp # << >>, NEW cw \in Tasks \cup {None},
         NEW qw \in Seq(Tasks), NEW rt, None \notin Tasks
  PROVE  PipeOf(cw, qw, Head(qp), Tail(qp), rt) = PipeOf(cw, qw, None, qp, rt)
<1> DEFINE a == One(cw) \o qw
<1>1. a \in Seq(Tasks)
  BY OneIs, ConcatProperties
<1>2. /\ Head(qp) \in Tasks /\ Tail(qp) \in Seq(Tasks)
      /\ << Head(qp) >> \in Seq(Tasks)
  BY HeadTailProperties
<1>3. (a \o << Head(qp) >>) \o Tail(qp) = a \o (<< Head(qp) >> \o Tail(qp))
  BY SMTT(30), <1>1, <1>2, ConcatAssociative
<1>4. One(Head(qp)) = << Head(qp) >> /\ One(None) = << >> /\ a \o << >> = a
  BY <1>1, <1>2, ConcatEmptySeq DEF One
<1> QED
  BY <1>3, <1>4, HeadFirst DEF PipeOf

(* A task at the end of the next queue is where it was.                    *)
LEMMA AppendIsLast ==
  ASSUME NEW a \in Seq(Tasks), NEW q \in Seq(Tasks), NEW t \in Tasks
  PROVE  a \o Append(q, t) = (a \o q) \o << t >>
<1>1. << t >> \in Seq(Tasks) /\ Append(q, t) = q \o << t >>
  BY AppendIsConcat
<1> QED
  BY <1>1, ConcatAssociative

LEMMA PassToWriter ==
  ASSUME NEW t \in Tasks, NEW cw \in Tasks \cup {None}, NEW qw \in Seq(Tasks),
         NEW qp, NEW rt, None \notin Tasks
  PROVE  PipeOf(cw, Append(qw, t), None, qp, rt) = PipeOf(cw, qw, t, qp, rt)
<1>1. One(cw) \in Seq(Tasks)
  BY OneIs
<1>2. One(cw) \o Append(qw, t) = (One(cw) \o qw) \o << t >>
  BY <1>1, AppendIsLast
<1>3. One(t) = << t >> /\ One(None) = << >>
  BY DEF One
<1>4. (One(cw) \o Append(qw, t)) \o << >> = One(cw) \o Append(qw, t)
  <2>1. Append(qw, t) \in Seq(Tasks)
    OBVIOUS
  <2>2. One(cw) \o Append(qw, t) \in Seq(Tasks)
    BY <1>1, <2>1, ConcatProperties
  <2> QED
    BY <2>2, ConcatEmptySeq
<1> QED
  BY <1>2, <1>3, <1>4 DEF PipeOf

LEMMA PassOn ==
  ASSUME NEW t \in Tasks, NEW cw \in Tasks \cup {None}, NEW qw \in Seq(Tasks),
         NEW cp \in Tasks \cup {None}, NEW qp \in Seq(Tasks), None \notin Tasks
  PROVE  PipeOf(cw, qw, cp, Append(qp, t), None) = PipeOf(cw, qw, cp, qp, t)
<1> DEFINE a == One(cw) \o qw \o One(cp)
<1>1. a \in Seq(Tasks)
  BY PipeType
<1>2. a \o Append(qp, t) = (a \o qp) \o << t >>
  BY <1>1, AppendIsLast
<1>3. One(t) = << t >> /\ One(None) = << >>
  BY DEF One
<1>4. (a \o Append(qp, t)) \o << >> = a \o Append(qp, t)
  <2>1. Append(qp, t) \in Seq(Tasks)
    OBVIOUS
  <2>2. a \o Append(qp, t) \in Seq(Tasks)
    BY <1>1, <2>1, ConcatProperties
  <2> QED
    BY <2>2, ConcatEmptySeq
<1> QED
  BY <1>2, <1>3, <1>4 DEF PipeOf

(* A line that is read is the last in the pipe.                            *)
LEMMA ReadIsLast ==
  ASSUME NEW t \in Tasks, NEW cw \in Tasks \cup {None}, NEW qw \in Seq(Tasks),
         NEW cp \in Tasks \cup {None}, NEW qp \in Seq(Tasks), None \notin Tasks
  PROVE  PipeOf(cw, qw, cp, qp, t) = Append(PipeOf(cw, qw, cp, qp, None), t)
<1> DEFINE a == One(cw) \o qw \o One(cp) \o qp
<1>1. a \in Seq(Tasks)
  BY PipeType
<1>2. One(t) = << t >> /\ One(None) = << >> /\ a \o << >> = a
  BY <1>1, ConcatEmptySeq DEF One
<1>3. Append(a, t) = a \o << t >>
  BY <1>1, AppendIsConcat
<1> QED
  BY <1>2, <1>3 DEF PipeOf

(* Concatenation, as an operator that is not expanded.                      *)
Cat(u, v) == u \o v

LEMMA CatIs ==
  \A u, v, w \in Seq(Tasks) :
    Cat(u, v) \in Seq(Tasks) /\ Cat(Cat(u, v), w) = Cat(u, Cat(v, w))
BY SMTT(30) DEF Cat

LEMMA CatFour ==
  ASSUME NEW x \in Seq(Tasks), NEW q \in Seq(Tasks), NEW c \in Seq(Tasks),
         NEW p \in Seq(Tasks), NEW r \in Seq(Tasks)
  PROVE  Cat(Cat(Cat(Cat(x, q), c), p), r) = Cat(x, Cat(Cat(Cat(q, c), p), r))
<1>1. Cat(q, c) \in Seq(Tasks) /\ Cat(Cat(q, c), p) \in Seq(Tasks)
  BY CatIs
<1>2. Cat(Cat(x, q), c) = Cat(x, Cat(q, c))
  BY CatIs
<1>3. Cat(Cat(x, Cat(q, c)), p) = Cat(x, Cat(Cat(q, c), p))
  BY <1>1, CatIs
<1>4. Cat(Cat(x, Cat(Cat(q, c), p)), r) = Cat(x, Cat(Cat(Cat(q, c), p), r))
  BY <1>1, CatIs
<1> QED
  BY <1>2, <1>3, <1>4

(* The task of the writer is the first.                                    *)
IsFirst(t, p, rest) == p # << >> /\ Head(p) = t /\ Tail(p) = rest

LEMMA WriterIsFirst ==
  ASSUME NEW t \in Tasks, NEW qw \in Seq(Tasks), NEW cp \in Tasks \cup {None},
         NEW qp \in Seq(Tasks), NEW rt \in Tasks \cup {None}, None \notin Tasks
  PROVE  IsFirst(t, PipeOf(t, qw, cp, qp, rt), PipeOf(None, qw, cp, qp, rt))
<1> DEFINE c == One(cp)
           r == One(rt)
           x == << t >>
<1>1. c \in Seq(Tasks) /\ r \in Seq(Tasks) /\ x \in Seq(Tasks)
      /\ One(t) = x /\ One(None) \o qw = qw
  BY OneIs, ConcatEmptySeq DEF One
<1> HIDE DEF c, r, x
<1> DEFINE d == (qw \o c) \o qp
<1>2. d \o r \in Seq(Tasks)
  <2>1. Cat(Cat(Cat(qw, c), qp), r) \in Seq(Tasks)
    <3>1. Cat(qw, c) \in Seq(Tasks)
      BY <1>1, CatIs
    <3>2. Cat(Cat(qw, c), qp) \in Seq(Tasks)
      BY <3>1, CatIs
    <3> QED
      BY <1>1, <3>2, CatIs
  <2> QED
    BY <2>1 DEF Cat
<1>5. (((x \o qw) \o c) \o qp) \o r = x \o (d \o r)
  <2>1. Cat(Cat(Cat(Cat(x, qw), c), qp), r) = Cat(x, Cat(Cat(Cat(qw, c), qp), r))
    BY <1>1, CatFour
  <2> QED
    BY <2>1 DEF Cat
<1> HIDE DEF d
<1>6. PipeOf(t, qw, cp, qp, rt) = x \o (d \o r)
  BY <1>1, <1>5 DEF PipeOf, c, r
<1>7. PipeOf(None, qw, cp, qp, rt) = d \o r
  BY <1>1 DEF PipeOf, c, r, d
<1> QED
  BY <1>2, <1>6, <1>7, FirstIsHead DEF x, IsFirst

-----------------------------------------------------------------------------
(* What is in a sequence.                                                  *)

LEMMA SeqFacts ==
  ASSUME NEW s \in Seq(Tasks)
  PROVE  /\ Len(s) \in Nat /\ DOMAIN s = 1 .. Len(s)
         /\ \A i \in 1 .. Len(s) : s[i] \in Tasks
         /\ ToSet(s) = {s[i] : i \in 1 .. Len(s)} /\ ToSet(s) \subseteq Tasks
         /\ IsInjective(s) <=> \A i, j \in 1 .. Len(s) : s[i] = s[j] => i = j
<1>1. Len(s) \in Nat /\ DOMAIN s = 1 .. Len(s)
  OBVIOUS
<1>2. \A i \in 1 .. Len(s) : s[i] \in Tasks
  OBVIOUS
<1> QED
  BY <1>1, <1>2 DEF ToSet, IsInjective

LEMMA ToSetConcat ==
  ASSUME NEW s \in Seq(Tasks), NEW t \in Seq(Tasks)
  PROVE  ToSet(s \o t) = ToSet(s) \cup ToSet(t)
<1>1. /\ s \o t \in Seq(Tasks) /\ Len(s \o t) = Len(s) + Len(t)
      /\ \A i \in 1 .. Len(s) + Len(t) :
           (s \o t)[i] = IF i <= Len(s) THEN s[i] ELSE t[i - Len(s)]
  BY ConcatProperties
<1>2. Len(s) \in Nat /\ Len(t) \in Nat
  OBVIOUS
<1> DEFINE u == s \o t
<1> HIDE DEF u
<1>a. /\ u \in Seq(Tasks) /\ Len(u) = Len(s) + Len(t)
      /\ \A i \in 1 .. Len(s) + Len(t) :
           u[i] = IF i <= Len(s) THEN s[i] ELSE t[i - Len(s)]
  BY <1>1 DEF u
<1>b. /\ ToSet(u) = {u[i] : i \in 1 .. Len(s) + Len(t)}
      /\ ToSet(s) = {s[i] : i \in 1 .. Len(s)}
      /\ ToSet(t) = {t[i] : i \in 1 .. Len(t)}
  BY <1>a, SeqFacts
<1>3. ASSUME NEW x \in ToSet(u)
      PROVE  x \in ToSet(s) \cup ToSet(t)
  <2>1. PICK i \in 1 .. Len(s) + Len(t) : x = u[i]
    BY <1>3, <1>b
  <2>2. CASE i <= Len(s)
    <3>1. i \in 1 .. Len(s) /\ x = s[i]
      BY <1>a, <1>2, <2>1, <2>2
    <3> QED
      BY <3>1, <1>b
  <2>3. CASE ~(i <= Len(s))
    <3>1. i - Len(s) \in 1 .. Len(t) /\ x = t[i - Len(s)]
      BY <1>a, <1>2, <2>1, <2>3
    <3> QED
      BY <3>1, <1>b
  <2> QED
    BY <2>2, <2>3
<1>4. ASSUME NEW i \in 1 .. Len(s)
      PROVE  s[i] \in ToSet(u)
  <2>1. i \in 1 .. Len(s) + Len(t) /\ u[i] = s[i]
    BY <1>a, <1>2
  <2> QED
    BY <1>b, <2>1
<1>5. ASSUME NEW i \in 1 .. Len(t)
      PROVE  t[i] \in ToSet(u)
  <2>1. i + Len(s) \in 1 .. Len(s) + Len(t) /\ ~(i + Len(s) <= Len(s))
        /\ i + Len(s) - Len(s) = i
    BY <1>2
  <2>2. u[i + Len(s)] = t[i + Len(s) - Len(s)]
    BY <1>a, <2>1
  <2> QED
    BY <1>b, <2>1, <2>2
<1>6. ToSet(s) \subseteq ToSet(u) /\ ToSet(t) \subseteq ToSet(u)
  BY <1>4, <1>5, <1>b
<1>7. ToSet(u) = ToSet(s) \cup ToSet(t)
  BY <1>3, <1>6
<1> QED
  BY <1>7 DEF u

LEMMA AppendIs ==
  ASSUME NEW s \in Seq(Tasks), NEW t \in Tasks
  PROVE  /\ Append(s, t) \in Seq(Tasks) /\ Len(Append(s, t)) = Len(s) + 1
         /\ \A i \in 1 .. Len(s) : Append(s, t)[i] = s[i]
         /\ Append(s, t)[Len(s) + 1] = t
         /\ ToSet(Append(s, t)) = ToSet(s) \cup {t}
<1>1. /\ Append(s, t) \in Seq(Tasks) /\ Len(Append(s, t)) = Len(s) + 1
      /\ \A i \in 1 .. Len(s) : Append(s, t)[i] = s[i]
      /\ Append(s, t)[Len(s) + 1] = t /\ Len(s) \in Nat
  BY AppendProperties
<1> DEFINE u == Append(s, t)
<1> HIDE DEF u
<1>2. \A i \in 1 .. Len(s) + 1 : i \in 1 .. Len(s) \/ i = Len(s) + 1
  BY <1>1
<1>3. ToSet(u) = {u[i] : i \in 1 .. Len(s) + 1} /\ ToSet(s) = {s[i] : i \in 1 .. Len(s)}
  BY <1>1, SeqFacts DEF u
<1>4. /\ \A i \in 1 .. Len(s) : u[i] = s[i] /\ i \in 1 .. Len(s) + 1
      /\ u[Len(s) + 1] = t /\ Len(s) + 1 \in 1 .. Len(s) + 1
  BY <1>1 DEF u
<1>5. ToSet(u) = ToSet(s) \cup {t}
  BY <1>2, <1>3, <1>4
<1> QED
  BY <1>1, <1>5 DEF u

LEMMA TailIs ==
  ASSUME NEW s \in Seq(Tasks), s # << >>
  PROVE  /\ Head(s) \in Tasks /\ Tail(s) \in Seq(Tasks)
         /\ Head(s) = s[1] /\ 1 \in 1 .. Len(s) /\ Len(Tail(s)) = Len(s) - 1
         /\ \A i \in 1 .. Len(s) - 1 : Tail(s)[i] = s[i + 1] /\ i + 1 \in 1 .. Len(s)
         /\ ToSet(s) = ToSet(Tail(s)) \cup {Head(s)}
         /\ IsInjective(s) => IsInjective(Tail(s)) /\ Head(s) \notin ToSet(Tail(s))
<1>1. /\ Head(s) \in Tasks /\ Tail(s) \in Seq(Tasks)
      /\ Head(s) = s[1] /\ Len(Tail(s)) = Len(s) - 1 /\ Len(s) \in Nat \ {0}
      /\ \A i \in 1 .. Len(s) - 1 : Tail(s)[i] = s[i + 1]
  BY HeadTailProperties, EmptySeq
<1>2. /\ 1 \in 1 .. Len(s)
      /\ \A i \in 1 .. Len(s) - 1 : i + 1 \in 1 .. Len(s)
  BY <1>1
<1>3. << Head(s) >> \in Seq(Tasks) /\ ToSet(<< Head(s) >>) = {Head(s)}
  BY <1>1 DEF ToSet
<1>4. ToSet(s) = ToSet(Tail(s)) \cup {Head(s)}
  <2> DEFINE h == << Head(s) >>
             r == Tail(s)
  <2>1. h \in Seq(Tasks) /\ r \in Seq(Tasks) /\ h \o r = s /\ ToSet(h) = {Head(s)}
    BY <1>1, <1>3, HeadFirst
  <2> HIDE DEF h, r
  <2>2. ToSet(h \o r) = ToSet(h) \cup ToSet(r)
    BY <2>1, ToSetConcat
  <2> QED
    BY <2>1, <2>2 DEF r
<1>6. ToSet(Tail(s)) = {Tail(s)[i] : i \in 1 .. Len(s) - 1}
  <2> DEFINE r == Tail(s)
  <2>1. r \in Seq(Tasks) /\ Len(r) = Len(s) - 1
    BY <1>1
  <2> HIDE DEF r
  <2>2. ToSet(r) = {r[i] : i \in 1 .. Len(r)}
    BY <2>1, SeqFacts
  <2> QED
    BY <2>1, <2>2 DEF r
<1>5. ASSUME IsInjective(s)
      PROVE  IsInjective(Tail(s)) /\ Head(s) \notin ToSet(Tail(s))
  <2>1. \A i, j \in 1 .. Len(s) : s[i] = s[j] => i = j
    BY <1>5, SeqFacts
  <2>2. \A i, j \in 1 .. Len(s) - 1 : Tail(s)[i] = Tail(s)[j] => i = j
    BY <1>1, <1>2, <2>1
  <2>3. IsInjective(Tail(s))
    BY <1>1, <2>2, SeqFacts
  <2>4. \A i \in 1 .. Len(s) - 1 : Tail(s)[i] # s[1]
    BY <1>1, <1>2, <2>1
  <2> QED
    BY <1>1, <1>6, <2>3, <2>4
<1> QED
  BY <1>1, <1>2, <1>4, <1>5

LEMMA PipeMembers ==
  ASSUME NEW cw \in Tasks \cup {None}, NEW qw \in Seq(Tasks),
         NEW cp \in Tasks \cup {None}, NEW qp \in Seq(Tasks),
         NEW rt \in Tasks \cup {None}, None \notin Tasks
  PROVE  ToSet(PipeOf(cw, qw, cp, qp, rt)) =
           ToSet(qw) \cup ToSet(qp) \cup ({cw, cp, rt} \ {None})
<1> DEFINE a == One(cw) \o qw
           b == a \o One(cp)
           c == b \o qp
<1>1. \A t \in Tasks \cup {None} : One(t) \in Seq(Tasks) /\ ToSet(One(t)) = {t} \ {None}
  BY DEF One, ToSet
<1>2. a \in Seq(Tasks) /\ b \in Seq(Tasks) /\ c \in Seq(Tasks)
  BY PipeType
<1>3. ToSet(a) = ({cw} \ {None}) \cup ToSet(qw)
  BY <1>1, ToSetConcat
<1> HIDE DEF a
<1>4. ToSet(b) = ToSet(a) \cup ({cp} \ {None})
  BY <1>1, <1>2, ToSetConcat
<1> HIDE DEF b
<1>5. ToSet(c) = ToSet(b) \cup ToSet(qp)
  BY <1>2, ToSetConcat
<1> HIDE DEF c
<1>6. ToSet(c \o One(rt)) = ToSet(c) \cup ({rt} \ {None})
  BY <1>1, <1>2, ToSetConcat
<1> QED
  BY <1>3, <1>4, <1>5, <1>6 DEF PipeOf, a, b, c

-----------------------------------------------------------------------------
(* A line is read into an object that nobody holds.                        *)

LEMMA HeapHasRoom ==
  ASSUME TypeOK, LineInv, pos < Len(capture)
  PROVE  GtaskNew \in Tasks /\ GtaskNew \notin Allocated
<1>1. pos \in Nat /\ Len(capture) \in Nat /\ Len(capture) <= MaxLines /\ MaxLines \in Nat
  BY SizesAssumption DEF TypeOK
<1>2. \E t \in Tasks : t \notin Allocated
  <2> SUFFICES ASSUME \A t \in Tasks : t \in Allocated
               PROVE  FALSE
    OBVIOUS
  <2>1. \A t \in Tasks : line[t] \in 1 .. pos
    BY <1>1 DEF TypeOK, Allocated
  <2>2. line \in [Tasks -> 1 .. pos]
    BY <2>1 DEF TypeOK
  <2>3. line \in Injection(Tasks, 1 .. pos)
    BY <2>2 DEF Injection, IsInjective, LineInv
  <2>4. IsFiniteSet(1 .. pos) /\ Cardinality(1 .. pos) = pos
    BY <1>1, FS_Interval
  <2>5. Cardinality(Tasks) <= pos
    BY <2>3, <2>4, FS_Injection
  <2>6. Cardinality(Tasks) \in Nat
    BY TasksAssumption, FS_CardinalityType
  <2> QED
    BY <1>1, <2>5, <2>6, TasksAssumption
<1> QED
  BY <1>2 DEF GtaskNew

Reads(t) ==
  /\ t \in Tasks /\ t \notin ToSet(Pipe) /\ t \notin lost /\ t \notin ToSet(reuse')
  /\ reuse' \in Seq(Tasks) /\ IsInjective(reuse')
  /\ ToSet(reuse') \subseteq ToSet(reuse)
  /\ ToSet(reuse) \subseteq ToSet(reuse') \cup {t}
  /\ t \in ToSet(reuse) \/ t \notin Allocated
  /\ rtask' = t
  /\ line' = [line EXCEPT ![t] = pos + 1]
  /\ ret' = [ret EXCEPT ![t] = "SUCCESS"]
  /\ filtered' = IF t \in ToSet(reuse) /\ ret[t] = "ERROR"
                 THEN filtered + 1 ELSE filtered

LEMMA ReadIs ==
  ASSUME TypeOK, LineInv, PlaceInv, ReadLine
  PROVE  \E t \in Tasks : Reads(t)
<1>0. reuse \in Seq(Tasks) /\ pos < Len(capture)
  BY DEF TypeOK, ReadLine
<1>1. CASE reuse = << >>
  <2> DEFINE t == GtaskNew
  <2>1. t \in Tasks /\ t \notin Allocated
    BY <1>0, HeapHasRoom
  <2>2. t \notin ToSet(Pipe) /\ t \notin lost /\ t \notin ToSet(reuse)
    BY <2>1 DEF PlaceInv
  <2>3. GtaskInit(t) /\ filtered' = filtered /\ reuse' = reuse
    BY <1>1 DEF ReadLine
  <2> HIDE DEF t
  <2>4. Reads(t)
    BY <1>0, <2>1, <2>2, <2>3 DEF Reads, GtaskInit, PlaceInv
  <2> QED
    BY <2>1, <2>4
<1>2. CASE reuse # << >>
  <2> DEFINE t == Head(reuse)
  <2>1. GtaskInit(t) /\ CountRefused(t) /\ reuse' = Tail(reuse)
    BY <1>2 DEF ReadLine
  <2>2. /\ t \in Tasks /\ Tail(reuse) \in Seq(Tasks)
        /\ ToSet(reuse) = ToSet(Tail(reuse)) \cup {t}
        /\ IsInjective(Tail(reuse)) /\ t \notin ToSet(Tail(reuse))
    BY <1>0, <1>2, TailIs DEF PlaceInv
  <2> HIDE DEF t
  <2>3. t \notin ToSet(Pipe) /\ t \notin lost
    BY <2>2 DEF PlaceInv
  <2>4. ret[t] \in {"SUCCESS", "ERROR"}
    BY <2>2 DEF TypeOK
  <2>5. filtered' = IF t \in ToSet(reuse) /\ ret[t] = "ERROR"
                    THEN filtered + 1 ELSE filtered
    BY <2>1, <2>2, <2>4 DEF CountRefused
  <2>6. Reads(t)
    BY <2>1, <2>2, <2>3, <2>5 DEF Reads, GtaskInit
  <2> QED
    BY <2>2, <2>6
<1> QED
  BY <1>1, <1>2

-----------------------------------------------------------------------------
(* The range of the variables.                                             *)

LEMMA InitType ==
  ASSUME Init
  PROVE  TypeOK
<1>1. PICK n \in 0 .. MaxLines : capture \in [1 .. n -> Kinds]
  BY DEF Init
<1>2. n \in Nat /\ n <= MaxLines
  BY SizesAssumption
<1>3. capture \in Seq(Kinds) /\ Len(capture) <= MaxLines
  BY <1>1, <1>2
<1> QED
  BY <1>3 DEF Init, TypeOK, Stages

LEMMA ReaderType ==
  ASSUME TypeOK, LineInv, PlaceInv, Reader
  PROVE  TypeOK'
<1> USE DEF TypeOK
<1>0. Len(capture) \in Nat /\ "parser" \in Stages /\ "writer" \in Stages
  BY DEF Stages
<1>1. CASE SkipComment
  <2>1. line' \in [Tasks -> 0 .. pos']
    BY <1>0, <1>1 DEF SkipComment
  <2> QED
    BY <1>0, <1>1, <2>1 DEF SkipComment, svars
<1>2. CASE ReadLine
  <2>1. PICK t \in Tasks : Reads(t)
    BY <1>2, ReadIs
  <2>2. /\ UNCHANGED <<capture, rpc, num_lines, svars, terminate, queue, lost, file>>
        /\ pos' = pos + 1 /\ lineno' = lineno + 1 /\ pos < Len(capture)
    BY <1>2 DEF ReadLine
  <2>3. line' \in [Tasks -> 0 .. pos'] /\ ret' \in [Tasks -> {"SUCCESS", "ERROR"}]
    <3>1. /\ line \in [Tasks -> 0 .. pos] /\ ret \in [Tasks -> {"SUCCESS", "ERROR"}]
          /\ pos \in Nat
      BY <1>0
    <3>2. /\ line' = [line EXCEPT ![t] = pos + 1]
          /\ ret' = [ret EXCEPT ![t] = "SUCCESS"]
      BY <2>1 DEF Reads
    <3>3. pos' = pos + 1
      BY <2>2
    <3> HIDE DEF TypeOK
    <3>4. pos + 1 \in 0 .. pos + 1 /\ \A i \in 0 .. pos : i \in 0 .. pos + 1
      BY <3>1
    <3>5. line' \in [Tasks -> 0 .. pos + 1]
      BY <3>1, <3>2, <3>4
    <3> QED
      BY <3>1, <3>2, <3>3, <3>5
  <2>4. filtered' \in Nat /\ reuse' \in Seq(Tasks) /\ rtask' \in Tasks \cup {None}
    BY <2>1 DEF Reads
  <2> QED
    BY SMTT(30), <1>0, <2>2, <2>3, <2>4 DEF svars
<1>3. CASE PassToParser
  <2>1. Append(queue["parser"], rtask) \in Seq(Tasks)
    BY <1>0, <1>3 DEF PassToParser
  <2>2. queue' \in [Stages -> Seq(Tasks)]
    BY <1>3, <2>1 DEF PassToParser
  <2> QED
    BY <1>3, <2>2 DEF PassToParser, svars
<1>4. CASE EndOfFile
  BY <1>4 DEF EndOfFile, svars
<1>5. CASE ParserJoined
  BY <1>5 DEF ParserJoined, svars
<1>6. CASE WriterJoined
  BY <1>6 DEF WriterJoined, svars
<1>7. CASE CollectTask
  <2>1. Head(reuse) \in Tasks /\ Tail(reuse) \in Seq(Tasks)
    BY <1>7, TailIs DEF CollectTask
  <2>2. line' \in [Tasks -> 0 .. pos] /\ filtered' \in Nat
    BY <1>7, <2>1 DEF CollectTask, CountRefused
  <2> QED
    BY <1>7, <2>1, <2>2 DEF CollectTask, svars
<1>8. CASE WriteHeader
  <2>1. file' \in Seq(Nat) /\ num_lines' \in Int
    BY <1>8 DEF WriteHeader, InitSection
  <2> QED
    BY <1>8, <2>1 DEF WriteHeader, svars
<1> QED
  BY <1>1, <1>2, <1>3, <1>4, <1>5, <1>6, <1>7, <1>8 DEF Reader

LEMMA StagesType ==
  ASSUME TypeOK, Parser \/ Writer
  PROVE  TypeOK'
<1> USE DEF TypeOK
<1>0. "parser" \in Stages /\ "writer" \in Stages
  BY DEF Stages
<1>1. ASSUME NEW s \in Stages, TakeTask(s)
      PROVE  TypeOK'
  <2>1. Head(queue[s]) \in Tasks /\ Tail(queue[s]) \in Seq(Tasks)
    BY <1>1, TailIs DEF TakeTask
  <2> QED
    BY <1>1, <2>1 DEF TakeTask, rvars
<1>2. ASSUME NEW s \in Stages, QueueEmpty(s) \/ TestTerminate(s)
      PROVE  TypeOK'
  BY <1>2 DEF QueueEmpty, TestTerminate, rvars
<1>3. CASE ParserPasses
  <2>1. cur["parser"] \in Tasks
    BY <1>0, <1>3 DEF ParserPasses
  <2>2. Append(queue["writer"], cur["parser"]) \in Seq(Tasks)
    BY <1>0, <2>1
  <2>3. queue' \in [Stages -> Seq(Tasks)]
    BY <1>3, <2>2 DEF ParserPasses
  <2>4. ret' \in [Tasks -> {"SUCCESS", "ERROR"}]
    BY <1>3, <2>1 DEF ParserPasses
  <2> QED
    BY <1>3, <2>3, <2>4 DEF ParserPasses, rvars
<1>4. CASE WriterRuns
  <2> DEFINE t == cur["writer"]
  <2>1. t \in Tasks
    BY <1>0, <1>4 DEF WriterRuns
  <2>2. ret' \in [Tasks -> {"SUCCESS", "ERROR"}]
    BY <1>4, <2>1 DEF WriterRuns, GioopRun
  <2>3. Append(reuse, t) \in Seq(Tasks)
    BY <2>1
  <2>4. line[t] \in Nat
    BY <2>1
  <2>5. Append(file, line[t]) \in Seq(Nat)
    BY <2>4
  <2>6. file' \in Seq(Nat)
    BY <1>4, <2>5 DEF WriterRuns, GioopRun
  <2>7. reuse' \in Seq(Tasks) /\ lost' \subseteq Tasks
    BY <1>4, <2>1, <2>3 DEF WriterRuns, GiveBack
  <2>8. cur' \in [Stages -> Tasks \cup {None}]
    BY <1>4 DEF WriterRuns
  <2> QED
    BY <1>4, <2>2, <2>6, <2>7, <2>8 DEF WriterRuns, rvars
<1> QED
  BY <1>0, <1>1, <1>2, <1>3, <1>4 DEF Parser, Writer, Stage

-----------------------------------------------------------------------------
(* What a step does to the pipe.                                           *)

LEMMA PipeIsSeq ==
  ASSUME TypeOK
  PROVE  /\ Pipe \in Seq(Tasks)
         /\ ToSet(Pipe) = ToSet(queue["writer"]) \cup ToSet(queue["parser"])
              \cup ({cur["writer"], cur["parser"], rtask} \ {None})
<1>1. /\ cur["writer"] \in Tasks \cup {None} /\ cur["parser"] \in Tasks \cup {None}
      /\ queue["writer"] \in Seq(Tasks) /\ queue["parser"] \in Seq(Tasks)
      /\ rtask \in Tasks \cup {None}
  BY DEF TypeOK, Stages
<1>2. PipeOf(cur["writer"], queue["writer"], cur["parser"], queue["parser"], rtask)
        \in Seq(Tasks)
  BY <1>1, PipeType
<1>3. ToSet(PipeOf(cur["writer"], queue["writer"], cur["parser"], queue["parser"], rtask))
        = ToSet(queue["writer"]) \cup ToSet(queue["parser"])
            \cup ({cur["writer"], cur["parser"], rtask} \ {None})
  BY SMTT(30), <1>1, PipeMembers, TasksAssumption
<1> QED
  BY <1>2, <1>3, PipeIs

(* The steps that only pass a task on, or leave all as it is.              *)
Quiet ==
  /\ Pipe' = Pipe
  /\ UNCHANGED <<capture, pos, lineno, filtered, num_lines, reuse, line, lost, file>>
  /\ rpc' = "done" <=> rpc = "done"

PassesOn ==
  \/ PassToParser \/ EndOfFile \/ ParserJoined \/ WriterJoined
  \/ \E s \in Stages : Stage(s)
  \/ ParserPasses

LEMMA IsQuiet ==
  ASSUME TypeOK, PassesOn
  PROVE  Quiet
<1>0. /\ cur["writer"] \in Tasks \cup {None} /\ cur["parser"] \in Tasks \cup {None}
      /\ queue["writer"] \in Seq(Tasks) /\ queue["parser"] \in Seq(Tasks)
      /\ rtask \in Tasks \cup {None}
      /\ DOMAIN queue = Stages /\ DOMAIN cur = Stages
      /\ "parser" \in Stages /\ "writer" \in Stages /\ None \notin Tasks
  BY TasksAssumption DEF TypeOK, Stages
<1>1. CASE PassToParser
  <2>1. /\ rtask \in Tasks /\ rtask' = None /\ cur' = cur
        /\ queue'["parser"] = Append(queue["parser"], rtask)
        /\ queue'["writer"] = queue["writer"]
    BY <1>0, <1>1 DEF PassToParser, svars
  <2>2. Pipe' = Pipe
    BY <1>0, <2>1, PipeIs, PassOn
  <2> QED
    BY <1>1, <2>2 DEF PassToParser, Quiet
<1>2. CASE EndOfFile \/ ParserJoined \/ WriterJoined
  <2>1. Pipe' = Pipe
    BY <1>2 DEF EndOfFile, ParserJoined, WriterJoined, svars, Pipe
  <2> QED
    BY <1>2, <2>1 DEF EndOfFile, ParserJoined, WriterJoined, Quiet
<1>3. ASSUME NEW s \in Stages, TakeTask(s)
      PROVE  Quiet
  <2>1. CASE s = "writer"
    <3>1. /\ cur["writer"] = None /\ queue["writer"] # << >> /\ rtask' = rtask
          /\ cur'["writer"] = Head(queue["writer"])
          /\ queue'["writer"] = Tail(queue["writer"])
          /\ cur'["parser"] = cur["parser"] /\ queue'["parser"] = queue["parser"]
      BY <1>0, <1>3, <2>1 DEF TakeTask, rvars
    <3>2. Pipe' = Pipe
      BY <1>0, <3>1, PipeIs, TakeForWriter
    <3> QED
      BY <1>3, <3>2 DEF TakeTask, Quiet, rvars
  <2>2. CASE s = "parser"
    <3>1. /\ cur["parser"] = None /\ queue["parser"] # << >> /\ rtask' = rtask
          /\ cur'["parser"] = Head(queue["parser"])
          /\ queue'["parser"] = Tail(queue["parser"])
          /\ cur'["writer"] = cur["writer"] /\ queue'["writer"] = queue["writer"]
      BY <1>0, <1>3, <2>2 DEF TakeTask, rvars
    <3>2. Pipe' = Pipe
      BY <1>0, <3>1, PipeIs, TakeForParser
    <3> QED
      BY <1>3, <3>2 DEF TakeTask, Quiet, rvars
  <2> QED
    BY <2>1, <2>2 DEF Stages
<1>4. ASSUME NEW s \in Stages, QueueEmpty(s) \/ TestTerminate(s)
      PROVE  Quiet
  <2>1. Pipe' = Pipe
    BY <1>4 DEF QueueEmpty, TestTerminate, rvars, Pipe
  <2> QED
    BY <1>4, <2>1 DEF QueueEmpty, TestTerminate, Quiet, rvars
<1>5. CASE ParserPasses
  <2>1. /\ cur["parser"] \in Tasks /\ cur'["parser"] = None /\ rtask' = rtask
        /\ queue'["writer"] = Append(queue["writer"], cur["parser"])
        /\ queue'["parser"] = queue["parser"] /\ cur'["writer"] = cur["writer"]
    BY <1>0, <1>5 DEF ParserPasses, rvars
  <2>2. Pipe' = Pipe
    BY <1>0, <2>1, PipeIs, PassToWriter
  <2> QED
    BY <1>5, <2>2 DEF ParserPasses, Quiet, rvars
<1> QED
  BY <1>1, <1>2, <1>3, <1>4, <1>5 DEF PassesOn, Stage

LEMMA ReadPipe ==
  ASSUME TypeOK, ReadLine, NEW t \in Tasks, Reads(t)
  PROVE  Pipe' = Append(Pipe, t)
<1>0. /\ cur["writer"] \in Tasks \cup {None} /\ cur["parser"] \in Tasks \cup {None}
      /\ queue["writer"] \in Seq(Tasks) /\ queue["parser"] \in Seq(Tasks)
      /\ None \notin Tasks
  BY TasksAssumption DEF TypeOK, Stages
<1>1. rtask = None /\ rtask' = t /\ cur' = cur /\ queue' = queue
  BY DEF ReadLine, Reads, svars
<1> QED
  BY <1>0, <1>1, PipeIs, ReadIsLast

LEMMA WritePipe ==
  ASSUME TypeOK, WriterRuns
  PROVE  /\ cur["writer"] \in Tasks
         /\ Pipe # << >> /\ Head(Pipe) = cur["writer"] /\ Pipe' = Tail(Pipe)
<1>0. /\ cur["parser"] \in Tasks \cup {None} /\ DOMAIN cur = Stages
      /\ queue["writer"] \in Seq(Tasks) /\ queue["parser"] \in Seq(Tasks)
      /\ rtask \in Tasks \cup {None} /\ cur["writer"] \in Tasks
      /\ "parser" \in Stages /\ "writer" \in Stages /\ None \notin Tasks
  BY TasksAssumption DEF TypeOK, Stages, WriterRuns
<1>1. /\ cur'["writer"] = None /\ cur'["parser"] = cur["parser"]
      /\ queue' = queue /\ rtask' = rtask
  BY <1>0 DEF WriterRuns, rvars
<1> DEFINE t == cur["writer"]
           qw == queue["writer"]
           cp == cur["parser"]
           qp == queue["parser"]
<1>2. Pipe' = PipeOf(None, qw, cp, qp, rtask) /\ Pipe = PipeOf(t, qw, cp, qp, rtask)
  BY <1>1, PipeIs
<1>3. /\ t \in Tasks /\ qw \in Seq(Tasks) /\ cp \in Tasks \cup {None}
      /\ qp \in Seq(Tasks) /\ rtask \in Tasks \cup {None} /\ None \notin Tasks
  BY <1>0
<1> HIDE DEF t, qw, cp, qp
<1>4. IsFirst(t, PipeOf(t, qw, cp, qp, rtask), PipeOf(None, qw, cp, qp, rtask))
  BY <1>3, WriterIsFirst
<1> QED
  BY <1>2, <1>3, <1>4 DEF t, IsFirst

(* When both threads have ended nothing is left in the pipe.               *)
LEMMA PipeEmpty ==
  ASSUME TypeOK, EndInv, rpc \in {"collect", "done"}
  PROVE  /\ Pipe = << >> /\ rtask = None /\ pos = Len(capture)
         /\ \A s \in Stages : pc[s] = "exit" /\ cur[s] = None /\ queue[s] = << >>
<1>1. /\ rtask = None /\ pos = Len(capture)
      /\ \A s \in Stages : pc[s] = "exit" /\ cur[s] = None /\ queue[s] = << >>
  BY DEF EndInv, Stages
<1>2. << >> \o << >> = << >>
  OBVIOUS
<1>3. Pipe = << >>
  BY <1>1, <1>2 DEF Pipe, One, Stages
<1> QED
  BY <1>1, <1>3

LEMMA AppendKeepsApart ==
  ASSUME NEW s \in Seq(Tasks), NEW t \in Tasks, IsInjective(s), t \notin ToSet(s)
  PROVE  IsInjective(Append(s, t))
<1>1. /\ Append(s, t) \in Seq(Tasks) /\ Len(Append(s, t)) = Len(s) + 1
      /\ \A i \in 1 .. Len(s) : Append(s, t)[i] = s[i]
      /\ Append(s, t)[Len(s) + 1] = t /\ Len(s) \in Nat
  BY AppendProperties
<1> DEFINE u == Append(s, t)
<1> HIDE DEF u
<1>2. \A i, j \in 1 .. Len(s) : s[i] = s[j] => i = j
  BY SeqFacts
<1>3. \A i \in 1 .. Len(s) : s[i] # t
  BY SeqFacts
<1>4. \A i \in 1 .. Len(u) : i \in 1 .. Len(s) \/ i = Len(s) + 1
  BY <1>1 DEF u
<1>5. \A i, j \in 1 .. Len(u) : u[i] = u[j] => i = j
  BY <1>1, <1>2, <1>3, <1>4 DEF u
<1>6. IsInjective(u)
  BY <1>1, <1>5, SeqFacts DEF u
<1> QED
  BY <1>6 DEF u

-----------------------------------------------------------------------------
(* Every task is in one place.                                             *)

LEMMA PipeStays ==
  ASSUME SkipComment \/ CollectTask \/ WriteHeader
  PROVE  Pipe' = Pipe
BY DEF SkipComment, CollectTask, WriteHeader, svars, Pipe

LEMMA NextCases ==
  ASSUME Next
  PROVE  SkipComment \/ ReadLine \/ CollectTask \/ WriteHeader \/ PassesOn \/ WriterRuns
BY DEF Next, Reader, Parser, Writer, PassesOn, Stages

LEMMA PlaceReads ==
  ASSUME TypeOK, LineInv, PlaceInv, ReadLine
  PROVE  PlaceInv'
<1>1. PICK t \in Tasks : Reads(t)
  BY ReadIs
<1>2. Pipe' = Append(Pipe, t) /\ Pipe \in Seq(Tasks)
  BY <1>1, ReadPipe, PipeIsSeq
<1>3. ToSet(Pipe') = ToSet(Pipe) \cup {t} /\ IsInjective(Pipe')
  <2>1. IsInjective(Pipe) /\ t \notin ToSet(Pipe)
    BY <1>1 DEF Reads, PlaceInv
  <2>2. ToSet(Append(Pipe, t)) = ToSet(Pipe) \cup {t}
    BY <1>2, AppendIs
  <2>3. IsInjective(Append(Pipe, t))
    BY <1>2, <2>1, AppendKeepsApart
  <2> QED
    BY <1>2, <2>2, <2>3
<1>4. lost' = lost /\ pos \in Nat
  BY DEF ReadLine, TypeOK
<1>5. Allocated' = Allocated \cup {t}
  BY <1>1, <1>4 DEF Reads, Allocated, TypeOK
<1> QED
  BY <1>1, <1>3, <1>4, <1>5 DEF Reads, PlaceInv

LEMMA PlaceCollects ==
  ASSUME TypeOK, PlaceInv, CollectTask
  PROVE  PlaceInv'
<1> DEFINE h == Head(reuse)
<1>1. /\ h \in Tasks /\ IsInjective(Tail(reuse)) /\ h \notin ToSet(Tail(reuse))
      /\ ToSet(reuse) = ToSet(Tail(reuse)) \cup {h}
  BY TailIs DEF CollectTask, TypeOK, PlaceInv
<1>2. reuse' = Tail(reuse) /\ lost' = lost /\ Pipe' = Pipe
      /\ line' = [line EXCEPT ![h] = 0]
  BY PipeStays DEF CollectTask
<1> HIDE DEF h
<1>3. Allocated' = Allocated \ {h}
  BY <1>1, <1>2 DEF Allocated, TypeOK
<1> QED
  BY <1>1, <1>2, <1>3 DEF PlaceInv

LEMMA PlaceWrites ==
  ASSUME TypeOK, PlaceInv, WriterRuns
  PROVE  PlaceInv'
<1> DEFINE h == cur["writer"]
<1>1. h \in Tasks /\ Pipe # << >> /\ Head(Pipe) = h /\ Pipe' = Tail(Pipe)
      /\ Pipe \in Seq(Tasks)
  BY WritePipe, PipeIsSeq
<1>2. /\ ToSet(Pipe) = ToSet(Pipe') \cup {h}
      /\ IsInjective(Pipe') /\ h \notin ToSet(Pipe')
  BY <1>1, TailIs DEF PlaceInv
<1>3. /\ reuse' = IF Len(reuse) < ReuseCap THEN Append(reuse, h) ELSE reuse
      /\ lost' = IF Len(reuse) < ReuseCap THEN lost ELSE lost \cup {h}
      /\ line' = line
  BY DEF WriterRuns, GiveBack
<1> HIDE DEF h
<1>4. Allocated' = Allocated
  BY <1>3 DEF Allocated
<1>5. h \notin ToSet(reuse) /\ h \notin lost
  BY <1>2 DEF PlaceInv
<1>6. CASE Len(reuse) < ReuseCap
  <2>1. ToSet(reuse') = ToSet(reuse) \cup {h} /\ IsInjective(reuse')
    <3>1. IsInjective(reuse) /\ reuse \in Seq(Tasks) /\ reuse' = Append(reuse, h)
      BY <1>3, <1>6 DEF TypeOK, PlaceInv
    <3>2. ToSet(Append(reuse, h)) = ToSet(reuse) \cup {h}
      BY <1>1, <3>1, AppendIs
    <3>3. IsInjective(Append(reuse, h))
      BY <1>1, <1>5, <3>1, AppendKeepsApart
    <3> QED
      BY <3>1, <3>2, <3>3
  <2> QED
    BY <1>2, <1>3, <1>4, <1>5, <1>6, <2>1 DEF PlaceInv
<1>7. CASE ~(Len(reuse) < ReuseCap)
  BY <1>2, <1>3, <1>4, <1>5, <1>7 DEF PlaceInv
<1> QED
  BY <1>6, <1>7

LEMMA PlaceStep ==
  ASSUME TypeOK, LineInv, PlaceInv, Next
  PROVE  PlaceInv'
<1>1. CASE SkipComment \/ WriteHeader
  <2>1. Pipe' = Pipe /\ reuse' = reuse /\ lost' = lost /\ line' = line
    BY <1>1, PipeStays DEF SkipComment, WriteHeader
  <2> QED
    BY <2>1 DEF PlaceInv, Allocated
<1>2. CASE PassesOn
  <2>1. Quiet
    BY <1>2, IsQuiet
  <2> QED
    BY <2>1 DEF Quiet, PlaceInv, Allocated
<1> QED
  BY <1>1, <1>2, NextCases, PlaceReads, PlaceCollects, PlaceWrites

-----------------------------------------------------------------------------
(* The lines of the tasks.                                                 *)

LEMMA LineReads ==
  ASSUME TypeOK, LineInv, PlaceInv, ReadLine
  PROVE  LineInv'
<1>1. PICK t \in Tasks : Reads(t)
  BY ReadIs
<1>2. /\ pos \in Nat /\ capture' = capture /\ capture[pos + 1] # "comment"
      /\ line' = [line EXCEPT ![t] = pos + 1]
      /\ \A u \in Tasks : line[u] \in Nat /\ line[u] <= pos
  BY <1>1 DEF ReadLine, TypeOK, Reads
<1>3. \A u \in Tasks : line'[u] = IF u = t THEN pos + 1 ELSE line[u]
  BY <1>2 DEF TypeOK
<1>4. \A u \in Allocated' : u \in Tasks /\ (u = t \/ u \in Allocated)
  BY <1>3 DEF Allocated
<1>5. ASSUME NEW u \in Allocated', NEW v \in Allocated', line'[u] = line'[v]
      PROVE  u = v
  <2>1. u \in Tasks /\ v \in Tasks /\ line[u] # pos + 1 /\ line[v] # pos + 1
    BY <1>2, <1>4
  <2>2. CASE u = t
    BY <1>3, <1>5, <2>1, <2>2
  <2>3. CASE v = t
    BY <1>3, <1>5, <2>1, <2>3
  <2>4. CASE u # t /\ v # t
    BY <1>3, <1>4, <1>5, <2>1, <2>4 DEF LineInv
  <2> QED
    BY <2>2, <2>3, <2>4
<1>6. \A u \in Allocated' : Kind(u)' # "comment"
  BY <1>2, <1>3, <1>4 DEF LineInv, Kind
<1> QED
  BY <1>5, <1>6 DEF LineInv

LEMMA LineStep ==
  ASSUME TypeOK, LineInv, PlaceInv, Next
  PROVE  LineInv'
<1>1. CASE SkipComment \/ WriteHeader \/ WriterRuns
  <2>1. capture' = capture /\ line' = line
    BY <1>1 DEF SkipComment, WriteHeader, WriterRuns
  <2> QED
    BY <2>1 DEF LineInv, Allocated, Kind
<1>2. CASE PassesOn
  <2>1. Quiet
    BY <1>2, IsQuiet
  <2> QED
    BY <2>1 DEF Quiet, LineInv, Allocated, Kind
<1>3. CASE CollectTask
  <2>1. line' = [line EXCEPT ![Head(reuse)] = 0] /\ capture' = capture
    BY <1>3 DEF CollectTask
  <2>2. \A u \in Allocated' : u \in Allocated /\ line'[u] = line[u]
    BY <2>1 DEF Allocated, TypeOK
  <2> QED
    BY <2>1, <2>2 DEF LineInv, Kind
<1> QED
  BY <1>1, <1>2, <1>3, NextCases, LineReads

-----------------------------------------------------------------------------
(* The lines are written in their order.                                   *)

LEMMA OrderReads ==
  ASSUME TypeOK, LineInv, PlaceInv, OrderInv, ReadLine
  PROVE  OrderInv'
<1> DEFINE n == Len(Pipe)
<1>1. PICK t \in Tasks : Reads(t)
  BY ReadIs
<1>2. Pipe \in Seq(Tasks) /\ Pipe' = Append(Pipe, t) /\ n \in Nat /\ DOMAIN Pipe = 1 .. n
  BY <1>1, ReadPipe, PipeIsSeq
<1>3. /\ DOMAIN Pipe' = 1 .. n + 1 /\ Pipe'[n + 1] = t
      /\ \A i \in 1 .. n : Pipe'[i] = Pipe[i]
  <2>1. /\ Append(Pipe, t) \in Seq(Tasks) /\ Len(Append(Pipe, t)) = n + 1
        /\ \A i \in 1 .. n : Append(Pipe, t)[i] = Pipe[i]
        /\ Append(Pipe, t)[n + 1] = t
    BY <1>2, AppendIs
  <2>2. DOMAIN Append(Pipe, t) = 1 .. n + 1
    BY <1>2, <2>1
  <2> QED
    BY <1>2, <2>1, <2>2
<1>4. /\ pos \in Nat /\ pos' = pos + 1 /\ capture' = capture /\ file' = file
      /\ rpc # "done" /\ rpc' # "done" /\ line' = [line EXCEPT ![t] = pos + 1]
      /\ line \in [Tasks -> 0 .. pos]
  BY <1>1 DEF ReadLine, TypeOK, Reads
<1>5. \A i \in 1 .. n : Pipe[i] \in Tasks /\ Pipe[i] # t
  <2>1. /\ \A i \in 1 .. n : Pipe[i] \in Tasks
        /\ ToSet(Pipe) = {Pipe[i] : i \in 1 .. n}
    BY <1>2, SeqFacts
  <2> QED
    BY <1>1, <2>1 DEF Reads
<1>6. /\ \A i \in 1 .. n : line'[Pipe'[i]] = line[Pipe[i]] /\ line[Pipe[i]] \in 0 .. pos
      /\ line'[Pipe'[n + 1]] = pos + 1
  BY <1>3, <1>4, <1>5
<1> HIDE DEF n
<1>7. \A i \in DOMAIN Pipe' : i \in 1 .. n \/ i = n + 1
  BY <1>2, <1>3
<1>8. ASSUME NEW i \in DOMAIN Pipe', NEW j \in DOMAIN Pipe', i < j
      PROVE  line'[Pipe'[i]] < line'[Pipe'[j]]
  <2>1. i \in 1 .. n
    BY <1>2, <1>3, <1>8
  <2>2. CASE j \in 1 .. n
    <3>1. line[Pipe[i]] < line[Pipe[j]]
      BY <1>2, <1>8, <2>1, <2>2 DEF OrderInv
    <3> QED
      BY <1>6, <2>1, <2>2, <3>1
  <2>3. CASE j = n + 1
    BY <1>4, <1>6, <2>1, <2>3
  <2> QED
    BY <1>7, <2>2, <2>3
<1>9. file \in Seq(Nat) /\ DOMAIN file' = DOMAIN file
      /\ \A i \in DOMAIN file : file[i] \in Nat /\ file[i] <= pos
  BY <1>4 DEF TypeOK, OrderInv
<1>10. ASSUME NEW i \in DOMAIN file, NEW j \in DOMAIN Pipe'
       PROVE  file[i] < line'[Pipe'[j]]
  <2>1. CASE j \in 1 .. n
    BY <1>2, <1>4, <1>6, <2>1 DEF OrderInv
  <2>2. CASE j = n + 1
    BY <1>4, <1>6, <1>9, <2>2
  <2> QED
    BY <1>7, <2>1, <2>2
<1>11. ASSUME NEW l \in Good, l <= pos + 1
       PROVE  (\E i \in DOMAIN file : file[i] = l)
                \/ \E j \in DOMAIN Pipe' : line'[Pipe'[j]] = l
  <2>1. l \in Nat
    BY DEF Good, TypeOK
  <2>2. CASE l = pos + 1
    BY <1>2, <1>3, <1>6, <2>2
  <2>3. CASE l <= pos
    <3>1. CASE \E i \in DOMAIN file : file[i] = l
      BY <3>1
    <3>2. CASE \E j \in DOMAIN Pipe : line[Pipe[j]] = l
      <4>1. PICK j \in 1 .. n : line[Pipe[j]] = l
        BY <1>2, <3>2
      <4>2. j \in DOMAIN Pipe' /\ line'[Pipe'[j]] = l
        BY <1>2, <1>3, <1>6, <4>1
      <4> QED
        BY <4>2
    <3> QED
      BY <1>4, <2>3, <3>1, <3>2 DEF OrderInv
  <2> QED
    BY <1>4, <1>11, <2>1, <2>2, <2>3
<1>12. Good' = Good /\ \A i \in DOMAIN file : file[i] \in Good
  BY <1>4 DEF Good, OrderInv
<1>13. /\ \A i, j \in DOMAIN file : i < j => file[i] < file[j]
       /\ \A i \in DOMAIN file : file[i] <= pos + 1
  BY <1>4, <1>9 DEF OrderInv
<1> QED
  BY <1>4, <1>8, <1>9, <1>10, <1>11, <1>12, <1>13 DEF OrderInv

(* The parser and the writer refuse no line that is good.                  *)
LEMMA OrderWrites ==
  ASSUME TypeOK, PlaceInv, OrderInv, RetInv, EndInv, WriterRuns
  PROVE  OrderInv'
<1> DEFINE n == Len(Pipe)
           t == cur["writer"]
           good == ret[t] = "SUCCESS" /\ Kind(t) = "good"
           m == Len(file)
<1>1. t \in Tasks /\ Pipe # << >> /\ Head(Pipe) = t /\ Pipe' = Tail(Pipe)
      /\ Pipe \in Seq(Tasks)
  BY WritePipe, PipeIsSeq
<1>2. /\ Pipe[1] = t /\ n \in Nat \ {0} /\ DOMAIN Pipe = 1 .. n
      /\ ToSet(Pipe) = {Pipe[i] : i \in 1 .. n}
      /\ \A i \in 1 .. n : Pipe[i] \in Tasks
  <2>1. Pipe[1] = t /\ 1 \in 1 .. n
    BY <1>1, TailIs
  <2>2. n \in Nat /\ DOMAIN Pipe = 1 .. n /\ ToSet(Pipe) = {Pipe[i] : i \in 1 .. n}
        /\ \A i \in 1 .. n : Pipe[i] \in Tasks
    BY <1>1, SeqFacts
  <2> QED
    BY <2>1, <2>2
<1>3. /\ DOMAIN Pipe' = 1 .. n - 1
      /\ \A i \in 1 .. n - 1 : Pipe'[i] = Pipe[i + 1] /\ i + 1 \in 1 .. n
  <2>1. /\ Tail(Pipe) \in Seq(Tasks) /\ Len(Tail(Pipe)) = n - 1
        /\ \A i \in 1 .. n - 1 : Tail(Pipe)[i] = Pipe[i + 1] /\ i + 1 \in 1 .. n
    BY <1>1, TailIs
  <2>2. DOMAIN Tail(Pipe) = 1 .. n - 1
    BY <2>1
  <2> QED
    BY <1>1, <2>1, <2>2
<1>4. /\ pos \in Nat /\ pos' = pos /\ capture' = capture /\ line' = line
      /\ rpc' = rpc /\ line \in [Tasks -> 0 .. pos] /\ file \in Seq(Nat)
      /\ capture \in Seq(Kinds) /\ pos <= Len(capture)
      /\ ret[t] \in {"SUCCESS", "ERROR"}
      /\ file' = IF good THEN Append(file, line[t]) ELSE file
  BY <1>1 DEF WriterRuns, GioopRun, TypeOK, rvars
<1>5. rpc # "done"
  BY <1>1, PipeEmpty, TasksAssumption
<1>6. Good' = Good
  BY <1>4 DEF Good
<1>7. line[t] \in 1 .. pos
  <2>1. t \in Allocated
    BY <1>2 DEF PlaceInv
  <2> QED
    BY <1>1, <1>4, <2>1 DEF Allocated
<1>8. Kind(t) = "good" => ret[t] = "SUCCESS"
  BY SMTT(30), <1>2, <1>4 DEF RetInv
<1>9. line[t] \in Good <=> good
  BY <1>4, <1>7, <1>8 DEF Good, Kind
<1>10. m \in Nat /\ DOMAIN file = 1 .. m
  BY <1>4
<1> HIDE DEF n, t, good
<1>11. ASSUME NEW i \in DOMAIN Pipe', NEW j \in DOMAIN Pipe', i < j
       PROVE  line'[Pipe'[i]] < line'[Pipe'[j]]
  <2>1. /\ i + 1 \in 1 .. n /\ j + 1 \in 1 .. n /\ i + 1 < j + 1
        /\ Pipe'[i] = Pipe[i + 1] /\ Pipe'[j] = Pipe[j + 1]
    BY <1>3, <1>11
  <2>2. line[Pipe[i + 1]] < line[Pipe[j + 1]]
    BY <1>2, <2>1 DEF OrderInv
  <2> QED
    BY <1>4, <2>1, <2>2
<1>12. ASSUME NEW l \in Good, l <= pos
       PROVE  \/ \E i \in DOMAIN file : file[i] = l
              \/ good /\ l = line[t]
              \/ \E j \in DOMAIN Pipe' : line'[Pipe'[j]] = l
  <2>1. CASE \E i \in DOMAIN file : file[i] = l
    BY <2>1
  <2>2. CASE \E j \in DOMAIN Pipe : line[Pipe[j]] = l
    <3>1. PICK j \in 1 .. n : line[Pipe[j]] = l
      BY <1>2, <2>2
    <3>2. CASE j = 1
      BY <1>2, <1>9, <3>1, <3>2
    <3>3. CASE j # 1
      <4>1. j - 1 \in 1 .. n - 1 /\ j - 1 + 1 = j
        BY <1>2, <3>3
      <4>2. line'[Pipe'[j - 1]] = l
        BY <1>3, <1>4, <3>1, <4>1
      <4> QED
        BY <1>3, <4>1, <4>2
    <3> QED
      BY <3>2, <3>3
  <2> QED
    BY <1>5, <1>12, <2>1, <2>2 DEF OrderInv
<1>13. \A i \in DOMAIN file, j \in DOMAIN Pipe' : file[i] < line'[Pipe'[j]]
  <2> SUFFICES ASSUME NEW i \in DOMAIN file, NEW j \in DOMAIN Pipe'
               PROVE  file[i] < line'[Pipe'[j]]
    OBVIOUS
  <2>1. j + 1 \in 1 .. n /\ Pipe'[j] = Pipe[j + 1]
    BY <1>3
  <2>2. file[i] < line[Pipe[j + 1]]
    BY <1>2, <1>5, <2>1 DEF OrderInv
  <2> QED
    BY <1>4, <2>1, <2>2
<1>14. CASE ~good
  <2>1. file' = file
    BY <1>4, <1>14
  <2> QED
    BY <1>4, <1>5, <1>6, <1>11, <1>12, <1>13, <1>14, <2>1 DEF OrderInv
<1>15. CASE good
  <2>1. /\ DOMAIN file' = 1 .. m + 1 /\ file'[m + 1] = line[t]
        /\ \A i \in 1 .. m : file'[i] = file[i] /\ file[i] \in Nat
    <3>1. line[t] \in Nat
      BY <1>7
    <3>2. /\ Append(file, line[t]) \in Seq(Nat) /\ Len(Append(file, line[t])) = m + 1
          /\ \A i \in 1 .. m : Append(file, line[t])[i] = file[i]
          /\ Append(file, line[t])[m + 1] = line[t]
      BY <1>4, <3>1, AppendProperties
    <3>3. DOMAIN Append(file, line[t]) = 1 .. m + 1
      BY <1>10, <3>2
    <3>4. \A i \in 1 .. m : file[i] \in Nat
      BY SMTT(30), <1>4
    <3> QED
      BY <1>4, <1>15, <3>2, <3>3, <3>4
  <2> HIDE DEF m
  <2>2. \A i \in DOMAIN file' : i \in 1 .. m \/ i = m + 1
    BY <1>10, <2>1
  <2>3. \A i \in 1 .. m : file[i] < line[t]
    BY <1>2, <1>5, <1>10 DEF OrderInv
  <2>4. ASSUME NEW i \in DOMAIN file', NEW j \in DOMAIN file', i < j
        PROVE  file'[i] < file'[j]
    <3>1. i \in 1 .. m
      BY <1>10, <2>1, <2>4
    <3>2. CASE j \in 1 .. m
      BY <1>5, <1>10, <2>1, <2>4, <3>1, <3>2 DEF OrderInv
    <3>3. CASE j = m + 1
      BY <2>1, <2>3, <3>1, <3>3
    <3> QED
      BY <2>2, <3>2, <3>3
  <2>5. \A i \in DOMAIN file' : file'[i] \in Good /\ file'[i] <= pos
    BY <1>4, <1>5, <1>7, <1>9, <1>10, <1>15, <2>1, <2>2 DEF OrderInv
  <2>6. ASSUME NEW i \in DOMAIN file', NEW j \in DOMAIN Pipe'
        PROVE  file'[i] < line'[Pipe'[j]]
    <3>1. CASE i \in 1 .. m
      BY <1>10, <1>13, <2>1, <3>1
    <3>2. CASE i = m + 1
      <4>1. j \in 1 .. n - 1 /\ j + 1 \in 1 .. n /\ Pipe'[j] = Pipe[j + 1]
            /\ 1 \in 1 .. n /\ 1 < j + 1
        BY <1>2, <1>3
      <4>2. line[Pipe[1]] < line[Pipe[j + 1]]
        BY <1>2, <4>1 DEF OrderInv
      <4> QED
        BY <1>2, <1>4, <2>1, <3>2, <4>1, <4>2
    <3> QED
      BY <2>2, <3>1, <3>2
  <2>7. ASSUME NEW l \in Good, l <= pos
        PROVE  (\E i \in DOMAIN file' : file'[i] = l)
                 \/ \E j \in DOMAIN Pipe' : line'[Pipe'[j]] = l
    <3>1. \A i \in DOMAIN file : i \in DOMAIN file' /\ file'[i] = file[i]
      BY <1>10, <2>1
    <3>2. m + 1 \in DOMAIN file' /\ file'[m + 1] = line[t]
      BY <1>10, <2>1
    <3> QED
      BY <1>12, <2>7, <3>1, <3>2
  <2> QED
    BY <1>4, <1>5, <1>6, <1>11, <2>4, <2>5, <2>6, <2>7 DEF OrderInv
<1> QED
  BY <1>14, <1>15

LEMMA OrderStep ==
  ASSUME TypeOK, LineInv, PlaceInv, OrderInv, RetInv, EndInv, Next
  PROVE  OrderInv'
<1>1. CASE SkipComment
  <2>1. /\ Pipe' = Pipe /\ line' = line /\ file' = file /\ rpc' = rpc /\ rpc # "done"
        /\ capture' = capture /\ pos' = pos + 1 /\ pos \in Nat
        /\ capture[pos + 1] = "comment"
    BY <1>1, PipeStays DEF SkipComment, TypeOK
  <2>2. Good' = Good /\ \A l \in Good : l \in Nat /\ l # pos + 1
    BY <2>1 DEF Good, TypeOK
  <2>3. \A l \in Good : l <= pos + 1 => l <= pos
    BY <2>1, <2>2
  <2>4. \A i \in DOMAIN file : file[i] <= pos + 1
    BY <2>1 DEF OrderInv, TypeOK
  <2> QED
    BY <2>1, <2>2, <2>3, <2>4 DEF OrderInv
<1>2. CASE PassesOn
  <2>1. Quiet
    BY <1>2, IsQuiet
  <2> QED
    BY <2>1 DEF Quiet, OrderInv, Good
<1>3. CASE CollectTask
  <2>1. Pipe = << >> /\ Pipe' = Pipe
    BY <1>3, PipeEmpty, PipeStays DEF CollectTask
  <2>2. DOMAIN Pipe = {}
    BY <2>1
  <2>3. /\ rpc' = rpc /\ rpc # "done" /\ file' = file /\ capture' = capture /\ pos' = pos
    BY <1>3 DEF CollectTask
  <2> QED
    BY <2>1, <2>2, <2>3 DEF OrderInv, Good
<1>4. CASE WriteHeader
  <2>1. Pipe = << >> /\ Pipe' = Pipe /\ rpc' = "done"
    BY <1>4, PipeEmpty, PipeStays DEF WriteHeader
  <2>2. DOMAIN Pipe = {}
    BY <2>1
  <2> QED
    BY <2>1, <2>2 DEF OrderInv
<1> QED
  BY <1>1, <1>2, <1>3, <1>4, NextCases, OrderReads, OrderWrites

-----------------------------------------------------------------------------
(* What a task tells of its line.                                          *)

WriterTasks == ToSet(queue["writer"]) \cup ({cur["writer"]} \ {None})

LEMMA WriterTasksInPipe ==
  ASSUME TypeOK
  PROVE  WriterTasks \subseteq ToSet(Pipe) /\ ToSet(Pipe) \subseteq Tasks
<1>1. ToSet(Pipe) = ToSet(queue["writer"]) \cup ToSet(queue["parser"])
              \cup ({cur["writer"], cur["parser"], rtask} \ {None})
  BY PipeIsSeq
<1>2. ToSet(Pipe) \subseteq Tasks
  BY PipeIsSeq, SeqFacts
<1> QED
  BY <1>1, <1>2 DEF WriterTasks

(* The part of RetInv that a step which changes no answer keeps.           *)
LEMMA RetStays ==
  ASSUME RetInv, UNCHANGED <<capture, ret, line, reuse, lost>>,
         ToSet(Pipe') \subseteq ToSet(Pipe), WriterTasks' \subseteq WriterTasks
  PROVE  RetInv'
BY DEF RetInv, WriterTasks, Kind

LEMMA RetReads ==
  ASSUME TypeOK, LineInv, PlaceInv, RetInv, ReadLine
  PROVE  RetInv'
<1>1. PICK t \in Tasks : Reads(t)
  BY ReadIs
<1>2. Pipe' = Append(Pipe, t) /\ Pipe \in Seq(Tasks)
  BY <1>1, ReadPipe, PipeIsSeq
<1>3. ToSet(Pipe') = ToSet(Pipe) \cup {t}
  BY <1>1, <1>2, AppendIs
<1>4. /\ capture' = capture /\ lost' = lost /\ WriterTasks' = WriterTasks
      /\ line' = [line EXCEPT ![t] = pos + 1] /\ ret' = [ret EXCEPT ![t] = "SUCCESS"]
      /\ t \notin ToSet(Pipe) /\ t \notin lost /\ t \notin ToSet(reuse')
      /\ ToSet(reuse') \subseteq ToSet(reuse)
  BY <1>1 DEF ReadLine, Reads, svars, WriterTasks
<1>5. t \notin WriterTasks
  BY <1>4, WriterTasksInPipe
<1>6. /\ \A u \in Tasks \ {t} : line'[u] = line[u] /\ ret'[u] = ret[u]
      /\ ret'[t] = "SUCCESS"
  BY <1>4 DEF TypeOK
<1>7. /\ ToSet(Pipe) \subseteq Tasks /\ WriterTasks \subseteq Tasks
      /\ ToSet(reuse') \cup lost \subseteq Tasks
  BY <1>1, WriterTasksInPipe, SeqFacts DEF TypeOK, Reads
<1>8. \A u \in Tasks \ {t} : Kind(u)' = Kind(u)
  BY <1>4, <1>6 DEF Kind
<1>9. \A u \in ToSet(Pipe') : ret'[u] = "ERROR" => Kind(u)' = "unparsable"
  BY <1>3, <1>4, <1>6, <1>7, <1>8 DEF RetInv
<1>10. \A u \in WriterTasks' : Kind(u)' = "unparsable" => ret'[u] = "ERROR"
  BY <1>4, <1>5, <1>6, <1>7, <1>8 DEF RetInv, WriterTasks
<1>11. \A u \in ToSet(reuse') \cup lost' : ret'[u] = "ERROR" <=> Kind(u)' \in Bad
  BY <1>4, <1>6, <1>7, <1>8 DEF RetInv
<1> QED
  BY <1>9, <1>10, <1>11 DEF RetInv, WriterTasks

LEMMA RetTakes ==
  ASSUME TypeOK, RetInv, NEW s \in Stages, TakeTask(s)
  PROVE  RetInv'
<1>1. Pipe' = Pipe /\ UNCHANGED <<capture, line, reuse, lost, ret>>
  BY IsQuiet DEF PassesOn, Stage, Quiet, TakeTask
<1>2. WriterTasks' \subseteq WriterTasks
  <2>1. CASE s = "writer"
    <3>1. /\ queue["writer"] \in Seq(Tasks) /\ queue["writer"] # << >>
          /\ cur'["writer"] = Head(queue["writer"])
          /\ queue'["writer"] = Tail(queue["writer"])
      BY <2>1 DEF TakeTask, TypeOK
    <3>2. ToSet(queue["writer"]) = ToSet(Tail(queue["writer"])) \cup {Head(queue["writer"])}
      BY <3>1, TailIs
    <3> QED
      BY <3>1, <3>2 DEF WriterTasks
  <2>2. CASE s = "parser"
    BY <2>2 DEF TakeTask, TypeOK, WriterTasks, Stages
  <2> QED
    BY <2>1, <2>2 DEF Stages
<1> QED
  BY <1>1, <1>2, RetStays

LEMMA RetParser ==
  ASSUME TypeOK, PlaceInv, RetInv, ParserPasses
  PROVE  RetInv'
<1> DEFINE t == cur["parser"]
<1>1. Pipe' = Pipe /\ UNCHANGED <<capture, line, reuse, lost>>
  BY IsQuiet DEF PassesOn, Quiet
<1>2. t \in Tasks /\ t \in ToSet(Pipe)
  BY PipeIsSeq DEF ParserPasses, TypeOK, Stages
<1>3. /\ ret' = [ret EXCEPT ![t] = IF Kind(t) = "unparsable" THEN "ERROR" ELSE @]
      /\ queue'["writer"] = Append(queue["writer"], t) /\ cur'["writer"] = cur["writer"]
      /\ queue["writer"] \in Seq(Tasks)
  BY DEF ParserPasses, TypeOK, Stages
<1> HIDE DEF t
<1>4. WriterTasks' = WriterTasks \cup {t}
  <2>1. ToSet(Append(queue["writer"], t)) = ToSet(queue["writer"]) \cup {t}
    BY <1>2, <1>3, AppendIs
  <2>2. ToSet(queue'["writer"]) = ToSet(queue["writer"]) \cup {t}
    BY <1>3, <2>1
  <2> QED
    BY <1>3, <2>2 DEF WriterTasks
<1>5. /\ \A u \in Tasks : Kind(u)' = Kind(u)
      /\ \A u \in Tasks \ {t} : ret'[u] = ret[u]
      /\ ret'[t] = IF Kind(t) = "unparsable" THEN "ERROR" ELSE ret[t]
  BY <1>1, <1>2, <1>3 DEF Kind, TypeOK
<1>6. /\ ToSet(Pipe) \subseteq Tasks /\ WriterTasks \subseteq Tasks
      /\ ToSet(reuse) \cup lost \subseteq Tasks /\ t \notin ToSet(reuse) \cup lost
  BY <1>2, WriterTasksInPipe, SeqFacts DEF TypeOK, PlaceInv
<1>7. \A u \in ToSet(Pipe) : ret'[u] = "ERROR" => Kind(u)' = "unparsable"
  BY <1>2, <1>5, <1>6 DEF RetInv
<1>8. \A u \in WriterTasks' : Kind(u)' = "unparsable" => ret'[u] = "ERROR"
  BY <1>2, <1>4, <1>5, <1>6 DEF RetInv, WriterTasks
<1>9. \A u \in ToSet(reuse) \cup lost : ret'[u] = "ERROR" <=> Kind(u)' \in Bad
  BY <1>5, <1>6 DEF RetInv
<1> QED
  BY <1>1, <1>7, <1>8, <1>9 DEF RetInv, WriterTasks

LEMMA RetWrites ==
  ASSUME TypeOK, LineInv, PlaceInv, RetInv, WriterRuns
  PROVE  RetInv'
<1> DEFINE t == cur["writer"]
<1>1. t \in Tasks /\ Pipe # << >> /\ Head(Pipe) = t /\ Pipe' = Tail(Pipe)
      /\ Pipe \in Seq(Tasks)
  BY WritePipe, PipeIsSeq
<1>2. /\ ToSet(Pipe) = ToSet(Pipe') \cup {t} /\ t \notin ToSet(Pipe')
  BY <1>1, TailIs DEF PlaceInv
<1>3. t \in WriterTasks
  BY <1>1, TasksAssumption DEF WriterTasks
<1>4. /\ UNCHANGED <<capture, line>> /\ queue' = queue
      /\ ret' = [ret EXCEPT ![t] = IF ret[t] = "SUCCESS" /\ Kind(t) = "good"
                                   THEN "SUCCESS" ELSE "ERROR"]
      /\ reuse' = IF Len(reuse) < ReuseCap THEN Append(reuse, t) ELSE reuse
      /\ lost' = IF Len(reuse) < ReuseCap THEN lost ELSE lost \cup {t}
      /\ cur'["writer"] = None
  BY <1>1 DEF WriterRuns, GioopRun, GiveBack, TypeOK, Stages
<1>5. WriterTasks' \subseteq WriterTasks
  BY <1>4 DEF WriterTasks
<1>6. t \notin WriterTasks'
  <2>1. rtask' = rtask /\ cur'["parser"] = cur["parser"]
    BY DEF WriterRuns, rvars, TypeOK, Stages
  <2>2. TypeOK'
    BY StagesType DEF Writer
  <2>3. WriterTasks' \subseteq ToSet(Pipe')
    <3>1. ToSet(Pipe') = ToSet(queue'["writer"]) \cup ToSet(queue'["parser"])
              \cup ({cur'["writer"], cur'["parser"], rtask'} \ {None})
      <4>1. /\ cur'["writer"] \in Tasks \cup {None} /\ cur'["parser"] \in Tasks \cup {None}
            /\ queue'["writer"] \in Seq(Tasks) /\ queue'["parser"] \in Seq(Tasks)
            /\ rtask' \in Tasks \cup {None}
        BY <2>2 DEF TypeOK, Stages
      <4>2. ToSet(PipeOf(cur'["writer"], queue'["writer"], cur'["parser"],
                         queue'["parser"], rtask'))
              = ToSet(queue'["writer"]) \cup ToSet(queue'["parser"])
                  \cup ({cur'["writer"], cur'["parser"], rtask'} \ {None})
        BY SMTT(30), <4>1, PipeMembers, TasksAssumption
      <4> QED
        BY <4>2, PipeIs
    <3> QED
      BY <3>1 DEF WriterTasks
  <2> QED
    BY <1>2, <2>3
<1> HIDE DEF t
<1>7. Kind(t) \in Bad \cup {"good"}
  <2>1. t \in Allocated
    BY <1>2 DEF PlaceInv
  <2>2. line[t] \in 1 .. pos /\ Kind(t) # "comment"
    BY <1>1, <2>1 DEF Allocated, TypeOK, LineInv
  <2>3. capture[line[t]] \in Kinds
    BY <2>2 DEF TypeOK
  <2> QED
    BY <2>2, <2>3 DEF Kind, Kinds, Bad
<1>8. ret[t] \in {"SUCCESS", "ERROR"} /\ (ret[t] = "ERROR" => Kind(t) = "unparsable")
  BY <1>1, <1>2 DEF TypeOK, RetInv
<1>9. /\ \A u \in Tasks : Kind(u)' = Kind(u)
      /\ \A u \in Tasks \ {t} : ret'[u] = ret[u]
      /\ ret'[t] = "ERROR" <=> Kind(t) \in Bad
  <2>1. /\ \A u \in Tasks : Kind(u)' = Kind(u)
        /\ \A u \in Tasks \ {t} : ret'[u] = ret[u]
        /\ ret'[t] = IF ret[t] = "SUCCESS" /\ Kind(t) = "good" THEN "SUCCESS" ELSE "ERROR"
    BY <1>1, <1>4 DEF Kind, TypeOK
  <2> QED
    BY <1>7, <1>8, <2>1 DEF Bad
<1>10. ToSet(reuse') \cup lost' = ToSet(reuse) \cup lost \cup {t}
  <2>1. ToSet(Append(reuse, t)) = ToSet(reuse) \cup {t}
    BY <1>1, AppendIs DEF TypeOK
  <2>2. CASE Len(reuse) < ReuseCap
    BY <1>4, <2>1, <2>2
  <2>3. CASE ~(Len(reuse) < ReuseCap)
    BY <1>4, <2>3
  <2> QED
    BY <2>2, <2>3
<1>11. /\ ToSet(Pipe) \subseteq Tasks /\ WriterTasks \subseteq Tasks
       /\ ToSet(reuse) \cup lost \subseteq Tasks
  BY WriterTasksInPipe, SeqFacts DEF TypeOK
<1>12. \A u \in ToSet(Pipe') : ret'[u] = "ERROR" => Kind(u)' = "unparsable"
  BY <1>2, <1>9, <1>11 DEF RetInv
<1>13. \A u \in WriterTasks' : Kind(u)' = "unparsable" => ret'[u] = "ERROR"
  BY <1>5, <1>6, <1>9, <1>11 DEF RetInv, WriterTasks
<1>14. \A u \in ToSet(reuse') \cup lost' : ret'[u] = "ERROR" <=> Kind(u)' \in Bad
  BY <1>1, <1>9, <1>10, <1>11 DEF RetInv
<1> QED
  BY <1>12, <1>13, <1>14 DEF RetInv, WriterTasks

LEMMA RetStep ==
  ASSUME TypeOK, LineInv, PlaceInv, RetInv, EndInv, Next
  PROVE  RetInv'
<1>1. CASE SkipComment \/ WriteHeader
  <2>1. Pipe' = Pipe /\ UNCHANGED <<capture, ret, line, reuse, lost>>
        /\ WriterTasks' = WriterTasks
    BY <1>1, PipeStays DEF SkipComment, WriteHeader, svars, WriterTasks
  <2> QED
    BY <2>1, RetStays
<1>2. CASE PassToParser \/ EndOfFile \/ ParserJoined \/ WriterJoined
           \/ \E s \in Stages : QueueEmpty(s) \/ TestTerminate(s)
  <2>1. Pipe' = Pipe /\ UNCHANGED <<capture, line, reuse, lost>>
    BY <1>2, IsQuiet DEF PassesOn, Stage, Quiet
  <2>2. ret' = ret /\ WriterTasks' = WriterTasks
    BY <1>2 DEF PassToParser, EndOfFile, ParserJoined, WriterJoined, QueueEmpty,
                TestTerminate, svars, rvars, WriterTasks, TypeOK, Stages
  <2> QED
    BY <2>1, <2>2, RetStays
<1>3. CASE CollectTask
  <2>1. Pipe = << >> /\ Pipe' = Pipe /\ queue["writer"] = << >> /\ cur["writer"] = None
    BY <1>3, PipeEmpty, PipeStays DEF CollectTask, Stages
  <2>2. WriterTasks' = WriterTasks /\ WriterTasks = {} /\ ToSet(Pipe) = {}
    BY <1>3, <2>1 DEF WriterTasks, CollectTask, svars, ToSet
  <2> DEFINE h == Head(reuse)
  <2>3. /\ h \in Tasks /\ Tail(reuse) \in Seq(Tasks) /\ h \notin ToSet(Tail(reuse))
        /\ ToSet(reuse) = ToSet(Tail(reuse)) \cup {h}
    BY <1>3, TailIs DEF CollectTask, TypeOK, PlaceInv
  <2>4. /\ reuse' = Tail(reuse) /\ lost' = lost /\ capture' = capture /\ ret' = ret
        /\ line' = [line EXCEPT ![h] = 0]
    BY <1>3 DEF CollectTask
  <2> HIDE DEF h
  <2>5. \A u \in ToSet(reuse') \cup lost' : u # h /\ u \in Tasks
    BY <2>3, <2>4, SeqFacts DEF PlaceInv, TypeOK
  <2>6. \A u \in ToSet(reuse') \cup lost' : Kind(u)' = Kind(u) /\ u \in ToSet(reuse) \cup lost
    BY <2>3, <2>4, <2>5 DEF Kind, TypeOK
  <2> QED
    BY <2>1, <2>2, <2>4, <2>6 DEF RetInv, WriterTasks
<1> QED
  BY <1>1, <1>2, <1>3, NextCases, RetReads, RetTakes, RetParser, RetWrites
     DEF PassesOn, Stage

-----------------------------------------------------------------------------
(* A thread that has ended has left nothing behind.                        *)

LEMMA EndReader ==
  ASSUME TypeOK, EndInv, Reader
  PROVE  EndInv'
<1> USE DEF EndInv, TypeOK
<1>1. CASE SkipComment
  BY <1>1 DEF SkipComment, svars
<1>2. CASE ReadLine
  BY <1>2 DEF ReadLine, svars
<1>3. CASE PassToParser
  <2>1. rpc = "read" /\ ~terminate["parser"] /\ pc["parser"] \notin {"drain", "exit"}
    BY <1>3, TasksAssumption DEF PassToParser, Stages
  <2>2. /\ UNCHANGED <<capture, pos, rpc, pc, cur, terminate>>
        /\ queue'["writer"] = queue["writer"]
    BY <1>3 DEF PassToParser, svars, Stages
  <2>3. \A s \in Stages : pc[s] = "exit" => queue'[s] = << >>
    BY <2>1, <2>2 DEF Stages
  <2> QED
    BY <2>1, <2>2, <2>3
<1>4. CASE EndOfFile
  <2>1. /\ UNCHANGED <<capture, pos, rtask, pc, cur, queue>>
        /\ rtask = None /\ pos = Len(capture) /\ rpc' = "join_parser"
        /\ terminate'["writer"] = terminate["writer"]
        /\ \A s \in Stages : terminate[s] => terminate'[s]
    BY <1>4 DEF EndOfFile, svars, Stages
  <2> QED
    BY <2>1
<1>5. CASE ParserJoined
  <2>1. /\ UNCHANGED <<capture, pos, rtask, pc, cur, queue>>
        /\ rpc = "join_parser" /\ rpc' = "join_writer" /\ pc["parser"] = "exit"
        /\ terminate'["parser"] = terminate["parser"]
        /\ \A s \in Stages : terminate[s] => terminate'[s]
    BY <1>5 DEF ParserJoined, svars, Stages
  <2> QED
    BY <2>1
<1>6. CASE WriterJoined
  BY <1>6 DEF WriterJoined, svars
<1>7. CASE CollectTask
  BY <1>7 DEF CollectTask, svars
<1>8. CASE WriteHeader
  BY <1>8 DEF WriteHeader, svars
<1> QED
  BY <1>1, <1>2, <1>3, <1>4, <1>5, <1>6, <1>7, <1>8 DEF Reader

LEMMA EndStages ==
  ASSUME TypeOK, EndInv, Parser \/ Writer
  PROVE  EndInv'
<1> USE DEF EndInv, TypeOK
<1>1. ASSUME NEW s \in Stages, TakeTask(s)
      PROVE  EndInv'
  <2>1. /\ UNCHANGED <<capture, pos, rtask, rpc, pc, terminate>>
        /\ pc[s] # "exit" /\ pc[s] # "test"
        /\ \A z \in Stages \ {s} : cur'[z] = cur[z] /\ queue'[z] = queue[z]
    BY <1>1 DEF TakeTask, rvars
  <2> QED
    BY <2>1
<1>2. ASSUME NEW s \in Stages, QueueEmpty(s) \/ TestTerminate(s)
      PROVE  EndInv'
  <2>1. /\ UNCHANGED <<capture, pos, rtask, rpc, cur, queue, terminate>>
        /\ pc[s] # "exit"
        /\ \A z \in Stages \ {s} : pc'[z] = pc[z]
        /\ pc'[s] \in {"drain", "exit"} => terminate[s]
        /\ pc'[s] = "exit" => queue[s] = << >> /\ cur[s] = None
        /\ pc'[s] = "test" => cur[s] = None
    BY SMTT(30), <1>2 DEF QueueEmpty, TestTerminate, rvars
  <2> QED
    BY SMTT(30), <2>1 DEF Stages
<1>3. CASE ParserPasses
  <2>1. /\ UNCHANGED <<capture, pos, rtask, rpc, pc, terminate>>
        /\ cur["parser"] # None /\ cur'["writer"] = cur["writer"]
        /\ queue'["parser"] = queue["parser"] /\ cur'["parser"] = None
    BY <1>3 DEF ParserPasses, rvars, Stages
  <2>2. pc["parser"] # "exit" /\ pc["writer"] \notin {"drain", "exit"}
    BY <2>1 DEF Stages
  <2>3. \A s \in Stages : /\ pc[s] = "exit" => queue'[s] = << >> /\ cur'[s] = None
                          /\ pc[s] = "test" => cur'[s] = None
    BY <2>1, <2>2 DEF Stages
  <2> QED
    BY <2>1, <2>3
<1>4. CASE WriterRuns
  <2>1. /\ UNCHANGED <<capture, pos, rtask, rpc, pc, terminate, queue>>
        /\ \A s \in Stages : cur[s] = None => cur'[s] = None
    BY <1>4 DEF WriterRuns, rvars
  <2> QED
    BY <2>1
<1> QED
  BY <1>1, <1>2, <1>3, <1>4 DEF Parser, Writer, Stage, Stages

-----------------------------------------------------------------------------
(* Every refused line is counted once.                                     *)

BadTasks == {t \in Allocated : Kind(t) \in Bad}
Lines(n) == {i \in 1 .. n : capture[i] # "comment"}

LEMMA CountSets ==
  ASSUME TypeOK
  PROVE  /\ pos \in Nat
         /\ IsFiniteSet(BadTasks) /\ Cardinality(BadTasks) \in Nat
         /\ \A n \in Nat :
              /\ IsFiniteSet(Lines(n)) /\ IsFiniteSet(Refused(n))
              /\ Cardinality(Lines(n)) \in Nat /\ Cardinality(Refused(n)) \in Nat
<1>1. BadTasks \in SUBSET Tasks
  BY DEF BadTasks, Allocated
<1>2. IsFiniteSet(BadTasks)
  BY <1>1, TasksAssumption, FS_Subset
<1>3. ASSUME NEW n \in Nat
      PROVE  IsFiniteSet(Lines(n)) /\ IsFiniteSet(Refused(n))
  <2>1. IsFiniteSet(1 .. n)
    BY FS_Interval
  <2>2. Lines(n) \in SUBSET (1 .. n) /\ Refused(n) \in SUBSET (1 .. n)
    BY DEF Lines, Refused
  <2> QED
    BY <2>1, <2>2, FS_Subset
<1>4. \A n \in Nat : Cardinality(Lines(n)) \in Nat /\ Cardinality(Refused(n)) \in Nat
  BY <1>3, FS_CardinalityType
<1>5. Cardinality(BadTasks) \in Nat
  BY <1>2, FS_CardinalityType
<1>6. pos \in Nat
  BY DEF TypeOK
<1> QED
  BY <1>2, <1>3, <1>4, <1>5, <1>6

LEMMA CountIs == CountInv <=> /\ lineno = Cardinality(Lines(pos))
                              /\ filtered + Cardinality(BadTasks) = Cardinality(Refused(pos))
BY DEF CountInv, Lines, BadTasks

(* One line more.                                                          *)
LEMMA OneLineMore ==
  ASSUME TypeOK
  PROVE  /\ Lines(pos + 1) = IF capture[pos + 1] = "comment" THEN Lines(pos)
                             ELSE Lines(pos) \cup {pos + 1}
         /\ Refused(pos + 1) = IF capture[pos + 1] \in Bad THEN Refused(pos) \cup {pos + 1}
                               ELSE Refused(pos)
         /\ pos + 1 \notin Lines(pos) /\ pos + 1 \notin Refused(pos)
<1>1. pos \in Nat
  BY DEF TypeOK
<1>2. 1 .. pos + 1 = (1 .. pos) \cup {pos + 1} /\ pos + 1 \notin 1 .. pos
  BY <1>1
<1> QED
  BY <1>2 DEF Lines, Refused

LEMMA CountReads ==
  ASSUME TypeOK, LineInv, PlaceInv, RetInv, CountInv, ReadLine
  PROVE  CountInv'
<1>1. PICK t \in Tasks : Reads(t)
  BY ReadIs
<1>2. /\ pos \in Nat /\ pos' = pos + 1 /\ lineno' = lineno + 1 /\ capture' = capture
      /\ capture[pos + 1] # "comment" /\ line' = [line EXCEPT ![t] = pos + 1]
      /\ filtered \in Nat /\ lineno \in Nat
  BY <1>1 DEF ReadLine, TypeOK, Reads
<1>3. Lines(pos)' = Lines(pos) \cup {pos + 1} /\ pos + 1 \notin Lines(pos)
  BY <1>2, OneLineMore DEF Lines
<1>4. lineno' = Cardinality(Lines(pos)')
  <2>1. IsFiniteSet(Lines(pos)) /\ lineno = Cardinality(Lines(pos))
    BY <1>2, CountSets, CountIs
  <2>2. Cardinality(Lines(pos) \cup {pos + 1}) = Cardinality(Lines(pos)) + 1
    BY <1>3, <2>1, FS_AddElement
  <2> QED
    BY <1>2, <1>3, <2>1, <2>2
<1>5. filtered' = IF t \in BadTasks THEN filtered + 1 ELSE filtered
  <2>1. t \in ToSet(reuse) => (ret[t] = "ERROR" <=> t \in BadTasks)
    BY DEF RetInv, BadTasks, PlaceInv
  <2>2. t \notin ToSet(reuse) => t \notin BadTasks
    BY <1>1 DEF Reads, BadTasks
  <2> QED
    BY <1>1, <2>1, <2>2 DEF Reads
<1>6. BadTasks' = IF capture[pos + 1] \in Bad THEN (BadTasks \ {t}) \cup {t} ELSE BadTasks \ {t}
  <2>1. \A u \in Tasks : line'[u] = IF u = t THEN pos + 1 ELSE line[u]
    BY <1>2 DEF TypeOK
  <2>2. \A u \in Tasks : u \in Allocated' <=> u = t \/ u \in Allocated
    BY <1>2, <2>1 DEF Allocated
  <2>3. \A u \in Tasks : Kind(u)' = IF u = t THEN capture[pos + 1] ELSE Kind(u)
    BY <1>2, <2>1 DEF Kind
  <2>4. Allocated \subseteq Tasks /\ Allocated' \subseteq Tasks
    BY DEF Allocated
  <2>5. \A u \in Tasks : u \in BadTasks' <=>
          IF u = t THEN capture[pos + 1] \in Bad ELSE u \in BadTasks
    BY <2>2, <2>3 DEF BadTasks
  <2> QED
    BY <2>4, <2>5 DEF BadTasks
<1>7. IsFiniteSet(BadTasks) /\ Cardinality(BadTasks) \in Nat
      /\ IsFiniteSet(Refused(pos)) /\ Cardinality(Refused(pos)) \in Nat
      /\ filtered + Cardinality(BadTasks) = Cardinality(Refused(pos))
  BY <1>2, CountSets, CountIs
<1> DEFINE rest == BadTasks \ {t}
<1>8. /\ IsFiniteSet(rest) /\ t \notin rest
      /\ Cardinality(rest) = IF t \in BadTasks THEN Cardinality(BadTasks) - 1
                             ELSE Cardinality(BadTasks)
  BY <1>7, FS_RemoveElement
<1> HIDE DEF rest
<1>9. filtered' + Cardinality(rest) = Cardinality(Refused(pos)) /\ Cardinality(rest) \in Int
      /\ filtered' \in Int
  BY <1>2, <1>5, <1>7, <1>8
<1>10. CASE capture[pos + 1] \in Bad
  <2>1. Refused(pos)' = Refused(pos) \cup {pos + 1} /\ pos + 1 \notin Refused(pos)
    BY <1>2, <1>10, OneLineMore DEF Refused
  <2>2. Cardinality(Refused(pos) \cup {pos + 1}) = Cardinality(Refused(pos)) + 1
    BY <1>7, <2>1, FS_AddElement
  <2>3. Cardinality(rest \cup {t}) = Cardinality(rest) + 1
    BY <1>8, FS_AddElement
  <2>4. BadTasks' = rest \cup {t}
    BY <1>6, <1>10 DEF rest
  <2>5. filtered' + Cardinality(BadTasks') = Cardinality(Refused(pos)')
    BY <1>7, <1>9, <2>1, <2>2, <2>3, <2>4
  <2> QED
    BY <1>4, <2>5 DEF CountInv, Lines, BadTasks, Refused
<1>11. CASE capture[pos + 1] \notin Bad
  <2>1. Refused(pos)' = Refused(pos)
    BY <1>2, <1>11, OneLineMore DEF Refused
  <2>2. BadTasks' = rest
    BY <1>6, <1>11 DEF rest
  <2>3. filtered' + Cardinality(BadTasks') = Cardinality(Refused(pos)')
    BY <1>9, <2>1, <2>2
  <2> QED
    BY <1>4, <2>3 DEF CountInv, Lines, BadTasks, Refused
<1> QED
  BY <1>10, <1>11

LEMMA CountCollects ==
  ASSUME TypeOK, LineInv, PlaceInv, RetInv, CountInv, CollectTask
  PROVE  CountInv'
<1> DEFINE h == Head(reuse)
<1>1. h \in Tasks /\ h \in ToSet(reuse)
  BY TailIs DEF CollectTask, TypeOK
<1>2. /\ UNCHANGED <<capture, pos, lineno>> /\ line' = [line EXCEPT ![h] = 0]
      /\ filtered' = IF ret[h] = "SUCCESS" THEN filtered ELSE filtered + 1
      /\ filtered \in Nat /\ ret[h] \in {"SUCCESS", "ERROR"}
  BY <1>1 DEF CollectTask, CountRefused, TypeOK
<1> HIDE DEF h
<1>3. ret[h] = "ERROR" <=> h \in BadTasks
  BY <1>1 DEF RetInv, BadTasks, PlaceInv
<1>4. BadTasks' = BadTasks \ {h}
  <2>1. \A u \in Tasks : line'[u] = IF u = h THEN 0 ELSE line[u]
    BY <1>2 DEF TypeOK
  <2>2. \A u \in Tasks : u \in Allocated' <=> u # h /\ u \in Allocated
    BY <2>1 DEF Allocated
  <2>3. \A u \in Tasks \ {h} : Kind(u)' = Kind(u)
    BY <1>2, <2>1 DEF Kind
  <2>4. Allocated \subseteq Tasks /\ Allocated' \subseteq Tasks
    BY DEF Allocated
  <2> QED
    BY <2>2, <2>3, <2>4 DEF BadTasks
<1>5. IsFiniteSet(BadTasks) /\ Cardinality(BadTasks) \in Nat
      /\ filtered + Cardinality(BadTasks) = Cardinality(Refused(pos))
      /\ lineno = Cardinality(Lines(pos))
  BY CountSets, CountIs
<1>6. Cardinality(BadTasks \ {h}) = IF h \in BadTasks THEN Cardinality(BadTasks) - 1
                                    ELSE Cardinality(BadTasks)
  BY <1>5, FS_RemoveElement
<1>7. filtered' + Cardinality(BadTasks') = Cardinality(Refused(pos))
  BY <1>2, <1>3, <1>4, <1>5, <1>6
<1>8. Refused(pos)' = Refused(pos) /\ Lines(pos)' = Lines(pos)
  BY <1>2 DEF Refused, Lines
<1> QED
  BY <1>2, <1>5, <1>7, <1>8 DEF CountInv, Lines, BadTasks, Refused

LEMMA CountStep ==
  ASSUME TypeOK, LineInv, PlaceInv, RetInv, CountInv, Next
  PROVE  CountInv'
<1>1. CASE SkipComment
  <2>1. /\ pos' = pos + 1 /\ UNCHANGED <<capture, lineno, filtered, line>>
        /\ capture[pos + 1] = "comment"
    BY <1>1 DEF SkipComment
  <2>2. Lines(pos + 1) = Lines(pos) /\ Refused(pos + 1) = Refused(pos)
    BY <2>1, OneLineMore DEF Bad
  <2>3. BadTasks' = BadTasks /\ Lines(pos)' = Lines(pos + 1) /\ Refused(pos)' = Refused(pos + 1)
    BY <2>1 DEF BadTasks, Allocated, Kind, Lines, Refused
  <2> QED
    BY <2>1, <2>2, <2>3, CountIs DEF CountInv, Lines, BadTasks, Refused
<1>2. CASE WriteHeader \/ WriterRuns \/ PassesOn
  <2>1. UNCHANGED <<capture, pos, lineno, filtered, line>>
    BY <1>2, IsQuiet DEF WriteHeader, WriterRuns, rvars, Quiet
  <2> QED
    BY <2>1 DEF CountInv, Allocated, Kind, Refused
<1> QED
  BY <1>1, <1>2, NextCases, CountReads, CountCollects

-----------------------------------------------------------------------------
(* What the file and the header are in the end.                            *)

LEMMA DoneStep ==
  ASSUME TypeOK, OrderInv, EndInv, DoneInv, Next
  PROVE  DoneInv'
<1>1. CASE SkipComment \/ ReadLine \/ CollectTask
  <2>1. rpc' # "done"
    BY <1>1 DEF SkipComment, ReadLine, CollectTask
  <2> QED
    BY <2>1 DEF DoneInv
<1>2. CASE PassesOn
  BY <1>2, IsQuiet DEF Quiet, DoneInv, Good
<1>3. CASE WriterRuns
  <2>1. rpc' = rpc /\ cur["writer"] # None
    BY <1>3 DEF WriterRuns, rvars
  <2>2. rpc # "done"
    BY <2>1, PipeEmpty DEF Stages
  <2> QED
    BY <2>1, <2>2 DEF DoneInv
<1>4. CASE WriteHeader
  <2> DEFINE m == Len(file)
  <2>1. Pipe = << >> /\ pos = Len(capture)
    BY <1>4, PipeEmpty DEF WriteHeader
  <2>2. /\ reuse' = << >> /\ num_lines' = lineno' - filtered' /\ capture' = capture
        /\ file' = Append(file, InitSection) /\ rpc # "done"
    BY <1>4 DEF WriteHeader
  <2>3. /\ m \in Nat /\ DOMAIN file = 1 .. m /\ file \in Seq(Nat)
        /\ Len(file') = m + 1 /\ file'[m + 1] = InitSection
        /\ \A i \in 1 .. m : file'[i] = file[i]
    BY <2>2 DEF TypeOK, InitSection
  <2>4. DOMAIN Pipe = {}
    BY <2>1
  <2>5. \A l \in Good : l <= pos
    BY <2>1 DEF Good, TypeOK
  <2> HIDE DEF m
  <2>6. {file[i] : i \in 1 .. m} = Good
    BY <2>2, <2>3, <2>4, <2>5 DEF OrderInv
  <2>7. {file'[i] : i \in 1 .. m} = Good /\ Good' = Good
    BY <2>2, <2>3, <2>6 DEF Good
  <2>8. \A i, j \in 1 .. m : i < j => file'[i] < file'[j]
    BY <2>2, <2>3 DEF OrderInv
  <2>9. Len(file') - 1 = m /\ Len(file') # 0 /\ file'[Len(file')] = InitSection
    BY <2>3
  <2> QED
    BY <2>2, <2>7, <2>8, <2>9 DEF DoneInv
<1> QED
  BY <1>1, <1>2, <1>3, <1>4, NextCases

-----------------------------------------------------------------------------
(* The invariant and what follows from it.                                 *)

LEMMA InitPipe ==
  ASSUME Init
  PROVE  PipeInv
<1>1. TypeOK
  BY InitType
<1>2. /\ rtask = None /\ reuse = << >> /\ file = << >> /\ lost = {} /\ pos = 0
      /\ lineno = 0 /\ filtered = 0 /\ rpc = "read"
      /\ \A s \in Stages : pc[s] = "poll" /\ cur[s] = None /\ queue[s] = << >>
                           /\ ~terminate[s]
      /\ \A t \in Tasks : line[t] = 0
  BY DEF Init, Stages
<1>3. Pipe = << >>
  <2>1. << >> \o << >> = << >>
    OBVIOUS
  <2> QED
    BY <1>2, <2>1 DEF Pipe, One, Stages
<1>4. Allocated = {} /\ ToSet(<< >>) = {} /\ DOMAIN << >> = {} /\ IsInjective(<< >>)
  BY <1>2 DEF Allocated, ToSet, IsInjective
<1>5. PlaceInv
  BY <1>2, <1>3, <1>4 DEF PlaceInv
<1>6. LineInv
  BY <1>4 DEF LineInv
<1>7. OrderInv
  <2>1. \A l \in Good : ~(l <= 0)
    BY <1>1 DEF Good, TypeOK
  <2> QED
    BY <1>2, <1>3, <1>4, <2>1 DEF OrderInv
<1>8. RetInv
  BY <1>2, <1>3, <1>4 DEF RetInv, Stages
<1>9. EndInv
  BY <1>2 DEF EndInv, Stages
<1>10. CountInv
  <2>1. BadTasks = {} /\ Lines(pos) = {} /\ Refused(pos) = {}
    BY <1>2, <1>4 DEF BadTasks, Lines, Refused
  <2>2. /\ Cardinality(BadTasks) = 0 /\ Cardinality(Lines(pos)) = 0
        /\ Cardinality(Refused(pos)) = 0
    BY <2>1, FS_EmptySet
  <2> QED
    BY <1>2, <2>2, CountIs
<1>11. DoneInv
  BY <1>2 DEF DoneInv
<1> QED
  BY <1>1, <1>5, <1>6, <1>7, <1>8, <1>9, <1>10, <1>11 DEF PipeInv

LEMMA PipeStep ==
  ASSUME PipeInv, [Next]_vars
  PROVE  PipeInv'
<1>1. CASE Next
  <2>1. /\ TypeOK /\ PlaceInv /\ LineInv /\ OrderInv /\ RetInv /\ EndInv
        /\ CountInv /\ DoneInv
    BY DEF PipeInv
  <2>2. Reader \/ Parser \/ Writer
    BY <1>1 DEF Next
  <2>3. TypeOK'
    BY <2>1, <2>2, ReaderType, StagesType
  <2>4. EndInv'
    BY <2>1, <2>2, EndReader, EndStages
  <2>5. PlaceInv' /\ LineInv' /\ CountInv'
    BY <1>1, <2>1, PlaceStep, LineStep, CountStep
  <2>6. OrderInv' /\ RetInv' /\ DoneInv'
    BY <1>1, <2>1, OrderStep, RetStep, DoneStep
  <2> QED
    BY <2>3, <2>4, <2>5, <2>6 DEF PipeInv
<1>2. CASE UNCHANGED vars
  <2> USE <1>2 DEF vars, rvars, svars
  <2>1. Pipe' = Pipe /\ Allocated' = Allocated /\ Good' = Good
    BY DEF Pipe, Allocated, Good
  <2>2. \A t : Kind(t)' = Kind(t)
    BY DEF Kind
  <2>3. TypeOK' /\ EndInv' /\ DoneInv'
    BY SMTT(30), <2>1 DEF PipeInv, TypeOK, EndInv, DoneInv
  <2>4. PlaceInv' /\ LineInv' /\ OrderInv'
    BY <2>1, <2>2 DEF PipeInv, PlaceInv, LineInv, OrderInv
  <2>5. RetInv'
    BY <2>1, <2>2 DEF PipeInv, RetInv
  <2>6. CountInv'
    BY <2>1 DEF PipeInv, CountInv, Kind, Refused
  <2> QED
    BY <2>3, <2>4, <2>5, <2>6 DEF PipeInv
<1> QED
  BY <1>1, <1>2

THEOREM PipeInvHolds == Spec => []PipeInv
<1>1. Init => PipeInv
  BY InitPipe
<1>2. PipeInv /\ [Next]_vars => PipeInv'
  BY PipeStep
<1> QED
  BY <1>1, <1>2, PTL DEF Spec

(* The .replay file has the lines that were accepted, each once and in     *)
(* their order, and in the end all of them with #INIT behind               *)
(* (generate.c:156-178), however long the capture is, however much the     *)
(* queues hold and whatever the threads do in between.                     *)
THEOREM FileInOrderHolds == Spec => []FileInOrder
<1>1. PipeInv => FileInOrder
  <2> SUFFICES ASSUME PipeInv PROVE FileInOrder
    OBVIOUS
  <2>1. /\ TypeOK /\ OrderInv /\ DoneInv
    BY DEF PipeInv
  <2>2. Len(file) \in Nat /\ DOMAIN file = 1 .. Len(file)
    BY <2>1 DEF TypeOK
  <2>3. CASE rpc = "done"
    <3> DEFINE n == Len(file) - 1
    <3>1. /\ {file[i] : i \in 1 .. n} = Good
          /\ \A i, j \in 1 .. n : i < j => file[i] < file[j]
          /\ n + 1 = Len(file) /\ file[Len(file)] = InitSection
      BY SMTT(30), <2>1, <2>2, <2>3 DEF DoneInv
    <3> HIDE DEF n
    <3>2. n = IF rpc = "done" THEN Len(file) - 1 ELSE Len(file)
      BY <2>3 DEF n
    <3> QED
      BY <2>3, <3>1, <3>2 DEF FileInOrder
  <2>4. CASE rpc # "done"
    <3> DEFINE n == Len(file)
               written == {file[i] : i \in 1 .. n}
    <3>1. \A i, j \in 1 .. n : i < j => file[i] < file[j]
      BY <2>1, <2>2, <2>4 DEF OrderInv
    <3>2. written \subseteq Good
      BY <2>1, <2>2, <2>4 DEF OrderInv
    <3>3. ASSUME NEW l \in Good, NEW k \in written, l < k
          PROVE  l \in written
      <4>1. PICK i \in 1 .. n : k = file[i]
        OBVIOUS
      <4>2. k <= pos /\ pos \in Nat /\ l \in Nat /\ k \in Nat
        <5>1. k <= pos
          BY <2>1, <2>2, <2>4, <4>1 DEF OrderInv
        <5>2. pos \in Nat /\ \A x \in Good : x \in Nat
          BY SMTT(30), <2>1 DEF TypeOK, Good
        <5>3. k \in Good
          BY <3>2
        <5> QED
          BY <5>1, <5>2, <5>3
      <4>3. \A j \in DOMAIN Pipe : k < line[Pipe[j]]
        BY <2>1, <2>2, <2>4, <4>1 DEF OrderInv
      <4>4. \A j \in DOMAIN Pipe : line[Pipe[j]] # l
        BY <3>3, <4>2, <4>3
      <4>5. l <= pos
        BY <3>3, <4>2
      <4>6. \E j \in DOMAIN file : file[j] = l
        BY <2>1, <2>4, <4>4, <4>5 DEF OrderInv
      <4> QED
        BY <2>2, <4>6
    <3> QED
      BY <2>4, <3>1, <3>2, <3>3 DEF FileInOrder
  <2> QED
    BY <2>3, <2>4
<1> QED
  BY <1>1, PipeInvHolds, PTL

(* A task object is in one place at a time (generate.c:137-143): the       *)
(* reader never fills one that a queue, the parser or the writer holds.    *)
THEOREM TaskInOnePlaceHolds == Spec => []TaskInOnePlace
<1>1. PipeInv => TaskInOnePlace
  <2> SUFFICES ASSUME PipeInv PROVE TaskInOnePlace
    OBVIOUS
  <2>1. PlaceInv /\ Pipe \in Seq(Tasks) /\ reuse \in Seq(Tasks)
    BY PipeIsSeq DEF PipeInv, TypeOK
  <2> DEFINE held == Pipe \o reuse
             n == Len(Pipe)
             m == Len(reuse)
  <2>2. ToSet(held) = ToSet(Pipe) \cup ToSet(reuse)
    BY <2>1, ToSetConcat
  <2>3. /\ held \in Seq(Tasks) /\ Len(held) = n + m /\ n \in Nat /\ m \in Nat
        /\ \A i \in 1 .. n + m : held[i] = IF i <= n THEN Pipe[i] ELSE reuse[i - n]
    BY <2>1, ConcatProperties
  <2> HIDE DEF held
  <2>4. /\ \A i, j \in 1 .. n : Pipe[i] = Pipe[j] => i = j
        /\ ToSet(Pipe) = {Pipe[i] : i \in 1 .. n}
    BY <2>1, SeqFacts DEF PlaceInv
  <2>5. /\ \A i, j \in 1 .. m : reuse[i] = reuse[j] => i = j
        /\ ToSet(reuse) = {reuse[i] : i \in 1 .. m}
    BY <2>1, SeqFacts DEF PlaceInv
  <2> HIDE DEF n, m
  <2>6. \A i \in 1 .. n, j \in 1 .. m : Pipe[i] # reuse[j]
    BY <2>1, <2>4, <2>5 DEF PlaceInv
  <2>7. ASSUME NEW i \in 1 .. n + m, NEW j \in 1 .. n + m, held[i] = held[j]
        PROVE  i = j
    <3>1. CASE i <= n /\ j <= n
      BY <2>3, <2>4, <2>7, <3>1
    <3>2. CASE i <= n /\ ~(j <= n)
      <4>1. j - n \in 1 .. m /\ i \in 1 .. n
        BY <2>3, <3>2
      <4> QED
        BY <2>3, <2>6, <2>7, <3>2, <4>1
    <3>3. CASE ~(i <= n) /\ j <= n
      <4>1. i - n \in 1 .. m /\ j \in 1 .. n
        BY <2>3, <3>3
      <4> QED
        BY <2>3, <2>6, <2>7, <3>3, <4>1
    <3>4. CASE ~(i <= n) /\ ~(j <= n)
      <4>1. i - n \in 1 .. m /\ j - n \in 1 .. m
        BY <2>3, <3>4
      <4>2. i - n = j - n
        BY <2>3, <2>5, <2>7, <3>4, <4>1
      <4> QED
        BY <2>3, <4>2
    <3> QED
      BY <3>1, <3>2, <3>3, <3>4
  <2>8. IsInjective(held)
    <3>1. \A i, j \in 1 .. Len(held) : held[i] = held[j] => i = j
      BY <2>3, <2>7
    <3> QED
      BY <2>3, <3>1, SeqFacts
  <2> QED
    BY <2>1, <2>2, <2>8 DEF TaskInOnePlace, PlaceInv, held
<1> QED
  BY <1>1, PipeInvHolds, PTL

(* The header counts the lines that were accepted and beyond them only the *)
(* refused ones whose task reuse_queue had no room for                     *)
(* (generate.c:140-142, 166-168, 197).                                     *)
THEOREM HeaderCountsHolds == Spec => []HeaderCounts
<1>1. PipeInv => HeaderCounts
  <2> SUFFICES ASSUME PipeInv, rpc = "done"
               PROVE  num_lines = Cardinality(Good)
                        + Cardinality({t \in lost : ret[t] = "ERROR"})
    BY DEF HeaderCounts
  <2>1. /\ TypeOK /\ PlaceInv /\ LineInv /\ RetInv /\ EndInv /\ CountInv /\ DoneInv
    BY DEF PipeInv
  <2>2. Pipe = << >> /\ reuse = << >> /\ pos = Len(capture) /\ num_lines = lineno - filtered
    BY <2>1, PipeEmpty DEF DoneInv
  <2>3. Allocated = lost
    <3>1. ToSet(<< >>) = {}
      BY DEF ToSet
    <3> QED
      BY <2>1, <2>2, <3>1 DEF PlaceInv
  <2>4. BadTasks = {t \in lost : ret[t] = "ERROR"}
    BY <2>1, <2>3 DEF BadTasks, RetInv
  <2>5. Lines(pos) = Good \cup Refused(pos) /\ Good \cap Refused(pos) = {}
    <3>1. DOMAIN capture = 1 .. pos /\ \A i \in 1 .. pos : capture[i] \in Kinds
      BY <2>1, <2>2 DEF TypeOK
    <3> QED
      BY <3>1 DEF Lines, Good, Refused, Kinds, Bad
  <2>6. /\ IsFiniteSet(Lines(pos)) /\ IsFiniteSet(Refused(pos))
        /\ Cardinality(Refused(pos)) \in Nat /\ Cardinality(BadTasks) \in Nat
        /\ lineno = Cardinality(Lines(pos))
        /\ filtered + Cardinality(BadTasks) = Cardinality(Refused(pos))
        /\ filtered \in Nat
    BY <2>1, CountSets, CountIs DEF TypeOK
  <2>7. IsFiniteSet(Good) /\ Cardinality(Good) \in Nat
    <3>1. Good \in SUBSET Lines(pos)
      BY <2>5
    <3> QED
      BY <2>6, <3>1, FS_Subset, FS_CardinalityType
  <2>8. Cardinality(Lines(pos)) = Cardinality(Good) + Cardinality(Refused(pos))
    <3>1. Cardinality(Good \cup Refused(pos)) = Cardinality(Good) + Cardinality(Refused(pos))
            - Cardinality(Good \cap Refused(pos))
      BY <2>6, <2>7, FS_Union
    <3>2. Cardinality(Good \cap Refused(pos)) = 0
      BY <2>5, FS_EmptySet
    <3> QED
      BY <2>5, <2>6, <2>7, <3>1, <3>2
  <2> QED
    BY <2>2, <2>4, <2>6, <2>7, <2>8
<1> QED
  BY <1>1, PipeInvHolds, PTL

=============================================================================
