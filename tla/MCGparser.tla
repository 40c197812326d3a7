------------------------------ MODULE MCGparser ------------------------------
(* A finite instance of Gparser: names of which one begins another, nested *)
(* mount points, and lines with every kind of token.                       *)
EXTENDS Gparser

A == <<"a">>
AB == <<"a", "b">>
X == <<"x">>

Mount(p) == [mp |-> p, supported |-> TRUE]
Pseudo(p) == [mp |-> p, supported |-> FALSE]

MCProcMounts ==
  {<<Mount(<<>>), Mount(<<A>>)>>,
   <<Mount(<<>>), Pseudo(<<A, X>>), Mount(<<AB>>)>>,
   <<Pseudo(<<>>), Mount(<<A>>)>>,
   <<Mount(<<>>), Pseudo(<<A>>)>>,
   <<Mount(<<>>), Mount(<<A>>), Mount(<<A, X>>), Mount(<<X>>)>>,
   <<Mount(<<>>), Pseudo(<<A>>), Pseudo(<<X>>), Pseudo(<<AB>>), Pseudo(<<A, X>>)>>}

(* An unsupported root, and an unsupported file system on a supported one. *)
MCRootMounts == {<<Pseudo(<<>>), Mount(<<A>>)>>}
MCDotMounts == {<<Mount(<<>>), Pseudo(<<A, X>>)>>}

Tok(k) == [key |-> k, number |-> FALSE, n |-> 0, op |-> "", text |-> NoText]
Num(k, i) == [Tok(k) EXCEPT !.number = TRUE, !.n = i]
OpTok(o) == [Tok("o") EXCEPT !.op = o]
PathTok(p) == [Tok("p") EXCEPT !.text = Absolute(p)]
TargetTok(t) == [Tok("P") EXCEPT !.text = t]

Paths == {<<X>>, <<A, X>>, <<AB, X>>, <<A, DotDot, X>>, <<X, DotDot, A, X>>,
          <<A, <<>>, X>>, <<A, Dot, X>>, <<DotDot>>,
          <<<<"a", ".", ".">>, Dot, X>>, <<<<"tmp">>, <<"namespace-", "x">>>>}
Targets == {Absolute(<<X>>), Absolute(<<A>>), Absolute(<<A, X, AB>>), Relative(<<X>>),
            Relative(<<DotDot, A, X>>), Relative(<<DotDot, DotDot>>),
            Relative(<<Dot, AB>>)}

SmallTokens == {Num("i", 1), Num("i", -1), OpTok("close"), Num("t", 4),
                Num("t", 5), Num("d", 3), Num("d", -1), Tok("d"), Tok("D"),
                Tok("x")}

MCLines ==
  UNION {[1 .. n -> SmallTokens] : n \in 0 .. 2}
    \cup {<<Num("t", t)>> \o s : t \in {4, 6}, s \in
            {<<Num("i", 1), OpTok("close")>>,
             <<Num("d", 3), OpTok("close"), Num("i", 1)>>,
             <<Num("d", -1), OpTok("close"), Num("i", 1), Num("d", 3)>>,
             <<Num("d", 3), OpTok("close"), Num("i", 1), Num("d", 4)>>,
             <<Num("i", 1), OpTok("close"), Tok("D"), Tok("D"), Tok("D")>>}}
    \cup {<<Num("t", 4), Num("i", 1), OpTok("unlink"), PathTok(p)>> : p \in Paths}
    \cup {<<Num("t", 4), Num("i", 1), OpTok("rename"), PathTok(p),
            TargetTok(Absolute(q))>> : p \in Paths, q \in Paths}
    \cup {<<Num("t", 4), Num("i", 1), OpTok("readlink"), PathTok(p),
            TargetTok(t)>> : p \in Paths, t \in Targets}
=============================================================================
