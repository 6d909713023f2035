--------------------------- MODULE MCModuleProgram --------------------------
(* Programs of up to three modules: all graphs in which the root has at most *)
(* two imports and the others at most one, and chosen ones for names, limits *)
(* and the second language.                                                  *)
EXTENDS ModuleProgram

Import(t, names) == [kind |-> "import", target |-> t, names |-> names]
Alias(t, a) == [kind |-> "alias", target |-> t, name |-> a]
Export(names) == [kind |-> "export", names |-> names]
Let(n) == [kind |-> "let", name |-> n]

File(statements, fault) == [statements |-> statements, bytes |-> 1, fault |-> fault]
Fine(statements) == File(statements, "none")
NoLimits == [bytes |-> 9, modules |-> 9, depth |-> 9, diagnostics |-> 9]

Program(language, source) ==
    [language |-> language, source |-> source, resolves |-> TRUE, commands |-> FALSE,
     limits |-> NoLimits, stops |-> {}, ends |-> {"continued"}, starts |-> {<<>>}]
Stopped(p) == [p EXCEPT !.stops = {"cancel", "work"}]
Limited(p, kind, n) == [p EXCEPT !.limits[kind] = n]
Checked(p) == [p EXCEPT !.commands = TRUE]

\* Every module declares and exports its own name, and may import those of others.
Imports1(m) == {Import(t, names) : t \in 0..3, names \in {<<>>}} \cup {Import(t, <<t>>) : t \in (1..3) \ {m}}
Body(m, imports) == imports \o <<Let(m), Export(<<m>>)>>
Few(m, n) == UNION {[1..k -> Imports1(m)] : k \in 0..n}
Graphs ==
    {Program(1, <<Fine(Body(1, r)), Fine(Body(2, a)), Fine(Body(3, b))>>) :
        r \in Few(1, 2), a \in Few(2, 1), b \in Few(3, 1)}

\* A diamond, with every end of its modules and of their jobs.
Diamond ==
    <<Fine(<<Import(2, <<2>>), Import(3, <<3>>), Import(4, <<>>)>>),
      Fine(<<Import(4, <<4>>), Let(2), Export(<<2>>)>>),
      Fine(<<Import(4, <<4>>), Let(3), Export(<<3>>)>>),
      Fine(<<Let(4), Export(<<4>>)>>)>>
Running ==
    {[Program(1, Diamond) EXCEPT !.ends = {"continued", "exit", "error"},
                                 !.starts = {<<>>, <<"ends">>, <<"fails">>}],
     Stopped(Program(1, Diamond)),
     [Program(1, Diamond) EXCEPT !.resolves = FALSE]}

\* Names that are private, unknown, exported or imported twice, or taken.
Owners == {<<Let(2), Export(<<2>>)>>, <<Let(2)>>, <<Export(<<2>>)>>, <<Let(2), Export(<<2, 2>>)>>,
           <<Let(2), Export(<<2>>), Export(<<2>>)>>}
Users == {<<Import(2, <<2>>)>>, <<Import(2, <<2, 2>>)>>, <<Import(2, <<2>>), Let(2)>>,
          <<Import(2, <<2>>), Import(3, <<2>>)>>, <<Import(2, <<>>), Import(2, <<2>>)>>}
Names ==
    {Program(1, <<Fine(u), Fine(o), Fine(<<Let(2), Export(<<2>>)>>)>>) : u \in Users, o \in Owners}

Faulty ==
    {Checked(Program(1, <<Fine(<<Import(2, <<>>), Import(3, <<3>>)>>), File(<<>>, f), File(<<Let(3), Export(<<3>>)>>, g)>>)) :
        f, g \in {"none", "read", "utf8", "syntax", "reference", "signature", "pipeline", "warning"}}

\* The second language: aliases, re-exported or in conflict, and limits.
Facade ==
    <<Fine(<<Alias(2, 8), Alias(Standard, 7), Alias(3, 6), Export(<<8>>)>>),
      Fine(<<Alias(3, 8), Alias(3, 9), Let(2), Export(<<2, 8, 9>>)>>),
      Fine(<<Let(3), Export(<<3>>)>>)>>
Aliasing ==
    {[Stopped(Program(2, Facade)) EXCEPT !.ends = {"continued", "exit", "cancelled", "refused", "error", "fatal"}],
     Program(2, <<Fine(<<Alias(2, 8), Alias(3, 8)>>), Fine(<<>>), Fine(<<>>)>>),
     Program(2, <<Fine(<<Alias(2, 8), Let(8)>>), Fine(<<>>)>>),
     Program(2, <<Fine(<<Alias(2, 8), Export(<<8, 8>>)>>), Fine(<<Alias(Nowhere, 8)>>)>>)}
Tight ==
    {Limited(Program(2, [Facade EXCEPT ![3].bytes = 2]), kind, n) : kind \in {"bytes", "modules", "depth"}, n \in 1..4}
    \cup {Limited(Checked(Program(2, <<File(<<Alias(2, 8), Export(<<1>>)>>, "pipeline"), Fine(<<Export(<<1, 2>>)>>)>>)),
                  "diagnostics", n) : n \in 0..4}

MCSetups == Graphs \cup Running \cup Names \cup Faulty \cup Aliasing \cup Tight

\* What the further configurations are about.
Shallow ==
    {Limited(Program(2, <<Fine(<<Alias(2, 8), Alias(3, 9)>>), Fine(<<Alias(4, 8)>>), Fine(<<Alias(2, 8)>>), Fine(<<>>)>>),
             "depth", 3)}
Aliased == {Program(2, Facade)}
=============================================================================
