---------------------------- MODULE MCTokenIndex ----------------------------
(* Files of up to three of the declarations below, and workspaces of several  *)
(* files in packages that share a path.                                       *)
EXTENDS TokenIndex

MCNames == {"A", "B", "C", "F", "M", "T", "x"}
MCPackages == {"P", "Q", "PTest"}
MCPaths == {"p", "p_test"}

D(toks, declares, called) == [tokens |-> toks, declares |-> declares, calls |-> called]

Pool == {
    \* func F() { A() }
    D(<<"func", "F", "(", ")", "other", "A", "(", ")", ";", "other", ";">>, {"F"}, {"A"}),
    \* func (x *T) M() { x.A() }
    D(<<"func", "(", "x", "other", "T", ")", "M", "(", ")", "other", "x", "other", "A",
        "(", ")", ";", "other", ";">>, {"M"}, {"A"}),
    \* func (T) M(x func(B) (C)) {}
    D(<<"func", "(", "T", ")", "M", "(", "x", "func", "(", "B", ")", "(", "C", ")", ")",
        "other", "other", ";">>, {"M"}, {}),
    \* type A struct { x func(T) }
    D(<<"type", "A", "other", "other", "x", "func", "(", "T", ")", ";", "other", ";">>,
      {"A"}, {}),
    \* type ( A struct { x T; F T }; B func(x T) (T); C (T) )
    D(<<"type", "(", "A", "other", "other", "x", "T", ";", "F", "T", ";", "other", ";",
        "B", "func", "(", "x", "T", ")", "(", "T", ")", ";", "C", "(", "T", ")", ";", ")", ";">>,
      {"A", "B", "C"}, {}),
    \* type ( A = T; B interface { M() } )
    D(<<"type", "(", "A", "other", "T", ";", "B", "other", "other", "M", "(", ")", ";",
        "other", ";", ")", ";">>, {"A", "B"}, {}),
    \* var ( x = func() { type ( A T ); F() }; T = B )
    D(<<"var", "(", "x", "other", "func", "(", ")", "other", "type", "(", "A", "T", ";", ")",
        ";", "F", "(", ")", ";", "other", ";", "T", "other", "B", ";", ")", ";">>, {}, {"F"}),
    \* const x = T(B)
    D(<<"const", "x", "other", "T", "(", "B", ")", ";">>, {}, {}),
    \* func F[T any](x T) { go func() { var A T }() }
    D(<<"func", "F", "other", "T", "other", "other", "(", "x", "T", ")", "other", "other",
        "func", "(", ")", "other", "var", "A", "T", ";", "other", "(", ")", ";", "other", ";">>,
      {"F"}, {}),
    \* type C[T any] struct { x T }
    D(<<"type", "C", "other", "T", "other", "other", "other", "other", "x", "T", ";", "other",
        ";">>, {"C"}, {})}

File(package, path, external, ds) ==
    [package |-> package, path |-> path, externalTest |-> external,
     tokens |-> FlattenSeq([i \in DOMAIN ds |-> ds[i].tokens]),
     declares |-> UNION {ds[i].declares : i \in DOMAIN ds},
     calls |-> UNION {ds[i].calls : i \in DOMAIN ds}]

\* One file with up to three declarations.
Alone == {<<File("P", "p", FALSE, ds)>> : ds \in UNION {[1..n -> Pool] : n \in 0..3}}

\* Three files of two packages with one path, and of an external test; one of
\* them may declare nothing.
Few == {<<>>} \cup {<<d>> : d \in {d \in Pool : "F" \in d.declares}}
Shared ==
    {<<File("Q", "p", FALSE, a), File("P", "p", FALSE, b), File("Q", "p", FALSE, a),
       File("PTest", "p_test", TRUE, b)>> : a \in Few, b \in Few}

MCWorkspaces == Alone \cup Shared

=============================================================================
