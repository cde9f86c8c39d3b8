----------------------------- MODULE MCDisplay -----------------------------
(* Workspaces with nested modules, two modules of one path, packages whose    *)
(* names end in _test, and external and internal tests.                       *)
EXTENDS Display

MCNames == {"m", "x", "y", "x_test", "y_test", "m_test", "x_test_test"}
MCTestName == [n \in {"m", "x", "y", "x_test"} |->
    CASE n = "m" -> "m_test" [] n = "x" -> "x_test" [] n = "y" -> "y_test"
      [] n = "x_test" -> "x_test_test"]

Source(dir, clause, test) == [dir |-> dir, clause |-> clause, test |-> test, built |-> TRUE]
Excluded(dir, clause) == [dir |-> dir, clause |-> clause, test |-> FALSE, built |-> FALSE]

\* The files of a directory, in the order of the walk.
Plain(dir) == {<<Source(dir, "x", FALSE)>>}
Tested(dir, name) ==
    {<<Source(dir, name, FALSE), Source(dir, TestName[name], TRUE)>>,
     <<Source(dir, TestName[name], TRUE), Source(dir, name, FALSE), Source(dir, name, TRUE)>>}
OnlyTests(dir) ==
    {<<Source(dir, "x_test", TRUE), Source(dir, "x", TRUE)>>,
     <<Excluded(dir, "x_test"), Source(dir, "x_test", TRUE)>>}

\* A directory x and one that is called as the external tests of x.
Similar == {a \o b : a \in Tested(<<"x">>, "x") \cup Plain(<<"x">>) \cup OnlyTests(<<"x">>),
                     b \in Tested(<<"x_test">>, "x_test") \cup Plain(<<"x_test">>)}

OneModule == <<[dir |-> <<>>, path |-> <<"m">>]>>
\* The module of directory y is nested and has the path of directory x.
Nested == <<[dir |-> <<>>, path |-> <<"m">>], [dir |-> <<"y">>, path |-> <<"m", "x">>]>>
\* Two copies of a module, and a file above them that belongs to none.
Copies == <<[dir |-> <<"x">>, path |-> <<"m">>], [dir |-> <<"y">>, path |-> <<"m">>]>>

Workspaces_(mods, files) ==
    {[modules |-> mods, files |-> f, symbolSet |-> s] : f \in files, s \in {"runtime", "test"}}

MCWorkspaces ==
    Workspaces_(OneModule, Similar)
    \cup Workspaces_(Nested, {a \o b : a \in Tested(<<"x">>, "x"), b \in Tested(<<"y">>, "x")})
    \cup Workspaces_(Copies,
            {<<Source(<<>>, "x", FALSE)>> \o a \o b : a \in Tested(<<"x">>, "x"), b \in Plain(<<"y">>)})

MCFunctions == {"G"}
MCTypes == {"T", "TX"}
MCBeginsWith == {<<"TX", "T">>}

=============================================================================
