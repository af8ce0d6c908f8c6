------------------------------- MODULE MCDriver -------------------------------
EXTENDS Driver

Source(dir, base) == [dir |-> dir, base |-> base]
\* Two files of one base name, one whose name another one is made to, and one beside them.
Clashing == {Source("a", <<"x">>), Source("b", <<"x">>), Source("a", <<"x", "-opt">>),
             Source("a", <<"y">>)}
Simple == {Source("a", <<"x">>), Source("a", <<"y">>)}
Lib == {Source("a", <<"lib">>)}
=============================================================================
