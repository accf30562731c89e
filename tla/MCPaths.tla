------------------------------- MODULE MCPaths -------------------------------
(* A small instance of Paths for TLC: a slave with an empty directory, beside *)
(* one whose name begins alike, and the ways to write "a", "a/b" and others.  *)
EXTENDS Paths, TLC

MCRoot  == <<"serverdir">>
MCDirs  == {<<>>, <<"serverdir">>, <<"serverdirx">>}
MCFiles == {<<"serverdirx", "a">>}

MCComponent == {"", ".", "..", "a", "b", "c", "serverdir", "serverdirx"}

MCRequest ==
  { <<"a">>, <<"", "", "a">>, <<".", "a">>, <<"a", "">>, <<"">>, <<"", "">>,
    <<"a", "b">>, <<"a", "", "b">>, <<"a", "..", "a">>, <<"a", "b", "c">>,
    <<"..">>, <<"..", "serverdirx", "a">>, <<"..", "serverdir", "a">>,
    <<"", "..", "serverdirx", "a">>, <<"a", ".">> }

\* The workers are interchangeable; the properties are invariants.
MCSymmetry == Permutations(Worker)
=============================================================================
