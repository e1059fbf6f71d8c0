------------------------- MODULE MCImportConstructor -------------------------
(* Small instance of ImportConstructor for TLC: every tree of up to three  *)
(* import definitions with up to two levels of conditional imports, and   *)
(* four lists of data-mapping executions.                                  *)
EXTENDS ImportConstructor

\* [top, cond] of a Blueprint's import tree.
Tree(t, c) == [top |-> t, cond |-> c]

MCShapes ==
    { Tree(<<"a">>,      "a" :> <<>>),
      Tree(<<"a", "b">>, ("a" :> <<>>) @@ ("b" :> <<>>)),
      Tree(<<"a">>,      ("a" :> <<"b">>) @@ ("b" :> <<>>)),
      Tree(<<"a", "c">>, ("a" :> <<"b">>) @@ ("b" :> <<>>) @@ ("c" :> <<>>)),
      Tree(<<"a">>,      ("a" :> <<"b">>) @@ ("b" :> <<"c">>) @@ ("c" :> <<>>)) }

MCTargetListValues == {<<>>, <<"t1", "t1">>, <<"t1", "t2">>}

\* ImportDataExecutions: none; one without a mapping; one that fails; one
\* mapping a name no other import has and a second that overrides it and
\* maps "a" (which the first one's output does not name).
MCDataExecutions ==
    { <<>>,
      <<Absent>>,
      <<Broken>>,
      <<"b" :> Valid, ("a" :> Invalid) @@ ("b" :> Invalid)>> }
=============================================================================
