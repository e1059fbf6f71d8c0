-------------------------- MODULE MCBlueprintRender --------------------------
EXTENDS BlueprintRender, TLC

CONSTANTS a, x1, x2, x3, t1, t2

MCImportNames == {a}
MCTargetObjs  == {x1, x2, x3}
MCTargetTypes == {t1, t2}
\* x1 and x3 are of the declared type, x2 is not.
MCObjType     == (x1 :> t1) @@ (x2 :> t2) @@ (x3 :> t1)
====
