--------------------------- MODULE BlueprintRender ---------------------------
(***************************************************************************)
(* The blueprint renderer's import handling (RenderBlueprint in            *)
(* pkg/utils/landscaper/blueprint.go): the imports read from the values    *)
(* file are merged with those passed in by the caller, validated against   *)
(* the Blueprint's import definitions (ValidateImports), and the target of *)
(* a rendered DeployItem is resolved from a literal name, a Target import, *)
(* or an element of a TargetList import (RenderBlueprintDeployItems).      *)
(*                                                                         *)
(* A value is abstracted to the Go type the code asserts on: a target      *)
(* object (map[string]interface{}, a model value of TargetObjs with its    *)
(* spec.type), a list in one of the two Go representations -- "ifaces",    *)
(* []interface{}, which is what YAML decoding yields, or "maps",            *)
(* []map[string]interface{}, which only a caller building the value in Go  *)
(* can pass -- or a scalar.  Templating of the deploy execution, which     *)
(* produces the target reference, is modelled in BlueprintTemplater; here  *)
(* the reference is any the template can produce.                          *)
(***************************************************************************)
EXTENDS Integers, SequencesExt

CONSTANTS
    ImportNames,   \* names of imports
    TargetObjs,    \* target objects (model values)
    ObjType,       \* spec.type of each target object
    TargetTypes,
    DeclaredType,  \* the targetType the import definitions declare
    LitName,       \* model value: a literal target name in the template
    Scalar,        \* model value: a value that is neither object nor list
    Missing,       \* model value: no such key / no such definition / nil
    MaxLen         \* bound on the length of a list value

ASSUME ObjType \in [TargetObjs -> TargetTypes] /\ DeclaredType \in TargetTypes

Lists(kind) == [kind : {kind}, elems : BoundedSeq(TargetObjs, MaxLen)]

\* Values in a YAML values file, and values a Go caller may pass.
FileValues == {Scalar} \cup TargetObjs \cup Lists("ifaces")
ArgValues  == FileValues \cup Lists("maps")

\* An import definition of the Blueprint (Required defaulted by the loader).
Defs == [type : {"data", "target", "targetlist", "cd", "cdlist", "unknown"},
         required : BOOLEAN]

\* What the caller sets of BlueprintRenderArgs: Imports (non-nil or nil),
\* ImportValuesFilepath (empty, a readable file, or one that cannot be
\* read), and whether RootDir/example/imports.yaml exists.
Given == [imports : BOOLEAN, path : {"none", "ok", "unreadable"}, example : BOOLEAN]

\* elem.Target of a deploy execution: Name, Import, Index (Missing = nil),
\* or Missing when the template gave the deploy item no target.
Refs == [name : {"", LitName}, import : {""} \cup ImportNames,
         index : {Missing} \cup -1..MaxLen] \cup {Missing}

Outcomes == [kind : {"read_error", "invalid", "spec_error", "panic", "sub_error"}] \cup
            [kind : {"ok"}, target : {LitName} \cup TargetObjs]

VARIABLES
    given,   \* the BlueprintRenderArgs fields that decide which imports are read
    decl,    \* bp.Info.Imports, by name (Missing: not declared)
    file,    \* the imports of the values file (Missing: no such key)
    args,    \* args.Imports
    ref,     \* the target reference of the deploy execution
    result   \* RenderBlueprint's outcome, Missing before it ran

vars == <<given, decl, file, args, ref, result>>

ReadError == [kind |-> "read_error"]
Invalid   == [kind |-> "invalid"]
SubError  == [kind |-> "sub_error"]
SpecError == [kind |-> "spec_error"]
Panic     == [kind |-> "panic"]     \* a nil pointer dereference
Resolved(t) == [kind |-> "ok", target |-> t]

-----------------------------------------------------------------------------
(* Default, MergeImports and the validators.                               *)

\* Default: without caller imports and without a values path, the path is
\* defaulted to example/imports.yaml, and cleared again if no file is there.
ValuesPath(g) ==
    IF g.path # "none" THEN g.path
    ELSE IF ~g.imports /\ g.example THEN "ok" ELSE "none"

NoImports == [k \in ImportNames |-> Missing]

\* (The values file winning over the caller's imports.)
MergeImportsFileWins(a, b) ==
    [k \in ImportNames |-> IF a[k] # Missing THEN a[k] ELSE b[k]]

\* MergeImports(&imports, args.Imports): every import of b is written into a.
MergeImports(a, b) ==
    [k \in ImportNames |-> IF b[k] # Missing THEN b[k] ELSE a[k]]

\* (spec.type not compared.)
ValidTargetAnyType(v) == v \in TargetObjs

\* validateTargetImport: an object whose spec.type is the declared type.
ValidTarget(v) == v \in TargetObjs /\ ObjType[v] = DeclaredType

\* validateTargetListImport: a []interface{} each element of which is a
\* valid target; any other value, a []map[string]interface{} included,
\* fails the type assertion and then ranges over a nil list.
ValidTargetList(v) ==
    v \in Lists("ifaces") /\ \A i \in DOMAIN v.elems : ValidTarget(v.elems[i])

\* validateComponentDescriptorImport: an object (map[string]interface{}).
ValidCD(v) == v \in TargetObjs

\* validateComponentDescriptorListImport: a []interface{} of objects; any
\* other value fails the assertion, is reported, and ranges over nil.
ValidCDList(v) ==
    v \in Lists("ifaces") /\ \A i \in DOMAIN v.elems : ValidCD(v.elems[i])

\* ValidateImports: the errors of all definitions are aggregated; a missing
\* value is an error only for a required import, and an unknown type is an
\* error.  The Data schema check is left out: the properties are about
\* targets.
ValidateImports(imports) ==
    \A n \in ImportNames : decl[n] # Missing =>
        IF imports[n] = Missing THEN ~decl[n].required
        ELSE CASE decl[n].type = "target"     -> ValidTarget(imports[n])
               [] decl[n].type = "targetlist" -> ValidTargetList(imports[n])
               [] decl[n].type = "cd"         -> ValidCD(imports[n])
               [] decl[n].type = "cdlist"     -> ValidCDList(imports[n])
               [] decl[n].type = "unknown"    -> FALSE
               [] OTHER                       -> TRUE

-----------------------------------------------------------------------------
(* Target resolution in RenderBlueprintDeployItems.                        *)

\* blueprint.GetImportByName found the import and it is a Target.
IsTargetImport(imp) == imp # Missing /\ imp.type = "target"

\* val[*elem.Target.Index] on a Go slice.
ListElement(v, i) == v.elems[i + 1]

\* (The "empty target reference" check dropped.)
LiteralTargetUnchecked(r) == Resolved(r.name)

\* A target given by its literal name; an empty name is an error.
LiteralTarget(r) == IF r.name = "" THEN SpecError ELSE Resolved(r.name)

\* The branch taken for an Index, for an Import, or for neither; the
\* ObjectReference is built from elem.Target.Name before any branch.
ResolveTarget(imports) ==
    IF ref = Missing THEN Panic ELSE
    LET raw == IF ref.import \in ImportNames THEN imports[ref.import] ELSE Missing
        imp == IF ref.import \in ImportNames THEN decl[ref.import] ELSE Missing
    IN CASE ref.index # Missing ->
              IF \/ imp = Missing \/ imp.type # "targetlist" \/ raw = Missing
                 \/ raw \notin Lists("maps")
                 \/ ref.index < 0 \/ ref.index >= Len(raw.elems)
              THEN SpecError
              ELSE Resolved(ListElement(raw, ref.index))
         [] ref.import # "" ->
              IF ~IsTargetImport(imp) \/ raw = Missing \/ raw \notin TargetObjs
              THEN SpecError
              ELSE Resolved(raw)
         [] OTHER -> LiteralTarget(ref)

-----------------------------------------------------------------------------
\* Any Blueprint, values file, caller imports and deploy execution target.
Init ==
    /\ given \in Given
    /\ decl \in [ImportNames -> {Missing} \cup Defs]
    /\ file \in [ImportNames -> {Missing} \cup FileValues]
    /\ args \in IF given.imports THEN [ImportNames -> {Missing} \cup ArgValues]
                ELSE {NoImports}
    /\ ref \in Refs
    /\ result = Missing

\* The imports of the values file, if one is read.
ValuesFile(path) == IF path = "ok" THEN file ELSE NoImports

\* RenderBlueprint: Default, read the values file, merge, ValidateImports,
\* RenderBlueprintDeployItems, then RenderBlueprintSubInstallations, which
\* fails when the blueprint's subinstallations cannot be read, their
\* executions cannot be templated, or a subinstallation's blueprint cannot
\* be found; each error ends the render.
Render ==
    /\ result = Missing
    /\ LET path    == ValuesPath(given)
           imports == IF given.imports THEN MergeImports(ValuesFile(path), args)
                      ELSE ValuesFile(path)
           items   == ResolveTarget(imports)
       IN \E subOk \in BOOLEAN :
            result' = CASE path = "unreadable"      -> ReadError
                        [] ~ValidateImports(imports) -> Invalid
                        [] items.kind # "ok"         -> items
                        [] ~subOk                    -> SubError
                        [] OTHER                     -> items
    /\ UNCHANGED <<given, decl, file, args, ref>>

Next == Render

Spec == Init /\ [][Next]_vars

-----------------------------------------------------------------------------
(* The reference: spec 4.5.  A target list is any list value, whichever   *)
(* Go slice type holds it.  Where a reference has both an import and a    *)
(* literal name the spec gives no precedence; the code's is kept.         *)

IsList(v) == v \in Lists("ifaces") \cup Lists("maps")

SpecResolve(imports) ==
    IF ref = Missing THEN SpecError ELSE
    LET raw == IF ref.import \in ImportNames THEN imports[ref.import] ELSE Missing
        imp == IF ref.import \in ImportNames THEN decl[ref.import] ELSE Missing
    IN CASE ref.index # Missing ->
              IF /\ imp # Missing /\ imp.type = "targetlist" /\ IsList(raw)
                 /\ ref.index \in 0..(Len(raw.elems) - 1)
              THEN Resolved(raw.elems[ref.index + 1])
              ELSE SpecError
         [] ref.import # "" ->
              IF imp # Missing /\ imp.type = "target" /\ raw \in TargetObjs
              THEN Resolved(raw)
              ELSE SpecError
         [] ref.name = "" -> SpecError
         [] OTHER -> Resolved(LitName)

\* "MergeImports merges all imports of b into a": the caller's imports
\* override those of the values file.
Merged == [k \in ImportNames |->
              IF args[k] # Missing THEN args[k] ELSE ValuesFile(ValuesPath(given))[k]]

\* The renders whose deploy items were resolved against validated imports.
Rendered == result \in Outcomes /\ result.kind \notin {"read_error", "invalid", "sub_error"}

-----------------------------------------------------------------------------
(* Properties.                                                             *)

TypeOK ==
    /\ given \in Given
    /\ decl \in [ImportNames -> {Missing} \cup Defs]
    /\ file \in [ImportNames -> {Missing} \cup FileValues]
    /\ args \in [ImportNames -> {Missing} \cup ArgValues]
    /\ ref \in Refs
    /\ result \in {Missing} \cup Outcomes

\* A DeployItem is only ever rendered against a target object of the
\* declared targetType: whatever the values file and the caller provide,
\* the merged value ValidateImports checked is the one resolution reads.
ResolvedTargetHasDeclaredType ==
    result \in Outcomes /\ result.kind = "ok" /\ result.target \in TargetObjs =>
        ObjType[result.target] = DeclaredType

\* Once the imports validated, a literal name or a Target import reference
\* resolves as spec 4.5 says, the merged value (caller's over file's) read.
SingleTargetResolution ==
    Rendered /\ ref # Missing /\ ref.index = Missing =>
        result = SpecResolve(Merged)

\* Once the imports validated, every deploy item's target resolves as spec
\* 4.5 says: a TargetList reference with an index in [0, len) to that
\* element of the list, and a deploy item without any target reference to
\* the "empty target reference" error.
TargetResolution ==
    Rendered => result = SpecResolve(Merged)

====
