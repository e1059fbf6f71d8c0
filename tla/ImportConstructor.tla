-------------------------- MODULE ImportConstructor --------------------------
(***************************************************************************)
(* Construction of an installation's imports                               *)
(* (Constructor.constructImports in pkg/landscaper/installations/imports/   *)
(* constructor.go): the Blueprint's import definitions, a tree through the *)
(* conditional imports of Data imports, are walked left to right and      *)
(* depth first against the values the providers fetched.                   *)
(*                                                                         *)
(* An import definition is a node name; the tree is "top" (the Blueprint's *)
(* import list) and "cond" (each node's conditional imports).  A provided  *)
(* value is abstracted to what the checks look at: for Data, whether it    *)
(* validates against the definition's schema; for a Target, whether it     *)
(* parses and its spec.type; for a TargetList, whether it parses, is a     *)
(* list, and its elements' spec.type; for descriptors, whether they parse. *)
(*                                                                         *)
(* Construct first runs templateDataMappings: the installation's          *)
(* ImportDataExecutions, in order, then its ImportDataMappings (spiff),   *)
(* over the fetched values.  Their results are the templated mappings    *)
(* constructImports prefers for Data imports.  A mapping's content is     *)
(* abstracted to whether it validates; what an execution saw is recorded *)
(* as the names its template context held under "imports".               *)
(***************************************************************************)
EXTENDS Naturals, Sequences, Functions, TLC

CONSTANTS
    Shapes,           \* candidate trees: [top : Seq(names), cond : [names -> Seq(names)]]
    TargetTypes,      \* spec.type values of targets
    DeclaredType,     \* the targetType the definitions declare
    TargetListValues, \* target lists considered: sequences of spec.type values
    Absent,           \* model value: no value provided / no such key / nil
    Unparsable,       \* model value: GetData() of the provided value fails
    NoType,           \* model value: a target without spec.type
    NotList,          \* model value: a targetlist value that is not a list
    Valid, Invalid,   \* model values: a data value passes / fails its schema
    Broken,           \* model value: a data-mapping template that fails to render
    DataExecutions    \* candidate ImportDataExecutions: sequences of outputs, each
                      \* Absent (no mapping), Broken, or [names -> {Valid, Invalid}]

ImportTypes == {"data", "target", "targetlist", "cd", "cdlist"}

\* def.Required: nil, true or false.
Requireds == {Absent, TRUE, FALSE}

\* What the providers hold for one name, by the definition's type.
Inputs(type) ==
    CASE type = "data" ->
            [mapping : {Absent, Valid, Invalid, Broken},  \* ImportDataMappings[name]
             object  : {Absent} \cup [data : {Valid, Invalid}]]
      [] type = "target" ->
            {Absent, Unparsable} \cup [type : TargetTypes \cup {NoType}]
      [] type = "targetlist" ->
            {Absent, Unparsable} \cup [data : {NotList} \cup TargetListValues]
      [] type \in {"cd", "cdlist"} -> {Absent, Unparsable, [data |-> type]}
      [] OTHER -> {Absent}

\* An import definition together with what the providers hold for it.
Nodes == UNION {[type : {t}, required : Requireds, input : Inputs(t)] :
                   t \in ImportTypes \cup {"unknown"}}

NamesOf(s) == DOMAIN s.cond

VARIABLES
    top,      \* inst.Blueprint.Info.Imports
    cond,     \* def.ConditionalImports per import
    node,     \* each import's definition and provided value
    execs,    \* inst.Info.Spec.ImportDataExecutions
    result    \* Construct's result, or Absent before it ran

vars == <<top, cond, node, execs, result>>

def(n)   == node[n]
input(n) == node[n].input

\* DataMappingFailed: the plain errors of templateDataMappings.
ErrorKinds == {"ImportNotFound", "SchemaValidationFailed", "UnknownImportType",
               "DataMappingFailed"}

Ok(m)     == [ok |-> TRUE, kind |-> "none", imports |-> m]
Fail(k)   == [ok |-> FALSE, kind |-> k, imports |-> <<>>]

\* imports[k] = v on a Go map.
Put(m, k, v) == (k :> v) @@ m

-----------------------------------------------------------------------------
(* templateDataMappings.                                                   *)

\* The names whose fetched value goes into templateValues: data objects,
\* targets, target lists and component descriptors (the descriptor lists
\* are dropped, "_ = importedComponentDescriptorLists").
MappedInputs ==
    {n \in DOMAIN node :
        \/ node[n].type = "data" /\ node[n].input.object # Absent
        \/ node[n].type \in {"target", "targetlist", "cd"} /\ node[n].input # Absent}

\* templateValues[name] = do.Data, or the GetData() of the other kinds.
FetchedValue(n) ==
    CASE node[n].type = "data"       -> node[n].input.object.data
      [] node[n].type = "target"     -> node[n].input
      [] node[n].input = Unparsable  -> Unparsable    \* GetData() fails
      [] OTHER                       -> node[n].input.data

TemplateValues == [n \in MappedInputs |-> FetchedValue(n)]

\* (The context's imports copied instead of shared with templateValues.)
ExecContextSnapshot(tv, tv0) == DOMAIN tv0

\* tctx.Values["imports"] is templateValues itself, so an execution sees
\* the mappings written by the executions before it.
ExecContext(tv, tv0) == DOMAIN tv

\* The ImportDataExecutions loop: each output's mapping goes into both
\* templateValues and values; an execution error ends templateDataMappings.
RECURSIVE RunDataExecutions(_, _, _, _, _)
RunDataExecutions(list, i, tv, values, saw) ==
    LET st == [ok |-> TRUE, tv |-> tv, values |-> values, saw |-> saw]
    IN IF i > Len(list) THEN st
       ELSE LET out   == list[i]
                saw1  == Append(saw, ExecContext(tv, TemplateValues))
            IN IF out = Broken THEN [st EXCEPT !.ok = FALSE, !.saw = saw1]
               ELSE IF out = Absent
               THEN RunDataExecutions(list, i + 1, tv, values, saw1)
               ELSE RunDataExecutions(list, i + 1, out @@ tv, out @@ values, saw1)

\* The ImportDataMappings, one spiff template per key, evaluated over
\* templateValues; a key's result overrides an execution's mapping.
SpiffMappings ==
    [n \in {m \in DOMAIN node : node[m].type = "data" /\ node[m].input.mapping # Absent}
        |-> node[n].input.mapping]

\* templateDataMappings: instImports (the fetched values, copied before any
\* execution ran), the templated mappings, and what each execution saw.
TemplateDataMappings ==
    LET unreadable == \E n \in MappedInputs : node[n].type # "data" /\ node[n].input = Unparsable
        r          == RunDataExecutions(execs, 1, TemplateValues, <<>>, <<>>)
        sm         == SpiffMappings
        spiffOk    == \A n \in DOMAIN sm : sm[n] # Broken
    IN [ok     |-> ~unreadable /\ r.ok /\ spiffOk,
        inst   |-> TemplateValues,
        values |-> sm @@ r.values,
        saw    |-> IF unreadable THEN <<>> ELSE r.saw]

\* templatedDataMappings as constructImports receives it.
Mappings == TemplateDataMappings.values

-----------------------------------------------------------------------------
(* The value each branch stores in imports.                                *)

\* Data: the templated data mapping is preferred over the data object.
DataValueObjectFirst(n) ==
    IF input(n).object # Absent THEN input(n).object.data
    ELSE IF n \in DOMAIN Mappings THEN Mappings[n] ELSE Absent

DataValue(n) ==
    IF n \in DOMAIN Mappings THEN Mappings[n]
    ELSE IF input(n).object # Absent THEN input(n).object.data ELSE Absent

\* val.GetData() of a target or target list.
GetData(n) ==
    IF def(n).type = "target" THEN input(n) ELSE input(n).data

\* val.GetData() of a component descriptor or descriptor list.
DescriptorData(n) == input(n).data

\* "def.Required != nil && !*def.Required": only an explicit false is optional.
IsOptionalNil(n) == def(n).required \in {Absent, FALSE}

IsOptional(n) == def(n).required = FALSE

\* The spec.type check of a target list, element by element.
ListTypesOkFirst(l) == l = <<>> \/ l[1] = DeclaredType

ListTypesOk(l) == \A i \in DOMAIN l : l[i] = DeclaredType

\* (The conditional imports stored under their parent's name.)
MergeConditionalNested(n, im, c) == Put(im, n, c)

\* "for k, v := range conditionalImports { imports[k] = v }"
MergeConditional(n, im, c) == c @@ im

-----------------------------------------------------------------------------
RECURSIVE constructImports(_), ConstructList(_, _, _)

\* One definition of the list, on the imports built so far.
ConstructDef(n, imports) ==
    CASE def(n).type = "data" ->
           LET v  == DataValue(n)
               im == IF v = Absent THEN imports ELSE Put(imports, n, v)
           IN IF n \notin DOMAIN im
              THEN IF IsOptional(n) THEN Ok(im) ELSE Fail("ImportNotFound")
              ELSE IF im[n] # Valid THEN Fail("SchemaValidationFailed")
              ELSE IF cond[n] = <<>> THEN Ok(im)
              ELSE LET c == constructImports(cond[n])
                   IN IF ~c.ok THEN c ELSE Ok(MergeConditional(n, im, c.imports))
      [] def(n).type \in {"target", "targetlist", "cd", "cdlist"} ->
           IF input(n) = Unparsable
           THEN Fail("SchemaValidationFailed")
           ELSE LET im == IF input(n) = Absent THEN imports
                          ELSE IF def(n).type \in {"cd", "cdlist"}
                          THEN Put(imports, n, DescriptorData(n))
                          ELSE Put(imports, n, GetData(n))
                IN IF n \notin DOMAIN im
                   THEN IF IsOptional(n) THEN Ok(im) ELSE Fail("ImportNotFound")
                   ELSE CASE def(n).type = "target" ->
                               IF im[n].type = DeclaredType THEN Ok(im)
                               ELSE Fail("SchemaValidationFailed")
                          [] def(n).type = "targetlist" ->
                               IF im[n] = NotList \/ ~ListTypesOk(im[n])
                               THEN Fail("SchemaValidationFailed")
                               ELSE Ok(im)
                          [] OTHER -> Ok(im)
      [] OTHER -> Fail("UnknownImportType")

ConstructList(list, i, imports) ==
    IF i > Len(list) THEN Ok(imports)
    ELSE LET r == ConstructDef(list[i], imports)
         IN IF ~r.ok THEN r ELSE ConstructList(list, i + 1, r.imports)

constructImports(list) == ConstructList(list, 1, <<>>)

-----------------------------------------------------------------------------
\* Any Blueprint and any provider contents.  Conditional imports hang
\* below Data imports only: constructImports never looks at others.
Init ==
    /\ \E s \in Shapes :
         /\ top = s.top
         /\ cond = s.cond
         /\ node \in [NamesOf(s) -> Nodes]
    /\ \A n \in DOMAIN cond : cond[n] # <<>> => node[n].type = "data"
    /\ execs \in DataExecutions
    /\ result = Absent

\* Construct: templateDataMappings, whose error is returned, then
\* constructImports with the templated mappings.
Construct ==
    /\ result = Absent
    /\ result' = IF TemplateDataMappings.ok THEN constructImports(top)
                 ELSE Fail("DataMappingFailed")
    /\ UNCHANGED <<top, cond, node, execs>>

Next == Construct

Spec == Init /\ [][Next]_vars

-----------------------------------------------------------------------------
(* The reference: spec 4.3 stated over the whole tree.  The definitions   *)
(* in pre-order are the order in which the checks are made; a definition  *)
(* is evaluated iff every ancestor is a satisfied Data import.            *)
(*                                                                         *)
(* The data mappings come first (spec 4.3 step 1, spec 2: the context is   *)
(* "mutated by accumulating imports keys as data mappings run"): every     *)
(* execution sees the fetched values and the mappings of the executions   *)
(* before it, an ImportDataMappings entry wins over an execution's        *)
(* mapping of the same name, and a later execution over an earlier one.   *)
(* Which fetched values are read (all but descriptor lists) and that any  *)
(* failure to read or render stops Construct are taken from the code.     *)

\* The executions that run: up to and including the first broken one.
SpecRan ==
    LET broken == {i \in DOMAIN execs : execs[i] = Broken}
    IN IF broken = {} THEN Len(execs) ELSE CHOOSE i \in broken : \A j \in broken : i <= j

SpecMapsIn(i) == execs[i] \notin {Absent, Broken}

\* The names an execution's template finds under "imports".
SpecSaw(i) ==
    MappedInputs \cup UNION {DOMAIN execs[j] : j \in {k \in 1..i - 1 : SpecMapsIn(k)}}

SpecMappingsOk ==
    /\ \A n \in DOMAIN node :
          node[n].type \in {"target", "targetlist", "cd"} => node[n].input # Unparsable
    /\ \A i \in DOMAIN execs : execs[i] # Broken
    /\ \A n \in DOMAIN node : node[n].type = "data" => node[n].input.mapping # Broken

\* The templated mapping of a name, or Absent.
SpecMapping(n) ==
    LET writers == {i \in DOMAIN execs : SpecMapsIn(i) /\ n \in DOMAIN execs[i]}
    IN IF node[n].type = "data" /\ node[n].input.mapping # Absent
       THEN node[n].input.mapping
       ELSE IF writers = {} THEN Absent
       ELSE execs[CHOOSE i \in writers : \A j \in writers : j <= i][n]

RECURSIVE PreOrder(_)
PreOrder(list) ==
    IF list = <<>> THEN <<>>
    ELSE <<Head(list)>> \o PreOrder(cond[Head(list)]) \o PreOrder(Tail(list))

\* Step 1: a templated mapping is preferred over the fetched value.
SpecValue(n) ==
    CASE node[n].type = "data" ->
           IF SpecMapping(n) # Absent THEN SpecMapping(n)
           ELSE IF node[n].input.object # Absent THEN node[n].input.object.data
           ELSE Absent
      [] node[n].type \in {"target", "targetlist"} /\ node[n].input \notin {Absent, Unparsable} ->
           IF node[n].type = "target" THEN node[n].input ELSE node[n].input.data
      [] node[n].type \in {"cd", "cdlist"} /\ node[n].input \notin {Absent, Unparsable} ->
           node[n].input.data
      [] OTHER -> node[n].input

Provided(n) == node[n].input # Absent /\ SpecValue(n) # Absent

\* Steps 3 to 5: schema, target type (of every list element), shape.
Validates(n) ==
    /\ node[n].input # Unparsable
    /\ node[n].type = "data"   => SpecValue(n) = Valid
    /\ node[n].type = "target" => SpecValue(n).type = DeclaredType
    /\ node[n].type = "targetlist" =>
         /\ SpecValue(n) # NotList
         /\ \A i \in DOMAIN SpecValue(n) : SpecValue(n)[i] = DeclaredType

\* Step 2 and 6: a missing value fails unless Required is false; an unknown
\* type fails whatever its required-ness.
FailsAlone(n) ==
    \/ node[n].type = "unknown"
    \/ ~Provided(n) /\ node[n].required # FALSE
    \/ Provided(n) /\ ~Validates(n)

SpecErrorKind(n) ==
    CASE node[n].type = "unknown" -> "UnknownImportType"
      [] ~Provided(n)             -> "ImportNotFound"
      [] OTHER                    -> "SchemaValidationFailed"

\* Step 7: conditional imports only below a satisfied Data import.
RECURSIVE Evaluated(_)
Evaluated(m) ==
    \A n \in DOMAIN cond :
        m \in Range(cond[n]) =>
            /\ node[n].type = "data" /\ Provided(n) /\ Validates(n)
            /\ Evaluated(n)

Reference ==
    LET order == PreOrder(top)
        bad   == {i \in DOMAIN order : Evaluated(order[i]) /\ FailsAlone(order[i])}
    IN IF ~SpecMappingsOk THEN Fail("DataMappingFailed")
       ELSE IF bad # {}
       THEN Fail(SpecErrorKind(order[CHOOSE i \in bad : \A j \in bad : i <= j]))
       ELSE Ok([n \in {m \in Range(order) : Evaluated(m) /\ Provided(m)} |->
                  SpecValue(n)])

-----------------------------------------------------------------------------
(* Properties.                                                             *)

\* The value constructImports stores for an import of the given type.
ValueOfType(t, v) ==
    CASE t = "data"       -> v \in {Valid, Invalid}
      [] t = "target"     -> v \in [type : TargetTypes \cup {NoType}]
      [] t = "targetlist" -> v \in {NotList} \cup TargetListValues
      [] OTHER            -> v \in {"cd", "cdlist"}

TypeOK ==
    /\ execs \in DataExecutions
    /\ \/ result = Absent
       \/ /\ result.ok \in BOOLEAN
          /\ result.kind \in ErrorKinds \cup {"none"}
          /\ DOMAIN result.imports \subseteq DOMAIN cond
          /\ \A n \in DOMAIN result.imports : ValueOfType(node[n].type, result.imports[n])

\* templateDataMappings shares one map between templateValues and the
\* executions' template context and copies it for instImports before the
\* first execution: each ImportDataExecution sees the fetched values and
\* the mappings of the executions before it, the result prefers an
\* ImportDataMappings entry over any execution and a later execution over
\* an earlier one, instImports keeps the fetched values only, and any
\* value that cannot be read or template that fails stops it.
DataMappingsMatchReference ==
    LET dm == TemplateDataMappings
    IN /\ dm.ok = SpecMappingsOk
       /\ dm.ok =>
            /\ dm.inst = [n \in MappedInputs |-> FetchedValue(n)]
            /\ dm.saw = [i \in 1..SpecRan |-> SpecSaw(i)]
            /\ \A n \in DOMAIN node : SpecMapping(n) = IF n \in DOMAIN dm.values
                                                       THEN dm.values[n] ELSE Absent

\* Construct = templateDataMappings, then constructImports walking the
\* conditional-import tree recursively and merging each level's result
\* into its parent's map, computes exactly what spec 4.3 says of the
\* templated mappings: the first failing evaluated definition in pre-order
\* decides the error, and otherwise the imports are the provided values of
\* the definitions whose ancestors are all satisfied Data imports, with
\* mappings preferred, required defaulting to true and every list element
\* type-checked.
ConstructMatchesReference ==
    result # Absent => result = Reference

=============================================================================
