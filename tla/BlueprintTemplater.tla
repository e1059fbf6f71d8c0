------------------------- MODULE BlueprintTemplater -------------------------
(***************************************************************************)
(* The execution orchestrator of the landscaper (Templater in             *)
(* pkg/landscaper/installations/template/templater_blueprint.go; the copy  *)
(* in installations/executions/template/template_new.go is identical) and  *)
(* the state store it reads and writes between reconciles.                 *)
(*                                                                         *)
(* A pass is one call of TemplateImportExecutions, ...Subinstallation...,  *)
(* ...Deploy... or ...Export...: it runs the Blueprint's executions of     *)
(* that kind in order, one loop iteration per Step.  Passes never overlap  *)
(* (the reconciler runs one at a time per installation) but the state     *)
(* store outlives them, so several passes are modelled one after another.  *)
(*                                                                         *)
(* Data is abstracted to what the properties tell apart: an import value   *)
(* is its key, a template's opaque state is a record naming the           *)
(* generation of its generated content and the execution that wrote it,   *)
(* an export value is the position of the execution that produced it.     *)
(***************************************************************************)
EXTENDS Naturals, Sequences, FiniteSets

CONSTANTS
    Names,         \* execution names
    Types,         \* template types in blueprints: "GoTemplate", "Spiff", others
    Sources,       \* template sources: "inline", "file", "none"
    OrigImports,   \* keys of the imports the installation passes in
    BindingKeys,   \* keys an import execution may bind
    ExportKeys,    \* keys an export execution may export
    MaxExecs,      \* executions per kind in a blueprint
    MaxPasses,     \* number of passes
    MaxGen,        \* number of fresh state generations
    Empty,         \* model value: the present but empty state []byte{}
    Nil            \* model value: nil map / nil state / no value

Kinds == {"import", "subinstallation", "deploy", "export"}
Engines == {"GoTemplate", "Spiff"}

\* The state prefix each kind passes to execute().
Prefix(kind) ==
    CASE kind = "import"          -> "import"
      [] kind = "subinstallation" -> "deploy"
      [] kind = "deploy"          -> "deploy"
      [] kind = "export"          -> "export"

Keys == {<<Prefix(k), n>> : k \in Kinds, n \in Names}

Executors == [name : Names, type : Types, source : Sources]
Blobs     == [gen : 1..MaxGen, kind : Kinds, name : Names]

VARIABLES
    store,    \* the state store: key -> blob, or Nil when none is stored
    nextGen,  \* next fresh generation of generated state content
    pass,     \* the running pass, or Nil
    passes    \* number of passes started

vars == <<store, nextGen, pass, passes>>

Passes ==
    [kind : Kinds, execs : Seq(Executors), pos : Nat,
     status : {"running", "done", "error"},
     ctx : SUBSET (OrigImports \cup BindingKeys),  \* tctx.Values["imports"]
     bindings : SUBSET BindingKeys,
     errors : Seq(Nat),                           \* positions that reported errors
     exports : [ExportKeys -> Nat],               \* 0 = key not exported
     outs : Seq(SUBSET ExportKeys \cup SUBSET BindingKeys \cup {Nil})]

-----------------------------------------------------------------------------
(* getState / storeState.                                                  *)

\* What getState hands to the engine: the stored blob, [] (Empty) when
\* the store reports StateNotFound, or nil when Get fails (the error is
\* assigned to err and then overwritten by the Execute call).
GetStateResults(key) ==
    {IF store[key] = Nil THEN Empty ELSE store[key], Nil}

\* (A store that writes the empty state instead of skipping it.)
StoreStateEmpty(key, st) == [store EXCEPT ![key] = IF st = Nil THEN Empty ELSE st]

\* storeState: zero-length state is not stored.
StoreState(key, st) ==
    IF st = Nil THEN store ELSE [store EXCEPT ![key] = st]

(* The engines' state handling (spifftemplate.go, gotemplate.go Execute).  *)
(* A template either declares state fields or not.  With state handling   *)
(* on, a declared state keeps what it read and fills what is missing from *)
(* fresh generated content; with nil state data, GoTemplate returns nil   *)
(* while Spiff still determines a state from the template's own fields.  *)
NewState(engine, statedata, stateful, kind, name) ==
    CASE ~stateful -> Nil
      [] statedata = Nil /\ engine = "GoTemplate" -> Nil
      [] statedata \in {Nil, Empty} ->
            [gen |-> nextGen, kind |-> kind, name |-> name]
      [] OTHER -> [gen |-> statedata.gen, kind |-> kind, name |-> name]

NeedsFreshGen(engine, statedata, stateful) ==
    /\ stateful
    /\ statedata \in {Nil, Empty}
    /\ ~(statedata = Nil /\ engine = "GoTemplate")

-----------------------------------------------------------------------------
(* Merging one execution's output into the pass.                           *)

\* TemplateImportExecutions: "imports" is looked up in the context, but the
\* nil test is made on the freshly declared map, so a fresh map holding
\* only this execution's bindings replaces the context's imports.
MergeBindings(p, b) == [p EXCEPT !.ctx = b, !.bindings = @ \cup b]

\* (Errors checked before the bindings are merged.)
MergeImportOutputErrFirst(p, b, errs) ==
    IF errs THEN [p EXCEPT !.errors = Append(@, p.pos), !.status = "done"]
    ELSE IF b = Nil THEN p ELSE MergeBindings(p, b)

MergeImportOutput(p, b, errs) ==
    LET q == IF b = Nil THEN p ELSE MergeBindings(p, b)
    IN IF errs THEN [q EXCEPT !.errors = Append(@, p.pos), !.status = "done"]
       ELSE q

\* (A merge that keeps the first value of a key.)
MergeMapsFirstWins(exports, keys, pos) ==
    [k \in ExportKeys |-> IF k \in keys /\ exports[k] = 0 THEN pos ELSE exports[k]]

\* utils.MergeMaps(exportData, output.Exports): later keys overwrite.
MergeMaps(exports, keys, pos) ==
    [k \in ExportKeys |-> IF k \in keys THEN pos ELSE exports[k]]

-----------------------------------------------------------------------------
\* BlueprintExecutionOptions.Values: tctx.Values["imports"] is the
\* installation's imports.
ContextImports == OrigImports

\* opts.TemplateContext: building the values (serializing the component
\* descriptors and the installation's references) may fail, and the pass
\* then returns before its first execution.
StartStatus(ctxOk, n) ==
    CASE ~ctxOk -> "error"
      [] n = 0  -> "done"
      [] OTHER  -> "running"

StartPass ==
    /\ pass = Nil
    /\ passes < MaxPasses
    /\ \E kind \in Kinds, n \in 0..MaxExecs, ctxOk \in BOOLEAN :
         \E execs \in [1..n -> Executors] :
           pass' = [kind |-> kind, execs |-> execs, pos |-> 1,
                    status |-> StartStatus(ctxOk, n),
                    ctx |-> ContextImports, bindings |-> {}, errors |-> <<>>,
                    exports |-> [k \in ExportKeys |-> 0],
                    outs |-> <<>>]
    /\ passes' = passes + 1
    /\ UNCHANGED <<store, nextGen>>

\* The part of an execution's output the pass uses: an import execution's
\* bindings (nil when it sets none), an export execution's exported keys.
Outputs(kind) ==
    CASE kind = "import" -> {Nil} \cup SUBSET BindingKeys
      [] kind = "export" -> SUBSET ExportKeys
      [] OTHER           -> {{}}

Finish(p) == IF p.pos = Len(p.execs) THEN "done" ELSE "running"

\* One iteration of the pass loop: execute() and the kind's merge.
\* Errors before the engine runs (unknown type, no template, unreadable
\* file) end the pass without touching the store.
ExecuteFailsEarly ==
    /\ pass # Nil /\ pass.status = "running"
    /\ LET e == pass.execs[pass.pos]
       IN \/ e.type \notin Engines
          \/ e.source = "none"
          \/ e.source = "file"
    /\ pass' = [pass EXCEPT !.status = "error"]
    /\ UNCHANGED <<store, nextGen, passes>>

Step ==
    /\ pass # Nil /\ pass.status = "running"
    /\ LET e   == pass.execs[pass.pos]
           key == <<Prefix(pass.kind), e.name>>
       IN /\ e.type \in Engines
          /\ e.source \in {"inline", "file"}
          /\ \E sd \in GetStateResults(key), stateful \in BOOLEAN,
                engineOk \in BOOLEAN, storeOk \in BOOLEAN,
                out \in Outputs(pass.kind),
                errs \in (IF pass.kind = "import" THEN BOOLEAN ELSE {FALSE}) :
               LET st == NewState(e.type, sd, stateful, pass.kind, e.name)
                   fresh == NeedsFreshGen(e.type, sd, stateful)
                   p1 == [pass EXCEPT !.outs = Append(@, out)]
               IN /\ fresh => nextGen <= MaxGen
                  /\ IF ~engineOk \/ (st # Nil /\ ~storeOk)
                     THEN /\ pass' = [p1 EXCEPT !.status = "error"]
                          /\ UNCHANGED <<store, nextGen>>
                     ELSE /\ store' = StoreState(key, st)
                          /\ nextGen' = IF fresh THEN nextGen + 1 ELSE nextGen
                          /\ pass' =
                               LET p2 == CASE pass.kind = "import" ->
                                                MergeImportOutput(p1, out, errs)
                                           [] pass.kind = "export" ->
                                                [p1 EXCEPT !.exports =
                                                   MergeMaps(@, out, pass.pos)]
                                           [] OTHER -> p1
                               IN IF p2.status = "done" THEN p2
                                  ELSE [p2 EXCEPT !.status = Finish(pass),
                                                  !.pos = pass.pos + 1]
    /\ UNCHANGED passes

\* The caller takes the result; the next reconcile starts a new pass.
EndPass ==
    /\ pass # Nil /\ pass.status \in {"done", "error"}
    /\ pass' = Nil
    /\ UNCHANGED <<store, nextGen, passes>>

Init ==
    /\ store = [k \in Keys |-> Nil]
    /\ nextGen = 1
    /\ pass = Nil
    /\ passes = 0

Next == StartPass \/ ExecuteFailsEarly \/ Step \/ EndPass

Spec == Init /\ [][Next]_vars

-----------------------------------------------------------------------------
(* Properties.                                                             *)

TypeOK ==
    /\ store \in [Keys -> Blobs \cup {Nil}]
    /\ nextGen \in 1..MaxGen + 1
    /\ pass \in Passes \cup {Nil}
    /\ passes \in 0..MaxPasses

\* The positions of a pass's executions that have run.
Ran(p) == 1..Len(p.outs)

\* TemplateImportExecutions: no import execution runs after one reports
\* validation errors, the pass returns exactly that execution's errors,
\* and the bindings it returns are those of every execution that ran, the
\* failing one included (spec 4.4, first-failure-wins).
ImportErrorsStopBatch ==
    pass # Nil /\ pass.kind = "import" /\ pass.status = "done" =>
        /\ Len(pass.errors) <= 1
        /\ pass.errors = <<>> => Len(pass.outs) = Len(pass.execs)
        /\ pass.errors # <<>> => pass.errors = <<Len(pass.outs)>>
        /\ pass.bindings = UNION {pass.outs[i] : i \in {j \in Ran(pass) : pass.outs[j] # Nil}}

\* TemplateExportExecutions: every exported key carries the value of the
\* last execution that exported it (spec 4.4, last-write-wins).
ExportLastWriteWins ==
    pass # Nil /\ pass.kind = "export" /\ pass.status = "done" =>
        \A k \in ExportKeys :
            LET writers == {i \in Ran(pass) : k \in pass.outs[i]}
            IN pass.exports[k] = IF writers = {} THEN 0
                                 ELSE CHOOSE i \in writers : \A j \in writers : j <= i

\* TemplateImportExecutions: every import execution sees the installation's
\* imports and the bindings of the import executions before it (spec 4.4:
\* bindings are merged into the running imports value).
ImportContextComplete ==
    pass # Nil /\ pass.kind = "import" /\ pass.status = "running" =>
        OrigImports \cup pass.bindings \subseteq pass.ctx

\* execute()/getState/storeState: state round-trips per (kind, name) --
\* a stored state is only ever replaced by a state the same kind of
\* execution derived from it, never by freshly generated content nor by an
\* execution of another kind (spec 2: one state per kind prefix and name;
\* spec 8: idempotence of stateful templating across reconciles).
StateRoundTrip ==
    [][\A k \in Keys :
          store[k] # Nil /\ store'[k] # Nil =>
              store'[k].gen = store[k].gen /\ store'[k].kind = store[k].kind]_vars

=============================================================================
