-------------------------- MODULE ImportOperation --------------------------
(***************************************************************************)
(* ImportOperation.Ensure (pkg/landscaper/installations/imports/           *)
(* operation.go) composed with the orchestrator of BlueprintTemplater: an  *)
(* import pass is the TemplateImportExecutions call Ensure makes, and its  *)
(* end is Ensure handling the result, instead of the bare EndPass.  The    *)
(* other passes end as before.                                             *)
(*                                                                         *)
(* Ensure writes the installation in memory: the bindings go into          *)
(* inst.Imports and a failure into the ValidateImports condition of its    *)
(* status.  Each reconcile builds inst.Imports afresh from the constructed *)
(* imports (OrigImports); the status conditions are kept between           *)
(* reconciles.  The condition helpers (GetOrInitCondition,                  *)
(* UpdatedCondition, MergeConditions) are outside src/: a condition is     *)
(* replaced by the updated one of the same type.                          *)
(*                                                                         *)
(* A GoTemplate execution runs the go template engine of GoTemplate: the  *)
(* step that executes it waits for the engine's TemplateExecution to end, *)
(* and an error of it (a failed include) is the engine's error.            *)
(***************************************************************************)
EXTENDS BlueprintTemplater

CONSTANTS IncludeNames, BlueprintFiles, JsonFiles, RecursionMaxNums, MaxIncludes

VARIABLE te   \* the running go TemplateExecution, or Nil

GT == INSTANCE GoTemplate

VARIABLES
    instImports,  \* the keys of inst.Imports as the last Ensure left them
    cond,         \* the Installation's ValidateImports condition
    returned      \* what the last Ensure returned: Nil before, "nil", or the error

opVars  == <<instImports, cond, returned>>
allVars == <<vars, opVars, te>>

TemplatingFailedReason == "ImportValidationFailed"

Conditions ==
    [status : {"Unknown", "False"}, reason : {"", TemplatingFailedReason},
     msg : {"", "Unable to template executions"} \cup Seq(Nat)]

\* GetOrInitCondition on a status without the condition.
InitCondition == [status |-> "Unknown", reason |-> "", msg |-> ""]

\* UpdatedCondition(cond, ConditionFalse, TemplatingFailedReason, msg),
\* merged into the status by inst.MergeConditions.
FailedCondition(msg) ==
    [status |-> "False", reason |-> TemplatingFailedReason, msg |-> msg]

\* (The bindings merged only once the errors were found empty.)
EnsureMergeAfterCheck ==
    /\ pass # Nil /\ pass.kind = "import" /\ pass.status \in {"done", "error"}
    /\ IF pass.status = "error"
       THEN /\ cond' = FailedCondition("Unable to template executions")
            /\ returned' = "template"
            /\ instImports' = OrigImports
       ELSE IF pass.errors = <<>>
            THEN /\ instImports' = OrigImports \cup pass.bindings
                 /\ returned' = "nil"
                 /\ UNCHANGED cond
            ELSE /\ instImports' = OrigImports
                 /\ cond' = FailedCondition(pass.errors)
                 /\ returned' = "validation"
    /\ pass' = Nil
    /\ UNCHANGED <<store, nextGen, passes, te>>

\* Ensure: a templating error marks the condition and returns before any
\* binding is merged (TemplateImportExecutions returned nil bindings);
\* otherwise every binding goes into inst.Imports, and validation errors,
\* joined into one message, mark the condition and are returned.  A clean
\* pass returns nil without touching the condition.
Ensure ==
    /\ pass # Nil /\ pass.kind = "import" /\ pass.status \in {"done", "error"}
    /\ IF pass.status = "error"
       THEN /\ cond' = FailedCondition("Unable to template executions")
            /\ returned' = "template"
            /\ instImports' = OrigImports
       ELSE /\ instImports' = OrigImports \cup pass.bindings
            /\ IF pass.errors = <<>>
               THEN returned' = "nil" /\ UNCHANGED cond
               ELSE /\ cond' = FailedCondition(pass.errors)
                    /\ returned' = "validation"
    /\ pass' = Nil
    /\ UNCHANGED <<store, nextGen, passes, te>>

\* The subinstallation, deploy and export passes end as in BlueprintTemplater.
EndOtherPass == EndPass /\ pass.kind # "import" /\ UNCHANGED <<opVars, te>>

\* Templater.TemplateExecution: a go template gets a fresh TemplateExecution.
StartGoTemplate ==
    /\ pass # Nil /\ pass.status = "running" /\ te = Nil
    /\ pass.execs[pass.pos].type = "GoTemplate"
    /\ pass.execs[pass.pos].source = "inline"
    /\ te' = GT!NewTemplateExecution
    /\ UNCHANGED <<vars, opVars>>

GoTemplateRuns == GT!Next /\ UNCHANGED <<vars, opVars>>

\* execute() once the engine returned: a go template's error is the
\* engine's error; a rendered one may still fail to decode.
ExecuteStep ==
    /\ Step
    /\ IF pass.execs[pass.pos].type = "GoTemplate"
       THEN /\ te # Nil /\ te.status # "running"
            /\ te.status = "error" => pass'.status = "error"
       ELSE te = Nil
    /\ te' = Nil
    /\ UNCHANGED opVars

OpInit ==
    /\ Init
    /\ instImports = OrigImports
    /\ cond = InitCondition
    /\ returned = Nil
    /\ te = Nil

OpNext ==
    \/ (StartPass \/ ExecuteFailsEarly) /\ UNCHANGED <<opVars, te>>
    \/ StartGoTemplate
    \/ GoTemplateRuns
    \/ ExecuteStep
    \/ EndOtherPass
    \/ Ensure

OpSpec == OpInit /\ [][OpNext]_allVars

-----------------------------------------------------------------------------
(* Properties.                                                             *)

OpTypeOK ==
    /\ TypeOK
    /\ instImports \subseteq OrigImports \cup BindingKeys
    /\ cond \in Conditions
    /\ returned \in {Nil, "nil", "template", "validation"}
    /\ GT!TypeOK

\* Ensure over TemplateImportExecutions: a pass that could not template
\* fails Ensure with the templating condition and no binding merged; a
\* pass stopped by an import execution's errors fails it with a condition
\* carrying exactly that execution's errors, and the installation's imports
\* then hold the bindings of every execution that ran, the failing one
\* included; only a pass in which every execution ran without errors
\* returns nil, and then the condition is left as it was.
EnsureReportsImportPass ==
    [][pass # Nil /\ pass.kind = "import" /\ pass' = Nil =>
         LET bound == UNION {pass.outs[i] : i \in {j \in Ran(pass) : pass.outs[j] # Nil}}
         IN CASE pass.status = "error" ->
                   /\ returned' = "template" /\ instImports' = OrigImports
                   /\ cond' = FailedCondition("Unable to template executions")
              [] Len(pass.outs) = Len(pass.execs) /\ pass.errors = <<>> ->
                   /\ returned' = "nil" /\ cond' = cond
                   /\ instImports' = OrigImports \cup bound
              [] OTHER ->
                   /\ returned' = "validation"
                   /\ cond' = FailedCondition(<<Len(pass.outs)>>)
                   /\ instImports' = OrigImports \cup bound]_allVars

\* gotemplate.go include: within a go template execution, the count kept
\* per included name equals the include calls of it in progress.
IncludeCountsTrackNesting == GT!IncludeCountsTrackNesting

\* gotemplate.go include: the recursion error comes from exactly the
\* include that would nest a name past recursionMaxNums + 1 levels.
IncludeRecursionBound == GT!IncludeRecursionBound

=============================================================================
