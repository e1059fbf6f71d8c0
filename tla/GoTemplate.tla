----------------------------- MODULE GoTemplate -----------------------------
(***************************************************************************)
(* One execution of the go template engine (TemplateExecution in          *)
(* pkg/landscaper/templating/gotemplate/gotemplate.go) with its include   *)
(* function.  Templater.TemplateExecution makes a fresh TemplateExecution *)
(* per template, so the include counters live as long as one execution.   *)
(*                                                                         *)
(* A template's body is abstracted to the include calls it makes: each    *)
(* step of a running execution is an include of some name, the return of *)
(* the innermost include, an error of the template text itself, or the    *)
(* end of the top-level template.  The stack holds the names whose        *)
(* include call is in progress (the nested te.Execute frames).  An error  *)
(* ends the whole execution: a go template stops at the first function    *)
(* that returns an error, and every include frame on the way out still    *)
(* runs its decrement.                                                     *)
(***************************************************************************)
EXTENDS Naturals, Sequences, FiniteSets

CONSTANTS
    IncludeNames,      \* names a template passes to include
    BlueprintFiles,    \* the names that are files of the blueprint filesystem
    JsonFiles,         \* the files whose content is a JSON-encoded string
    RecursionMaxNums,  \* recursionMaxNums (100 in the code)
    MaxIncludes,       \* include calls per execution (bound of the model)
    Nil                \* model value: no execution running

ASSUME /\ JsonFiles \subseteq BlueprintFiles
       /\ BlueprintFiles \subseteq IncludeNames
       /\ RecursionMaxNums \in Nat /\ MaxIncludes \in Nat

VARIABLE te

Errors == {"none", "recursion", "read", "parse", "template"}

\* How many include calls of n are in progress.
Nesting(stack, n) == Cardinality({i \in DOMAIN stack : stack[i] = n})

\* NewTemplateExecution: includedNames starts empty.  A name never
\* included and one counted back to 0 behave alike in include (both are
\* set to 1), so the map is total here with 0 for an absent key.
NewTemplateExecution ==
    [includedNames |-> [n \in IncludeNames |-> 0], stack |-> <<>>,
     calls |-> 0, called |-> Nil, status |-> "running", err |-> "none"]

\* (A bound test that also rejects the count at the bound.)
RecursionExceededAtBound(v) == v >= RecursionMaxNums

\* include: the bound test on the count found, before the increment.
RecursionExceeded(v) == v > RecursionMaxNums

\* The error leaves every frame on the stack, each decrementing its name.
Fail(t, counts, why) ==
    [t EXCEPT !.includedNames = [n \in IncludeNames |-> counts[n] - Nesting(t.stack, n)],
              !.stack = <<>>, !.status = "error", !.err = why]

\* include(name): a recursion error returns before any count changes; a
\* read error returns after the increment and without the decrement; the
\* included data goes through te.Execute, whose json.Unmarshal rejects a
\* file that is not a JSON string, and the decrement follows Execute
\* whatever it returned.
Include(n) ==
    /\ te # Nil /\ te.status = "running" /\ te.calls < MaxIncludes
    /\ LET v   == te.includedNames[n]
           inc == [te.includedNames EXCEPT ![n] = v + 1]
           t   == [te EXCEPT !.calls = @ + 1, !.called = n]
       IN te' = CASE RecursionExceeded(v)  -> Fail(t, t.includedNames, "recursion")
                  [] n \notin BlueprintFiles -> Fail(t, inc, "read")
                  [] n \notin JsonFiles      -> Fail(t, te.includedNames, "parse")
                  [] OTHER -> [t EXCEPT !.includedNames = inc, !.stack = Append(@, n)]

\* (A return that leaves the count as it was.)
IncludeReturnNoDecrement ==
    /\ te # Nil /\ te.status = "running" /\ te.stack # <<>>
    /\ te' = [te EXCEPT !.stack = SubSeq(@, 1, Len(@) - 1)]

\* The innermost included template rendered: include decrements its name.
IncludeReturn ==
    /\ te # Nil /\ te.status = "running" /\ te.stack # <<>>
    /\ LET n == te.stack[Len(te.stack)]
       IN te' = [te EXCEPT !.includedNames[n] = @ - 1,
                           !.stack = SubSeq(@, 1, Len(@) - 1)]

\* The template text being executed fails (tmpl.Execute returns an error).
TemplateFails ==
    /\ te # Nil /\ te.status = "running"
    /\ te' = Fail(te, te.includedNames, "template")

\* The top-level template rendered.
ExecuteDone ==
    /\ te # Nil /\ te.status = "running" /\ te.stack = <<>>
    /\ te' = [te EXCEPT !.status = "done"]

Next == (\E n \in IncludeNames : Include(n)) \/ IncludeReturn \/ TemplateFails \/ ExecuteDone

-----------------------------------------------------------------------------
(* Properties.                                                             *)

TypeOK ==
    te = Nil \/
    te \in [includedNames : [IncludeNames -> Nat], stack : Seq(BlueprintFiles),
            calls : 0..MaxIncludes, called : IncludeNames \cup {Nil},
            status : {"running", "done", "error"}, err : Errors]

\* include/Execute: while a go template runs, the count include keeps for
\* every name is the number of include calls of that name still in
\* progress, however includes of several names nest, return and repeat.
IncludeCountsTrackNesting ==
    te # Nil /\ te.status = "running" =>
        \A n \in IncludeNames : te.includedNames[n] = Nesting(te.stack, n)

\* include: the recursion error (spec 4.1, TemplateRecursionExceeded) is
\* raised by exactly the include call that would nest a name more than
\* recursionMaxNums + 1 deep, never by an include of a name that is
\* nested less deep, e.g. one included repeatedly one after another.
IncludeRecursionBound ==
    [][te # Nil /\ te' # Nil /\ te'.calls = te.calls + 1 =>
         (te'.err = "recursion" <=>
            Nesting(te.stack, te'.called) = RecursionMaxNums + 1)]_te

=============================================================================
