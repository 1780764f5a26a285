------------------------------ MODULE CwlInputs ------------------------------
(***************************************************************************)
(* A CWL job from its form to its start.  A user asks the API for the input *)
(* schema of a document at a URL, fills in the context of run_udf, with or  *)
(* without the schema, and submits the job; the executor reads the URL      *)
(* again, fills in what it can and starts Calrissian.  The document may be  *)
(* published anew at any time.                                              *)
(***************************************************************************)
EXTENDS CwlForm, CwlWiring

VARIABLES
  url,    \* the document at the URL
  form,   \* the schema the user was shown, and of which document; or None
  job     \* the job: step, context, data argument, document, tool, inputs, missing ones

vars == <<url, form, job>>

Field  == [required : BOOLEAN, autofilled : BOOLEAN]
Data   == {"nothing", "path", "cube"}
Steps  == {"none", "submitted", "staged", "started", "failed"}
NoWork == [n \in {} |-> "user"]

Init ==
  /\ url \in Docs
  /\ form = None
  /\ job = [pc |-> "none", context |-> {}, data |-> "nothing", doc |-> None,
            tool |-> None, inputs |-> NoWork, missing |-> {}]

\* The document's author replaces it.
Publish ==
  /\ url' \in Docs
  /\ UNCHANGED <<form, job>>

\* cwl_inputs_inspect: 400 when no tool is found, else its schema.  What is asked after
\* the submission has no bearing on the job.
Inspect ==
  /\ job.pc = "none"
  /\ LET tool == load_cwl_doc(url)
     IN  form' = IF tool = None THEN None
                 ELSE [doc |-> url, fields |-> build_input_schema(tool)]
  /\ UNCHANGED <<url, job>>

\* A job with a run_udf node: its context, and what precedes it in the graph.
Submit(context, data) ==
  /\ job.pc = "none"
  /\ job' = [job EXCEPT !.pc = "submitted", !.context = context, !.data = data]
  /\ UNCHANGED <<url, form>>

\* run_udf
RunUdf ==
  /\ job.pc = "submitted"
  /\ job' = [job EXCEPT !.pc = "staged", !.inputs = stage_data(job.context, job.data)]
  /\ UNCHANGED <<url, form>>

\* run_cwl up to the start of Calrissian, which fails when a package has no '#main'.
RunCwl ==
  /\ job.pc = "staged"
  /\ LET parsed == exec_parse_cwl_inputs(exec_load_cwl_doc(url))
         inputs == auto_wire_inputs(DOMAIN parsed, job.inputs)
     IN  job' = [job EXCEPT !.pc = IF runs(url) = None THEN "failed" ELSE "started",
                            !.doc = url, !.tool = runs(url), !.inputs = inputs,
                            !.missing = missing_required_inputs(parsed, inputs)]
  /\ UNCHANGED <<url, form>>

Next ==
  \/ Publish \/ Inspect \/ RunUdf \/ RunCwl
  \/ \E context \in SUBSET Names, data \in Data : Submit(context, data)

Spec == Init /\ [][Next]_vars

-----------------------------------------------------------------------------
(* Properties *)

\* Every variable keeps its type; no input without a name gets into a form or a job.
TypeOK ==
  /\ url \in Docs
  /\ form # None => /\ form.doc \in Docs
                    /\ DOMAIN form.fields \subseteq Names
                    /\ \A n \in DOMAIN form.fields : form.fields[n] \in Field
  /\ job.pc \in Steps /\ job.context \subseteq Names /\ job.data \in Data
  /\ job.doc \in Docs \cup {None} /\ job.missing \subseteq Names
  /\ DOMAIN job.inputs \subseteq Names
  /\ \A n \in DOMAIN job.inputs : job.inputs[n] \in Sources

\* The form was made of the document that the job has run.
SameDocument == form # None /\ job.pc = "started" /\ form.doc = job.doc

\* The two parsers, kept apart in two images, agree: the form shows the inputs of the
\* tool that runs, and marks as required those the executor requires.
FormIsOfWhatRuns ==
  SameDocument =>
    /\ DOMAIN form.fields = Declared(job.tool.inputs)
    /\ \A n \in job.missing : form.fields[n].required
    /\ \A n \in DOMAIN form.fields :
         form.fields[n].required /\ n \notin DOMAIN job.inputs => n \in job.missing

\* Who gives every input that the form asks for, and an openeo_data or a path for it
\* where that is declared, has given all: nothing the form hides is missed at run time.
FormSuffices ==
  /\ SameDocument
  /\ \A n \in DOMAIN form.fields :
       form.fields[n].required /\ ~form.fields[n].autofilled => n \in job.context
  /\ "openeo_data" \in DOMAIN form.fields => "openeo_data" \in job.context \/ job.data = "path"
  => job.missing = {}

\* What the user gives is what the workflow gets, whatever the back end could fill in.
UserValuesWin ==
  job.pc \in {"staged", "started"} =>
    \A n \in job.context : n \in DOMAIN job.inputs /\ job.inputs[n] = "user"

\* Who the user is, and which job it is, is told only to a tool that asks for it.
OnlyWhatIsDeclared ==
  job.pc = "started" =>
    \A n \in DOMAIN job.inputs :
      job.inputs[n] = "env" => n \in Declared(job.tool.inputs)
=============================================================================
