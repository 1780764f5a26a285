----------------------------- MODULE CwlWiring ------------------------------
(***************************************************************************)
(* What the executor makes of the same document when the job runs (cwl.py): *)
(* which inputs it declares, which of them it fills, which it misses.       *)
(* An input's value is known by where it comes from: the user's context,    *)
(* the data argument of run_udf, or the executor's environment.             *)
(***************************************************************************)
EXTENDS CwlDoc

\* Names that start with exec_ are those that cwl_inputs.py has too, for its own copy.

\* _ENV_AUTO_INPUTS.  cli.py sets both variables for every job.
ENV_AUTO_INPUTS == {"job_id", "user_id"}

exec_load_cwl_doc(d) ==
  LET all   == DOMAIN d.entries
      mains == {i \in all : d.entries[i].main}
      tools == {i \in all : d.entries[i].tool}
  IN  IF d.graph /\ mains # {} THEN First(d.entries, mains)
      ELSE IF d.graph /\ tools # {} THEN First(d.entries, tools)
      ELSE IF all # {} THEN d.entries[1]
      ELSE None

\* _resolve_cwl_arg: Calrissian is told to run '#main' of a package.
runs(d) ==
  LET mains == {i \in DOMAIN d.entries : d.graph => d.entries[i].main}
  IN  IF mains = {} THEN None ELSE First(d.entries, mains)

exec_input_is_optional(type) == type \in Question \/ type \in NullUnions
exec_type_val(spec)    == IF spec \in Specs THEN spec.type ELSE spec
exec_has_default(spec) == spec \in Specs /\ spec.default

exec_parse_cwl_inputs(tool) ==
  [n \in Declared(inputs_block(tool)) |->
     LET spec == LastSpec(inputs_block(tool), n)
     IN  [required |-> ~(exec_input_is_optional(exec_type_val(spec)) \/ exec_has_default(spec))]]

Sources == {"user", "data", "env"}

\* Variant: staged data replaces what the user gave as openeo_data.
stage_over(context, data) ==
  [n \in context \cup (IF data = "path" THEN {"openeo_data"} ELSE {}) |->
     IF n = "openeo_data" /\ data = "path" THEN "data" ELSE "user"]

\* run_udf: the data argument, when it is a path, becomes openeo_data by setdefault.
stage_data(context, data) ==
  [n \in context \cup (IF data = "path" THEN {"openeo_data"} ELSE {}) |->
     IF n \in context THEN "user" ELSE "data"]

\* Variant: the environment fills inputs the document does not declare.
wire_undeclared(declared, inputs) ==
  [n \in DOMAIN inputs \cup ENV_AUTO_INPUTS |->
     IF n \in DOMAIN inputs THEN inputs[n] ELSE "env"]

\* Variant: only the job's identifier is filled in.
wire_job_id(declared, inputs) ==
  [n \in DOMAIN inputs \cup ({"job_id"} \cap declared) |->
     IF n \in DOMAIN inputs THEN inputs[n] ELSE "env"]

auto_wire_inputs(declared, inputs) ==
  [n \in DOMAIN inputs \cup (ENV_AUTO_INPUTS \cap declared) |->
     IF n \in DOMAIN inputs THEN inputs[n] ELSE "env"]

missing_required_inputs(parsed, inputs) ==
  {n \in DOMAIN parsed : parsed[n].required /\ n \notin DOMAIN inputs}
=============================================================================
