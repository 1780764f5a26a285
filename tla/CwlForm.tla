------------------------------ MODULE CwlForm -------------------------------
(***************************************************************************)
(* The input schema the API makes of a CWL document before a job is         *)
(* submitted (cwl_inputs.py): the form of the Web Editor.                   *)
(***************************************************************************)
EXTENDS CwlDoc

AUTO_FILLED_INPUTS == {"job_id", "user_id", "openeo_data"}

\* The tool that would be run: 'main' of a package, else its first tool, else its first
\* entry.  None stands for {}.
load_cwl_doc(d) ==
  LET all   == DOMAIN d.entries
      mains == {i \in all : d.entries[i].main}
      tools == {i \in all : d.entries[i].tool}
  IN  IF d.graph /\ mains # {} THEN First(d.entries, mains)
      ELSE IF d.graph /\ tools # {} THEN First(d.entries, tools)
      ELSE IF all # {} THEN d.entries[1]
      ELSE None

\* Variant: lists of types are not looked into.
no_unions(type) == type \in Question

input_is_optional(type) == type \in Question \/ type \in NullUnions

\* An enum written directly, or a specification without a type, is the type itself.
type_val(spec) ==
  IF spec \in Specs /\ spec.type # None /\ ~(spec.type = Enum /\ spec.symbols)
  THEN spec.type ELSE spec

has_default(spec) == spec \in Specs /\ spec.default

parse_cwl_inputs(tool) ==
  [n \in Declared(inputs_block(tool)) |->
     LET spec == LastSpec(inputs_block(tool), n)
     IN  [required |-> ~(input_is_optional(type_val(spec)) \/ has_default(spec))]]

build_input_schema(tool) ==
  [n \in DOMAIN parse_cwl_inputs(tool) |->
     [required   |-> parse_cwl_inputs(tool)[n].required,
      autofilled |-> n \in AUTO_FILLED_INPUTS]]
=============================================================================
