-------------------------- MODULE CwlInputsProofs ---------------------------
(***************************************************************************)
(* The form and the run of a CWL job agree, for every set of documents.     *)
(***************************************************************************)
EXTENDS CwlInputs, TLAPS

\* The form is the schema of the document it was asked for.
FormInv ==
  form # None =>
    /\ form.doc \in Docs
    /\ load_cwl_doc(form.doc) # None
    /\ form.fields = build_input_schema(load_cwl_doc(form.doc))

\* What the executor knows of the document once it has read it.
Parsed(d) == exec_parse_cwl_inputs(exec_load_cwl_doc(d))

\* The job's inputs are the staged ones, then the wired ones.
JobInv ==
  /\ job.pc = "none" => job.inputs = NoWork
  /\ job.pc = "staged" => job.inputs = stage_data(job.context, job.data)
  /\ job.pc = "started" =>
       /\ job.doc \in Docs
       /\ job.tool = runs(job.doc)
       /\ job.tool # None
       /\ job.inputs = auto_wire_inputs(DOMAIN Parsed(job.doc),
                                               stage_data(job.context, job.data))
       /\ job.missing = missing_required_inputs(Parsed(job.doc), job.inputs)

\* The job keeps its fields.
JobShape == DOMAIN job = {"pc", "context", "data", "doc", "tool", "inputs", "missing"}
            /\ job = [f \in DOMAIN job |-> job[f]]

IInv == TypeOK /\ JobShape /\ FormInv /\ JobInv

-----------------------------------------------------------------------------
(* The two parsers *)

\* The document a package or a plain tool is, when Calrissian can run it, is the one
\* that both parsers pick.
LEMMA SameTool ==
  ASSUME NEW d \in AllDocs, runs(d) # None
  PROVE  /\ load_cwl_doc(d) = runs(d)
         /\ exec_load_cwl_doc(d) = runs(d)
<1> DEFINE all   == DOMAIN d.entries
           mains == {i \in all : d.entries[i].main}
           found == {i \in all : d.graph => d.entries[i].main}
<1>1. found # {} /\ runs(d) = First(d.entries, found)
  BY DEF runs
<1>2. CASE d.graph
  <2>1. found = mains
    BY <1>2
  <2> QED
    BY <1>1, <1>2, <2>1 DEF load_cwl_doc, exec_load_cwl_doc
<1>3. CASE ~d.graph
  <2>1. found = all
    BY <1>3
  <2>2. all = 1..Len(d.entries) /\ Len(d.entries) \in Nat
    BY DEF AllDocs
  <2>3. 1 \in all /\ \A j \in all : 1 <= j
    BY <1>1, <2>1, <2>2
  <2>4. (CHOOSE i \in all : \A j \in all : i <= j) = 1
    BY <2>2, <2>3
  <2>5. First(d.entries, found) = d.entries[1]
    BY <2>1, <2>4 DEF First
  <2> QED
    BY <1>1, <1>3, <2>1, <2>5 DEF load_cwl_doc, exec_load_cwl_doc
<1> QED
  BY <1>2, <1>3

\* An input is optional for one parser when it is for the other.  They differ in what
\* they take for the type of an enum written directly and of an untyped input; neither
\* of these is optional.
LEMMA SameOptional ==
  ASSUME NEW spec
  PROVE  input_is_optional(type_val(spec))
           <=> exec_input_is_optional(exec_type_val(spec))
<1>1. CASE spec \notin Specs
  BY <1>1 DEF type_val, exec_type_val, input_is_optional, exec_input_is_optional
<1>2. CASE spec \in Specs
  <2>1. spec \notin Types /\ None \notin Types /\ Enum \notin Question \cup NullUnions
    BY <1>2, TypesAssumption
  <2> QED
    BY <1>2, <2>1, TypesAssumption
    DEF type_val, exec_type_val, input_is_optional, exec_input_is_optional
<1> QED
  BY <1>1, <1>2

\* Both parsers find the same inputs in a tool, and require the same of them.
THEOREM ParsersAgree ==
  ASSUME NEW tool
  PROVE  parse_cwl_inputs(tool) = exec_parse_cwl_inputs(tool)
<1>1. ASSUME NEW spec
      PROVE  ~(input_is_optional(type_val(spec)) \/ has_default(spec))
             = ~(exec_input_is_optional(exec_type_val(spec)) \/ exec_has_default(spec))
  BY SameOptional DEF has_default, exec_has_default
<1> QED
  BY <1>1, Zenon DEF parse_cwl_inputs, exec_parse_cwl_inputs

-----------------------------------------------------------------------------
(* The invariant *)

\* Staged inputs are the user's and, where he gave none, the data.
LEMMA StagedInputs ==
  \A context \in SUBSET Names, data \in Data :
    /\ DOMAIN stage_data(context, data) \subseteq Names
    /\ \A n \in DOMAIN stage_data(context, data) : stage_data(context, data)[n] \in {"user", "data"}
    /\ \A n \in context : /\ n \in DOMAIN stage_data(context, data)
                          /\ stage_data(context, data)[n] = "user"
    /\ data = "path" => "openeo_data" \in DOMAIN stage_data(context, data)
<1> SUFFICES ASSUME NEW context \in SUBSET Names, NEW data \in Data
             PROVE  LET staged == stage_data(context, data) IN
                      /\ DOMAIN staged \subseteq Names
                      /\ \A n \in DOMAIN staged : staged[n] \in {"user", "data"}
                      /\ \A n \in context : n \in DOMAIN staged /\ staged[n] = "user"
                      /\ data = "path" => "openeo_data" \in DOMAIN staged
  OBVIOUS
<1> DEFINE staged == stage_data(context, data)
<1>1. DOMAIN staged = context \cup (IF data = "path" THEN {"openeo_data"} ELSE {})
  BY DEF stage_data
<1>2. \A n \in DOMAIN staged : staged[n] = IF n \in context THEN "user" ELSE "data"
  BY DEF stage_data
<1> HIDE DEF staged
<1>3. /\ DOMAIN staged \subseteq Names
      /\ \A n \in DOMAIN staged : staged[n] \in {"user", "data"}
      /\ \A n \in context : n \in DOMAIN staged /\ staged[n] = "user"
      /\ data = "path" => "openeo_data" \in DOMAIN staged
  BY <1>1, <1>2, NamesAssumption
<1> QED
  BY <1>3 DEF staged

\* Wiring adds the environment's values, for declared names without a value.
LEMMA WiredInputs ==
  \A declared \in SUBSET Names : \A inputs :
    LET wired == auto_wire_inputs(declared, inputs) IN
      /\ DOMAIN wired = DOMAIN inputs \cup (ENV_AUTO_INPUTS \cap declared)
      /\ \A n \in DOMAIN wired : wired[n] = IF n \in DOMAIN inputs THEN inputs[n] ELSE "env"
  BY DEF auto_wire_inputs

\* The two together, for a context and the inputs a document declares.
LEMMA JobInputs ==
  ASSUME NEW context \in SUBSET Names, NEW data \in Data, NEW declared \in SUBSET Names
  PROVE  LET wired == auto_wire_inputs(declared, stage_data(context, data)) IN
           /\ DOMAIN wired \subseteq Names
           /\ \A n \in DOMAIN wired : wired[n] \in Sources
           /\ \A n \in context : n \in DOMAIN wired
           /\ \A n \in context : wired[n] = "user"
           /\ \A n \in ENV_AUTO_INPUTS \cap declared : n \in DOMAIN wired
           /\ \A n \in DOMAIN wired : wired[n] = "env" => n \in declared
           /\ data = "path" => "openeo_data" \in DOMAIN wired
<1> DEFINE staged == stage_data(context, data)
           wired  == auto_wire_inputs(declared, staged)
<1>1. /\ DOMAIN staged \subseteq Names
      /\ \A n \in DOMAIN staged : staged[n] \in {"user", "data"}
      /\ \A n \in context : n \in DOMAIN staged /\ staged[n] = "user"
      /\ data = "path" => "openeo_data" \in DOMAIN staged
  BY StagedInputs
<1>2. /\ DOMAIN wired = DOMAIN staged \cup (ENV_AUTO_INPUTS \cap declared)
      /\ \A n \in DOMAIN wired : wired[n] = IF n \in DOMAIN staged THEN staged[n] ELSE "env"
  BY WiredInputs
<1> HIDE DEF staged, wired
<1>3. /\ DOMAIN wired \subseteq Names
      /\ \A n \in DOMAIN wired : wired[n] \in Sources
      /\ \A n \in context : n \in DOMAIN wired
      /\ \A n \in context : wired[n] = "user"
      /\ \A n \in ENV_AUTO_INPUTS \cap declared : n \in DOMAIN wired
      /\ \A n \in DOMAIN wired : wired[n] = "env" => n \in declared
      /\ data = "path" => "openeo_data" \in DOMAIN wired
  BY <1>1, <1>2 DEF Sources
<1> QED
  BY <1>3 DEF staged, wired

LEMMA InitIInv == Init => IInv
<1> SUFFICES ASSUME Init PROVE IInv
  OBVIOUS
<1>1. /\ job.pc = "none" /\ job.context = {} /\ job.data = "nothing" /\ job.doc = None
      /\ job.inputs = NoWork /\ job.missing = {}
  BY DEF Init
<1>2. DOMAIN NoWork = {}
  BY DEF NoWork
<1>3. JobShape
  BY DEF Init, JobShape
<1>4. TypeOK
  BY <1>1, <1>2 DEF Init, TypeOK, Steps, Data
<1> QED
  BY <1>1, <1>3, <1>4 DEF Init, IInv, FormInv, JobInv

\* What a form and a parsed document range over.
LEMMA Fields ==
  ASSUME NEW tool
  PROVE  /\ DOMAIN build_input_schema(tool) = Declared(inputs_block(tool))
         /\ DOMAIN exec_parse_cwl_inputs(tool) = Declared(inputs_block(tool))
         /\ Declared(inputs_block(tool)) \subseteq Names
         /\ \A n \in Declared(inputs_block(tool)) :
              /\ build_input_schema(tool)[n] \in Field
              /\ build_input_schema(tool)[n].required
                   = exec_parse_cwl_inputs(tool)[n].required
              /\ build_input_schema(tool)[n].autofilled <=> n \in AUTO_FILLED_INPUTS
<1>1. parse_cwl_inputs(tool) = exec_parse_cwl_inputs(tool)
  BY ParsersAgree
<1>2. DOMAIN parse_cwl_inputs(tool) = Declared(inputs_block(tool))
  BY DEF parse_cwl_inputs
<1>3. \A n \in Declared(inputs_block(tool)) : parse_cwl_inputs(tool)[n].required \in BOOLEAN
  BY DEF parse_cwl_inputs
<1>4. DOMAIN build_input_schema(tool) = Declared(inputs_block(tool))
  BY <1>2 DEF build_input_schema
<1>5. \A n \in Declared(inputs_block(tool)) :
        build_input_schema(tool)[n] =
          [required |-> parse_cwl_inputs(tool)[n].required, autofilled |-> n \in AUTO_FILLED_INPUTS]
  BY <1>2 DEF build_input_schema
<1>6. Declared(inputs_block(tool)) \subseteq Names
  BY DEF Declared
<1>7. ASSUME NEW n \in Declared(inputs_block(tool))
      PROVE  /\ build_input_schema(tool)[n] \in Field
             /\ build_input_schema(tool)[n].required = exec_parse_cwl_inputs(tool)[n].required
             /\ build_input_schema(tool)[n].autofilled <=> n \in AUTO_FILLED_INPUTS
  <2>1. build_input_schema(tool)[n] =
          [required |-> exec_parse_cwl_inputs(tool)[n].required,
           autofilled |-> n \in AUTO_FILLED_INPUTS]
    BY <1>1, <1>5
  <2>2. exec_parse_cwl_inputs(tool)[n].required \in BOOLEAN
    BY <1>1, <1>3
  <2> DEFINE f == build_input_schema(tool)[n]
  <2>3. f.autofilled = (n \in AUTO_FILLED_INPUTS) /\ f.required \in BOOLEAN
    BY <2>1, <2>2
  <2>4. f = [required |-> f.required, autofilled |-> f.autofilled]
    BY <2>1
  <2>5. f.autofilled \in BOOLEAN
    BY <2>3
  <2>6. ASSUME NEW a \in BOOLEAN, NEW b \in BOOLEAN
        PROVE  [required |-> a, autofilled |-> b] \in Field
    BY DEF Field
  <2>7. f \in Field
    <3> HIDE DEF f
    <3> QED
      BY <2>3, <2>4, <2>5, <2>6
  <2>8. f.required = exec_parse_cwl_inputs(tool)[n].required
    BY <2>1
  <2>9. f.autofilled <=> n \in AUTO_FILLED_INPUTS
    BY <2>3
  <2> QED
    BY <2>7, <2>8, <2>9, Zenon
<1> QED
  BY <1>1, <1>2, <1>4, <1>6, <1>7

LEMMA NextIInv == IInv /\ [Next]_vars => IInv'
<1> SUFFICES ASSUME IInv, [Next]_vars PROVE IInv'
  OBVIOUS
<1> USE DEF IInv
<1>1. CASE Publish
  BY <1>1 DEF Publish, TypeOK, JobShape, FormInv, JobInv, Parsed
<1>2. CASE Inspect
  <2> DEFINE tool == load_cwl_doc(url)
  <2>1. form' = IF tool = None THEN None
                ELSE [doc |-> url, fields |-> build_input_schema(tool)]
    BY <1>2 DEF Inspect
  <2>2. UNCHANGED <<url, job>>
    BY <1>2 DEF Inspect
  <2>3. TypeOK'
    BY <2>1, <2>2, Fields DEF TypeOK
  <2>4. FormInv'
    BY <2>1, <2>2 DEF FormInv, TypeOK
  <2> QED
    BY <2>2, <2>3, <2>4 DEF JobShape, JobInv, Parsed
<1>3. ASSUME NEW context \in SUBSET Names, NEW data \in Data, Submit(context, data)
      PROVE  IInv'
  BY <1>3 DEF Submit, TypeOK, JobShape, FormInv, JobInv, Parsed, Steps
<1>4. CASE RunUdf
  <2>1. /\ job' = [job EXCEPT !.pc = "staged",
                             !.inputs = stage_data(job.context, job.data)]
        /\ UNCHANGED <<url, form>>
    BY <1>4 DEF RunUdf
  <2>2. /\ job'.pc = "staged" /\ job'.inputs = stage_data(job.context, job.data)
        /\ job'.context = job.context /\ job'.data = job.data /\ job'.doc = job.doc
        /\ job'.missing = job.missing
        /\ JobShape'
    BY <2>1 DEF JobShape
  <2>3. /\ DOMAIN job'.inputs \subseteq Names
        /\ \A n \in DOMAIN job'.inputs : job'.inputs[n] \in Sources
    <3>1. job.context \in SUBSET Names /\ job.data \in Data
      BY DEF TypeOK
    <3> DEFINE staged == stage_data(job.context, job.data)
    <3>2. /\ DOMAIN staged \subseteq Names
          /\ \A n \in DOMAIN staged : staged[n] \in {"user", "data"}
      BY <3>1, StagedInputs
    <3>3. job'.inputs = staged
      BY <2>2
    <3> HIDE DEF staged
    <3> QED
      BY <3>2, <3>3 DEF Sources
  <2> QED
    BY <2>1, <2>2, <2>3 DEF TypeOK, FormInv, JobInv, Steps
<1>5. CASE RunCwl
  <2> DEFINE parsed == Parsed(url)
             inputs == auto_wire_inputs(DOMAIN parsed, job.inputs)
  <2>1. /\ job' = [job EXCEPT !.pc = IF runs(url) = None THEN "failed" ELSE "started",
                             !.doc = url, !.tool = runs(url), !.inputs = inputs,
                             !.missing = missing_required_inputs(parsed, inputs)]
        /\ UNCHANGED <<url, form>> /\ job.pc = "staged"
    BY <1>5 DEF RunCwl, Parsed
  <2>2. /\ job'.pc = (IF runs(url) = None THEN "failed" ELSE "started")
        /\ job'.doc = url /\ job'.tool = runs(url) /\ job'.inputs = inputs
        /\ job'.missing = missing_required_inputs(parsed, inputs)
        /\ job'.context = job.context /\ job'.data = job.data
        /\ JobShape'
    BY <2>1 DEF JobShape
  <2>3. DOMAIN parsed \subseteq Names
    BY Fields DEF Parsed
  <2>4. job.inputs = stage_data(job.context, job.data)
    BY <2>1 DEF JobInv
  <2>5. /\ DOMAIN inputs \subseteq Names
        /\ \A n \in DOMAIN inputs : inputs[n] \in Sources
    <3>1. job.context \in SUBSET Names /\ job.data \in Data /\ DOMAIN parsed \in SUBSET Names
      BY <2>3 DEF TypeOK
    <3>2. inputs = auto_wire_inputs(DOMAIN parsed, stage_data(job.context, job.data))
      BY <2>4
    <3> HIDE DEF parsed, inputs
    <3> QED
      BY <3>1, <3>2, JobInputs
  <2>6. TypeOK'
    BY <2>1, <2>2, <2>3, <2>5 DEF TypeOK, Steps, missing_required_inputs
  <2>7. JobInv'
    BY <2>2, <2>4, <2>1 DEF JobInv, TypeOK
  <2> QED
    BY <2>1, <2>2, <2>6, <2>7 DEF FormInv
<1>6. CASE UNCHANGED vars
  BY <1>6 DEF vars, TypeOK, JobShape, FormInv, JobInv, Parsed
<1> QED
  BY <1>1, <1>2, <1>3, <1>4, <1>5, <1>6 DEF Next

LEMMA InputsInvariant == Spec => []IInv
  BY InitIInv, NextIInv, PTL DEF Spec

-----------------------------------------------------------------------------
(* The theorems *)

\* No input without a name gets into a form or a job.
THEOREM InputTypes == Spec => []TypeOK
<1>1. IInv => TypeOK
  BY DEF IInv
<1> QED
  BY <1>1, InputsInvariant, PTL

\* A form of the document that runs is the schema of the tool that runs, and what is
\* missed is what that schema requires and nobody gave.
LEMMA FormAndRun ==
  ASSUME IInv, SameDocument
  PROVE  /\ DOMAIN form.fields = Declared(job.tool.inputs)
         /\ DOMAIN Parsed(job.doc) = DOMAIN form.fields
         /\ \A n \in DOMAIN form.fields : form.fields[n].autofilled <=> n \in AUTO_FILLED_INPUTS
         /\ job.missing = {n \in DOMAIN form.fields :
                              form.fields[n].required /\ n \notin DOMAIN job.inputs}
<1>1. /\ job.doc \in AllDocs /\ job.tool = runs(job.doc) /\ job.tool # None
  BY DocsAssumption DEF IInv, SameDocument, JobInv
<1>2. load_cwl_doc(job.doc) = job.tool /\ exec_load_cwl_doc(job.doc) = job.tool
  BY <1>1, SameTool
<1>3. form.fields = build_input_schema(job.tool)
  BY <1>2 DEF IInv, SameDocument, FormInv
<1>4. job.missing = missing_required_inputs(exec_parse_cwl_inputs(job.tool), job.inputs)
  BY <1>2 DEF IInv, SameDocument, JobInv, Parsed
<1>5. inputs_block(job.tool) = job.tool.inputs
  BY <1>1 DEF inputs_block
<1> QED
  BY <1>2, <1>3, <1>4, <1>5, Fields DEF Parsed, missing_required_inputs

\* The form of the document that runs shows the inputs of the tool that runs, and
\* requires what the executor misses.
THEOREM FormsAreOfWhatRuns == Spec => []FormIsOfWhatRuns
<1>1. IInv => FormIsOfWhatRuns
  BY FormAndRun DEF FormIsOfWhatRuns
<1> QED
  BY <1>1, InputsInvariant, PTL

\* A form that is filled in leaves nothing to miss.
THEOREM FilledFormsSuffice == Spec => []FormSuffices
<1>1. ASSUME IInv, SameDocument,
             \A n \in DOMAIN form.fields :
               form.fields[n].required /\ ~form.fields[n].autofilled => n \in job.context,
             "openeo_data" \in DOMAIN form.fields =>
               "openeo_data" \in job.context \/ job.data = "path"
      PROVE  job.missing = {}
  <2>1. /\ job.context \in SUBSET Names /\ job.data \in Data
        /\ job.inputs = auto_wire_inputs(DOMAIN Parsed(job.doc),
                                         stage_data(job.context, job.data))
    BY <1>1 DEF IInv, TypeOK, JobInv, SameDocument
  <2>2. DOMAIN Parsed(job.doc) \in SUBSET Names
    BY Fields DEF Parsed
  <2>3. /\ \A n \in job.context : n \in DOMAIN job.inputs
        /\ \A n \in ENV_AUTO_INPUTS \cap DOMAIN Parsed(job.doc) : n \in DOMAIN job.inputs
        /\ job.data = "path" => "openeo_data" \in DOMAIN job.inputs
    <3> DEFINE declared == DOMAIN Parsed(job.doc)
               wired == auto_wire_inputs(declared, stage_data(job.context, job.data))
    <3> declared \in SUBSET Names
      BY <2>2
    <3> HIDE DEF declared
    <3>1. /\ \A n \in job.context : n \in DOMAIN wired
          /\ \A n \in ENV_AUTO_INPUTS \cap declared : n \in DOMAIN wired
          /\ job.data = "path" => "openeo_data" \in DOMAIN wired
      BY <2>1, JobInputs
    <3>2. job.inputs = wired
      BY <2>1 DEF declared
    <3> HIDE DEF wired
    <3> QED
      BY <3>1, <3>2 DEF declared
  <2>4. \A n \in DOMAIN form.fields : form.fields[n].required => n \in DOMAIN job.inputs
    BY <1>1, <2>3, FormAndRun DEF AUTO_FILLED_INPUTS, ENV_AUTO_INPUTS
  <2> QED
    BY <1>1, <2>4, FormAndRun
<1>2. IInv => FormSuffices
  BY <1>1 DEF FormSuffices
<1> QED
  BY <1>2, InputsInvariant, PTL

\* The user's values are never replaced.
THEOREM UsersWin == Spec => []UserValuesWin
<1>1. IInv => UserValuesWin
  <2> SUFFICES ASSUME IInv, job.pc \in {"staged", "started"}
               PROVE  \A n \in job.context : n \in DOMAIN job.inputs /\ job.inputs[n] = "user"
    BY DEF UserValuesWin
  <2>1. job.context \in SUBSET Names /\ job.data \in Data
    BY DEF IInv, TypeOK
  <2>2. DOMAIN Parsed(job.doc) \in SUBSET Names
    BY Fields DEF Parsed
  <2>3. CASE job.pc = "staged"
    BY <2>1, <2>3, StagedInputs DEF IInv, JobInv
  <2>4. CASE job.pc = "started"
    <3> DEFINE declared == DOMAIN Parsed(job.doc)
               wired == auto_wire_inputs(declared, stage_data(job.context, job.data))
    <3> declared \in SUBSET Names
      BY <2>2
    <3> HIDE DEF declared
    <3>3. \A n \in job.context : n \in DOMAIN wired
      BY <2>1, JobInputs
    <3>4. \A n \in job.context : wired[n] = "user"
      BY <2>1, JobInputs
    <3>1. \A n \in job.context : n \in DOMAIN wired /\ wired[n] = "user"
      BY <3>3, <3>4
    <3>2. job.inputs = wired
      BY <2>4 DEF IInv, JobInv, declared, wired
    <3> QED
      BY <3>1, <3>2
  <2> QED
    BY <2>3, <2>4
<1> QED
  BY <1>1, InputsInvariant, PTL

\* The environment is told only to tools that ask.
THEOREM OnlyDeclaredIsWired == Spec => []OnlyWhatIsDeclared
<1>1. IInv => OnlyWhatIsDeclared
  <2> SUFFICES ASSUME IInv, job.pc = "started", NEW n \in DOMAIN job.inputs,
                      job.inputs[n] = "env"
               PROVE  n \in Declared(job.tool.inputs)
    BY DEF OnlyWhatIsDeclared
  <2>1. /\ job.doc \in AllDocs /\ job.tool = runs(job.doc) /\ job.tool # None
    BY DocsAssumption DEF IInv, JobInv
  <2>2. exec_load_cwl_doc(job.doc) = job.tool
    BY <2>1, SameTool
  <2>3. DOMAIN Parsed(job.doc) = Declared(job.tool.inputs) /\ DOMAIN Parsed(job.doc) \in SUBSET Names
    BY <2>1, <2>2, Fields DEF Parsed, inputs_block
  <2>4. n \in DOMAIN Parsed(job.doc)
    BY <2>3, JobInputs DEF IInv, JobInv, TypeOK
  <2> QED
    BY <2>3, <2>4
<1> QED
  BY <1>1, InputsInvariant, PTL
=============================================================================
