------------------------------- MODULE CwlDoc -------------------------------
(***************************************************************************)
(* CWL documents, as far as the two programs that read their inputs: blocks *)
(* tell them apart.                                                         *)
(***************************************************************************)
EXTENDS Integers, Sequences

CONSTANTS
  Names,       \* names of inputs
  Types,       \* what a type may be written as, short of the whole specification
  Question,    \* types written 'string?'
  NullUnions,  \* lists of types with 'null' among them
  Enum,        \* the type 'enum'
  Docs,        \* the documents that may be found at a URL
  None

\* An input's specification in full; the short form is a type alone.
Specs   == [type : Types \cup {None}, symbols : BOOLEAN, default : BOOLEAN]
Items   == [name : Names \cup {None}, spec : Types \cup Specs]
Tools   == [main : BOOLEAN, tool : BOOLEAN, inputs : Seq(Items)]
AllDocs == [graph : BOOLEAN, entries : Seq(Tools)]

ASSUME TypesAssumption ==
  /\ Question \subseteq Types /\ NullUnions \subseteq Types
  /\ Enum \in Types \ (Question \cup NullUnions)
  /\ None \notin Types \cup Names \cup Specs \cup Tools
  /\ Types \cap Specs = {}
ASSUME NamesAssumption == {"job_id", "user_id", "openeo_data"} \subseteq Names
ASSUME DocsAssumption == Docs \subseteq AllDocs

\* Its inputs block: a mapping, or a list; empty when there is no tool, or no block.
inputs_block(tool) == IF tool = None THEN <<>> ELSE tool.inputs

\* Variant: an entry without a name counts.
NamedOrNot(items) == {items[i].name : i \in DOMAIN items}

\* The inputs a block declares, and the specification that counts when a list has a
\* name twice: the last, as for the keys of a dict that is filled in a loop.
Declared(items)    == {n \in Names : \E i \in DOMAIN items : items[i].name = n}
LastSpec(items, n) ==
  items[CHOOSE i \in DOMAIN items :
          items[i].name = n /\ \A j \in DOMAIN items : items[j].name = n => j <= i].spec

First(s, I) == s[CHOOSE i \in I : \A j \in I : i <= j]
=============================================================================
