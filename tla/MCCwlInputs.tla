----------------------------- MODULE MCCwlInputs -----------------------------
\* CwlInputs for TLC: tools with up to two inputs, and packages of two entries.
EXTENDS CwlInputs

CONSTANTS plain, question, union, enum

Spec1(t, s, d) == [type |-> t, symbols |-> s, default |-> d]
MCSpecs == {plain, question, union, Spec1(plain, FALSE, TRUE), Spec1(union, FALSE, FALSE),
            Spec1(enum, TRUE, FALSE), Spec1(None, FALSE, FALSE)}

Item(n, s) == [name |-> n, spec |-> s]
Tool(m, t, inputs) == [main |-> m, tool |-> t, inputs |-> inputs]

Blocks ==
  {<<Item("x", s)>> : s \in MCSpecs}
  \cup {<<Item("x", plain), Item("x", question)>>, <<Item(None, plain)>>, <<>>,
        <<Item("job_id", plain), Item("user_id", plain)>>,
        <<Item("openeo_data", plain), Item("user_id", question)>>,
        <<Item("x", question), Item("job_id", Spec1(plain, FALSE, TRUE))>>}

OneTool == {[graph |-> FALSE, entries |-> <<Tool(FALSE, TRUE, b)>>] : b \in Blocks}

A == <<Item("x", plain)>>
B == <<Item("job_id", plain)>>
Packaged ==
  {[graph |-> TRUE, entries |-> <<Tool(m, t, A), Tool(n, TRUE, B)>>] :
     m, t, n \in BOOLEAN}
Empty == [graph |-> TRUE, entries |-> <<>>]

MCDocs == OneTool \cup Packaged \cup {Empty}
=============================================================================
