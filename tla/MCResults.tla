------------------------------ MODULE MCResults ------------------------------
\* Results for TLC: three outputs in one package, or in two, or made by CWL.
EXTENDS ResultsInv, TLC

CONSTANTS o1, o2, o3, p1, p2

AllInOne    == (o1 :> p1) @@ (o2 :> p1) @@ (o3 :> p1)
TwoPackages == (o1 :> p1) @@ (o2 :> p1) @@ (o3 :> p2)

\* Every output has a name, and an item file, of its own.
OwnName == [o \in Outputs |-> o]
OnlyItself == {<<o, o>> : o \in Outputs}

Symmetry == Permutations(Readers)
=============================================================================
