------------------------------- MODULE MCNested -------------------------------
EXTENDS Nested, TLC
CONSTANTS n1, n2, o1, o2
MCParent == n1 :> Root @@ n2 :> n1
MCOwner  == n1 :> o1 @@ n2 :> o2
=============================================================================
