------------------------ MODULE MCDynamicPerfectHashing ------------------------
(* Instances of DynamicPerfectHashing for TLC.  Keys are numbers. *)
EXTENDS DynamicPerfectHashing, TLC

Apart == [k \in Key |-> k]
Together == [k \in Key |-> 0]

\* The first key apart from the others.
FirstApart == [k \in Key |-> IF k = 1 THEN 0 ELSE 1]

MCApart == {Apart}
MCTogether == {Together}
MCTop == {Apart, FirstApart, Together}
MCSub == {Apart, Together}
=============================================================================
