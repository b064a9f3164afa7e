-------------------------- MODULE MCDiscoverFanout --------------------------
(* Two pairs, one or two cells: up to four points, two when only the second  *)
(* pair is hosted. A merge pools three theses, two in one cell; killed       *)
(* before its spec is written and resumed, that cell grows to three, which   *)
(* take two curator calls.                                                   *)
EXTENDS DiscoverFanout

CONSTANTS p1, p2, a, b, g1, g2

PairsDef == <<a, b>>
PointsDef == <<1, 1>>
HostingsDef == {{a, b}, {b}}
DerivedDef == {<<1>>, <<1, 2>>}
SourcesDef == <<[matrix |-> <<1>>, theses |-> <<1, 1>>],
                [matrix |-> <<2>>, theses |-> <<2>>]>>
Symmetric == Permutations(Proc)
=============================================================================
