--------------------------- MODULE MCDomainTools ---------------------------
(* Instances of DomainTools for TLC.                                       *)
EXTENDS DomainTools, TLC

CONSTANT MaxTools   \* different tools in use

FewTools == Cardinality({tool[c] : c \in Calls} \ {"none"}) <= MaxTools

Symmetry == Permutations(Calls) \cup Permutations(Sessions)
              \cup Permutations(Requests)
=============================================================================
