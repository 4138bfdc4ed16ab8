------------------------ MODULE MCVariableEnumeration ------------------------
(* VariableEnumeration over four variables with names of one to four
   characters that come neither in the order of their lengths nor the other way
   round; the TA keeps two names at the size they were declared with. *)
EXTENDS VariableEnumeration

CONSTANTS a, b, c, d

MCNameLen == [v \in Var |-> CASE v = a -> 2 [] v = b -> 1 [] v = c -> 4 [] v = d -> 3]
MCNameRank == [v \in Var |-> CASE v = a -> 1 [] v = b -> 2 [] v = c -> 3 [] v = d -> 4]
MCTaNameSize == [v \in Var |-> IF v \in {a, d} THEN ShortSize(v) ELSE StrSize(v)]
MCFault == {"OTHER", "OUT_OF_MEMORY"}
=============================================================================
