---------------------------- MODULE MCAuthVarsDxe ----------------------------
(* AuthVarsDxe on transport buffers of 57 bytes: variable "a" takes writes of
   up to 5 bytes, of which the TA stores 2, "b", which has the name of the test
   hook, takes one byte, and "x" can be asked for but not written. *)
EXTENDS AuthVarsDxe, TLC

CONSTANTS a, b, x

MCNameLen == [v \in Var |-> CASE v = a -> 1 [] v = b -> 2 [] v = x -> 6]
MCNameRank == [v \in Var |-> CASE v = a -> 2 [] v = b -> 1 [] v = x -> 3]
MCTaNameSize == [v \in Var |-> ShortSize(v)]
MCFault == {"ACCESS_DENIED"}

(* Nothing, one byte, the longest write, the hook's size, the sizes
   names need, one that passes the first test on it and fails the second, and
   one whose sum with a header wraps. *)
MCSize == {0, 1, 4, 5, 12, 50, Word - 1}
(* The run of the sizes tells volatile from appended, the one of the services
   keeps what is appended over a reboot. *)
MCFewAttrs == {{"BS"}, {"NV", "BS", "AP"}}
MCServiceAttrs == {{"BS"}, {"NV", "AP"}}
MCNullPointer == {"None", "Data"}
MCNextNull == {"None", "Name"}
(* A coarser choice for the runs that compare steps. *)
FewSizes == {0, 1, 4, 8}

Sessions == Permutations(SessionId)
=============================================================================
