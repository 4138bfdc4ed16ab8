--------------------------- MODULE MCToolCommands ---------------------------
(* ToolCommands over a variable with the name of the test hook, the variable of
   "bin" and a third one, with names of one to three characters, listed in
   that order; writes of nothing, of one byte, and of the four bytes the hook
   waits for, which two one-byte steps of an append get round. *)
EXTENDS ToolCommands

CONSTANTS a, bin, h

MCNameLen == [v \in Var |-> CASE v = a -> 2 [] v = bin -> 3 [] v = h -> 1]
MCNameRank == [v \in Var |-> CASE v = a -> 3 [] v = bin -> 2 [] v = h -> 1]
MCTaNameSize == [v \in Var |-> IF v = a THEN ShortSize(v) ELSE StrSize(v)]
MCFault == {"OTHER"}
MCAttrSet == {{}, {"BS"}, {"BS", "AP"}}
MCHelloWorld == [size |-> 2, tag |-> 0]
=============================================================================
