--------------------------- MODULE MCAuthVarsInit ---------------------------
(* AuthVarsInit with the five variables it is about.  A platform key has two
   bytes when it is well formed, the other variables one. *)
EXTENDS AuthVarsInit

MCNameLen == [v \in Var |-> 1]
MCNameRank == [v \in Var |-> CASE v = PK -> 1 [] v = SetupModeVar -> 2
                               [] v = SecureBootEnableVar -> 3
                               [] v = SecureBootVar -> 4 [] v = CustomModeVar -> 5]
MCTaNameSize == [v \in Var |-> ShortSize(v)]
MCFault == {"OTHER"}
MCAttrSet == {{}, {"NV", "BS"}}
MCSize == {0, 1, 2}
=============================================================================
