------------------------------ MODULE MCSelfTest ------------------------------
(* SelfTest with two sizes, two special names, two authenticated variables and
   storage for 24 units of either kind: enough for everything the runs can
   leave behind and for one round of every loop more than the first. *)
EXTENDS SelfTest

CONSTANTS flag, var1, var2, var3, sized1, sized2, name, long, ref, list1, list2,
          query, over1, over2, db, kek, pk

MCVar == {flag, var1, var2, var3, sized1, sized2, name, long, ref, list1, list2,
          query, over1, over2, db, kek, pk}
MCSized == <<sized1, sized2>>
MCBufferSizes == <<1, 2>>
MCNameList == <<list1, list2>>
MCSecureBoot == <<db, kek>>
MCOrder == <<flag, var1, var2, var3, sized1, sized2, name, long, ref, list1, list2,
             query, over1, over2, db, kek, pk>>
MCNameLen == [v \in Var |-> 1]
MCNameRank == [v \in Var |-> CHOOSE i \in 1..Len(MCOrder) : MCOrder[i] = v]
MCTaNameSize == [v \in Var |-> ShortSize(v)]
MCTag == 0..18
=============================================================================
