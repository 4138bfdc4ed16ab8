----------------------------- MODULE AuthVarTA -----------------------------
(***************************************************************************)
(* The Authenticated Variable trusted application as the driver in          *)
(* authvars_test/host/edk2_driver calls it: for every command the replies   *)
(* that may come.  Its source is not in this repository.  Operators only:   *)
(* the store they are about belongs to the modules that extend this one.    *)
(***************************************************************************)
EXTENDS Variables

CONSTANTS
  StoreMax,     \* the longest data the TA stores in one variable
  Fault         \* the TEEC failures that have nothing to do with the request

ASSUME StoreAssumption ==
  /\ StoreMax \in Nat
  /\ Fault \subseteq {"OUT_OF_MEMORY", "ACCESS_DENIED", "OTHER"}

TeecResult == {"SUCCESS", "ITEM_NOT_FOUND", "SHORT_BUFFER", "OUT_OF_MEMORY",
               "ACCESS_DENIED", "OTHER"}

(* The replies.  An operation has a set of them: the one the store determines
   and the failures that may come instead of it, which leave the store as it
   is.  "need" is the result size the TA reports, "attrs" and "data" what it
   leaves in the result buffer, "next" the name it leaves there. *)

Reply(teec, need, attrs, data, next) ==
  [teec |-> teec, need |-> need, attrs |-> attrs, data |-> data, next |-> next]
Bare(teec) == Reply(teec, 0, {}, <<>>, NoVar)
Faults == {Bare(f) : f \in Fault}

(* A read: the result is a header of "header" bytes and the data.  A read that
   does not fit may still leave the attributes in the buffer. *)
TaGet(store, v, header, room) ==
  LET e == store[v]
      need == header + Len(e.data)
  IN  Faults \union
      IF ~Stored(store, v) THEN {Bare("ITEM_NOT_FOUND")}
      ELSE IF need > room
           THEN {Reply("SHORT_BUFFER", need, a, <<>>, NoVar) : a \in {{}, e.attrs}}
           ELSE {Reply("SUCCESS", need, e.attrs, e.data, NoVar)}

(* The next name after "from"; an enumeration cannot go on from a name that is
   not stored. *)
TaGetNext(store, from, header, room) ==
  Faults \union
  IF (from # NoVar /\ ~Stored(store, from)) \/ After(store, from) = {}
  THEN {Bare("ITEM_NOT_FOUND")}
  ELSE {IF header + TaNameSize[w] > room
        THEN Reply("SHORT_BUFFER", header + TaNameSize[w], {}, <<>>, NoVar)
        ELSE Reply("SUCCESS", header + TaNameSize[w], {}, <<>>, w) :
          w \in {x \in Var : IsNext(store, from, x)}}

(* A write: the reply and the store it leaves. *)
TaSet(store, v, attrs, data) ==
  LET new == Written(store[v], attrs, data)
      result == IF IsDelete(attrs, data) /\ ~Stored(store, v) THEN "ITEM_NOT_FOUND"
                ELSE IF Len(new.data) > StoreMax THEN "OUT_OF_MEMORY"
                ELSE "SUCCESS"
  IN  {[reply |-> f, store |-> store] : f \in Faults} \union
      {[reply |-> Bare(result),
        store |-> IF result = "SUCCESS" THEN [store EXCEPT ![v] = new] ELSE store]}

(* A query is answered from figures this model does not keep. *)
TaQuery == Faults \union {Bare("SUCCESS")}
=============================================================================
