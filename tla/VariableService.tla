--------------------------- MODULE VariableService ---------------------------
(***************************************************************************)
(* What the four variable services promise a caller (the comments above the *)
(* services in AuthVarsDxe.c): a store of variables and, for every call, a  *)
(* reply that agrees with it.  Sessions, transport buffers and sizes on the *)
(* wire are absent.  AuthVarsDxe implements this specification.             *)
(***************************************************************************)
EXTENDS Variables

CONSTANTS
  Room,     \* the buffer sizes callers offer
  AttrSet,  \* the attributes callers write with
  Payload   \* the data callers write

VARIABLES
  store,  \* [Var -> Entry]
  reply   \* the last reply given to a caller

svars == <<store, reply>>

(* A call may fail for reasons that say nothing of the store: it is refused
   as it stands, or it fails on the way. *)
Refusal == {"INVALID_PARAMETER", "NOT_READY", "OUT_OF_RESOURCES",
            "BAD_BUFFER_SIZE", "UNSUPPORTED"}
Failure == {"OUT_OF_RESOURCES", "SECURITY_VIOLATION", "PROTOCOL_ERROR"}

Init ==
  /\ store = [v \in Var |-> Absent]
  /\ reply = NoAnswer

(* A read hands out the whole variable as it is now, or its size, or that it
   does not exist; attributes handed out with an error are the variable's or
   none. *)
GetVariable(v, room) ==
  LET e == store[v] IN
  /\ \/ /\ Stored(store, v)
        /\ Len(e.data) <= room
        /\ reply' = Answer("Get", v, "SUCCESS", room, Len(e.data), e.attrs, e.data, NoVar)
     \/ /\ Stored(store, v)
        /\ Len(e.data) > room
        /\ \E a \in {{}, e.attrs} :
             reply' = Answer("Get", v, "BUFFER_TOO_SMALL", room, Len(e.data), a, <<>>, NoVar)
     \/ /\ ~Stored(store, v)
        /\ reply' = Answer("Get", v, "NOT_FOUND", room, room, {}, <<>>, NoVar)
     \/ \E s \in Failure :
          reply' = Answer("Get", v, s, room, room, {}, <<>>, NoVar)
  /\ UNCHANGED store

(* An enumeration step names the next variable, or the size its name needs in
   a buffer of 4-byte characters. *)
GetNextVariableName(from, room) ==
  /\ \/ /\ from = NoVar \/ Stored(store, from)
        /\ \E w \in Var :
          /\ IsNext(store, from, w)
          /\ \/ /\ 2 * TaNameSize[w] <= room
                /\ reply' = Answer("GetNext", from, "SUCCESS", room,
                                   2 * TaNameSize[w], {}, <<>>, w)
             \/ /\ 2 * TaNameSize[w] > room
                /\ reply' = Answer("GetNext", from, "BUFFER_TOO_SMALL", room,
                                   2 * TaNameSize[w], {}, <<>>, NoVar)
     \/ /\ After(store, from) = {} \/ (from # NoVar /\ ~Stored(store, from))
        /\ reply' = Answer("GetNext", from, "NOT_FOUND", room, room, {}, <<>>, NoVar)
     \/ \E s \in Failure :
          reply' = Answer("GetNext", from, s, room, room, {}, <<>>, NoVar)
  /\ UNCHANGED store

(* A write that succeeds is carried out in full, any other changes nothing. *)
SetVariable(v, attrs, data) ==
  \/ /\ reply' = Answer("Set", v, "SUCCESS", Len(data), 0, {}, <<>>, NoVar)
     /\ ~(IsDelete(attrs, data) /\ ~Stored(store, v))
     /\ store' = [store EXCEPT ![v] = Written(store[v], attrs, data)]
  \/ /\ reply' = Answer("Set", v, "NOT_FOUND", Len(data), 0, {}, <<>>, NoVar)
     /\ IsDelete(attrs, data) /\ ~Stored(store, v)
     /\ UNCHANGED store
  \/ /\ \E s \in Failure : reply' = Answer("Set", v, s, Len(data), 0, {}, <<>>, NoVar)
     /\ UNCHANGED store

QueryVariableInfo ==
  /\ \E s \in Failure \union {"SUCCESS"} :
       reply' = Answer("Query", NoVar, s, 0, 0, {}, <<>>, NoVar)
  /\ UNCHANGED store

Refuse ==
  /\ \E op \in {"Get", "GetNext", "Set", "Query"}, s \in Refusal :
       reply' = Answer(op, NoVar, s, 0, 0, {}, <<>>, NoVar)
  /\ UNCHANGED store

(* The session-id hook answers in place of the services it hides behind. *)
SessionHook ==
  /\ UNCHANGED store
  /\ reply' = NoAnswer

(* The machine or the process starts anew. *)
Restart ==
  /\ store' \in {store, Rebooted(store)}
  /\ reply' = NoAnswer

Next ==
  \/ \E v \in Var, room \in Room : GetVariable(v, room)
  \/ \E v \in Var \union {NoVar}, room \in Room : GetNextVariableName(v, room)
  \/ \E v \in Var, attrs \in AttrSet, data \in Payload : SetVariable(v, attrs, data)
  \/ QueryVariableInfo
  \/ Refuse
  \/ SessionHook
  \/ Restart

Spec == Init /\ [][Next]_svars
=============================================================================
