-------------------------- MODULE AuthVarsDxe_proofs --------------------------
(***************************************************************************)
(* Proofs about the driver for every set of variables, every name length,   *)
(* every buffer size and every argument: its invariants, and that it        *)
(* implements VariableService.                                              *)
(***************************************************************************)
EXTENDS AuthVarsDxe, TLAPS, SequenceTheorems

----------------------------------------------------------------------------
(* Arithmetic of sizes. *)

(* A sum that does not reach 2^32 is not changed by the width it is kept in. *)
LEMMA NoWrap ==
  ASSUME NEW n \in Nat, NEW w \in Nat, n < w
  PROVE  n % w = n
  BY SMT

(* Names take up two bytes a character on the wire and four in the driver. *)
LEMMA NameSizes ==
  ASSUME NEW v \in Var
  PROVE  /\ StrSize(v) \in Nat /\ ShortSize(v) \in Nat
         /\ StrSize(v) = 2 * ShortSize(v) /\ StrSize(v) \div 2 = ShortSize(v)
         /\ ShortSize(v) >= 4 /\ StrSize(v) < Word
         /\ TaNameSize[v] \in Nat /\ ShortSize(v) <= TaNameSize[v]
         /\ v # NoVar
  BY VarAssumption, TaNameSizeAssumption, SizeAssumption DEF StrSize, ShortSize

LEMMA MemSizeFacts ==
  /\ MemSize \in Nat /\ MemSize >= 44 /\ Word \in Nat
  /\ 44 + 2 * MemSize < Word /\ MemSize <= HalfWord /\ HalfWord \in Nat
  BY SizeAssumption DEF MemSize, SET_PARAM

(* What passes the two tests fits the buffer, whatever 32-bit sums do. *)
LEMMA FitsIsBound ==
  ASSUME NEW header \in 0 .. 44, NEW n \in Nat, NEW mem,
         mem.size \in {0, MemSize}, Fits(header, n, mem)
  PROVE  /\ mem.size = MemSize /\ n < MemSize
         /\ (header + n) % Word = header + n
         /\ header + n <= MemSize
<1>1. n < MemSize /\ mem.size = MemSize
  BY MemSizeFacts DEF Fits
<1>2. header + n \in Nat /\ header + n < Word
  BY <1>1, MemSizeFacts
<1>3. (header + n) % Word = header + n
  BY <1>2, MemSizeFacts, NoWrap
<1> QED
  BY <1>1, <1>3 DEF Fits

LEMMA SetFitsIsBound ==
  ASSUME NEW v \in Var, NEW size \in Nat,
         mVariableParamMem.size \in {0, MemSize}, SetFits(v, size)
  PROVE  /\ mVariableParamMem.size = MemSize /\ StrSize(v) < MemSize
         /\ (SET_PARAM + StrSize(v) + size) % Word = SET_PARAM + StrSize(v) + size
         /\ SET_PARAM + StrSize(v) + size <= MemSize
<1>1. /\ mVariableParamMem.size = MemSize
      /\ StrSize(v) < MemSize /\ size < MemSize
  BY MemSizeFacts, NameSizes DEF SetFits
<1>2. /\ SET_PARAM + StrSize(v) + size \in Nat
      /\ SET_PARAM + StrSize(v) + size < Word
  BY <1>1, MemSizeFacts, NameSizes DEF SET_PARAM
<1>3. (SET_PARAM + StrSize(v) + size) % Word = SET_PARAM + StrSize(v) + size
  BY <1>2, MemSizeFacts, NoWrap
<1> QED
  BY <1>1, <1>3 DEF SetFits

----------------------------------------------------------------------------
(* What the TA answers. *)

ReplyType == [teec : TeecResult, need : Nat, attrs : SUBSET Attribute,
              data : Seq(Tag), next : Var \union {NoVar}]

LEMMA BytesType ==
  ASSUME NEW tag \in Tag, NEW n \in Nat
  PROVE  Bytes(tag, n) \in Seq(Tag)
<1>1. Bytes(tag, n) \in [1 .. n -> Tag]
  BY DEF Bytes
<1> QED
  BY <1>1, SeqDef

LEMMA EmptyData == <<>> \in Seq(Tag) /\ Len(<<>>) = 0
  BY EmptySeq

LEMMA WrittenType ==
  ASSUME NEW old \in Entry, NEW attrs \in SUBSET Attribute, NEW data \in Seq(Tag)
  PROVE  Written(old, attrs, data) \in Entry
<1>1. old.data \o data \in Seq(Tag)
  BY ConcatProperties DEF Entry
<1>2. attrs \ {"AP"} \in SUBSET Attribute
  OBVIOUS
<1>3. old.attrs \in SUBSET Attribute /\ {} \in SUBSET Attribute
  BY DEF Entry
<1>4. Absent \in Entry
  BY <1>3, EmptyData DEF Entry, Absent
<1>5. CASE "AP" \in attrs
  BY <1>1, <1>2, <1>3, <1>5 DEF Written, Entry
<1>6. CASE "AP" \notin attrs
  BY <1>4, <1>6 DEF Written, Entry
<1> QED
  BY <1>5, <1>6

LEMMA BareType ==
  ASSUME NEW teec \in TeecResult
  PROVE  /\ Bare(teec) \in ReplyType
         /\ Bare(teec).teec = teec /\ Bare(teec).attrs = {}
         /\ Bare(teec).data = <<>> /\ Bare(teec).next = NoVar
<1>1. Bare(teec) = [teec |-> teec, need |-> 0, attrs |-> {}, data |-> <<>>, next |-> NoVar]
  BY DEF Bare, Reply
<1>2. <<>> \in Seq(Tag) /\ {} \in SUBSET Attribute /\ NoVar \in Var \union {NoVar} /\ 0 \in Nat
  BY EmptyData
<1> QED
  BY <1>1, <1>2 DEF ReplyType

LEMMA FaultsType == Faults \subseteq ReplyType
<1>1. Fault \subseteq TeecResult
  BY StoreAssumption DEF TeecResult
<1> QED
  BY <1>1, BareType DEF Faults

(* A failure that has nothing to do with the request is none of the answers
   the request can get. *)
LEMMA FaultsAreFaults ==
  ASSUME NEW r \in Faults
  PROVE  /\ r.teec \in {"OUT_OF_MEMORY", "ACCESS_DENIED", "OTHER"}
         /\ r.attrs = {} /\ r.data = <<>> /\ r.next = NoVar
  BY StoreAssumption, BareType DEF Faults, TeecResult

(* A read answers with the data of the variable, if they fit, and tells their
   size otherwise. *)
LEMMA TaGetReplies ==
  ASSUME NEW st \in [Var -> Entry], NEW v \in Var, NEW room \in Nat,
         NEW r \in TaGet(st, v, GET_RESULT, room)
  PROVE  /\ r \in ReplyType
         /\ r.teec = "SUCCESS" =>
              Stored(st, v) /\ r.data = st[v].data /\ r.attrs = st[v].attrs
         /\ r.teec = "SHORT_BUFFER" =>
              Stored(st, v) /\ r.need = GET_RESULT + Len(st[v].data)
<1>1. /\ st[v] \in Entry
      /\ Len(st[v].data) \in Nat
      /\ GET_RESULT + Len(st[v].data) \in Nat
  BY LenProperties DEF Entry, GET_RESULT
<1>2. CASE r \in Faults
  BY <1>2, FaultsType, FaultsAreFaults
<1>3. CASE r \notin Faults
  <2>1. CASE ~Stored(st, v)
    <3>1. r = Bare("ITEM_NOT_FOUND")
      BY <1>3, <2>1 DEF TaGet
    <3> QED
      BY <3>1, BareType DEF TeecResult
  <2>2. CASE Stored(st, v) /\ GET_RESULT + Len(st[v].data) > room
    <3>1. PICK a \in {{}, st[v].attrs} :
            r = Reply("SHORT_BUFFER", GET_RESULT + Len(st[v].data), a, <<>>, NoVar)
      BY <1>3, <2>2 DEF TaGet
    <3> QED
      BY <1>1, <2>2, <3>1, EmptyData DEF Reply, ReplyType, TeecResult, Entry
  <2>3. CASE Stored(st, v) /\ ~(GET_RESULT + Len(st[v].data) > room)
    <3>1. r = Reply("SUCCESS", GET_RESULT + Len(st[v].data), st[v].attrs, st[v].data, NoVar)
      BY <1>3, <2>3 DEF TaGet
    <3> QED
      BY <1>1, <2>3, <3>1 DEF Reply, ReplyType, TeecResult, Entry
  <2> QED
    BY <2>1, <2>2, <2>3
<1> QED
  BY <1>2, <1>3

(* An enumeration step answers with a stored name, if it fits, and tells the
   size it takes. *)
LEMMA TaGetNextReplies ==
  ASSUME NEW st, NEW from \in Var \union {NoVar}, NEW room \in Nat,
         NEW r \in TaGetNext(st, from, GET_PARAM, room)
  PROVE  /\ r \in ReplyType
         /\ r.attrs = {} /\ r.data = <<>>
         /\ r.teec = "SUCCESS" => /\ r.next \in Var /\ Stored(st, r.next)
                                  /\ r.need = GET_PARAM + TaNameSize[r.next]
<1>1. CASE r \in Faults
  BY <1>1, FaultsType, FaultsAreFaults
<1>2. CASE r \notin Faults
  <2>1. CASE r = Bare("ITEM_NOT_FOUND")
    BY <2>1, BareType DEF TeecResult
  <2>2. CASE r # Bare("ITEM_NOT_FOUND")
    <3>1. PICK w \in {x \in Var : IsNext(st, from, x)} :
            r = IF GET_PARAM + TaNameSize[w] > room
                THEN Reply("SHORT_BUFFER", GET_PARAM + TaNameSize[w], {}, <<>>, NoVar)
                ELSE Reply("SUCCESS", GET_PARAM + TaNameSize[w], {}, <<>>, w)
      BY <1>2, <2>2 DEF TaGetNext
    <3>2. w \in Var /\ Stored(st, w) /\ TaNameSize[w] \in Nat
      BY <3>1, NameSizes DEF IsNext, After
    <3> QED
      BY <3>1, <3>2, EmptyData DEF Reply, ReplyType, TeecResult, GET_PARAM
  <2> QED
    BY <2>1, <2>2
<1> QED
  BY <1>1, <1>2

(* A write leaves the store as it was or the one variable written. *)
LEMMA TaSetReplies ==
  ASSUME NEW st \in [Var -> Entry], NEW v \in Var, NEW attrs \in SUBSET Attribute,
         NEW data \in Seq(Tag), NEW r \in TaSet(st, v, attrs, data)
  PROVE  /\ r.reply.teec \in TeecResult
         /\ r.store \in [Var -> Entry]
         /\ \A w \in Var : w # v => r.store[w] = st[w]
         /\ r.store[v] = st[v] \/ Len(r.store[v].data) <= StoreMax
<1> DEFINE new == Written(st[v], attrs, data)
           result == IF IsDelete(attrs, data) /\ ~Stored(st, v) THEN "ITEM_NOT_FOUND"
                     ELSE IF Len(new.data) > StoreMax THEN "OUT_OF_MEMORY"
                     ELSE "SUCCESS"
<1>1. st[v] \in Entry /\ new \in Entry
  BY WrittenType
<1>2. Len(new.data) \in Nat
  BY <1>1, LenProperties DEF Entry
<1>3. CASE r \in {[reply |-> f, store |-> st] : f \in Faults}
  <2>1. PICK f \in Faults : r = [reply |-> f, store |-> st]
    BY <1>3
  <2> QED
    BY <2>1, FaultsType DEF ReplyType
<1>4. CASE r = [reply |-> Bare(result),
                store |-> IF result = "SUCCESS" THEN [st EXCEPT ![v] = new] ELSE st]
  <2>1. r.reply.teec \in TeecResult
    BY <1>4 DEF Bare, Reply, TeecResult
  <2>2. CASE result = "SUCCESS"
    <3>1. r.store = [st EXCEPT ![v] = new] /\ ~(Len(new.data) > StoreMax)
      BY <1>4, <2>2
    <3> QED
      BY <1>1, <1>2, <2>1, <3>1, StoreAssumption
  <2>3. CASE result # "SUCCESS"
    BY <1>4, <2>1, <2>3
  <2> QED
    BY <2>2, <2>3
<1> QED
  BY <1>3, <1>4 DEF TaSet

----------------------------------------------------------------------------
(* The buffers. *)

Bounds == TransportBounds /\ CallerBounds /\ NameAsSent

(* The buffers stay where they are and as long as they are. *)
SameAllocation ==
  /\ mVariableParamMem'.buffer = mVariableParamMem.buffer
  /\ mVariableParamMem'.size = mVariableParamMem.size
  /\ mVariableResultMem'.buffer = mVariableResultMem.buffer
  /\ mVariableResultMem'.size = mVariableResultMem.size

LEMMA ClearedParamType ==
  ASSUME mVariableParamMem \in ParamMemType
  PROVE  /\ ClearedParam \in ParamMemType
         /\ ClearedParam.dirty = 0
         /\ ClearedParam.buffer = mVariableParamMem.buffer
         /\ ClearedParam.size = mVariableParamMem.size
  BY DEF ClearedParam, ParamMemType

LEMMA ClearedResultType ==
  ASSUME mVariableResultMem \in ResultMemType
  PROVE  /\ ClearedResult \in ResultMemType
         /\ ClearedResult.buffer = mVariableResultMem.buffer
         /\ ClearedResult.size = mVariableResultMem.size
  BY EmptyData DEF ClearedResult, ResultMemType

LEMMA FillType ==
  ASSUME NEW mem \in ParamMemType, NEW n \in Nat
  PROVE  /\ Fill(mem, n) \in ParamMemType
         /\ Fill(mem, n).buffer = mem.buffer
         /\ Fill(mem, n).size = mem.size
  BY DEF Fill, ParamMemType

LEMMA ReceiveType ==
  ASSUME NEW mem \in ResultMemType, NEW r \in ReplyType
  PROVE  /\ Receive(mem, r) \in ResultMemType
         /\ Receive(mem, r).buffer = mem.buffer
         /\ Receive(mem, r).size = mem.size
         /\ r.teec = "SUCCESS" => /\ Receive(mem, r).attrs = r.attrs
                                  /\ Receive(mem, r).data = r.data
                                  /\ Receive(mem, r).next = r.next
<1>1. CASE r.teec = "SUCCESS"
  BY <1>1 DEF Receive, ResultMemType, ReplyType
<1>2. CASE r.teec # "SUCCESS" /\ r.attrs # {}
  BY <1>2 DEF Receive, ResultMemType, ReplyType
<1>3. CASE r.teec # "SUCCESS" /\ r.attrs = {}
  BY <1>3 DEF Receive
<1> QED
  BY <1>1, <1>2, <1>3

LEMMA EfiStatusValues ==
  ASSUME NEW teec \in TeecResult
  PROVE  /\ EfiStatus(teec) \in EfiStatusType
         /\ EfiStatus(teec) = "SUCCESS" <=> teec = "SUCCESS"
         /\ EfiStatus(teec) = "BUFFER_TOO_SMALL" <=> teec = "SHORT_BUFFER"
<1>1. CASE teec = "SUCCESS"
  BY <1>1 DEF EfiStatus, EfiStatusType
<1>2. CASE teec = "ITEM_NOT_FOUND"
  BY <1>2 DEF EfiStatus, EfiStatusType
<1>3. CASE teec = "SHORT_BUFFER"
  BY <1>3 DEF EfiStatus, EfiStatusType
<1>4. CASE teec = "OUT_OF_MEMORY"
  BY <1>4 DEF EfiStatus, EfiStatusType
<1>5. CASE teec = "ACCESS_DENIED"
  BY <1>5 DEF EfiStatus, EfiStatusType
<1>6. CASE teec = "OTHER"
  BY <1>6 DEF EfiStatus, EfiStatusType
<1>7. \/ teec = "SUCCESS" \/ teec = "ITEM_NOT_FOUND" \/ teec = "SHORT_BUFFER"
      \/ teec = "OUT_OF_MEMORY" \/ teec = "ACCESS_DENIED" \/ teec = "OTHER"
  BY DEF TeecResult
<1> QED
  BY <1>1, <1>2, <1>3, <1>4, <1>5, <1>6, <1>7, Zenon

LEMMA AnswerIsAnswer ==
  ASSUME NEW op \in {"None", "Get", "GetNext", "Set", "Query"},
         NEW v \in Var \union {NoVar}, NEW status \in EfiStatusType,
         NEW room \in Nat, NEW size \in Int, NEW attrs \in SUBSET Attribute,
         NEW data \in Seq(Tag), NEW next \in Var \union {NoVar}
  PROVE  Answer(op, v, status, room, size, attrs, data, next) \in AnswerType
  BY DEF Answer, AnswerType

LEMMA NoAnswerType == NoAnswer \in AnswerType
<1>1. /\ <<>> \in Seq(Tag) /\ {} \in SUBSET Attribute
      /\ 0 \in Nat /\ 0 \in Int /\ "SUCCESS" \in EfiStatusType
      /\ NoVar \in Var \union {NoVar}
      /\ "None" \in {"None", "Get", "GetNext", "Set", "Query"}
  BY EmptyData DEF EfiStatusType
<1> QED
  BY <1>1, AnswerIsAnswer DEF NoAnswer

LEMMA NoExtentsType ==
  /\ NoExtents \in ExtentsType
  /\ NoExtents.filled = 0 /\ NoExtents.told = 0 /\ NoExtents.room = 0
  /\ NoExtents.handed = 0 /\ NoExtents.given = 0 /\ NoExtents.clean
  BY DEF NoExtents, Extents, ExtentsType

LEMMA NoBounds == io' = NoExtents => Bounds'
  BY NoExtentsType, MemSizeFacts
  DEF Bounds, TransportBounds, CallerBounds, NameAsSent

----------------------------------------------------------------------------
(* The inductive invariant.  That everything stored can be read back follows
   from what was tested when it was written, and that the services never lack
   a buffer from the order in which the session is opened. *)

StoredFits ==
  \A v \in Var : /\ Len(vars[v].data) <= StoreMax
                 /\ Stored(vars, v) => SET_PARAM + StrSize(v) <= MemSize

Allocated ==
  proc = "up" /\ mTeecSessionOpened =>
    /\ mVariableParamMem.buffer /\ mVariableParamMem.size = MemSize
    /\ mVariableResultMem.buffer /\ mVariableResultMem.size = MemSize

(* Callers that always say how long their name buffer is. *)
SizesPassed == "Size" \notin NextNull

NotCrashed == SizesPassed => proc # "crashed"

Inv == TypeOK /\ StoredFits /\ Allocated /\ NotCrashed

(* A process that has not started the driver yet has no session.  The start
   in AuthVarsInit, which is many steps, keeps Inv without it. *)
Unopened == proc = "starting" => ~mTeecSessionOpened

(* A call that leaves the store, the session and the allocation alone. *)
QuietFrame == SameAllocation /\ UNCHANGED <<vars, session, proc>>

(* A write changes the store and may change the session id called with. *)
QuietSet ==
  /\ SameAllocation
  /\ UNCHANGED <<live, mTeecSessionOpened, proc>>
  /\ mTeecSession' # mTeecSession => mTeecSession' \in SessionId

(* The first keeps the invariant. *)
LEMMA QuietStep ==
  ASSUME Inv, UNCHANGED <<vars, session, proc>>, SameAllocation,
         mVariableParamMem' \in ParamMemType, mVariableResultMem' \in ResultMemType,
         ret' \in AnswerType, io' \in ExtentsType
  PROVE  Inv'
<1>1. TypeOK'
  BY DEF Inv, TypeOK, session
<1>2. StoredFits'
  BY DEF Inv, StoredFits, Stored
<1>3. Allocated'
  BY DEF Inv, Allocated, SameAllocation, session
<1>4. NotCrashed'
  BY DEF Inv, NotCrashed
<1> QED
  BY <1>1, <1>2, <1>3, <1>4 DEF Inv

LEMMA RefuseStep ==
  ASSUME Inv, NEW op \in {"Get", "GetNext", "Set", "Query"},
         NEW status \in EfiStatusType, Refuse(op, status)
  PROVE  Inv' /\ Bounds' /\ QuietFrame
<1>1. ret' \in AnswerType
  <2>1. /\ <<>> \in Seq(Tag) /\ {} \in SUBSET Attribute
        /\ 0 \in Nat /\ 0 \in Int /\ NoVar \in Var \union {NoVar}
        /\ op \in {"None", "Get", "GetNext", "Set", "Query"}
    BY EmptyData
  <2> QED
    BY <2>1, AnswerIsAnswer DEF Refuse
<1>2. io' \in ExtentsType /\ Bounds'
  BY NoExtentsType, NoBounds DEF Refuse
<1>3. /\ SameAllocation
      /\ mVariableParamMem' \in ParamMemType /\ mVariableResultMem' \in ResultMemType
  BY DEF Refuse, buffers, SameAllocation, Inv, TypeOK
<1>4. UNCHANGED <<vars, session, proc>>
  BY DEF Refuse
<1> QED
  BY <1>1, <1>2, <1>3, <1>4, QuietStep DEF QuietFrame

(* The replies the driver sees, from the TA or for want of it. *)
LEMMA InvokeReplies ==
  ASSUME NEW replies, NEW clean, NEW r \in Invoke(replies, clean)
  PROVE  r \in replies \/ r = Bare("OTHER")
  BY DEF Invoke

LEMMA NameIsClean ==
  ASSUME NEW v \in Var, NEW offset \in Nat, StrSize(v) < MemSize,
         mVariableParamMem \in ParamMemType
  PROVE  NameClean(ClearedParam, offset, StrSize(v), v)
<1>1. StrSize(v) % HalfWord = StrSize(v)
  <2>1. StrSize(v) \in Nat /\ HalfWord \in Nat /\ StrSize(v) < HalfWord
    BY NameSizes, MemSizeFacts
  <2> QED
    BY <2>1, NoWrap
<1>2. ClearedParam.dirty <= offset + ShortSize(v)
  BY ClearedParamType, NameSizes
<1> QED
  BY <1>1, <1>2 DEF NameClean

(* The last part of a call: what it moved is within bounds. *)
LEMMA ExtentsAreBounded ==
  ASSUME NEW filled \in Nat, NEW told \in Nat, NEW room \in Nat,
         NEW handed \in Nat, NEW given \in Nat,
         io' = Extents(filled, told, room, handed, given, TRUE),
         filled <= told, told <= MemSize, room <= MemSize, handed <= given
  PROVE  io' \in ExtentsType /\ Bounds'
  BY MemSizeFacts
  DEF Extents, ExtentsType, Bounds, TransportBounds, CallerBounds, NameAsSent

----------------------------------------------------------------------------
(* One lemma per service. *)

LEMMA GetRefusalType ==
  ASSUME NEW v, NEW null, NEW size
  PROVE  GetRefusal(v, null, size) \in EfiStatusType \union {"None"}
  BY DEF GetRefusal, EfiStatusType

(* A read that is not refused is one whose name and result fit. *)
LEMMA GetAccepted ==
  ASSUME TypeOK, NEW v \in Var, NEW null, NEW size \in Nat,
         GetRefusal(v, null, size) = "None"
  PROVE  /\ ~NoBuffers
         /\ Fits(GET_PARAM, StrSize(v), mVariableParamMem)
         /\ Fits(GET_RESULT, size, mVariableResultMem)
  BY DEF GetRefusal

LEMMA GetCallStep ==
  ASSUME Inv, NEW v \in Var, NEW null, NEW size \in Nat, NEW limit \in Nat,
         GetRefusal(v, null, size) = "None", GetCall(v, size, limit)
  PROVE  Inv' /\ Bounds' /\ QuietFrame
<1> DEFINE room == (GET_RESULT + size) % Word
           told == (GET_PARAM + StrSize(v)) % Word
           filled == GET_NAME + ShortSize(v)
<1>0. /\ TypeOK /\ vars \in [Var -> Entry]
      /\ mVariableParamMem \in ParamMemType /\ mVariableResultMem \in ResultMemType
  BY DEF Inv, TypeOK
<1>1. /\ told = GET_PARAM + StrSize(v) /\ told <= MemSize
      /\ StrSize(v) < MemSize /\ told \in Nat
  BY <1>0, GetAccepted, FitsIsBound, NameSizes DEF GET_PARAM, ParamMemType
<1>2. room = GET_RESULT + size /\ room <= MemSize /\ room \in Nat
  BY <1>0, GetAccepted, FitsIsBound DEF GET_RESULT, ResultMemType
<1>3. filled \in Nat /\ filled <= told
  BY <1>1, NameSizes DEF GET_NAME, GET_PARAM
<1>4. NameClean(ClearedParam, GET_NAME, StrSize(v), v)
  BY <1>0, <1>1, NameIsClean DEF GET_NAME
<1>5. PICK r \in Invoke(TaGet(vars, v, GET_RESULT, limit), TRUE) :
        LET got == Receive(ClearedResult, r)
            status == EfiStatus(r.teec)
            overflow == status = "SUCCESS" /\ Len(got.data) > size
            newSize == CASE status = "BUFFER_TOO_SMALL" -> r.need - GET_RESULT
                         [] status = "SUCCESS" -> Len(got.data)
                         [] OTHER -> size
            data == IF status = "SUCCESS" /\ ~overflow THEN got.data ELSE <<>>
        IN /\ mVariableParamMem' = Fill(ClearedParam, filled)
           /\ mVariableResultMem' = got
           /\ io' = Extents(filled, told, room, Len(data), size, TRUE)
           /\ ret' = Answer("Get", v, IF overflow THEN "BAD_BUFFER_SIZE" ELSE status,
                            size, newSize, got.attrs, data, NoVar)
           /\ UNCHANGED <<vars, session, proc>>
  BY <1>4 DEF GetCall, Overflows
<1> DEFINE got == Receive(ClearedResult, r)
           status == EfiStatus(r.teec)
           overflow == status = "SUCCESS" /\ Len(got.data) > size
           newSize == CASE status = "BUFFER_TOO_SMALL" -> r.need - GET_RESULT
                        [] status = "SUCCESS" -> Len(got.data)
                        [] OTHER -> size
           data == IF status = "SUCCESS" /\ ~overflow THEN got.data ELSE <<>>
<1>6. r \in ReplyType
  BY <1>0, <1>2, <1>5, InvokeReplies, TaGetReplies, BareType DEF TeecResult
<1>7. /\ got \in ResultMemType /\ got.data \in Seq(Tag) /\ got.attrs \in SUBSET Attribute
      /\ got.buffer = mVariableResultMem.buffer /\ got.size = mVariableResultMem.size
  BY <1>0, <1>6, ClearedResultType, ReceiveType DEF ResultMemType
<1>8. Len(got.data) \in Nat
  BY <1>7, LenProperties
<1>9. data \in Seq(Tag) /\ Len(data) \in Nat /\ Len(data) <= size
  BY <1>7, <1>8, EmptyData
<1>10. status \in EfiStatusType
  BY <1>6, EfiStatusValues DEF ReplyType
<1>11. newSize \in Int
  BY <1>6, <1>8 DEF ReplyType, GET_RESULT
<1>12. ret' \in AnswerType
  <2>1. (IF overflow THEN "BAD_BUFFER_SIZE" ELSE status) \in EfiStatusType
    BY <1>10 DEF EfiStatusType
  <2>2. v \in Var \union {NoVar} /\ NoVar \in Var \union {NoVar}
        /\ "Get" \in {"None", "Get", "GetNext", "Set", "Query"}
    OBVIOUS
  <2> HIDE DEF got, status, overflow, newSize, data
  <2> QED
    BY <1>5, <1>7, <1>9, <1>11, <2>1, <2>2, AnswerIsAnswer
       DEF got, status, overflow, newSize, data
<1>13. io' \in ExtentsType /\ Bounds'
  BY <1>1, <1>2, <1>3, <1>5, <1>9, ExtentsAreBounded
<1>14. /\ mVariableParamMem' \in ParamMemType /\ mVariableResultMem' \in ResultMemType
       /\ SameAllocation
  BY <1>0, <1>3, <1>5, <1>7, ClearedParamType, FillType DEF SameAllocation
<1>15. UNCHANGED <<vars, session, proc>>
  BY <1>5
<1> QED
  BY <1>12, <1>13, <1>14, <1>15, QuietStep DEF QuietFrame

LEMMA GetInvokeStep ==
  ASSUME Inv, NEW v \in Var, NEW null, NEW size \in Nat,
         GetRefusal(v, null, size) = "None", GetInvoke(v, size)
  PROVE  Inv' /\ Bounds' /\ QuietFrame
<1>1. (GET_RESULT + size) % Word \in Nat
  BY MemSizeFacts DEF GET_RESULT
<1> QED
  BY <1>1, GetCallStep DEF GetInvoke

LEMMA GetStep ==
  ASSUME Inv, NEW v \in Var, NEW null, NEW size \in Nat,
         OpteeRuntimeGetVariable(v, null, size)
  PROVE  Inv' /\ Bounds' /\ QuietFrame
<1>1. CASE GetSessionId
  <2>1. ret' \in AnswerType
    BY <1>1, NoAnswerType DEF GetSessionId
  <2>2. io' \in ExtentsType /\ Bounds'
    <3>1. /\ io' = Extents(0, 0, 0, UINTN_SIZE, UINTN_SIZE, TRUE)
          /\ UINTN_SIZE \in Nat /\ 0 \in Nat /\ UINTN_SIZE <= UINTN_SIZE
          /\ 0 <= 0 /\ 0 <= MemSize
      BY <1>1, MemSizeFacts DEF GetSessionId, UINTN_SIZE
    <3> QED
      BY <3>1, ExtentsAreBounded
  <2>3. /\ SameAllocation /\ UNCHANGED <<vars, session, proc>>
        /\ mVariableParamMem' \in ParamMemType /\ mVariableResultMem' \in ResultMemType
    BY <1>1 DEF GetSessionId, buffers, SameAllocation, Inv, TypeOK
  <2> QED
    BY <2>1, <2>2, <2>3, QuietStep DEF QuietFrame
<1>2. CASE GetRefusal(v, null, size) # "None" /\ Refuse("Get", GetRefusal(v, null, size))
  BY <1>2, GetRefusalType, RefuseStep
<1>3. CASE GetRefusal(v, null, size) = "None" /\ GetInvoke(v, size)
  BY <1>3, GetInvokeStep
<1> QED
  BY <1>1, <1>2, <1>3 DEF OpteeRuntimeGetVariable

LEMMA NextRefusalType ==
  ASSUME NEW v, NEW null, NEW size
  PROVE  NextRefusal(v, null, size) \in EfiStatusType \union {"None"}
  BY DEF NextRefusal, EfiStatusType

LEMMA NextAccepted ==
  ASSUME TypeOK, NEW v, NEW null, NEW size \in Nat,
         NextRefusal(v, null, size) = "None"
  PROVE  /\ Fits(GET_PARAM, NextNameSize(v), mVariableParamMem)
         /\ Fits(GET_PARAM, size \div 2, mVariableResultMem)
  BY DEF NextRefusal, Halved

LEMMA NextCallStep ==
  ASSUME Inv, NEW v \in Var \union {NoVar}, NEW null, NEW size \in Nat,
         NEW limit \in Nat,
         NextRefusal(v, null, size) = "None", NextCall(v, size, limit)
  PROVE  Inv' /\ Bounds' /\ QuietFrame
<1> DEFINE room == (GET_PARAM + size \div 2) % Word
           told == (GET_PARAM + NextNameSize(v)) % Word
           filled == GET_NAME + NextNameWritten(v)
<1>0. /\ TypeOK /\ vars \in [Var -> Entry]
      /\ mVariableParamMem \in ParamMemType /\ mVariableResultMem \in ResultMemType
  BY DEF Inv, TypeOK
<1>1. /\ NextNameSize(v) \in Nat /\ NextNameWritten(v) \in Nat
      /\ NextNameWritten(v) <= NextNameSize(v) + 2
  BY NameSizes DEF NextNameSize, NextNameWritten
<1>2. told = GET_PARAM + NextNameSize(v) /\ told <= MemSize /\ told \in Nat
  BY <1>0, <1>1, NextAccepted, FitsIsBound DEF GET_PARAM, ParamMemType
<1>3. /\ size \div 2 \in Nat /\ 2 * (size \div 2) <= size
      /\ room <= MemSize /\ room \in Nat
  <2>1. size \div 2 \in Nat /\ 2 * (size \div 2) <= size
    OBVIOUS
  <2>2. Fits(GET_PARAM, size \div 2, mVariableResultMem)
    BY <1>0, NextAccepted
  <2>3. mVariableResultMem.size \in {0, MemSize} /\ GET_PARAM \in 0 .. 44
    BY <1>0 DEF ResultMemType, GET_PARAM
  <2>4. \A n \in Nat : Fits(GET_PARAM, n, mVariableResultMem) =>
          (GET_PARAM + n) % Word = GET_PARAM + n /\ GET_PARAM + n <= MemSize
    BY <2>3, FitsIsBound
  <2>5. room = GET_PARAM + size \div 2 /\ room <= MemSize
    BY <2>1, <2>2, <2>4
  <2> QED
    BY <2>1, <2>5 DEF GET_PARAM
<1>4. filled \in Nat /\ filled <= told
  BY <1>1, <1>2 DEF GET_NAME, GET_PARAM
<1>4a. NextNameClean(mVariableParamMem, v)
  <2>1. CASE v = NoVar
    BY <2>1 DEF NextNameClean
  <2>2. CASE v # NoVar
    <3>1. v \in Var /\ NextNameSize(v) = ShortSize(v) /\ ShortSize(v) \in Nat
      BY <2>2, NameSizes DEF NextNameSize
    <3>2. ShortSize(v) < HalfWord /\ HalfWord \in Nat
      BY <1>2, <3>1, MemSizeFacts DEF GET_PARAM
    <3>3. ShortSize(v) % HalfWord = ShortSize(v)
      BY <3>1, <3>2, NoWrap
    <3> QED
      BY <3>1, <3>3 DEF NextNameClean, NameClean
  <2> QED
    BY <2>1, <2>2
<1>5. PICK r \in Invoke(TaGetNext(vars, v, GET_PARAM, limit), TRUE) :
        LET got == Receive(mVariableResultMem, r)
            status == EfiStatus(r.teec)
            nameSize == r.need - GET_PARAM
            overflow == status = "SUCCESS" /\ nameSize > size \div 2
            next == IF status = "SUCCESS" /\ ~overflow THEN got.next ELSE NoVar
        IN /\ mVariableParamMem' = Fill(mVariableParamMem, filled)
           /\ mVariableResultMem' = got
           /\ io' = Extents(filled, told, room,
                            IF next = NoVar THEN 0 ELSE StrSize(next), size, TRUE)
           /\ ret' = Answer("GetNext", v, IF overflow THEN "BAD_BUFFER_SIZE" ELSE status,
                            size,
                            IF status \in {"SUCCESS", "BUFFER_TOO_SMALL"}
                            THEN (2 * nameSize) % Word ELSE size,
                            {}, <<>>, next)
           /\ UNCHANGED <<vars, session, proc>>
  BY <1>4a DEF NextCall, Overflows, Halved, Doubled, SetMem
<1> DEFINE got == Receive(mVariableResultMem, r)
           status == EfiStatus(r.teec)
           nameSize == r.need - GET_PARAM
           overflow == status = "SUCCESS" /\ nameSize > size \div 2
           next == IF status = "SUCCESS" /\ ~overflow THEN got.next ELSE NoVar
           newSize == IF status \in {"SUCCESS", "BUFFER_TOO_SMALL"}
                      THEN (2 * nameSize) % Word ELSE size
           handed == IF next = NoVar THEN 0 ELSE StrSize(next)
<1>6. /\ r \in ReplyType /\ r.attrs = {}
      /\ r.teec = "SUCCESS" => /\ r.next \in Var
                               /\ r.need = GET_PARAM + TaNameSize[r.next]
  <2>1. CASE r \in TaGetNext(vars, v, GET_PARAM, limit)
    BY <2>1, TaGetNextReplies
  <2>2. CASE r = Bare("OTHER")
    BY <2>2, BareType DEF TeecResult
  <2> QED
    BY <1>5, <2>1, <2>2, InvokeReplies
<1>7. /\ got \in ResultMemType /\ got.next \in Var \union {NoVar}
      /\ got.buffer = mVariableResultMem.buffer /\ got.size = mVariableResultMem.size
      /\ r.teec = "SUCCESS" => got.next = r.next
  BY <1>0, <1>6, ReceiveType DEF ResultMemType
<1>8. status \in EfiStatusType /\ (status = "SUCCESS" <=> r.teec = "SUCCESS")
  BY <1>6, EfiStatusValues DEF ReplyType
<1>9. handed \in Nat /\ handed <= size
  <2>1. CASE next = NoVar
    BY <2>1
  <2>2. CASE next # NoVar
    <3>0. status = "SUCCESS" /\ ~overflow /\ next = got.next
      <4> HIDE DEF status, overflow, got
      <4> QED
        BY <2>2
    <3>1. r.teec = "SUCCESS" /\ next = r.next /\ ~overflow
      <4> HIDE DEF status, overflow, got, next
      <4> QED
        BY <1>7, <1>8, <3>0
    <3>2. /\ next \in Var /\ nameSize = TaNameSize[next]
          /\ TaNameSize[next] <= size \div 2
      BY <1>3, <1>6, <1>8, <3>1, NameSizes DEF GET_PARAM
    <3> QED
      BY <1>3, <2>2, <3>2, NameSizes
  <2> QED
    BY <2>1, <2>2
<1>10. newSize \in Int
  <2>1. 2 * nameSize \in Int /\ Word \in Nat /\ Word > 0
    BY <1>6, MemSizeFacts DEF ReplyType, GET_PARAM
  <2> QED
    BY <2>1
<1>11. ret' \in AnswerType
  <2>1. (IF overflow THEN "BAD_BUFFER_SIZE" ELSE status) \in EfiStatusType
    BY <1>8 DEF EfiStatusType
  <2>2. /\ {} \in SUBSET Attribute /\ <<>> \in Seq(Tag)
        /\ next \in Var \union {NoVar}
        /\ "GetNext" \in {"None", "Get", "GetNext", "Set", "Query"}
    BY <1>7, EmptyData
  <2>3. ret' = Answer("GetNext", v, IF overflow THEN "BAD_BUFFER_SIZE" ELSE status,
                      size, newSize, {}, <<>>, next)
    BY <1>5
  <2> HIDE DEF got, status, overflow, newSize, next
  <2> QED
    BY <1>10, <2>1, <2>2, <2>3, AnswerIsAnswer
<1>12. io' \in ExtentsType /\ Bounds'
  <2>1. io' = Extents(filled, told, room, handed, size, TRUE)
    BY <1>5
  <2> HIDE DEF handed, told, filled, room
  <2> QED
    BY <1>2, <1>3, <1>4, <1>9, <2>1, ExtentsAreBounded
<1>13. /\ mVariableParamMem' \in ParamMemType /\ mVariableResultMem' \in ResultMemType
       /\ SameAllocation
  BY <1>0, <1>4, <1>5, <1>7, FillType DEF SameAllocation
<1>14. UNCHANGED <<vars, session, proc>>
  BY <1>5
<1> QED
  BY <1>11, <1>12, <1>13, <1>14, QuietStep DEF QuietFrame

LEMMA NextInvokeStep ==
  ASSUME Inv, NEW v \in Var \union {NoVar}, NEW null, NEW size \in Nat,
         NextRefusal(v, null, size) = "None", NextInvoke(v, size)
  PROVE  Inv' /\ Bounds' /\ QuietFrame
<1>1. (GET_PARAM + Halved(size)) % Word \in Nat
  BY MemSizeFacts DEF GET_PARAM, Halved
<1> QED
  BY <1>1, NextCallStep DEF NextInvoke

LEMMA NextStep ==
  ASSUME Inv, NEW v \in Var \union {NoVar}, NEW null \in NextNull,
         NEW size \in Nat, OpteeRuntimeGetNextVariableName(v, null, size), Bounds
  PROVE  Inv' /\ Bounds'
<1> DEFINE refusal == NextRefusal(v, null = "Name", size)
<1>0. CASE null = "Size" /\ proc' = "crashed" /\ UNCHANGED <<vars, session, buffers, ret, io>>
  <2>1. TypeOK'
    BY <1>0 DEF Inv, TypeOK, session, buffers
  <2>2. StoredFits' /\ Allocated' /\ NotCrashed'
    BY <1>0 DEF Inv, StoredFits, Stored, Allocated, NotCrashed, SizesPassed
  <2>3. Bounds'
    BY <1>0 DEF Bounds, TransportBounds, CallerBounds, NameAsSent
  <2> QED
    BY <2>1, <2>2, <2>3 DEF Inv
<1>1. CASE refusal # "None" /\ Refuse("GetNext", refusal)
  BY <1>1, NextRefusalType, RefuseStep
<1>2. CASE refusal = "None" /\ NextInvoke(v, size)
  BY <1>2, NextInvokeStep
<1> QED
  BY <1>0, <1>1, <1>2 DEF OpteeRuntimeGetNextVariableName

LEMMA SetInvokeStep ==
  ASSUME Inv, ~NoBuffers,
         NEW v \in Var, NEW attrs \in SUBSET Attribute, NEW size \in Nat, NEW tag \in Tag,
         SetFits(v, size), SetInvoke(v, attrs, size, tag)
  PROVE  Inv' /\ Bounds' /\ QuietSet
<1> DEFINE told == (SET_PARAM + StrSize(v) + size) % Word
           filled == SET_PAYLOAD + StrSize(v) + size
<1>0. /\ TypeOK /\ vars \in [Var -> Entry]
      /\ mVariableParamMem \in ParamMemType /\ mVariableResultMem \in ResultMemType
  BY DEF Inv, TypeOK
<1>1. /\ StrSize(v) < MemSize /\ told = SET_PARAM + StrSize(v) + size
      /\ told <= MemSize /\ SET_PARAM + StrSize(v) <= MemSize
  BY <1>0, SetFitsIsBound, NameSizes, MemSizeFacts DEF ParamMemType, SET_PARAM
<1>2. told \in Nat /\ filled \in Nat /\ filled <= told
  BY <1>1, NameSizes DEF SET_PARAM, SET_PAYLOAD
<1>3. NameClean(ClearedParam, SET_PAYLOAD, StrSize(v), v)
  BY <1>0, <1>1, NameIsClean DEF SET_PAYLOAD
<1>4. PICK r \in IF Heard(TRUE) THEN TaSet(vars, v, attrs, Bytes(tag, size))
                 ELSE {[reply |-> Bare("OTHER"), store |-> vars]} :
        /\ vars' = r.store
        /\ mVariableParamMem' = Fill(ClearedParam, filled)
        /\ mVariableResultMem' = ClearedResult
        /\ io' = Extents(filled, told, UINTN_SIZE, 0, 0, TRUE)
        /\ ret' = Answer("Set", v, EfiStatus(r.reply.teec), size, 0, {}, <<>>, NoVar)
        /\ proc' = IF NoBuffers THEN "crashed" ELSE proc
        /\ UNCHANGED session
  BY <1>3 DEF SetInvoke
<1>5. /\ r.reply.teec \in TeecResult /\ r.store \in [Var -> Entry]
      /\ \A w \in Var : w # v => r.store[w] = vars[w]
      /\ r.store[v] = vars[v] \/ Len(r.store[v].data) <= StoreMax
  <2>1. CASE r \in TaSet(vars, v, attrs, Bytes(tag, size))
    BY <1>0, <2>1, BytesType, TaSetReplies
  <2>2. CASE r = [reply |-> Bare("OTHER"), store |-> vars]
    BY <1>0, <2>2, BareType DEF TeecResult
  <2> QED
    BY <1>4, <2>1, <2>2
<1>6. proc' = proc
  BY <1>4
<1>7. /\ mVariableParamMem' \in ParamMemType /\ mVariableResultMem' \in ResultMemType
      /\ SameAllocation
  <2>1. /\ ClearedResult \in ResultMemType
        /\ ClearedResult.buffer = mVariableResultMem.buffer
        /\ ClearedResult.size = mVariableResultMem.size
    BY <1>0, ClearedResultType
  <2> QED
    BY <1>0, <1>2, <1>4, <2>1, ClearedParamType, FillType DEF SameAllocation
<1>8. ret' \in AnswerType
  <2>1. /\ EfiStatus(r.reply.teec) \in EfiStatusType
        /\ <<>> \in Seq(Tag) /\ {} \in SUBSET Attribute /\ 0 \in Int
        /\ v \in Var \union {NoVar} /\ NoVar \in Var \union {NoVar}
        /\ "Set" \in {"None", "Get", "GetNext", "Set", "Query"}
    BY <1>5, EfiStatusValues, EmptyData
  <2> QED
    BY <1>4, <2>1, AnswerIsAnswer
<1>9. io' \in ExtentsType /\ Bounds'
  <2>1. UINTN_SIZE \in Nat /\ UINTN_SIZE <= MemSize /\ 0 \in Nat /\ 0 <= 0
    BY MemSizeFacts DEF UINTN_SIZE
  <2> HIDE DEF told, filled
  <2> QED
    BY <1>1, <1>2, <1>4, <2>1, ExtentsAreBounded
<1>10. TypeOK'
  BY <1>0, <1>4, <1>5, <1>6, <1>7, <1>8, <1>9 DEF TypeOK, session
<1>11. StoredFits'
  <2>1. ASSUME NEW w \in Var
        PROVE  /\ Len(vars'[w].data) <= StoreMax
               /\ Stored(vars', w) => SET_PARAM + StrSize(w) <= MemSize
    BY <1>1, <1>4, <1>5 DEF Inv, StoredFits, Stored
  <2> QED
    BY <2>1 DEF StoredFits
<1>12. Allocated' /\ NotCrashed'
  BY <1>4, <1>6, <1>7 DEF Inv, Allocated, NotCrashed, SameAllocation, session
<1> QED
  BY <1>4, <1>6, <1>7, <1>9, <1>10, <1>11, <1>12 DEF Inv, QuietSet, session

LEMMA SetStep ==
  ASSUME Inv, mTeecSessionOpened => ~NoBuffers,
         NEW v \in Var, NEW null, NEW attrs \in SUBSET Attribute,
         NEW size \in Nat, NEW tag \in Tag,
         OpteeRuntimeSetVariable(v, null, attrs, size, tag)
  PROVE  Inv' /\ Bounds' /\ QuietSet
<1> DEFINE refusal == SetRefusal(null, size)
<1>1. CASE SetSessionId
  <2>1. ret' \in AnswerType /\ io' \in ExtentsType /\ Bounds'
    BY <1>1, NoAnswerType, NoExtentsType, NoBounds DEF SetSessionId
  <2>2. TypeOK'
    BY <1>1, <2>1 DEF SetSessionId, buffers, Inv, TypeOK
  <2>3. StoredFits' /\ Allocated' /\ NotCrashed'
    BY <1>1 DEF SetSessionId, buffers, Inv, StoredFits, Stored, Allocated, NotCrashed
  <2>4. QuietSet
    BY <1>1 DEF SetSessionId, QuietSet, SameAllocation, buffers
  <2> QED
    BY <2>1, <2>2, <2>3, <2>4 DEF Inv
<1>2. CASE refusal # "None" /\ Refuse("Set", refusal)
  <2>1. refusal \in EfiStatusType
    BY <1>2 DEF SetRefusal, EfiStatusType
  <2> QED
    BY <1>2, <2>1, RefuseStep DEF QuietFrame, QuietSet, session
<1>3. CASE Refuse("Set", "BAD_BUFFER_SIZE")
  BY <1>3, RefuseStep DEF EfiStatusType, QuietFrame, QuietSet, session
<1>4. CASE refusal = "None" /\ SetFits(v, size) /\ SetInvoke(v, attrs, size, tag)
  <2>1. mTeecSessionOpened
    BY <1>4 DEF SetRefusal
  <2> QED
    BY <1>4, <2>1, SetInvokeStep
<1> QED
  BY <1>1, <1>2, <1>3, <1>4 DEF OpteeRuntimeSetVariable

LEMMA QueryStep ==
  ASSUME Inv, NEW null, OpteeRuntimeQueryVariableInfo(null)
  PROVE  Inv' /\ Bounds' /\ QuietFrame
<1> DEFINE refusal == QueryRefusal(null)
<1>1. CASE refusal # "None" /\ Refuse("Query", refusal)
  <2>1. refusal \in EfiStatusType
    BY <1>1 DEF QueryRefusal, EfiStatusType
  <2> QED
    BY <1>1, <2>1, RefuseStep
<1>2. CASE refusal = "None"
  <2>0. mVariableParamMem \in ParamMemType /\ mVariableResultMem \in ResultMemType
    BY DEF Inv, TypeOK
  <2>1. PICK r \in Invoke(TaQuery, TRUE) :
          /\ mVariableParamMem' = Fill(mVariableParamMem, QUERY_PARAM)
          /\ mVariableResultMem' = Receive(mVariableResultMem, r)
          /\ io' = Extents(QUERY_PARAM, QUERY_PARAM, QUERY_RESULT, 0, 0, TRUE)
          /\ ret' = Answer("Query", NoVar, EfiStatus(r.teec), 0, 0, {}, <<>>, NoVar)
          /\ UNCHANGED <<vars, session, proc>>
    BY <1>2 DEF OpteeRuntimeQueryVariableInfo, SetMem
  <2>2. r \in ReplyType
    BY <2>1, InvokeReplies, FaultsType, BareType DEF TaQuery, TeecResult
  <2>3. ret' \in AnswerType
    <3>1. /\ EfiStatus(r.teec) \in EfiStatusType
          /\ <<>> \in Seq(Tag) /\ {} \in SUBSET Attribute /\ 0 \in Int /\ 0 \in Nat
          /\ NoVar \in Var \union {NoVar}
          /\ "Query" \in {"None", "Get", "GetNext", "Set", "Query"}
      BY <2>2, EfiStatusValues, EmptyData DEF ReplyType
    <3> QED
      BY <2>1, <3>1, AnswerIsAnswer
  <2>4. io' \in ExtentsType /\ Bounds'
    <3>1. /\ QUERY_PARAM \in Nat /\ QUERY_RESULT \in Nat /\ 0 \in Nat /\ 0 <= 0
          /\ QUERY_PARAM <= QUERY_PARAM /\ QUERY_PARAM <= MemSize /\ QUERY_RESULT <= MemSize
      BY MemSizeFacts DEF QUERY_PARAM, QUERY_RESULT
    <3> QED
      BY <2>1, <3>1, ExtentsAreBounded
  <2>5. /\ mVariableParamMem' \in ParamMemType /\ mVariableResultMem' \in ResultMemType
        /\ SameAllocation
    BY <2>0, <2>1, <2>2, FillType, ReceiveType DEF SameAllocation, QUERY_PARAM
  <2> QED
    BY <2>1, <2>3, <2>4, <2>5, QuietStep DEF QuietFrame
<1> QED
  BY <1>1, <1>2 DEF OpteeRuntimeQueryVariableInfo

----------------------------------------------------------------------------
(* The program around the services. *)

LEMMA BufferTypes ==
  ASSUME NEW b \in BOOLEAN
  PROVE  /\ ParamMem(b) \in ParamMemType /\ ResultMem(b) \in ResultMemType
         /\ ParamMem(b).buffer = b /\ ParamMem(b).size = MemSize
         /\ ResultMem(b).buffer = b /\ ResultMem(b).size = MemSize
         /\ NoParamMem \in ParamMemType /\ NoResultMem \in ResultMemType
<1>1. <<>> \in Seq(Tag) /\ {} \in SUBSET Attribute
  BY EmptyData
<1> QED
  BY <1>1 DEF ParamMem, ResultMem, NoParamMem, NoResultMem, ParamMemType, ResultMemType

LEMMA InitInv == Init => Inv /\ Bounds
<1> SUFFICES ASSUME Init PROVE Inv /\ Bounds
  OBVIOUS
<1>1. Absent \in Entry /\ Absent.data = <<>> /\ Len(Absent.data) = 0
  BY EmptyData DEF Absent, Entry
<1>2. TypeOK
  BY <1>1, NoAnswerType, NoExtentsType, BufferTypes DEF Init, TypeOK
<1>3. StoredFits
  <2>1. \A v \in Var : vars[v] = Absent
    BY DEF Init
  <2>2. 0 <= StoreMax
    BY StoreAssumption
  <2>3. \A v \in Var : Len(vars[v].data) <= StoreMax /\ ~Stored(vars, v)
    BY <1>1, <2>1, <2>2 DEF Stored
  <2> QED
    BY <2>3 DEF StoredFits
<1>4. Allocated /\ NotCrashed
  BY DEF Init, Allocated, NotCrashed
<1>5. Bounds
  BY NoExtentsType, MemSizeFacts
  DEF Init, Bounds, TransportBounds, CallerBounds, NameAsSent
<1> QED
  BY <1>2, <1>3, <1>4, <1>5 DEF Inv

LEMMA StartStep ==
  ASSUME Inv, Unopened, Start
  PROVE  Inv' /\ (Bounds => Bounds')
<1>1. UNCHANGED <<vars, ret, io>> /\ proc = "starting"
  BY DEF Start
<1>2. /\ live' \in SessionId \union {NoSession}
      /\ mTeecSession' \in SessionId \union {NoSession}
      /\ mTeecSessionOpened' \in BOOLEAN
      /\ mVariableParamMem' \in ParamMemType /\ mVariableResultMem' \in ResultMemType
      /\ proc' \in {"up", "gone"}
      /\ Allocated'
  <2>1. CASE UNCHANGED <<session, buffers>> /\ proc' \in {"up", "gone"}
    BY <1>1, <2>1 DEF Inv, TypeOK, Allocated, Unopened, session, buffers
  <2>2. ASSUME NEW status \in {"PROTOCOL_ERROR", "OUT_OF_RESOURCES", "SUCCESS"},
               TaOpenSession(status), proc' = IF status = "SUCCESS" THEN "up" ELSE "gone"
        PROVE  <1>2
    <3>1. /\ live' \in SessionId \union {NoSession}
          /\ mTeecSession' \in SessionId \union {NoSession}
          /\ mTeecSessionOpened' \in BOOLEAN
      BY <2>2 DEF TaOpenSession, OpenSession, session, Inv, TypeOK
    <3>2. mVariableParamMem' \in ParamMemType /\ mVariableResultMem' \in ResultMemType
      BY <2>2, BufferTypes DEF TaOpenSession, buffers, Inv, TypeOK
    <3>3. Allocated'
      BY <2>2, BufferTypes DEF TaOpenSession, Allocated
    <3> QED
      BY <2>2, <3>1, <3>2, <3>3
  <2> QED
    BY <2>1, <2>2 DEF Start
<1>3. TypeOK'
  BY <1>1, <1>2 DEF Inv, TypeOK
<1>4. StoredFits' /\ NotCrashed' /\ (Bounds => Bounds')
  BY <1>1, <1>2 DEF Inv, StoredFits, Stored, NotCrashed,
     Bounds, TransportBounds, CallerBounds, NameAsSent
<1> QED
  BY <1>2, <1>3, <1>4 DEF Inv

LEMMA ExitStep ==
  ASSUME Inv, Bounds, Exit
  PROVE  Inv' /\ Bounds'
<1>1. TypeOK'
  BY DEF Exit, OpteeRuntimeOnExitBootServices, Inv, TypeOK, ParamMemType, ResultMemType
<1>2. StoredFits' /\ Allocated' /\ NotCrashed'
  BY DEF Exit, OpteeRuntimeOnExitBootServices, Inv, StoredFits, Stored, Allocated, NotCrashed
<1>3. Bounds'
  BY DEF Exit, OpteeRuntimeOnExitBootServices, Bounds, TransportBounds, CallerBounds, NameAsSent
<1> QED
  BY <1>1, <1>2, <1>3 DEF Inv

LEMMA RestartStep ==
  ASSUME Inv, Restart
  PROVE  Inv' /\ Bounds'
<1>1. Absent \in Entry /\ Absent.data = <<>> /\ Len(Absent.data) = 0
  BY EmptyData DEF Absent, Entry
<1>2. /\ vars' \in [Var -> Entry]
      /\ \A v \in Var : vars'[v] = vars[v] \/ vars'[v] = Absent
  BY <1>1 DEF Restart, Rebooted, Inv, TypeOK
<1>3. TypeOK'
  BY <1>2, NoAnswerType, NoExtentsType, BufferTypes DEF Restart, Load, TypeOK
<1>4. StoredFits'
  BY <1>1, <1>2, StoreAssumption DEF Inv, StoredFits, Stored
<1>5. Allocated' /\ NotCrashed' /\ Bounds'
  BY NoBounds DEF Restart, Load, Allocated, NotCrashed
<1> QED
  BY <1>3, <1>4, <1>5 DEF Inv

(* No service opens a session or goes back to the start of the process. *)
Going == mTeecSessionOpened' = mTeecSessionOpened /\ proc' \in {proc, "crashed"}

LEMMA RefuseGoes == \A op, status : Refuse(op, status) => Going
  BY DEF Refuse, session, Going

LEMMA GetGoes ==
  ASSUME NEW v, NEW null, NEW size, OpteeRuntimeGetVariable(v, null, size)
  PROVE  Going
<1>1. GetSessionId => Going
  BY DEF GetSessionId, session, Going
<1>2. GetInvoke(v, size) => Going
  BY DEF GetInvoke, GetCall, session, Going
<1> QED
  BY <1>1, <1>2, RefuseGoes DEF OpteeRuntimeGetVariable

LEMMA GetNextGoes ==
  ASSUME NEW v, NEW null, NEW size, OpteeRuntimeGetNextVariableName(v, null, size)
  PROVE  Going
<1>1. NextInvoke(v, size) => Going
  BY DEF NextInvoke, NextCall, session, Going
<1>2. proc' = "crashed" /\ UNCHANGED <<vars, session, buffers, ret, io>> => Going
  BY DEF session, Going
<1> QED
  BY <1>1, <1>2, RefuseGoes DEF OpteeRuntimeGetNextVariableName

LEMMA SetGoes ==
  ASSUME NEW v, NEW null, NEW attrs, NEW size, NEW tag,
         OpteeRuntimeSetVariable(v, null, attrs, size, tag)
  PROVE  Going
<1>1. SetSessionId => Going
  BY DEF SetSessionId, Going
<1>2. SetInvoke(v, attrs, size, tag) => Going
  BY DEF SetInvoke, session, Going
<1> QED
  BY <1>1, <1>2, RefuseGoes DEF OpteeRuntimeSetVariable

LEMMA QueryGoes ==
  ASSUME NEW null, OpteeRuntimeQueryVariableInfo(null)
  PROVE  Going
  BY RefuseGoes DEF OpteeRuntimeQueryVariableInfo, session, Going

LEMMA UnopenedStep == Unopened /\ [Next]_dvars => Unopened'
<1> SUFFICES ASSUME Unopened, [Next]_dvars PROVE Unopened'
  OBVIOUS
<1>1. CASE Start
  BY <1>1 DEF Start, Unopened
<1>2. CASE Get \/ GetNext \/ Set \/ Query
  <2>1. Going
    BY <1>2, GetGoes, GetNextGoes, SetGoes, QueryGoes DEF Get, GetNext, Set, Query
  <2> QED
    BY <2>1 DEF Going, Unopened
<1>3. CASE Exit
  BY <1>3 DEF Exit, OpteeRuntimeOnExitBootServices, Unopened
<1>4. CASE Restart
  BY <1>4 DEF Restart, Load, Unopened
<1>5. CASE UNCHANGED dvars
  BY <1>5 DEF dvars, session, Unopened
<1> QED
  BY <1>1, <1>2, <1>3, <1>4, <1>5 DEF Next

LEMMA NextInv == Inv /\ Bounds /\ Unopened /\ [Next]_dvars => Inv' /\ Bounds'
<1> SUFFICES ASSUME Inv, Bounds, Unopened, [Next]_dvars PROVE Inv' /\ Bounds'
  OBVIOUS
<1>0. Size \subseteq Nat /\ AttrSet \subseteq SUBSET Attribute
  BY SizeAssumption, ArgumentAssumption
<1>1. CASE Start
  BY <1>1, StartStep
<1>2. CASE Get
  BY <1>0, <1>2, GetStep DEF Get
<1>3. CASE GetNext
  BY <1>0, <1>3, NextStep DEF GetNext
<1>4. CASE proc = "up" /\ Set
  <2>1. mTeecSessionOpened => ~NoBuffers
    BY <1>4 DEF Inv, Allocated, NoBuffers
  <2> QED
    BY <1>0, <1>4, <2>1, SetStep DEF Set
<1>5. CASE Query
  BY <1>5, QueryStep DEF Query
<1>6. CASE Exit
  BY <1>6, ExitStep
<1>7. CASE Restart
  BY <1>7, RestartStep
<1>8. CASE UNCHANGED dvars
  BY <1>8 DEF dvars, session, buffers, Inv, TypeOK, StoredFits, Stored, Allocated,
              NotCrashed, Bounds, TransportBounds, CallerBounds, NameAsSent
<1> QED
  BY <1>1, <1>2, <1>3, <1>4, <1>5, <1>6, <1>7, <1>8 DEF Next

(* Whatever services are called in whatever order, with whatever the TA answers:
   the variables keep to their types, what is stored fits the transport, a
   process with a session it takes for open has both buffers, and the last call
   kept to its bounds. *)
THEOREM Invariance == Spec => [](Inv /\ Bounds)
<1>1. Init => Unopened
  BY DEF Init, Unopened
<1> QED
  BY <1>1, InitInv, NextInv, UnopenedStep, PTL DEF Spec

(* The same, and with it every bound, of a TA that fills the block whatever
   room it is given (AuthVarsDxe.c:495 and 685, "Shouldn't happen, but..."). *)
THEOREM CarelessInvariance == SpecCareless => [](Inv /\ Bounds)
<1>1. Init => Unopened
  BY DEF Init, Unopened
<1>2. Inv /\ Bounds /\ Unopened /\ [NextCareless]_dvars => Inv' /\ Bounds' /\ Unopened'
  <2> SUFFICES ASSUME Inv, Bounds, Unopened, [NextCareless]_dvars
               PROVE  Inv' /\ Bounds' /\ Unopened'
    OBVIOUS
  <2>1. MemSize \in Nat /\ Size \subseteq Nat
    BY MemSizeFacts, SizeAssumption
  <2>2. CASE [Next]_dvars
    BY <2>2, NextInv, UnopenedStep
  <2>3. CASE proc = "up" /\ OverlongGet
    <3>1. PICK v \in Var, size \in Size :
            GetRefusal(v, "None", size) = "None" /\ GetCall(v, size, MemSize)
      BY <2>3 DEF OverlongGet
    <3> QED
      BY <2>1, <2>3, <3>1, GetCallStep DEF QuietFrame, Unopened
  <2>4. CASE proc = "up" /\ OverlongNext
    <3>1. PICK v \in Var \union {NoVar}, size \in Size :
            NextRefusal(v, FALSE, size) = "None" /\ NextCall(v, size, MemSize)
      BY <2>4 DEF OverlongNext
    <3> QED
      BY <2>1, <2>4, <3>1, NextCallStep DEF QuietFrame, Unopened
  <2> QED
    BY <2>2, <2>3, <2>4 DEF NextCareless
<1> QED
  BY <1>1, <1>2, InitInv, PTL DEF SpecCareless

(* The variables of the driver keep to their types. *)
THEOREM TypeCorrect == Spec => []TypeOK
<1>1. Inv /\ Bounds => TypeOK
  BY DEF Inv
<1> QED
  BY <1>1, Invariance, PTL

(* No call fills more of the param buffer than it declares, nor declares more
   than a buffer holds, for any sizes a caller passes (AuthVarsDxe.c:401-431,
   594-624, 794-811). *)
THEOREM TransportIsBounded == Spec => []TransportBounds
<1>1. Inv /\ Bounds => TransportBounds
  BY DEF Bounds
<1> QED
  BY <1>1, Invariance, PTL

(* No call writes more into the caller's buffer than the caller said it holds
   (AuthVarsDxe.c:495-505 and 685-696), not even when the TA returns more. *)
THEOREM CallersAreBounded == SpecCareless => []CallerBounds
<1>1. Inv /\ Bounds => CallerBounds
  BY DEF Bounds
<1> QED
  BY <1>1, CarelessInvariance, PTL

(* The TA reads the names callers pass.  GetVariable and SetVariable clear the
   buffer beneath the name (AuthVarsDxe.c:436-447, 816-831); GetNextVariableName
   does not (629-640), and declares exactly the bytes it writes (571-576). *)
THEOREM NamesAreSent == Spec => []NameAsSent
<1>1. Inv /\ Bounds => NameAsSent
  BY DEF Bounds
<1> QED
  BY <1>1, Invariance, PTL

(* With callers that pass a size, nothing reaches the transport without its
   buffers: SetVariable may go without the test the other services make. *)
THEOREM ServicesAreUsable == SizesPassed => (Spec => []ServicesUsable)
<1> SUFFICES ASSUME SizesPassed PROVE Spec => []ServicesUsable
  OBVIOUS
<1>1. Inv /\ Bounds => ServicesUsable
  BY DEF Inv, Allocated, NotCrashed, ServicesUsable
<1> QED
  BY <1>1, Invariance, PTL

(* A structure within the size of a buffer passes both tests on it. *)
LEMMA FitsBelow ==
  ASSUME NEW header \in 0 .. 44, NEW n \in Nat, NEW mem,
         mem.size = MemSize, n < MemSize, header + n <= MemSize
  PROVE  Fits(header, n, mem)
<1>1. header + n \in Nat /\ header + n < Word
  BY MemSizeFacts
<1>2. (header + n) % Word = header + n
  BY <1>1, MemSizeFacts, NoWrap
<1> QED
  BY <1>2 DEF Fits

(* Readability follows from the invariant alone. *)
LEMMA ReadableInv ==
  ASSUME Inv, GET_RESULT + StoreMax <= MemSize
  PROVE  ReadableBack
<1> SUFFICES ASSUME proc = "up", mTeecSessionOpened,
                    NEW v \in Var, Stored(vars, v)
             PROVE  /\ GetRefusal(v, "None", Len(vars[v].data)) = "None"
                    /\ NextRefusal(v, FALSE, 2 * TaNameSize[v]) = "None"
  BY DEF ReadableBack
<1>1. /\ Len(vars[v].data) \in Nat /\ Len(vars[v].data) <= StoreMax
      /\ SET_PARAM + StrSize(v) <= MemSize
  <2>1. vars[v].data \in Seq(Tag)
    BY DEF Inv, TypeOK, Entry
  <2> QED
    BY <2>1, LenProperties DEF Inv, StoredFits
<1>2. /\ ~NoBuffers
      /\ mVariableParamMem.size = MemSize /\ mVariableResultMem.size = MemSize
  BY DEF Inv, Allocated, NoBuffers
<1>3. /\ StrSize(v) \in Nat /\ TaNameSize[v] \in Nat /\ TaNameSize[v] <= StrSize(v)
      /\ MemSize \in Nat /\ StoreMax \in Nat
  BY NameSizes, MemSizeFacts, TaNameSizeAssumption, StoreAssumption
<1>4. /\ (2 * TaNameSize[v]) \div 2 = TaNameSize[v]
      /\ NextNameSize(v) \in Nat /\ NextNameSize(v) <= StrSize(v)
  <2>1. \A n \in Nat : (2 * n) \div 2 = n
    OBVIOUS
  <2>2. NextNameSize(v) = ShortSize(v) /\ ShortSize(v) \in Nat /\ ShortSize(v) <= StrSize(v)
    BY NameSizes DEF NextNameSize
  <2> QED
    BY <1>3, <2>1, <2>2
<1>5. /\ GET_PARAM \in 0 .. 44 /\ GET_RESULT \in 0 .. 44
      /\ \A n \in Nat : n <= StrSize(v) => n < MemSize /\ GET_PARAM + n <= MemSize
  BY <1>1, <1>3 DEF GET_PARAM, GET_RESULT, SET_PARAM
<1>6. Fits(GET_PARAM, StrSize(v), mVariableParamMem)
  BY <1>2, <1>3, <1>5, FitsBelow
<1>7. Fits(GET_RESULT, Len(vars[v].data), mVariableResultMem)
  <2>1. Len(vars[v].data) < MemSize /\ GET_RESULT + Len(vars[v].data) <= MemSize
    BY <1>1, <1>3 DEF GET_RESULT
  <2> QED
    BY <1>1, <1>2, <1>5, <2>1, FitsBelow
<1>8. /\ Fits(GET_PARAM, NextNameSize(v), mVariableParamMem)
      /\ Fits(GET_PARAM, TaNameSize[v], mVariableResultMem)
  BY <1>2, <1>3, <1>4, <1>5, FitsBelow
<1>9. GetRefusal(v, "None", Len(vars[v].data)) = "None"
  BY <1>2, <1>6, <1>7 DEF GetRefusal, Incomplete, EfiAtRuntime
<1>10. NextRefusal(v, FALSE, 2 * TaNameSize[v]) = "None"
  BY <1>2, <1>4, <1>8 DEF NextRefusal, Halved, EfiAtRuntime
<1> QED
  BY <1>9, <1>10

(* Where the TA stores no more in a variable than a read can carry back, every
   variable written through the driver can be read and enumerated through it
   (the size tests of the three services, AuthVarsDxe.c:401-431, 594-624 and
   794-811). *)
THEOREM WrittenIsReadable ==
  GET_RESULT + StoreMax <= MemSize => (Spec => []ReadableBack)
<1> SUFFICES ASSUME GET_RESULT + StoreMax <= MemSize PROVE Spec => []ReadableBack
  OBVIOUS
<1>1. Inv /\ Bounds => ReadableBack
  BY ReadableInv
<1> QED
  BY <1>1, Invariance, PTL

----------------------------------------------------------------------------
(* The driver implements VariableService: every step of it, seen through the
   TA's store and the reply the caller gets, is a step of the abstract
   specification or changes neither.  What the abstract specification says of a
   caller that asks again then holds of the driver. *)

----------------------------------------------------------------------------
(* The operators both specifications take from Variables are the same. *)

LEMMA SameAnswer ==
  ASSUME NEW op, NEW v, NEW status, NEW room, NEW size, NEW attrs, NEW data, NEW next
  PROVE  Service!Answer(op, v, status, room, size, attrs, data, next)
           = Answer(op, v, status, room, size, attrs, data, next)
  BY DEF Service!Answer, Answer

LEMMA SameStore ==
  ASSUME NEW st, NEW v
  PROVE  /\ Service!Stored(st, v) <=> Stored(st, v)
         /\ Service!After(st, v) = After(st, v)
         /\ \A w : Service!IsNext(st, v, w) <=> IsNext(st, v, w)
  BY DEF Service!Stored, Stored, Service!After, After, Service!IsNext, IsNext

LEMMA SameWrite ==
  ASSUME NEW st, NEW attrs, NEW data
  PROVE  /\ Service!IsDelete(attrs, data) <=> IsDelete(attrs, data)
         /\ \A old : Service!Written(old, attrs, data) = Written(old, attrs, data)
         /\ Service!Rebooted(st) = Rebooted(st)
         /\ Service!Absent = Absent
         /\ Service!NoAnswer = NoAnswer
  BY DEF Service!IsDelete, IsDelete, Service!Written, Written, Service!Rebooted, Rebooted,
         Service!Absent, Absent, Service!NoAnswer, NoAnswer, Service!Answer, Answer

----------------------------------------------------------------------------
(* What a TEEC failure that has nothing to do with the request becomes. *)
LEMMA FailureStatus ==
  ASSUME NEW teec \in {"OUT_OF_MEMORY", "ACCESS_DENIED", "OTHER"}
  PROVE  EfiStatus(teec) \in Service!Failure
<1>1. CASE teec = "OUT_OF_MEMORY"
  BY <1>1 DEF EfiStatus, Service!Failure
<1>2. CASE teec = "ACCESS_DENIED"
  BY <1>2 DEF EfiStatus, Service!Failure
<1>3. CASE teec = "OTHER"
  BY <1>3 DEF EfiStatus, Service!Failure
<1> QED
  BY <1>1, <1>2, <1>3

LEMMA AnswerStatus ==
  /\ EfiStatus("SUCCESS") = "SUCCESS"
  /\ EfiStatus("ITEM_NOT_FOUND") = "NOT_FOUND"
  /\ EfiStatus("SHORT_BUFFER") = "BUFFER_TOO_SMALL"
  BY DEF EfiStatus

(* The replies to a read, told apart by the store and the size offered. *)
LEMMA GetOutcome ==
  ASSUME vars \in [Var -> Entry], NEW v \in Var, NEW size \in Nat, NEW clean,
         NEW r \in Invoke(TaGet(vars, v, GET_RESULT, GET_RESULT + size), clean)
  PROVE  \/ /\ r.teec = "SUCCESS" /\ Stored(vars, v) /\ Len(vars[v].data) <= size
            /\ r.attrs = vars[v].attrs /\ r.data = vars[v].data
         \/ /\ r.teec = "SHORT_BUFFER" /\ Stored(vars, v) /\ Len(vars[v].data) > size
            /\ r.need - GET_RESULT = Len(vars[v].data)
            /\ r.attrs \in {{}, vars[v].attrs}
         \/ r.teec = "ITEM_NOT_FOUND" /\ ~Stored(vars, v) /\ r.attrs = {}
         \/ r.teec \in {"OUT_OF_MEMORY", "ACCESS_DENIED", "OTHER"} /\ r.attrs = {}
<1>0. Len(vars[v].data) \in Nat /\ GET_RESULT \in Nat
  BY LenProperties DEF Entry, GET_RESULT
<1>1. CASE r \in Faults
  BY <1>1, FaultsAreFaults
<1>2. CASE r = Bare("OTHER")
  BY <1>2, BareType DEF TeecResult
<1>3. CASE r \notin Faults /\ r \in TaGet(vars, v, GET_RESULT, GET_RESULT + size)
  <2>1. CASE ~Stored(vars, v)
    <3>1. r = Bare("ITEM_NOT_FOUND")
      BY <1>3, <2>1 DEF TaGet
    <3> QED
      BY <2>1, <3>1, BareType DEF TeecResult
  <2>2. CASE Stored(vars, v) /\ GET_RESULT + Len(vars[v].data) > GET_RESULT + size
    <3>1. PICK a \in {{}, vars[v].attrs} :
            r = Reply("SHORT_BUFFER", GET_RESULT + Len(vars[v].data), a, <<>>, NoVar)
      BY <1>3, <2>2 DEF TaGet
    <3> QED
      BY <1>0, <2>2, <3>1 DEF Reply
  <2>3. CASE Stored(vars, v) /\ ~(GET_RESULT + Len(vars[v].data) > GET_RESULT + size)
    <3>1. r = Reply("SUCCESS", GET_RESULT + Len(vars[v].data),
                    vars[v].attrs, vars[v].data, NoVar)
      BY <1>3, <2>3 DEF TaGet
    <3> QED
      BY <1>0, <2>3, <3>1 DEF Reply
  <2> QED
    BY <2>1, <2>2, <2>3
<1> QED
  BY <1>1, <1>2, <1>3, InvokeReplies

(* The replies to an enumeration step. *)
LEMMA NextOutcome ==
  ASSUME vars \in [Var -> Entry], NEW v \in Var \union {NoVar}, NEW n \in Nat, NEW clean,
         NEW r \in Invoke(TaGetNext(vars, v, GET_PARAM, GET_PARAM + n), clean)
  PROVE  \/ /\ v = NoVar \/ Stored(vars, v)
            /\ \E w \in Var :
                 /\ IsNext(vars, v, w)
                 /\ r.need - GET_PARAM = TaNameSize[w]
                 /\ \/ r.teec = "SUCCESS" /\ TaNameSize[w] <= n /\ r.next = w
                    \/ r.teec = "SHORT_BUFFER" /\ TaNameSize[w] > n
         \/ /\ r.teec = "ITEM_NOT_FOUND"
            /\ After(vars, v) = {} \/ (v # NoVar /\ ~Stored(vars, v))
         \/ r.teec \in {"OUT_OF_MEMORY", "ACCESS_DENIED", "OTHER"}
<1>1. CASE r \in Faults
  BY <1>1, FaultsAreFaults
<1>2. CASE r = Bare("OTHER")
  BY <1>2, BareType DEF TeecResult
<1>3. CASE r \notin Faults /\ r \in TaGetNext(vars, v, GET_PARAM, GET_PARAM + n)
  <2>1. CASE (v # NoVar /\ ~Stored(vars, v)) \/ After(vars, v) = {}
    <3>1. r = Bare("ITEM_NOT_FOUND")
      BY <1>3, <2>1 DEF TaGetNext
    <3> QED
      BY <2>1, <3>1, BareType DEF TeecResult
  <2>2. CASE ~((v # NoVar /\ ~Stored(vars, v)) \/ After(vars, v) = {})
    <3>1. PICK w \in {x \in Var : IsNext(vars, v, x)} :
            r = IF GET_PARAM + TaNameSize[w] > GET_PARAM + n
                THEN Reply("SHORT_BUFFER", GET_PARAM + TaNameSize[w], {}, <<>>, NoVar)
                ELSE Reply("SUCCESS", GET_PARAM + TaNameSize[w], {}, <<>>, w)
      BY <1>3, <2>2 DEF TaGetNext
    <3>2. w \in Var /\ IsNext(vars, v, w) /\ TaNameSize[w] \in Nat
      BY <3>1, NameSizes
    <3>3. CASE TaNameSize[w] > n
      BY <2>2, <3>1, <3>2, <3>3 DEF Reply, GET_PARAM
    <3>4. CASE ~(TaNameSize[w] > n)
      BY <2>2, <3>1, <3>2, <3>4 DEF Reply, GET_PARAM
    <3> QED
      BY <3>3, <3>4
  <2> QED
    BY <2>1, <2>2
<1> QED
  BY <1>1, <1>2, <1>3, InvokeReplies

(* The replies to a write, with the store each leaves. *)
LEMMA SetOutcome ==
  ASSUME vars \in [Var -> Entry], NEW v \in Var, NEW attrs, NEW data,
         NEW r \in TaSet(vars, v, attrs, data)
  PROVE  \/ /\ r.reply.teec = "SUCCESS"
            /\ ~(IsDelete(attrs, data) /\ ~Stored(vars, v))
            /\ r.store = [vars EXCEPT ![v] = Written(vars[v], attrs, data)]
         \/ /\ r.reply.teec = "ITEM_NOT_FOUND"
            /\ IsDelete(attrs, data) /\ ~Stored(vars, v)
            /\ r.store = vars
         \/ /\ r.reply.teec \in {"OUT_OF_MEMORY", "ACCESS_DENIED", "OTHER"}
            /\ r.store = vars
<1> DEFINE new == Written(vars[v], attrs, data)
           result == IF IsDelete(attrs, data) /\ ~Stored(vars, v) THEN "ITEM_NOT_FOUND"
                     ELSE IF Len(new.data) > StoreMax THEN "OUT_OF_MEMORY"
                     ELSE "SUCCESS"
<1>1. CASE r \in {[reply |-> f, store |-> vars] : f \in Faults}
  BY <1>1, FaultsAreFaults
<1>2. CASE r = [reply |-> Bare(result),
                store |-> IF result = "SUCCESS" THEN [vars EXCEPT ![v] = new] ELSE vars]
  <2>1. result \in TeecResult
    BY DEF TeecResult
  <2>2. r.reply.teec = result
    BY <1>2, <2>1, BareType
  <2> HIDE DEF new
  <2> QED
    BY <1>2, <2>2 DEF new
<1> QED
  BY <1>1, <1>2 DEF TaSet

----------------------------------------------------------------------------
(* One lemma per call that reaches the TA. *)

LEMMA GetImplements ==
  ASSUME Inv, NEW v \in Var, NEW null, NEW size \in Nat,
         GetRefusal(v, null, size) = "None", GetInvoke(v, size)
  PROVE  Service!GetVariable(v, size)
<1> DEFINE e == vars[v]
<1>0. /\ TypeOK /\ vars \in [Var -> Entry]
      /\ mVariableResultMem \in ResultMemType
  BY DEF Inv, TypeOK
<1>1. (GET_RESULT + size) % Word = GET_RESULT + size
  BY <1>0, GetAccepted, FitsIsBound DEF GET_RESULT, ResultMemType
<1>2. PICK r \in Invoke(TaGet(vars, v, GET_RESULT, GET_RESULT + size),
                        NameClean(ClearedParam, GET_NAME, StrSize(v), v)) :
        LET got == Receive(ClearedResult, r)
            status == EfiStatus(r.teec)
            overflow == status = "SUCCESS" /\ Len(got.data) > size
            newSize == CASE status = "BUFFER_TOO_SMALL" -> r.need - GET_RESULT
                         [] status = "SUCCESS" -> Len(got.data)
                         [] OTHER -> size
            data == IF status = "SUCCESS" /\ ~overflow THEN got.data ELSE <<>>
        IN /\ ret' = Answer("Get", v, IF overflow THEN "BAD_BUFFER_SIZE" ELSE status,
                            size, newSize, got.attrs, data, NoVar)
           /\ vars' = vars
  BY <1>1 DEF GetInvoke, GetCall, Overflows
<1> DEFINE got == Receive(ClearedResult, r)
<1>3. /\ ClearedResult.attrs = {} /\ Len(e.data) \in Nat
      /\ ClearedResult \in ResultMemType
  BY <1>0, LenProperties, ClearedResultType DEF ClearedResult, ResultMemType, Entry
<1>4. CASE /\ r.teec = "SUCCESS" /\ Stored(vars, v) /\ Len(e.data) <= size
           /\ r.attrs = e.attrs /\ r.data = e.data
  <2>1. got.attrs = e.attrs /\ got.data = e.data
    BY <1>3, <1>4 DEF Receive, ResultMemType
  <2>2. ret' = Answer("Get", v, "SUCCESS", size, Len(e.data), e.attrs, e.data, NoVar)
    <3> HIDE DEF got
    <3> QED
      BY <1>0, <1>2, <1>3, <1>4, <2>1, AnswerStatus DEF got
  <2> QED
    BY <1>2, <1>4, <2>2, SameAnswer, SameStore DEF Service!GetVariable
<1>5. CASE /\ r.teec = "SHORT_BUFFER" /\ Stored(vars, v) /\ Len(e.data) > size
           /\ r.need - GET_RESULT = Len(e.data)
           /\ r.attrs \in {{}, e.attrs}
  <2>1. got.attrs \in {{}, e.attrs}
    BY <1>3, <1>5 DEF Receive, ResultMemType
  <2>2. ret' = Answer("Get", v, "BUFFER_TOO_SMALL", size, Len(e.data), got.attrs, <<>>, NoVar)
    <3> HIDE DEF got
    <3> QED
      BY <1>2, <1>5, AnswerStatus DEF got
  <2> QED
    BY <1>2, <1>5, <2>1, <2>2, SameAnswer, SameStore DEF Service!GetVariable
<1>6. CASE r.teec = "ITEM_NOT_FOUND" /\ ~Stored(vars, v) /\ r.attrs = {}
  <2>1. got.attrs = {}
    BY <1>3, <1>6 DEF Receive
  <2>2. ret' = Answer("Get", v, "NOT_FOUND", size, size, {}, <<>>, NoVar)
    <3> HIDE DEF got
    <3> QED
      BY <1>2, <1>6, <2>1, AnswerStatus DEF got
  <2> QED
    BY <1>2, <1>6, <2>2, SameAnswer, SameStore DEF Service!GetVariable
<1>7. CASE r.teec \in {"OUT_OF_MEMORY", "ACCESS_DENIED", "OTHER"} /\ r.attrs = {}
  <2>1. got.attrs = {}
    BY <1>3, <1>7 DEF Receive
  <2>2. /\ EfiStatus(r.teec) \in Service!Failure
        /\ EfiStatus(r.teec) # "SUCCESS" /\ EfiStatus(r.teec) # "BUFFER_TOO_SMALL"
    BY <1>7, FailureStatus DEF Service!Failure
  <2>3. ret' = Answer("Get", v, EfiStatus(r.teec), size, size, {}, <<>>, NoVar)
    <3> HIDE DEF got
    <3> QED
      BY <1>2, <2>1, <2>2 DEF got
  <2> QED
    BY <1>2, <2>2, <2>3, SameAnswer DEF Service!GetVariable
<1> QED
  BY <1>0, <1>2, <1>4, <1>5, <1>6, <1>7, GetOutcome

LEMMA NextImplements ==
  ASSUME Inv, NEW v \in Var \union {NoVar}, NEW null, NEW size \in Nat,
         NextRefusal(v, null, size) = "None", NextInvoke(v, size)
  PROVE  Service!GetNextVariableName(v, size)
<1> DEFINE half == size \div 2
<1>0. /\ TypeOK /\ vars \in [Var -> Entry] /\ half \in Nat
      /\ mVariableResultMem \in ResultMemType
  BY DEF Inv, TypeOK
<1>1. (GET_PARAM + half) % Word = GET_PARAM + half
  <2>1. Fits(GET_PARAM, half, mVariableResultMem)
    BY <1>0, NextAccepted
  <2>2. mVariableResultMem.size \in {0, MemSize} /\ GET_PARAM \in 0 .. 44
    BY <1>0 DEF ResultMemType, GET_PARAM
  <2> HIDE DEF half
  <2> QED
    BY <1>0, <2>1, <2>2, FitsIsBound
<1>2. PICK r \in Invoke(TaGetNext(vars, v, GET_PARAM, GET_PARAM + half),
                        NextNameClean(mVariableParamMem, v)) :
        LET got == Receive(mVariableResultMem, r)
            status == EfiStatus(r.teec)
            nameSize == r.need - GET_PARAM
            overflow == status = "SUCCESS" /\ nameSize > half
            next == IF status = "SUCCESS" /\ ~overflow THEN got.next ELSE NoVar
        IN /\ ret' = Answer("GetNext", v, IF overflow THEN "BAD_BUFFER_SIZE" ELSE status,
                            size,
                            IF status \in {"SUCCESS", "BUFFER_TOO_SMALL"}
                            THEN (2 * nameSize) % Word ELSE size,
                            {}, <<>>, next)
           /\ vars' = vars
  BY <1>1 DEF NextInvoke, NextCall, Overflows, Halved, Doubled, SetMem
<1> DEFINE got == Receive(mVariableResultMem, r)
<1>3. ASSUME NEW w \in Var, IsNext(vars, v, w), v = NoVar \/ Stored(vars, v),
             r.need - GET_PARAM = TaNameSize[w],
             \/ r.teec = "SUCCESS" /\ TaNameSize[w] <= half /\ r.next = w
             \/ r.teec = "SHORT_BUFFER" /\ TaNameSize[w] > half
      PROVE  Service!GetNextVariableName(v, size)
  <2>1. Stored(vars, w) /\ TaNameSize[w] \in Nat /\ TaNameSize[w] <= StrSize(w)
    BY <1>3, NameSizes, TaNameSizeAssumption DEF IsNext, After
  <2>2. (2 * TaNameSize[w]) % Word = 2 * TaNameSize[w]
    <3>1. SET_PARAM + StrSize(w) <= MemSize /\ StrSize(w) \in Nat
      BY <2>1, NameSizes DEF Inv, StoredFits
    <3>2. 2 * TaNameSize[w] \in Nat /\ 2 * TaNameSize[w] < Word
      BY <2>1, <3>1, MemSizeFacts DEF SET_PARAM
    <3> QED
      BY <3>2, MemSizeFacts, NoWrap
  <2>3. TaNameSize[w] <= half <=> 2 * TaNameSize[w] <= size
    <3>1. \A n \in Nat : n <= size \div 2 <=> 2 * n <= size
      BY <1>0
    <3> QED
      BY <2>1, <3>1
  <2>4. CASE r.teec = "SUCCESS" /\ TaNameSize[w] <= half /\ r.next = w
    <3>1. got.next = w
      BY <1>0, <2>4 DEF Receive, ResultMemType
    <3>2. ~(TaNameSize[w] > half)
      BY <1>0, <2>1, <2>4
    <3>3. ret' = Answer("GetNext", v, "SUCCESS", size, 2 * TaNameSize[w], {}, <<>>, w)
      <4> HIDE DEF got, half
      <4> QED
        BY <1>2, <1>3, <2>2, <2>4, <3>1, <3>2, AnswerStatus DEF got
    <3> QED
      BY <1>2, <1>3, <2>3, <2>4, <3>3, SameAnswer, SameStore
      DEF Service!GetNextVariableName
  <2>5. CASE r.teec = "SHORT_BUFFER" /\ TaNameSize[w] > half
    <3>1. ret' = Answer("GetNext", v, "BUFFER_TOO_SMALL", size, 2 * TaNameSize[w],
                        {}, <<>>, NoVar)
      <4> HIDE DEF got, half
      <4> QED
        BY <1>2, <1>3, <2>2, <2>5, AnswerStatus DEF got
    <3>2. 2 * TaNameSize[w] > size
      BY <1>0, <2>1, <2>3, <2>5
    <3> QED
      BY <1>2, <1>3, <3>1, <3>2, SameAnswer, SameStore DEF Service!GetNextVariableName
  <2> QED
    BY <1>3, <2>4, <2>5
<1>4. CASE /\ r.teec = "ITEM_NOT_FOUND"
           /\ After(vars, v) = {} \/ (v # NoVar /\ ~Stored(vars, v))
  <2>1. ret' = Answer("GetNext", v, "NOT_FOUND", size, size, {}, <<>>, NoVar)
    <3> HIDE DEF got, half
    <3> QED
      BY <1>2, <1>4, AnswerStatus DEF got
  <2> QED
    BY <1>2, <1>4, <2>1, SameAnswer, SameStore DEF Service!GetNextVariableName
<1>5. CASE r.teec \in {"OUT_OF_MEMORY", "ACCESS_DENIED", "OTHER"}
  <2>1. /\ EfiStatus(r.teec) \in Service!Failure
        /\ EfiStatus(r.teec) # "SUCCESS" /\ EfiStatus(r.teec) # "BUFFER_TOO_SMALL"
    BY <1>5, FailureStatus DEF Service!Failure
  <2>2. ret' = Answer("GetNext", v, EfiStatus(r.teec), size, size, {}, <<>>, NoVar)
    <3> HIDE DEF got, half
    <3> QED
      BY <1>2, <2>1 DEF got
  <2> QED
    BY <1>2, <2>1, <2>2, SameAnswer DEF Service!GetNextVariableName
<1> QED
  <2> HIDE DEF half
  <2> QED
    BY <1>0, <1>2, <1>3, <1>4, <1>5, NextOutcome

LEMMA BytesLen ==
  ASSUME NEW tag \in Tag, NEW n \in Nat
  PROVE  Len(Bytes(tag, n)) = n
<1>1. DOMAIN Bytes(tag, n) = 1 .. n
  BY DEF Bytes
<1>2. Bytes(tag, n) \in Seq(Tag)
  BY BytesType
<1> QED
  BY <1>1, <1>2, LenProperties

LEMMA SetAnswers ==
  ASSUME NEW v, NEW attrs, NEW data, NEW r,
         vars' = r.store,
         ret' = Answer("Set", v, EfiStatus(r.reply.teec), Len(data), 0, {}, <<>>, NoVar),
         \/ /\ r.reply.teec = "SUCCESS"
            /\ ~(IsDelete(attrs, data) /\ ~Stored(vars, v))
            /\ r.store = [vars EXCEPT ![v] = Written(vars[v], attrs, data)]
         \/ /\ r.reply.teec = "ITEM_NOT_FOUND"
            /\ IsDelete(attrs, data) /\ ~Stored(vars, v)
            /\ r.store = vars
         \/ /\ r.reply.teec \in {"OUT_OF_MEMORY", "ACCESS_DENIED", "OTHER"}
            /\ r.store = vars
  PROVE  Service!SetVariable(v, attrs, data)
<1>1. /\ Service!Written(vars[v], attrs, data) = Written(vars[v], attrs, data)
      /\ Service!IsDelete(attrs, data) <=> IsDelete(attrs, data)
      /\ Service!Stored(vars, v) <=> Stored(vars, v)
      /\ \A s : Service!Answer("Set", v, s, Len(data), 0, {}, <<>>, NoVar)
                 = Answer("Set", v, s, Len(data), 0, {}, <<>>, NoVar)
  BY SameAnswer, SameStore, SameWrite
<1>2. CASE /\ r.reply.teec = "SUCCESS"
           /\ ~(IsDelete(attrs, data) /\ ~Stored(vars, v))
           /\ r.store = [vars EXCEPT ![v] = Written(vars[v], attrs, data)]
  BY <1>1, <1>2, AnswerStatus DEF Service!SetVariable
<1>3. CASE /\ r.reply.teec = "ITEM_NOT_FOUND"
           /\ IsDelete(attrs, data) /\ ~Stored(vars, v)
           /\ r.store = vars
  BY <1>1, <1>3, AnswerStatus DEF Service!SetVariable
<1>4. CASE r.reply.teec \in {"OUT_OF_MEMORY", "ACCESS_DENIED", "OTHER"} /\ r.store = vars
  BY <1>1, <1>4, FailureStatus DEF Service!SetVariable
<1> QED
  BY <1>2, <1>3, <1>4

LEMMA SetImplements ==
  ASSUME Inv, NEW v \in Var, NEW attrs, NEW size \in Nat, NEW tag \in Tag,
         SetFits(v, size), SetInvoke(v, attrs, size, tag)
  PROVE  /\ Service!SetVariable(v, attrs, Bytes(tag, size))
         /\ size \in 0 .. MemSize
<1>0. /\ vars \in [Var -> Entry]
      /\ mVariableParamMem.size \in {0, MemSize}
  BY DEF Inv, TypeOK, ParamMemType
<1>1. size \in 0 .. MemSize
  <2>1. SET_PARAM + StrSize(v) + size <= MemSize
    BY <1>0, SetFitsIsBound
  <2> QED
    BY <1>0, <2>1, NameSizes, MemSizeFacts DEF SET_PARAM
<1>2. PICK r \in IF Heard(NameClean(ClearedParam, SET_PAYLOAD, StrSize(v), v))
                 THEN TaSet(vars, v, attrs, Bytes(tag, size))
                 ELSE {[reply |-> Bare("OTHER"), store |-> vars]} :
        /\ vars' = r.store
        /\ ret' = Answer("Set", v, EfiStatus(r.reply.teec), size, 0, {}, <<>>, NoVar)
  BY DEF SetInvoke
<1>3. ret' = Answer("Set", v, EfiStatus(r.reply.teec), Len(Bytes(tag, size)), 0,
                    {}, <<>>, NoVar)
  BY <1>0, <1>2, BytesLen
<1>4. CASE r \in TaSet(vars, v, attrs, Bytes(tag, size))
  BY <1>0, <1>1, <1>2, <1>3, <1>4, SetOutcome, SetAnswers
<1>5. CASE r = [reply |-> Bare("OTHER"), store |-> vars]
  <2>1. r.reply.teec = "OTHER" /\ r.store = vars
    BY <1>5, BareType DEF TeecResult
  <2> QED
    BY <1>1, <1>2, <1>3, <2>1, SetAnswers
<1> QED
  BY <1>2, <1>4, <1>5

LEMMA QueryImplements ==
  ASSUME NEW null, QueryRefusal(null) = "None", OpteeRuntimeQueryVariableInfo(null)
  PROVE  Service!QueryVariableInfo
<1>1. PICK r \in Invoke(TaQuery, TRUE) :
        /\ ret' = Answer("Query", NoVar, EfiStatus(r.teec), 0, 0, {}, <<>>, NoVar)
        /\ vars' = vars
  BY DEF OpteeRuntimeQueryVariableInfo
<1>2. r.teec \in {"SUCCESS", "OUT_OF_MEMORY", "ACCESS_DENIED", "OTHER"}
  BY <1>1, InvokeReplies, FaultsAreFaults, BareType DEF TaQuery, TeecResult
<1>3. EfiStatus(r.teec) \in Service!Failure \union {"SUCCESS"}
  BY <1>2, AnswerStatus, FailureStatus
<1> QED
  BY <1>1, <1>3, SameAnswer DEF Service!QueryVariableInfo

(* A call refused ahead of the TA is refused for a reason of its own. *)
LEMMA RefuseImplements ==
  ASSUME NEW op \in {"Get", "GetNext", "Set", "Query"},
         NEW status \in Service!Refusal, Refuse(op, status)
  PROVE  Service!Refuse
  BY SameAnswer DEF Refuse, Service!Refuse

LEMMA Refusals ==
  /\ \A v, null, size : GetRefusal(v, null, size) \in Service!Refusal \union {"None"}
  /\ \A v, null, size : NextRefusal(v, null, size) \in Service!Refusal \union {"None"}
  /\ \A null, size : SetRefusal(null, size) \in Service!Refusal \union {"None"}
  /\ \A null : QueryRefusal(null) \in Service!Refusal \union {"None"}
  /\ "BAD_BUFFER_SIZE" \in Service!Refusal
  BY DEF GetRefusal, NextRefusal, SetRefusal, QueryRefusal, Service!Refusal, EfiAtRuntime

----------------------------------------------------------------------------
(* Every step. *)

LEMMA InitImplements == Init => Service!Init
  BY SameWrite DEF Init, Service!Init

LEMMA StepImplements == Inv /\ [Next]_dvars => [Service!Next]_<<vars, ret>>
<1> SUFFICES ASSUME Inv, [Next]_dvars PROVE [Service!Next]_<<vars, ret>>
  OBVIOUS
<1>0. Size \subseteq Nat
  BY SizeAssumption
<1>1. ASSUME Start PROVE UNCHANGED <<vars, ret>>
  BY <1>1 DEF Start
<1>2. ASSUME Get PROVE Service!Next
  <2>1. PICK v \in Var, null \in NullPointer, size \in Size :
          OpteeRuntimeGetVariable(v, null, size)
    BY <1>2 DEF Get
  <2>2. CASE GetSessionId
    BY <2>2, SameWrite DEF GetSessionId, Service!SessionHook, Service!Next
  <2>3. CASE GetRefusal(v, null, size) # "None" /\ Refuse("Get", GetRefusal(v, null, size))
    BY <2>3, Refusals, RefuseImplements DEF Service!Next
  <2>4. CASE GetRefusal(v, null, size) = "None" /\ GetInvoke(v, size)
    BY <1>0, <2>4, GetImplements DEF Service!Next
  <2> QED
    BY <2>1, <2>2, <2>3, <2>4 DEF OpteeRuntimeGetVariable
<1>3. ASSUME GetNext PROVE Service!Next \/ UNCHANGED <<vars, ret>>
  <2>1. PICK v \in Var \union {NoVar}, null \in NextNull, size \in Size :
          OpteeRuntimeGetNextVariableName(v, null, size)
    BY <1>3 DEF GetNext
  <2> DEFINE refusal == NextRefusal(v, null = "Name", size)
  <2>2. CASE UNCHANGED <<vars, session, buffers, ret, io>>
    BY <2>2
  <2>3. CASE refusal # "None" /\ Refuse("GetNext", refusal)
    BY <2>3, Refusals, RefuseImplements DEF Service!Next
  <2>4. CASE refusal = "None" /\ NextInvoke(v, size)
    BY <1>0, <2>4, NextImplements DEF Service!Next
  <2> QED
    BY <2>1, <2>2, <2>3, <2>4 DEF OpteeRuntimeGetNextVariableName
<1>4. ASSUME Set PROVE Service!Next
  <2>1. PICK v \in Var, null \in NullPointer, attrs \in AttrSet, size \in Size, tag \in Tag :
          OpteeRuntimeSetVariable(v, null, attrs, size, tag)
    BY <1>4 DEF Set
  <2>2. CASE SetSessionId
    BY <2>2, SameWrite DEF SetSessionId, Service!SessionHook, Service!Next
  <2>3. CASE SetRefusal(null, size) # "None" /\ Refuse("Set", SetRefusal(null, size))
    BY <2>3, Refusals, RefuseImplements DEF Service!Next
  <2>4. CASE Refuse("Set", "BAD_BUFFER_SIZE")
    BY <2>4, Refusals, RefuseImplements DEF Service!Next
  <2>5. CASE SetFits(v, size) /\ SetInvoke(v, attrs, size, tag)
    BY <1>0, <2>5, SetImplements DEF Service!Next
  <2> QED
    BY <2>1, <2>2, <2>3, <2>4, <2>5 DEF OpteeRuntimeSetVariable
<1>5. ASSUME Query PROVE Service!Next
  <2>1. PICK null \in BOOLEAN : OpteeRuntimeQueryVariableInfo(null)
    BY <1>5 DEF Query
  <2>2. CASE QueryRefusal(null) = "None"
    BY <2>1, <2>2, QueryImplements DEF Service!Next
  <2>3. CASE QueryRefusal(null) # "None" /\ Refuse("Query", QueryRefusal(null))
    BY <2>3, Refusals, RefuseImplements DEF Service!Next
  <2> QED
    BY <2>1, <2>2, <2>3 DEF OpteeRuntimeQueryVariableInfo
<1>6. ASSUME Exit PROVE UNCHANGED <<vars, ret>>
  BY <1>6 DEF Exit, OpteeRuntimeOnExitBootServices
<1>7. ASSUME Restart PROVE Service!Next
  BY <1>7, SameWrite DEF Restart, Load, Service!Restart, Service!Next
<1>8. ASSUME UNCHANGED dvars PROVE UNCHANGED <<vars, ret>>
  BY <1>8 DEF dvars
<1> QED
  BY <1>1, <1>2, <1>3, <1>4, <1>5, <1>6, <1>7, <1>8 DEF Next

(* The driver implements the variable services as a caller knows them
   (AuthVarsDxe.c:316-985): whatever sizes, names and session ids are passed,
   whatever the TA answers and whenever the process or the machine starts
   again, a read hands out a variable whole as it is, its size or that it does
   not exist, an enumeration goes on in order, and a write that is not
   answered with success has changed nothing. *)
THEOREM ServicesImplemented == Spec => ServiceSpec
<1>1. Init => Service!Init
  BY InitImplements
<1>2. (Inv /\ Bounds) /\ [Next]_dvars => [Service!Next]_<<vars, ret>>
  BY StepImplements
<1>3. Service!svars = <<vars, ret>>
  BY DEF Service!svars
<1> QED
  BY <1>1, <1>2, <1>3, Invariance, PTL DEF Spec, ServiceSpec, Service!Spec, Service!svars

----------------------------------------------------------------------------
(* What follows for a caller that asks again, from the abstract specification
   alone.  A size told with BUFFER_TOO_SMALL is the one the store asks for, as
   long as that reply is the last one: no step but a new reply changes the
   store. *)
SizeTold ==
  ret.status = "BUFFER_TOO_SMALL" =>
    \/ /\ ret.op = "Get" /\ ret.var \in Var /\ Stored(vars, ret.var)
       /\ ret.size = Len(vars[ret.var].data)
    \/ /\ ret.op = "GetNext"
       /\ \E w \in Var : IsNext(vars, ret.var, w) /\ ret.size = 2 * TaNameSize[w]

LEMMA AnswerFields ==
  ASSUME NEW op, NEW v, NEW status, NEW room, NEW size, NEW attrs, NEW data, NEW next,
         ret' = Answer(op, v, status, room, size, attrs, data, next)
  PROVE  /\ ret'.op = op /\ ret'.var = v /\ ret'.status = status
         /\ ret'.room = room /\ ret'.size = size
  BY DEF Answer

(* The name an enumeration goes on with is one only. *)
LEMMA NextIsUnique ==
  ASSUME NEW st, NEW from, NEW w \in Var, NEW x \in Var,
         IsNext(st, from, w), IsNext(st, from, x)
  PROVE  w = x
<1>1. NameRank[w] <= NameRank[x] /\ NameRank[x] <= NameRank[w]
  BY DEF IsNext
<1>2. NameRank[w] \in Nat /\ NameRank[x] \in Nat
  BY VarAssumption
<1> QED
  BY <1>1, <1>2, VarAssumption

LEMMA NoAnswerFields == NoAnswer.op = "None" /\ NoAnswer.status = "SUCCESS"
  BY DEF NoAnswer, Answer

LEMMA InitSizeTold == Init => SizeTold
  BY NoAnswerFields DEF Init, SizeTold

(* A read told that its buffer is too small is told the size of the variable,
   and was offered less. *)
LEMMA GetTold ==
  ASSUME NEW v \in Var, NEW room \in Nat, Service!GetVariable(v, room)
  PROVE  /\ vars' = vars /\ ret'.op = "Get" /\ ret'.var = v /\ ret'.room = room
         /\ ret'.status = "BUFFER_TOO_SMALL" =>
              /\ Stored(vars, v) /\ ret'.size = Len(vars[v].data)
              /\ Len(vars[v].data) > room
<1>1. CASE /\ Stored(vars, v)
           /\ ret' = Answer("Get", v, "SUCCESS", room, Len(vars[v].data),
                            vars[v].attrs, vars[v].data, NoVar)
  BY <1>1, AnswerFields DEF Service!GetVariable
<1>2. CASE /\ Stored(vars, v) /\ Len(vars[v].data) > room
           /\ \E a \in {{}, vars[v].attrs} :
                ret' = Answer("Get", v, "BUFFER_TOO_SMALL", room, Len(vars[v].data),
                              a, <<>>, NoVar)
  BY <1>2, AnswerFields DEF Service!GetVariable
<1>3. CASE ret' = Answer("Get", v, "NOT_FOUND", room, room, {}, <<>>, NoVar)
  BY <1>3, AnswerFields DEF Service!GetVariable
<1>4. CASE \E s \in Service!Failure :
             ret' = Answer("Get", v, s, room, room, {}, <<>>, NoVar)
  BY <1>4, AnswerFields DEF Service!GetVariable, Service!Failure
<1> QED
  BY <1>1, <1>2, <1>3, <1>4, SameAnswer, SameStore DEF Service!GetVariable

(* An enumeration step told that its buffer is too small is told the size of
   the next name, and was offered less. *)
LEMMA NextTold ==
  ASSUME NEW v \in Var \union {NoVar}, NEW room \in Nat,
         Service!GetNextVariableName(v, room)
  PROVE  /\ vars' = vars /\ ret'.op = "GetNext" /\ ret'.var = v /\ ret'.room = room
         /\ ret'.status = "BUFFER_TOO_SMALL" =>
              \E w \in Var : /\ IsNext(vars, v, w)
                             /\ ret'.size = 2 * TaNameSize[w]
                             /\ 2 * TaNameSize[w] > room
<1>1. CASE \E w \in Var :
             ret' = Answer("GetNext", v, "SUCCESS", room, 2 * TaNameSize[w], {}, <<>>, w)
  BY <1>1, AnswerFields DEF Service!GetNextVariableName
<1>2. CASE \E w \in Var :
             /\ IsNext(vars, v, w) /\ 2 * TaNameSize[w] > room
             /\ ret' = Answer("GetNext", v, "BUFFER_TOO_SMALL", room, 2 * TaNameSize[w],
                              {}, <<>>, NoVar)
  BY <1>2, AnswerFields DEF Service!GetNextVariableName
<1>3. CASE ret' = Answer("GetNext", v, "NOT_FOUND", room, room, {}, <<>>, NoVar)
  BY <1>3, AnswerFields DEF Service!GetNextVariableName
<1>4. CASE \E s \in Service!Failure :
             ret' = Answer("GetNext", v, s, room, room, {}, <<>>, NoVar)
  BY <1>4, AnswerFields DEF Service!GetNextVariableName, Service!Failure
<1> QED
  BY <1>1, <1>2, <1>3, <1>4, SameAnswer, SameStore DEF Service!GetNextVariableName

(* No other step of the abstract specification tells a size. *)
LEMMA OthersTellNone ==
  ASSUME \/ \E v \in Var : \E attrs, data : Service!SetVariable(v, attrs, data)
         \/ Service!QueryVariableInfo
         \/ Service!Refuse
         \/ Service!SessionHook
         \/ Service!Restart
  PROVE  ret'.status # "BUFFER_TOO_SMALL"
<1>1. ASSUME NEW v \in Var, NEW attrs, NEW data, Service!SetVariable(v, attrs, data)
      PROVE  ret'.status # "BUFFER_TOO_SMALL"
  <2>1. PICK s \in Service!Failure \union {"SUCCESS", "NOT_FOUND"} :
          ret' = Answer("Set", v, s, Len(data), 0, {}, <<>>, NoVar)
    BY <1>1, SameAnswer DEF Service!SetVariable
  <2> QED
    BY <2>1, AnswerFields DEF Service!Failure
<1>2. ASSUME Service!QueryVariableInfo PROVE ret'.status # "BUFFER_TOO_SMALL"
  BY <1>2, SameAnswer, AnswerFields DEF Service!QueryVariableInfo, Service!Failure
<1>3. ASSUME Service!Refuse PROVE ret'.status # "BUFFER_TOO_SMALL"
  BY <1>3, SameAnswer, AnswerFields DEF Service!Refuse, Service!Refusal
<1>4. ASSUME ret' = NoAnswer PROVE ret'.status # "BUFFER_TOO_SMALL"
  BY <1>4, NoAnswerFields
<1> QED
  BY <1>1, <1>2, <1>3, <1>4, SameWrite DEF Service!SessionHook, Service!Restart

LEMMA StepSizeTold == SizeTold /\ [Service!Next]_<<vars, ret>> => SizeTold'
<1> SUFFICES ASSUME SizeTold, [Service!Next]_<<vars, ret>> PROVE SizeTold'
  OBVIOUS
<1>0. Size \subseteq Nat
  BY SizeAssumption
<1>1. ASSUME NEW v \in Var, NEW room \in Size, Service!GetVariable(v, room)
      PROVE  SizeTold'
  BY <1>0, <1>1, GetTold DEF SizeTold, Stored
<1>2. ASSUME NEW v \in Var \union {NoVar}, NEW room \in Size,
             Service!GetNextVariableName(v, room)
      PROVE  SizeTold'
  BY <1>0, <1>2, NextTold DEF SizeTold, IsNext, After, Stored
<1>3. ASSUME ret'.status # "BUFFER_TOO_SMALL" PROVE SizeTold'
  BY <1>3 DEF SizeTold
<1>4. ASSUME UNCHANGED <<vars, ret>> PROVE SizeTold'
  BY <1>4 DEF SizeTold, Stored, IsNext, After
<1> QED
  BY <1>1, <1>2, <1>3, <1>4, OthersTellNone DEF Service!Next

(* The action RetryFits is about. *)
Retried ==
  ret.status = "BUFFER_TOO_SMALL" /\ vars' = vars
  /\ ret'.op = ret.op /\ ret'.var = ret.var /\ ret'.room = ret.size
  => ret'.status # "BUFFER_TOO_SMALL"

LEMMA StepRetried == SizeTold /\ [Service!Next]_<<vars, ret>> => [Retried]_<<vars, ret>>
<1> SUFFICES ASSUME SizeTold, Service!Next,
                    ret.status = "BUFFER_TOO_SMALL",
                    ret'.op = ret.op, ret'.var = ret.var, ret'.room = ret.size,
                    ret'.status = "BUFFER_TOO_SMALL"
             PROVE  FALSE
  BY DEF Retried
<1>0. Size \subseteq Nat
  BY SizeAssumption
<1>1. ASSUME NEW v \in Var, NEW room \in Size, Service!GetVariable(v, room)
      PROVE  FALSE
  <2>1. /\ ret.op = "Get" /\ ret.var = v /\ ret.size = room
        /\ Len(vars[v].data) > room
    BY <1>0, <1>1, GetTold
  <2>2. room = Len(vars[v].data) /\ room \in Nat
    BY <1>0, <2>1 DEF SizeTold
  <2> QED
    BY <2>1, <2>2
<1>2. ASSUME NEW v \in Var \union {NoVar}, NEW room \in Size,
             Service!GetNextVariableName(v, room)
      PROVE  FALSE
  <2>1. PICK w \in Var : IsNext(vars, v, w) /\ 2 * TaNameSize[w] > room
    BY <1>0, <1>2, NextTold
  <2>2. ret.op = "GetNext" /\ ret.var = v /\ ret.size = room
    BY <1>0, <1>2, NextTold
  <2>3. PICK x \in Var : IsNext(vars, v, x) /\ room = 2 * TaNameSize[x]
    BY <2>2 DEF SizeTold
  <2>4. w = x /\ TaNameSize[w] \in Nat
    BY <2>1, <2>3, NextIsUnique, NameSizes
  <2> QED
    BY <2>1, <2>3, <2>4
<1> QED
  BY <1>1, <1>2, OthersTellNone DEF Service!Next

(* The size handed back with BUFFER_TOO_SMALL (AuthVarsDxe.c:469-473 and
   662-669) is enough: with it the same call, on the same store, is not told
   again that the buffer is too small, for any name, any data and whatever came
   between the store and the reply. *)
THEOREM RetriesFit == Spec => RetryFits
<1>1. Init => SizeTold
  BY InitSizeTold
<1>2. (Inv /\ Bounds) /\ SizeTold /\ [Next]_dvars => SizeTold' /\ [Retried]_<<vars, ret>>
  BY StepImplements, StepSizeTold, StepRetried
<1> QED
  BY <1>1, <1>2, Invariance, PTL DEF Spec, RetryFits, Retried
----------------------------------------------------------------------------
(* What a caller has from one call, for the modules around the driver. *)

(* A read, by the hook or by the service. *)
DataGiven(v, null, size) ==
  \/ GetIsHook(v, null, size) /\ ret' = NoAnswer
  \/ /\ ret'.op = "Get" /\ ret'.status = "SUCCESS" /\ ret'.var = v
     /\ Stored(vars, v) /\ Len(vars[v].data) <= size /\ ret'.size = Len(vars[v].data)
     /\ ret'.attrs = vars[v].attrs /\ ret'.data = vars[v].data
  \/ /\ ret'.op = "Get" /\ ret'.status = "BUFFER_TOO_SMALL" /\ ret'.var = v
     /\ Stored(vars, v) /\ Len(vars[v].data) > size /\ ret'.size = Len(vars[v].data)
  \/ /\ ret'.op = "Get" /\ ret'.status = "NOT_FOUND" /\ ret'.var = v
     /\ ~Stored(vars, v) /\ ret'.size = size
  \/ /\ ret'.op = "Get" /\ ret'.status \notin {"SUCCESS", "BUFFER_TOO_SMALL", "NOT_FOUND"}
     /\ ret'.var = v => ret'.size = size

LEMMA GetGives ==
  ASSUME Inv, NEW v \in Var, NEW null, NEW size \in Nat,
         OpteeRuntimeGetVariable(v, null, size)
  PROVE  /\ Inv' /\ QuietFrame /\ DataGiven(v, null, size)
         /\ io'.handed <= size
<1>0. Inv' /\ Bounds' /\ QuietFrame
  BY GetStep
<1>1. io'.handed <= io'.given /\ io'.handed \in Nat /\ io'.given \in Nat
  BY <1>0 DEF Bounds, CallerBounds, Inv, TypeOK, ExtentsType
<1>2. CASE GetIsHook(v, null, size) /\ GetSessionId
  <2>1. io'.handed = size
    BY <1>2 DEF GetSessionId, Extents, GetIsHook
  <2>2. ret' = NoAnswer
    BY <1>2 DEF GetSessionId
  <2> QED
    BY <1>0, <1>2, <2>1, <2>2 DEF DataGiven
<1>3. CASE /\ GetRefusal(v, null, size) # "None"
           /\ Refuse("Get", GetRefusal(v, null, size))
  <2>1. PICK s \in Service!Refusal : /\ ret'.status = s /\ ret'.op = "Get"
                                     /\ ret'.var = NoVar /\ io' = NoExtents
    BY <1>3, Refusals, AnswerFields DEF Refuse
  <2>2. v # NoVar /\ io'.handed = 0
    BY <2>1, NameSizes, NoExtentsType
  <2> QED
    BY <1>0, <2>1, <2>2 DEF Service!Refusal, DataGiven
<1>4. CASE GetRefusal(v, null, size) = "None" /\ GetInvoke(v, size)
  <2>1. Service!GetVariable(v, size)
    BY <1>4, GetImplements
  <2>2. io'.given = size
    BY <1>4 DEF GetInvoke, GetCall, Extents
  <2>3. CASE /\ Stored(vars, v) /\ Len(vars[v].data) <= size
             /\ ret' = Answer("Get", v, "SUCCESS", size, Len(vars[v].data),
                              vars[v].attrs, vars[v].data, NoVar)
    <3>1. ret'.data = vars[v].data /\ ret'.attrs = vars[v].attrs
      BY <2>3 DEF Answer
    <3> QED
      BY <1>0, <1>1, <2>2, <2>3, <3>1, AnswerFields DEF DataGiven
  <2>4. CASE /\ Stored(vars, v) /\ Len(vars[v].data) > size
             /\ \E a \in {{}, vars[v].attrs} :
                  ret' = Answer("Get", v, "BUFFER_TOO_SMALL", size, Len(vars[v].data),
                                a, <<>>, NoVar)
    BY <1>0, <1>1, <2>2, <2>4, AnswerFields DEF DataGiven
  <2>5. CASE /\ ~Stored(vars, v)
             /\ ret' = Answer("Get", v, "NOT_FOUND", size, size, {}, <<>>, NoVar)
    BY <1>0, <1>1, <2>2, <2>5, AnswerFields DEF DataGiven
  <2>6. CASE \E s \in Service!Failure :
               ret' = Answer("Get", v, s, size, size, {}, <<>>, NoVar)
    BY <1>0, <1>1, <2>2, <2>6, AnswerFields DEF DataGiven, Service!Failure
  <2> QED
    BY <2>1, <2>3, <2>4, <2>5, <2>6, SameAnswer, SameStore DEF Service!GetVariable
<1> QED
  BY <1>2, <1>3, <1>4 DEF OpteeRuntimeGetVariable

(* A write, which the hook keeps from the store. *)
DataTaken(v, attrs, size, tag) ==
  \/ v \in HookVar /\ size = UINTN_SIZE /\ vars' = vars
  \/ /\ ret'.status = "SUCCESS" /\ mTeecSession' = mTeecSession
     /\ vars' = [vars EXCEPT ![v] = Written(vars[v], attrs, Bytes(tag, size))]
  \/ ret'.status # "SUCCESS" /\ mTeecSession' = mTeecSession /\ vars' = vars

LEMMA SetGives ==
  ASSUME Inv, mTeecSessionOpened => ~NoBuffers,
         NEW v \in Var, NEW null, NEW attrs \in SUBSET Attribute,
         NEW size \in Nat, NEW tag \in Tag,
         OpteeRuntimeSetVariable(v, null, attrs, size, tag)
  PROVE  /\ Inv' /\ QuietSet /\ DataTaken(v, attrs, size, tag)
         /\ io'.handed = 0
<1>0. Inv' /\ QuietSet
  BY SetStep
<1>1. CASE v \in HookVar /\ size = UINTN_SIZE /\ SetSessionId
  BY <1>0, <1>1, NoExtentsType DEF SetSessionId, DataTaken
<1>2. ASSUME NEW s \in Service!Refusal, Refuse("Set", s)
      PROVE  DataTaken(v, attrs, size, tag) /\ io'.handed = 0
  <2>1. /\ ret'.status # "SUCCESS" /\ vars' = vars
        /\ mTeecSession' = mTeecSession /\ io' = NoExtents
    BY <1>2, AnswerFields DEF Refuse, session, Service!Refusal
  <2> QED
    BY <2>1, NoExtentsType DEF DataTaken
<1>3. CASE /\ SetRefusal(null, size) # "None"
           /\ Refuse("Set", SetRefusal(null, size))
  BY <1>0, <1>2, <1>3, Refusals
<1>4. CASE Refuse("Set", "BAD_BUFFER_SIZE")
  BY <1>0, <1>2, <1>4, Refusals
<1>5. CASE SetFits(v, size) /\ SetInvoke(v, attrs, size, tag)
  <2>1. Service!SetVariable(v, attrs, Bytes(tag, size))
    BY <1>5, SetImplements
  <2>2. mTeecSession' = mTeecSession /\ io'.handed = 0
    BY <1>5 DEF SetInvoke, Extents, session
  <2>3. CASE /\ \E n : ret' = Answer("Set", v, "SUCCESS", n, 0, {}, <<>>, NoVar)
             /\ vars' = [vars EXCEPT ![v] = Written(vars[v], attrs, Bytes(tag, size))]
    BY <1>0, <2>2, <2>3, AnswerFields DEF DataTaken
  <2>4. CASE /\ \E n : ret' = Answer("Set", v, "NOT_FOUND", n, 0, {}, <<>>, NoVar)
             /\ vars' = vars
    BY <1>0, <2>2, <2>4, AnswerFields DEF DataTaken
  <2>5. CASE /\ \E n, s : /\ s \in Service!Failure
                          /\ ret' = Answer("Set", v, s, n, 0, {}, <<>>, NoVar)
             /\ vars' = vars
    BY <1>0, <2>2, <2>5, AnswerFields DEF DataTaken, Service!Failure
  <2> QED
    BY <2>1, <2>3, <2>4, <2>5, SameAnswer, SameWrite DEF Service!SetVariable
<1> QED
  BY <1>1, <1>3, <1>4, <1>5 DEF OpteeRuntimeSetVariable

(* The next name of an enumeration. *)

NameGiven(from, size) ==
  \/ /\ ret'.status = "SUCCESS"
     /\ IsNext(vars, from, ret'.next) /\ 2 * TaNameSize[ret'.next] <= size
  \/ /\ ret'.status = "BUFFER_TOO_SMALL" /\ ret'.op = "GetNext" /\ ret'.var = from
     /\ \E w \in Var : /\ IsNext(vars, from, w) /\ 2 * TaNameSize[w] > size
                       /\ ret'.size = 2 * TaNameSize[w]
  \/ /\ ret'.status = "NOT_FOUND"
     /\ After(vars, from) = {} \/ (from # NoVar /\ ~Stored(vars, from))
  \/ ret'.status \notin {"SUCCESS", "BUFFER_TOO_SMALL", "NOT_FOUND"}

LEMMA NextGives ==
  ASSUME Inv, NEW from \in Var \union {NoVar}, NEW null, null # "Size",
         NEW size \in Nat, OpteeRuntimeGetNextVariableName(from, null, size)
  PROVE  /\ Inv' /\ QuietFrame /\ NameGiven(from, size)
         /\ ret'.status = "SUCCESS" => ret'.next \in Var
         /\ ret'.size \in Nat
         /\ io'.handed <= size
<1> DEFINE refusal == NextRefusal(from, null = "Name", size)
<1>1. CASE refusal # "None" /\ Refuse("GetNext", refusal)
  <2>1. refusal \in Service!Refusal
    BY <1>1, Refusals
  <2>2. ret'.status = refusal /\ ret'.size = 0 /\ io'.handed = 0
    BY <1>1, AnswerFields, NoExtentsType DEF Refuse
  <2>3. Inv' /\ QuietFrame
    BY <1>1, NextRefusalType, RefuseStep
  <2>4. ret'.status \notin {"SUCCESS", "BUFFER_TOO_SMALL", "NOT_FOUND"}
    BY <2>1, <2>2 DEF Service!Refusal
  <2>5. ret'.size \in Nat
    BY <2>2
  <2>6. ret'.status # "SUCCESS"
    BY <2>4, Zenon
  <2>7. NameGiven(from, size)
    BY <2>4, Zenon DEF NameGiven
  <2>8. io'.handed <= size
    BY <2>2
  <2> QED
    BY <2>3, <2>5, <2>6, <2>7, <2>8
<1>2. CASE refusal = "None" /\ NextInvoke(from, size)
  <2>0. Inv' /\ Bounds' /\ QuietFrame
    BY <1>2, NextInvokeStep
  <2>1. Inv' /\ QuietFrame /\ io'.handed <= size
    <3>1. io'.given = size
      BY <1>2 DEF NextInvoke, NextCall, Extents
    <3> QED
      BY <2>0, <3>1 DEF Bounds, CallerBounds
  <2>2. Service!GetNextVariableName(from, size)
    BY <1>2, NextImplements
  <2>3. CASE \E w \in Var :
               /\ IsNext(vars, from, w) /\ 2 * TaNameSize[w] <= size
               /\ ret' = Answer("GetNext", from, "SUCCESS", size, 2 * TaNameSize[w],
                                {}, <<>>, w)
    <3>1. PICK w \in Var :
               /\ IsNext(vars, from, w) /\ 2 * TaNameSize[w] <= size
               /\ ret' = Answer("GetNext", from, "SUCCESS", size, 2 * TaNameSize[w],
                                {}, <<>>, w)
      BY <2>3
    <3>2. ret'.status = "SUCCESS" /\ ret'.next = w /\ ret'.size = 2 * TaNameSize[w]
      BY <3>1 DEF Answer
    <3>3. TaNameSize[w] \in Nat
      BY NameSizes
    <3> QED
      BY <2>1, <3>1, <3>2, <3>3 DEF NameGiven
  <2>4. CASE \E w \in Var :
               /\ IsNext(vars, from, w) /\ 2 * TaNameSize[w] > size
               /\ ret' = Answer("GetNext", from, "BUFFER_TOO_SMALL", size,
                                2 * TaNameSize[w], {}, <<>>, NoVar)
    <3>1. PICK w \in Var :
               /\ IsNext(vars, from, w) /\ 2 * TaNameSize[w] > size
               /\ ret' = Answer("GetNext", from, "BUFFER_TOO_SMALL", size,
                                2 * TaNameSize[w], {}, <<>>, NoVar)
      BY <2>4
    <3>2. /\ ret'.status = "BUFFER_TOO_SMALL" /\ ret'.op = "GetNext" /\ ret'.var = from
          /\ ret'.size = 2 * TaNameSize[w]
      BY <3>1, AnswerFields
    <3>3. TaNameSize[w] \in Nat
      BY NameSizes
    <3> QED
      BY <2>1, <3>1, <3>2, <3>3 DEF NameGiven
  <2>5. CASE /\ After(vars, from) = {} \/ (from # NoVar /\ ~Stored(vars, from))
             /\ ret' = Answer("GetNext", from, "NOT_FOUND", size, size, {}, <<>>, NoVar)
    <3>1. ret'.status = "NOT_FOUND" /\ ret'.size = size
      BY <2>5, AnswerFields
    <3> QED
      BY <2>1, <2>5, <3>1 DEF NameGiven
  <2>6. CASE \E f \in Service!Failure :
               ret' = Answer("GetNext", from, f, size, size, {}, <<>>, NoVar)
    <3>1. PICK f \in Service!Failure : ret'.status = f /\ ret'.size = size
      BY <2>6, AnswerFields
    <3> QED
      BY <2>1, <3>1 DEF NameGiven, Service!Failure
  <2> QED
    BY <2>2, <2>3, <2>4, <2>5, <2>6, SameAnswer, SameStore
    DEF Service!GetNextVariableName
<1> QED
  BY <1>1, <1>2 DEF OpteeRuntimeGetNextVariableName

(* The names listed up to a given one.  The next one is the only name that is
   added by going on to it, and where there is no next they are all there are. *)
UpTo(st, from) ==
  IF from = NoVar THEN {}
  ELSE {x \in Var : Stored(st, x) /\ NameRank[x] <= NameRank[from]}

LEMMA UpToNext ==
  ASSUME NEW st, NEW from \in Var \union {NoVar}, NEW w \in Var, IsNext(st, from, w)
  PROVE  /\ Stored(st, w) /\ w \notin UpTo(st, from)
         /\ UpTo(st, w) = UpTo(st, from) \union {w}
<1>1. /\ Stored(st, w)
      /\ \A x \in Var : NameRank[x] \in Nat
      /\ \A x, y \in Var : NameRank[x] = NameRank[y] => x = y
      /\ NoVar \notin Var
  BY VarAssumption DEF IsNext, After
<1>2. UpTo(st, w) = {x \in Var : Stored(st, x) /\ NameRank[x] <= NameRank[w]}
  BY <1>1 DEF UpTo
<1>3. CASE from = NoVar
  <2>1. \A x \in Var : Stored(st, x) => NameRank[w] <= NameRank[x]
    BY <1>3 DEF IsNext, After
  <2>2. ASSUME NEW x \in Var, Stored(st, x), NameRank[x] <= NameRank[w]
        PROVE  x = w
    BY <1>1, <2>1, <2>2
  <2>3. UpTo(st, w) = {w}
    BY <1>1, <1>2, <2>2
  <2> QED
    BY <1>1, <1>3, <2>3 DEF UpTo
<1>4. CASE from # NoVar
  <2>1. from \in Var /\ NameRank[from] < NameRank[w]
    BY <1>4 DEF IsNext, After
  <2>2. UpTo(st, from) = {x \in Var : Stored(st, x) /\ NameRank[x] <= NameRank[from]}
    BY <1>4 DEF UpTo
  <2>3. \A x \in Var : Stored(st, x) /\ NameRank[from] < NameRank[x]
          => NameRank[w] <= NameRank[x]
    BY <1>4 DEF IsNext, After
  <2>4. ASSUME NEW x \in Var, Stored(st, x)
        PROVE  NameRank[x] <= NameRank[w] <=> NameRank[x] <= NameRank[from] \/ x = w
    BY <1>1, <2>1, <2>3, <2>4
  <2>5. w \notin UpTo(st, from)
    BY <1>1, <2>1, <2>2
  <2> QED
    BY <1>1, <1>2, <2>2, <2>4, <2>5
<1> QED
  BY <1>3, <1>4

LEMMA UpToLast ==
  ASSUME NEW st, NEW from \in Var \union {NoVar}, After(st, from) = {}
  PROVE  UpTo(st, from) = {v \in Var : Stored(st, v)}
<1>1. CASE from = NoVar
  BY <1>1 DEF UpTo, After
<1>2. CASE from # NoVar
  <2>1. \A v \in Var : Stored(st, v) => ~(NameRank[from] < NameRank[v])
    BY <1>2 DEF After
  <2>2. from \in Var /\ \A v \in Var : NameRank[v] \in Nat
    BY <1>2, VarAssumption
  <2>3. \A v \in Var : Stored(st, v) => NameRank[v] <= NameRank[from]
    BY <2>1, <2>2
  <2> QED
    BY <1>2, <2>3 DEF UpTo
<1> QED
  BY <1>1, <1>2
=============================================================================
