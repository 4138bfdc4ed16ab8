----------------------------- MODULE AuthVarsDxe -----------------------------
(***************************************************************************)
(* The variable driver, authvars_test/host/edk2_driver/AuthVarsDxe.c: the   *)
(* session with the TA, the two transport buffers and the four services     *)
(* that use them.  Sizes are in bytes and follow the code's arithmetic; the *)
(* limits (PcdMaxSize, UINTN, UINT16) are constants.                        *)
(***************************************************************************)
EXTENDS AuthVarTA

CONSTANTS
  PcdMaxSize,   \* MAX(PcdMaxVariableSize, PcdMaxHardwareErrorVariableSize)
  Word,         \* 2^32: UINTN and UINT32 hold 0 .. Word - 1
  HalfWord,     \* 2^16: the VariableNameSize field holds 0 .. HalfWord - 1
  HookVar,      \* the variables whose name and GUID start with 1 (the test hook)
  SessionId,    \* the session ids the TEE gives out
  NoSession,    \* no session
  Size,         \* the sizes callers pass
  AttrSet,      \* the attributes callers pass
  NullPointer,  \* which arguments of the other services may be NULL
  NextNull      \* which arguments of GetNextVariableName may be NULL

(* sizeof the transport structures, and where their variable part starts. *)
GET_PARAM == 28
GET_RESULT == 16
SET_PARAM == 44
QUERY_PARAM == 8
QUERY_RESULT == 32
GET_NAME == 24
SET_PAYLOAD == 40
UINTN_SIZE == 4
MemSize == PcdMaxSize + SET_PARAM

EfiAtRuntime == FALSE

ASSUME SizeAssumption ==
  /\ PcdMaxSize \in Nat
  /\ Word \in Nat /\ HalfWord \in Nat
  /\ SET_PARAM + 2 * MemSize < Word
  /\ MemSize <= HalfWord
  /\ \A v \in Var : StrSize(v) < Word
  /\ Size \subseteq 0 .. Word - 1

ASSUME ArgumentAssumption ==
  /\ HookVar \subseteq Var
  /\ NoSession \notin SessionId
  /\ AttrSet \subseteq SUBSET Attribute
  /\ NullPointer \subseteq {"None", "Data", "Other"}
  /\ NextNull \subseteq {"None", "Name", "Size"}

VARIABLES
  vars,                \* the TA's store
  live,                \* the session the TEE has open for this process
  mTeecSessionOpened,
  mTeecSession,        \* the session id the driver calls with
  mVariableParamMem,   \* outbound buffer: allocated, size, bytes not zero
  mVariableResultMem,  \* inbound buffer: allocated, size and its fields
  proc,                \* the process the driver is linked into
  ret,                 \* the last reply to a caller
  io                   \* the extents of the last call on the TA

session == <<live, mTeecSessionOpened, mTeecSession>>
buffers == <<mVariableParamMem, mVariableResultMem>>
dvars == <<vars, session, buffers, proc, ret, io>>

(* What a call moved: bytes of the param buffer filled and bytes declared to
   the TA, the result size declared, bytes handed to the caller and the size
   of the caller's buffer, and whether the TA reads the name as it is. *)
Extents(filled, told, room, handed, given, clean) ==
  [filled |-> filled, told |-> told, room |-> room, handed |-> handed,
   given |-> given, clean |-> clean]
NoExtents == Extents(0, 0, 0, 0, 0, TRUE)

ParamMem(buffer) == [buffer |-> buffer, size |-> MemSize, dirty |-> 0]
(* Mutant: the result buffer has no room for a header. *)
ShortResultMem(buffer) ==
  [buffer |-> buffer, size |-> PcdMaxSize, attrs |-> {}, data |-> <<>>, next |-> NoVar]
ResultMem(buffer) ==
  [buffer |-> buffer, size |-> MemSize, attrs |-> {}, data |-> <<>>, next |-> NoVar]
NoParamMem == [ParamMem(FALSE) EXCEPT !.size = 0]
NoResultMem == [ResultMem(FALSE) EXCEPT !.size = 0]

Init ==
  /\ vars = [v \in Var |-> Absent]
  /\ live = NoSession
  /\ mTeecSessionOpened = FALSE
  /\ mTeecSession = NoSession
  /\ mVariableParamMem = NoParamMem
  /\ mVariableResultMem = NoResultMem
  /\ proc = "starting"
  /\ ret = NoAnswer
  /\ io = NoExtents

(* A new process: the globals as they are loaded, no session. *)
Load ==
  /\ live' = NoSession
  /\ mTeecSessionOpened' = FALSE
  /\ mTeecSession' = NoSession
  /\ mVariableParamMem' = NoParamMem
  /\ mVariableResultMem' = NoResultMem
  /\ proc' = "starting"
  /\ ret' = NoAnswer
  /\ io' = NoExtents

----------------------------------------------------------------------------
(* TaOpenSession: a session, then the two buffers.  The first thing to fail
   ends it, and what was done before stays done. *)
OpenSession ==
  /\ mTeecSession' \in SessionId
  /\ live' = mTeecSession'
  /\ mTeecSessionOpened' = TRUE

(* Mutant: the second allocation is not tested. *)
TaOpenSessionUntested(status) ==
  \/ /\ status = "PROTOCOL_ERROR"
     /\ UNCHANGED <<session, buffers>>
  \/ /\ status = "OUT_OF_RESOURCES"
     /\ OpenSession
     /\ mVariableParamMem' = ParamMem(FALSE)
     /\ UNCHANGED mVariableResultMem
  \/ /\ status = "SUCCESS"
     /\ OpenSession
     /\ mVariableParamMem' = ParamMem(TRUE)
     /\ mVariableResultMem' \in {ResultMem(TRUE), ResultMem(FALSE)}

TaOpenSession(status) ==
  \/ /\ status = "PROTOCOL_ERROR"
     /\ UNCHANGED <<session, buffers>>
  \/ /\ status = "OUT_OF_RESOURCES"
     /\ OpenSession
     /\ \/ /\ mVariableParamMem' = ParamMem(FALSE)
           /\ UNCHANGED mVariableResultMem
        \/ /\ mVariableParamMem' = ParamMem(TRUE)
           /\ mVariableResultMem' = ResultMem(FALSE)
  \/ /\ status = "SUCCESS"
     /\ OpenSession
     /\ mVariableParamMem' = ParamMem(TRUE)
     /\ mVariableResultMem' = ResultMem(TRUE)

(* OpteeRuntimeOnExitBootServices: finalizing the context closes the session
   too if the one the driver closes is another one. *)
OpteeRuntimeOnExitBootServices ==
  /\ live' = NoSession
  /\ mTeecSessionOpened' = FALSE
  /\ mVariableParamMem' = [mVariableParamMem EXCEPT !.buffer = FALSE]
  /\ mVariableResultMem' = [mVariableResultMem EXCEPT !.buffer = FALSE]
  /\ UNCHANGED <<vars, mTeecSession, ret, io>>

----------------------------------------------------------------------------
(* OpteeRuntimeVariableInvokeCommand. *)

(* Mutant: one result has no case and is handed on as it is. *)
EfiStatusPartly(teec) ==
  CASE teec = "SUCCESS"        -> "SUCCESS"
    [] teec = "ITEM_NOT_FOUND" -> "NOT_FOUND"
    [] teec = "SHORT_BUFFER"   -> "BUFFER_TOO_SMALL"
    [] teec = "OUT_OF_MEMORY"  -> "OUT_OF_RESOURCES"
    [] OTHER                   -> teec

EfiStatus(teec) ==
  CASE teec = "SUCCESS"        -> "SUCCESS"
    [] teec = "ITEM_NOT_FOUND" -> "NOT_FOUND"
    [] teec = "SHORT_BUFFER"   -> "BUFFER_TOO_SMALL"
    [] teec = "OUT_OF_MEMORY"  -> "OUT_OF_RESOURCES"
    [] teec = "ACCESS_DENIED"  -> "SECURITY_VIOLATION"
    [] teec = "OTHER"          -> "PROTOCOL_ERROR"

(* SetMem hands memset its value, 0, for the number of bytes: it clears none.
   Its assertion, that the buffer does not reach behind the end of memory,
   holds for a buffer that was allocated. *)
SetMem(mem) == mem

(* Mutants: a read or a write does not clear a buffer either. *)
UnclearedParam == mVariableParamMem
UnclearedResult == mVariableResultMem

(* The buffers as ZeroMem leaves them, before a read or a write. *)
ClearedParam == [mVariableParamMem EXCEPT !.dirty = 0]
ClearedResult == [mVariableResultMem EXCEPT !.attrs = {}, !.data = <<>>, !.next = NoVar]

(* The param buffer once bytes up to "extent" are written in it. *)
Fill(mem, extent) ==
  [mem EXCEPT !.dirty = IF extent > mem.dirty THEN extent ELSE mem.dirty]

(* FixWideString writes ShortSize bytes of a name declared with a size that may
   be longer: the TA reads that name if what is declared ends there or nothing
   follows it in the buffer, and if the size went through its 16-bit field
   unchanged. *)
NameClean(mem, offset, declared, v) ==
  /\ declared <= ShortSize(v) \/ mem.dirty <= offset + ShortSize(v)
  /\ declared % HalfWord = declared

(* The TA answers in the session it has open, about a name it can read. *)
Heard(clean) == mTeecSession = live /\ clean
Invoke(replies, clean) == IF Heard(clean) THEN replies ELSE {Bare("OTHER")}

(* The result buffer after a reply. *)
Receive(mem, reply) ==
  IF reply.teec = "SUCCESS"
  THEN [mem EXCEPT !.attrs = reply.attrs, !.data = reply.data, !.next = reply.next]
  ELSE IF reply.attrs # {} THEN [mem EXCEPT !.attrs = reply.attrs]
  ELSE mem

(* The two tests on a structure of "header" bytes and n more. *)
Fits(header, n, mem) == n < mem.size /\ (header + n) % Word <= mem.size

NoBuffers == ~mVariableParamMem.buffer \/ ~mVariableResultMem.buffer

(* A call that is refused ahead of the TA hands back nothing but a status. *)
Refuse(op, status) ==
  /\ ret' = Answer(op, NoVar, status, 0, 0, {}, <<>>, NoVar)
  /\ io' = NoExtents
  /\ UNCHANGED <<vars, session, buffers, proc>>

----------------------------------------------------------------------------
(* OpteeRuntimeGetVariable.  "null" says which pointer is NULL: none, Data, or
   one of those every call needs ("Other"). *)

Incomplete(null, size) == null = "Other" \/ (null = "Data" /\ size # 0)

GetRefusal(v, null, size) ==
  IF EfiAtRuntime THEN "NOT_FOUND"
  ELSE IF Incomplete(null, size) THEN "INVALID_PARAMETER"
  ELSE IF ~mTeecSessionOpened THEN "NOT_READY"
  ELSE IF NoBuffers THEN "OUT_OF_RESOURCES"
  ELSE IF ~Fits(GET_PARAM, StrSize(v), mVariableParamMem) THEN "BAD_BUFFER_SIZE"
  ELSE IF ~Fits(GET_RESULT, size, mVariableResultMem) THEN "BAD_BUFFER_SIZE"
  ELSE "None"

(* The hook that hands out the session id, ahead of the session test. *)
GetIsHook(v, null, size) ==
  v \in HookVar /\ size = UINTN_SIZE /\ null = "None"

GetSessionId ==
  /\ ret' = NoAnswer
  /\ io' = Extents(0, 0, 0, UINTN_SIZE, UINTN_SIZE, TRUE)
  /\ UNCHANGED <<vars, session, buffers, proc>>

(* Mutant: what the TA returned is not measured again. *)
OverflowsNever(status, n, size) == FALSE

(* "Shouldn't happen, but...": the TA says it returned more than there was room
   for. *)
Overflows(status, n, size) == status = "SUCCESS" /\ n > size

(* The call on a TA that fills the result up to "limit" bytes.  A reply that is
   too short comes from the TA and counts the header, as the code asserts. *)
GetCall(v, size, limit) ==
  LET param == ClearedParam
      room == (GET_RESULT + size) % Word
      clean == NameClean(param, GET_NAME, StrSize(v), v)
  IN \E r \in Invoke(TaGet(vars, v, GET_RESULT, limit), clean) :
       LET got == Receive(ClearedResult, r)
           status == EfiStatus(r.teec)
           overflow == Overflows(status, Len(got.data), size)
           newSize == CASE status = "BUFFER_TOO_SMALL" -> r.need - GET_RESULT
                        [] status = "SUCCESS" -> Len(got.data)
                        [] OTHER -> size
           data == IF status = "SUCCESS" /\ ~overflow THEN got.data ELSE <<>>
       IN /\ mVariableParamMem' = Fill(param, GET_NAME + ShortSize(v))
          /\ mVariableResultMem' = got
          /\ io' = Extents(GET_NAME + ShortSize(v), (GET_PARAM + StrSize(v)) % Word,
                           room, Len(data), size, clean)
          /\ ret' = Answer("Get", v, IF overflow THEN "BAD_BUFFER_SIZE" ELSE status,
                           size, newSize, got.attrs, data, NoVar)
          /\ UNCHANGED <<vars, session, proc>>

(* The TA keeps to the size it is given. *)
GetInvoke(v, size) == GetCall(v, size, (GET_RESULT + size) % Word)

OpteeRuntimeGetVariable(v, null, size) ==
  LET refusal == GetRefusal(v, null, size) IN
  \/ /\ GetIsHook(v, null, size)
     /\ GetSessionId
  \/ /\ ~GetIsHook(v, null, size)
     /\ refusal # "None"
     /\ Refuse("Get", refusal)
  \/ /\ ~GetIsHook(v, null, size)
     /\ refusal = "None"
     /\ GetInvoke(v, size)

----------------------------------------------------------------------------
(* OpteeRuntimeGetNextVariableName.  The size is halved on the way in and
   doubled on the way out: callers have 4-byte characters, the TA 2-byte ones.
   The size is read, to be logged, before it is tested for NULL. *)

(* Mutant: the size of a name goes out as it is. *)
NextNameWhole(v) == IF v = NoVar THEN 0 ELSE StrSize(v)
NextNameSize(v) == IF v = NoVar THEN 0 ELSE StrSize(v) \div 2
NextNameClean(mem, v) == v = NoVar \/ NameClean(mem, GET_NAME, NextNameSize(v), v)
(* Mutants: a size is taken for one of the other characters. *)
Unhalved(size) == size
Undoubled(size) == size
Halved(size) == size \div 2
Doubled(size) == (2 * size) % Word
NextNameWritten(v) == IF v = NoVar THEN 2 ELSE ShortSize(v)

NextRefusal(v, null, size) ==
  IF EfiAtRuntime THEN "UNSUPPORTED"
  ELSE IF null THEN "INVALID_PARAMETER"
  ELSE IF ~mTeecSessionOpened THEN "NOT_READY"
  ELSE IF NoBuffers THEN "OUT_OF_RESOURCES"
  ELSE IF ~Fits(GET_PARAM, NextNameSize(v), mVariableParamMem) THEN "BAD_BUFFER_SIZE"
  ELSE IF ~Fits(GET_PARAM, Halved(size), mVariableResultMem) THEN "BAD_BUFFER_SIZE"
  ELSE "None"

(* As GetCall, with the same assertion on a reply that is too short. *)
NextCall(v, size, limit) ==
  LET param == SetMem(mVariableParamMem)
      filled == GET_NAME + NextNameWritten(v)
      room == (GET_PARAM + Halved(size)) % Word
      clean == NextNameClean(param, v)
  IN \E r \in Invoke(TaGetNext(vars, v, GET_PARAM, limit), clean) :
       LET got == Receive(SetMem(mVariableResultMem), r)
           status == EfiStatus(r.teec)
           nameSize == r.need - GET_PARAM
           overflow == Overflows(status, nameSize, Halved(size))
           next == IF status = "SUCCESS" /\ ~overflow THEN got.next ELSE NoVar
       IN /\ mVariableParamMem' = Fill(param, filled)
          /\ mVariableResultMem' = got
          /\ io' = Extents(filled, (GET_PARAM + NextNameSize(v)) % Word, room,
                           IF next = NoVar THEN 0 ELSE StrSize(next), size, clean)
          /\ ret' = Answer("GetNext", v, IF overflow THEN "BAD_BUFFER_SIZE" ELSE status,
                           size,
                           IF status \in {"SUCCESS", "BUFFER_TOO_SMALL"}
                           THEN Doubled(nameSize) ELSE size,
                           {}, <<>>, next)
          /\ UNCHANGED <<vars, session, proc>>

NextInvoke(v, size) == NextCall(v, size, (GET_PARAM + Halved(size)) % Word)

OpteeRuntimeGetNextVariableName(v, null, size) ==
  LET refusal == NextRefusal(v, null = "Name", size) IN
  \/ /\ null = "Size"
     /\ proc' = "crashed"
     /\ UNCHANGED <<vars, session, buffers, ret, io>>
  \/ /\ null # "Size"
     /\ refusal # "None"
     /\ Refuse("GetNext", refusal)
  \/ /\ null # "Size"
     /\ refusal = "None"
     /\ NextInvoke(v, size)

----------------------------------------------------------------------------
(* OpteeRuntimeSetVariable.  It does not test the buffers before it clears
   them. *)

SetRefusal(null, size) ==
  IF EfiAtRuntime THEN "UNSUPPORTED"
  ELSE IF Incomplete(null, size) THEN "INVALID_PARAMETER"
  ELSE IF ~mTeecSessionOpened THEN "NOT_READY"
  ELSE "None"

(* Mutant: the data size is tested in the sum only. *)
SetFitsSum(v, size) ==
  /\ StrSize(v) < mVariableParamMem.size
  /\ (SET_PARAM + StrSize(v) + size) % Word <= mVariableParamMem.size

SetFits(v, size) ==
  /\ StrSize(v) < mVariableParamMem.size
  /\ size < mVariableParamMem.size
  /\ (SET_PARAM + StrSize(v) + size) % Word <= mVariableParamMem.size

(* The hook that makes the driver call with another session id. *)
SetSessionId ==
  /\ mTeecSession' \in SessionId
  /\ ret' = NoAnswer
  /\ io' = NoExtents
  /\ UNCHANGED <<vars, live, mTeecSessionOpened, buffers, proc>>

Bytes(tag, n) == [i \in 1 .. n |-> tag]

SetInvoke(v, attrs, size, tag) ==
  LET param == ClearedParam
      clean == NameClean(param, SET_PAYLOAD, StrSize(v), v)
      filled == SET_PAYLOAD + StrSize(v) + size
  IN \E r \in IF Heard(clean)
              THEN TaSet(vars, v, attrs, Bytes(tag, size))
              ELSE {[reply |-> Bare("OTHER"), store |-> vars]} :
       /\ vars' = r.store
       /\ mVariableParamMem' = Fill(param, filled)
       /\ mVariableResultMem' = ClearedResult
       /\ io' = Extents(filled, (SET_PARAM + StrSize(v) + size) % Word,
                        UINTN_SIZE, 0, 0, clean)
       /\ ret' = Answer("Set", v, EfiStatus(r.reply.teec), size, 0, {}, <<>>, NoVar)
       /\ proc' = IF NoBuffers THEN "crashed" ELSE proc
       /\ UNCHANGED session

OpteeRuntimeSetVariable(v, null, attrs, size, tag) ==
  LET refusal == SetRefusal(null, size)
      hook == refusal = "None" /\ v \in HookVar /\ size = UINTN_SIZE
  IN \/ /\ hook
        /\ SetSessionId
     \/ /\ refusal # "None"
        /\ Refuse("Set", refusal)
     \/ /\ refusal = "None" /\ ~hook
        /\ ~SetFits(v, size)
        /\ Refuse("Set", "BAD_BUFFER_SIZE")
     \/ /\ refusal = "None" /\ ~hook
        /\ SetFits(v, size)
        /\ SetInvoke(v, attrs, size, tag)

----------------------------------------------------------------------------
(* OpteeRuntimeQueryVariableInfo. *)

QueryRefusal(null) ==
  IF EfiAtRuntime THEN "UNSUPPORTED"
  ELSE IF null THEN "INVALID_PARAMETER"
  ELSE IF ~mTeecSessionOpened THEN "NOT_READY"
  ELSE IF NoBuffers THEN "OUT_OF_RESOURCES"
  ELSE IF ~(QUERY_PARAM <= mVariableParamMem.size /\ QUERY_RESULT <= mVariableResultMem.size)
       THEN "BAD_BUFFER_SIZE"
  ELSE "None"

OpteeRuntimeQueryVariableInfo(null) ==
  LET refusal == QueryRefusal(null) IN
  \/ /\ refusal # "None"
     /\ Refuse("Query", refusal)
  \/ /\ refusal = "None"
     /\ \E r \in Invoke(TaQuery, TRUE) :
          /\ mVariableParamMem' = Fill(SetMem(mVariableParamMem), QUERY_PARAM)
          /\ mVariableResultMem' = Receive(SetMem(mVariableResultMem), r)
          /\ io' = Extents(QUERY_PARAM, QUERY_PARAM, QUERY_RESULT, 0, 0, TRUE)
          /\ ret' = Answer("Query", NoVar, EfiStatus(r.teec), 0, 0, {}, <<>>, NoVar)
          /\ UNCHANGED <<vars, session, proc>>

----------------------------------------------------------------------------
(* The program around the driver: it gives up when the driver does not start,
   calls the services in any order, and may stop or be stopped at any time.
   Session and buffers go with the process; the machine may reboot too.  If the
   start gets no context it returns a status it has not assigned. *)

Start ==
  /\ proc = "starting"
  /\ \/ \E status \in {"PROTOCOL_ERROR", "OUT_OF_RESOURCES", "SUCCESS"} :
          /\ TaOpenSession(status)
          /\ proc' = IF status = "SUCCESS" THEN "up" ELSE "gone"
     \/ /\ UNCHANGED <<session, buffers>>
        /\ proc' \in {"up", "gone"}
  /\ UNCHANGED <<vars, ret, io>>

Get == \E v \in Var, null \in NullPointer, size \in Size :
         OpteeRuntimeGetVariable(v, null, size)

GetNext == \E v \in Var \union {NoVar}, null \in NextNull, size \in Size :
             OpteeRuntimeGetNextVariableName(v, null, size)

Set == \E v \in Var, null \in NullPointer, attrs \in AttrSet, size \in Size,
          tag \in Tag :
         OpteeRuntimeSetVariable(v, null, attrs, size, tag)

Query == \E null \in BOOLEAN : OpteeRuntimeQueryVariableInfo(null)

Exit == OpteeRuntimeOnExitBootServices /\ UNCHANGED proc

Restart ==
  /\ vars' \in {vars, Rebooted(vars)}
  /\ Load

Next ==
  \/ Start
  \/ proc = "up" /\ (Get \/ GetNext \/ Set \/ Query \/ Exit)
  \/ Restart

Spec == Init /\ [][Next]_dvars

(* A TA that does not look at the size it is given and fills the whole block. *)
OverlongGet ==
  \E v \in Var, size \in Size :
    /\ ~GetIsHook(v, "None", size) /\ GetRefusal(v, "None", size) = "None"
    /\ GetCall(v, size, MemSize)

OverlongNext ==
  \E v \in Var \union {NoVar}, size \in Size :
    /\ NextRefusal(v, FALSE, size) = "None"
    /\ NextCall(v, size, MemSize)

NextCareless == Next \/ (proc = "up" /\ (OverlongGet \/ OverlongNext))

SpecCareless == Init /\ [][NextCareless]_dvars

----------------------------------------------------------------------------
(* Properties. *)

ParamMemType == [buffer : BOOLEAN, size : {0, MemSize}, dirty : Nat]
ResultMemType == [buffer : BOOLEAN, size : {0, MemSize}, attrs : SUBSET Attribute,
                  data : Seq(Tag), next : Var \union {NoVar}]
EfiStatusType == {"SUCCESS", "NOT_FOUND", "BUFFER_TOO_SMALL", "OUT_OF_RESOURCES",
                  "SECURITY_VIOLATION", "PROTOCOL_ERROR", "INVALID_PARAMETER",
                  "NOT_READY", "BAD_BUFFER_SIZE", "UNSUPPORTED"}
AnswerType == [op : {"None", "Get", "GetNext", "Set", "Query"}, var : Var \union {NoVar},
               status : EfiStatusType, room : Nat, size : Int, attrs : SUBSET Attribute,
               data : Seq(Tag), next : Var \union {NoVar}]
ExtentsType == [filled : Nat, told : Nat, room : Nat, handed : Nat, given : Nat,
                clean : BOOLEAN]

(* Every variable of the driver holds what its type allows. *)
TypeOK ==
  /\ vars \in [Var -> Entry]
  /\ live \in SessionId \union {NoSession}
  /\ mTeecSessionOpened \in BOOLEAN
  /\ mTeecSession \in SessionId \union {NoSession}
  /\ mVariableParamMem \in ParamMemType
  /\ mVariableResultMem \in ResultMemType
  /\ proc \in {"starting", "up", "gone", "crashed"}
  /\ ret \in AnswerType
  /\ io \in ExtentsType

(* Whatever sizes a caller passes, and although 32-bit sums of them can wrap,
   a call fills no more of the param buffer than it declares to the TA and
   declares no more than either buffer holds. *)
TransportBounds ==
  io.filled <= io.told /\ io.told <= MemSize /\ io.room <= MemSize

(* No service writes more into the caller's buffer than the caller said it
   holds: not the data of a variable, not a name widened to 4-byte characters,
   not the session id of the hook; and, under SpecCareless, not even when the
   TA returns more than it was given room for. *)
CallerBounds == io.handed <= io.given

(* The TA reads the name the caller passed: nothing an earlier, longer call
   left in the param buffer follows the shortened name within the size it is
   declared with, although two of the services clear nothing, and that size
   went through its 16-bit field whole. *)
NameAsSent == io.clean

(* AuthVarsDxe.c:627 and 937, "Clear the buffers entirely to start with.": what
   is in the param buffer of a call is what that call filled in. *)
ParamCleared == io.told > 0 => mVariableParamMem.dirty <= io.filled

(* The services never reach the transport without both buffers, in particular
   OpteeRuntimeSetVariable, which does not test them. *)
ServicesUsable ==
  /\ proc # "crashed"
  /\ proc = "up" /\ mTeecSessionOpened =>
       /\ mVariableParamMem.buffer /\ mVariableParamMem.size = MemSize
       /\ mVariableResultMem.buffer /\ mVariableResultMem.size = MemSize

(* Whatever was written through the driver can be read and passed by in an
   enumeration: no stored variable is one whose name or data the other two
   services refuse for their size. *)
ReadableBack ==
  proc = "up" /\ mTeecSessionOpened =>
    \A v \in Var : Stored(vars, v) =>
      /\ GetRefusal(v, "None", Len(vars[v].data)) = "None"
      /\ NextRefusal(v, FALSE, 2 * TaNameSize[v]) = "None"

(* The size handed back with BUFFER_TOO_SMALL is enough: the same call with
   that size, on the same store, is not told again that the buffer is too
   small. *)
RetryFits ==
  [][ret.status = "BUFFER_TOO_SMALL" /\ vars' = vars
     /\ ret'.op = ret.op /\ ret'.var = ret.var /\ ret'.room = ret.size
     => ret'.status # "BUFFER_TOO_SMALL"]_<<vars, ret>>

(* The services keep what VariableService promises. *)
Service == INSTANCE VariableService
  WITH store <- vars, reply <- ret, Room <- Size,
       Payload <- {Bytes(t, n) : t \in Tag, n \in Size \intersect 0 .. MemSize}
ServiceSpec == Service!Spec
=============================================================================
