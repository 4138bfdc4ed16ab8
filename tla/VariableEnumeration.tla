------------------------- MODULE VariableEnumeration -------------------------
(***************************************************************************)
(* The enumeration every test of a variable relies on,                      *)
(* VerifyVariableEnumerable in edk2_variable_test/AuthVarTest.c, over the   *)
(* driver: it walks the names with GetNextVariableName in a buffer it grows *)
(* when it is told to, until it meets the target or the end.                *)
(***************************************************************************)
EXTENDS AuthVarsDxe

CONSTANTS
  CHAR16_SIZE   \* sizeof(CHAR16), the size the first buffer has

(* The variables the test walks have been written with one byte, 0. *)
ASSUME EnumerationAssumption ==
  /\ CHAR16_SIZE \in Nat
  /\ 0 \in Tag
  /\ StoreMax >= 1

VARIABLES
  pc,
  target,                  \* TargetVariableName and TargetVendorGuid
  mEnumVariableName,       \* the name in the buffer
  VariableNameBufferSize,  \* the size the buffer is allocated with
  VariableNameSize,        \* the size passed and handed back
  Found,
  visited                  \* the names handed out so far

evars == <<dvars, pc, target, mEnumVariableName, VariableNameBufferSize,
           VariableNameSize, Found, visited>>

(* A driver at work on a store with any of the variables SetVariable takes.
   AllocateZeroPool has found memory for the first buffer or not. *)
InitE ==
  /\ vars \in [Var -> {Absent, [attrs |-> {"NV", "BS"}, data |-> <<0>>]}]
  /\ live \in SessionId
  /\ mTeecSessionOpened = TRUE
  /\ mTeecSession = live
  /\ mVariableParamMem = ParamMem(TRUE)
  /\ mVariableResultMem = ResultMem(TRUE)
  /\ \A v \in Var : Stored(vars, v) => SetFits(v, 1)
  /\ proc = "up"
  /\ ret = NoAnswer
  /\ io = NoExtents
  /\ pc \in {"next", "unallocated"}
  /\ target \in Var
  /\ mEnumVariableName = NoVar
  /\ VariableNameBufferSize = CHAR16_SIZE
  /\ VariableNameSize = CHAR16_SIZE
  /\ Found = FALSE
  /\ visited = {}

(* gRT->GetNextVariableName with the buffer as it is. *)
Call(size) ==
  /\ OpteeRuntimeGetNextVariableName(mEnumVariableName, "None", size)
  /\ VariableNameSize' = IF ret'.op = "GetNext" /\ ret'.var = mEnumVariableName
                         THEN ret'.size ELSE size
  /\ IF ret'.status = "SUCCESS"
     THEN /\ mEnumVariableName' = ret'.next
          /\ visited' = visited \union {ret'.next}
     ELSE UNCHANGED <<mEnumVariableName, visited>>

(* Mutant: an error is taken for the end of the list. *)
JudgeErrorAsEnd ==
  CASE ret'.status = "SUCCESS" ->
         /\ Found' = (ret'.next = target)
         /\ pc' = IF Found' THEN "end" ELSE "next"
    [] OTHER -> pc' = "end" /\ UNCHANGED Found

(* The answer is tested for the end, for an error, which VERIFY_SUCCEEDED
   throws, and for the target. *)
Judge ==
  CASE ret'.status = "NOT_FOUND" -> pc' = "end" /\ UNCHANGED Found
    [] ret'.status = "SUCCESS" ->
         /\ Found' = (ret'.next = target)
         /\ pc' = IF Found' THEN "end" ELSE "next"
    [] OTHER -> pc' = "thrown" /\ UNCHANGED Found

NextName ==
  /\ pc = "next"
  /\ Call(VariableNameBufferSize)
  /\ IF ret'.status = "BUFFER_TOO_SMALL"
     THEN pc' = "grow" /\ UNCHANGED Found
     ELSE Judge
  /\ UNCHANGED <<target, VariableNameBufferSize>>

(* Nothing tests the first buffer: the service is handed NULL for the name. *)
NextNameNull ==
  /\ pc = "unallocated"
  /\ OpteeRuntimeGetNextVariableName(NoVar, "Name", VariableNameBufferSize)
  /\ Judge
  /\ UNCHANGED <<target, mEnumVariableName, VariableNameBufferSize, VariableNameSize,
                 visited>>

(* Mutants: the buffer keeps its size, its new size is not passed on, or its
   content is lost. *)
GrowNothing ==
  /\ pc = "grow"
  /\ pc' = "again"
  /\ UNCHANGED <<dvars, target, mEnumVariableName, VariableNameBufferSize,
                 VariableNameSize, Found, visited>>

GrowAndStartOver ==
  /\ pc = "grow"
  /\ pc' = "next"
  /\ UNCHANGED <<dvars, target, mEnumVariableName, VariableNameBufferSize,
                 VariableNameSize, Found, visited>>

GrowAndLose ==
  /\ pc = "grow"
  /\ VariableNameBufferSize' = VariableNameSize
  /\ mEnumVariableName' = NoVar
  /\ pc' = "again"
  /\ UNCHANGED <<dvars, target, VariableNameSize, Found, visited>>

(* ReallocatePool may fail, which VERIFY_IS_NOT_NULL throws. *)
Grow ==
  /\ pc = "grow"
  /\ \/ /\ VariableNameBufferSize' = VariableNameSize
        /\ pc' = "again"
     \/ /\ pc' = "nomem"
        /\ UNCHANGED VariableNameBufferSize
  /\ UNCHANGED <<dvars, target, mEnumVariableName, VariableNameSize, Found, visited>>

NextNameAgain ==
  /\ pc = "again"
  /\ Call(VariableNameSize)
  /\ Judge
  /\ UNCHANGED <<target, VariableNameBufferSize>>

NextE == NextName \/ NextNameNull \/ Grow \/ NextNameAgain

(* The loop runs alone and each call returns. *)
SpecE == InitE /\ [][NextE]_evars /\ WF_evars(NextE)

----------------------------------------------------------------------------
(* Properties. *)

(* An enumeration that ends tells whether the target is in the store. *)
FoundIfStored == pc = "end" => (Found <=> Stored(vars, target))

(* When it reaches the end of the list it has been through every variable. *)
AllVisited ==
  pc = "end" /\ ~Found => visited = {v \in Var : Stored(vars, v)}

(* No name comes up twice, so that no target is met by going in circles. *)
NoneTwice ==
  [][mEnumVariableName' # mEnumVariableName => mEnumVariableName' \notin visited]_evars

(* The name in hand, in 4-byte characters and with its NUL, fits the buffer
   that was allocated, and the size a call asks for is enough for the next:
   one reallocation per name. *)
NameFitsBuffer ==
  /\ mEnumVariableName # NoVar => StrSize(mEnumVariableName) <= VariableNameBufferSize
  /\ pc = "thrown" => ret.status # "BUFFER_TOO_SMALL"

(* The enumeration ends, whatever the sizes of the names. *)
EnumerationEnds == <>(pc \in {"end", "thrown", "nomem"})
=============================================================================
