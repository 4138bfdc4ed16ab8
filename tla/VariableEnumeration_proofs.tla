---------------------- MODULE VariableEnumeration_proofs ----------------------
(***************************************************************************)
(* Proofs about the enumeration, for any store, any names and any sizes the *)
(* TA keeps them in.  That it ends is model-checked only.                   *)
(***************************************************************************)
EXTENDS VariableEnumeration, AuthVarsDxe_proofs

----------------------------------------------------------------------------
(* The inductive invariant.  What has been visited is all that is stored up to
   the name in hand, so that a step on from there can neither miss a variable
   nor meet one again. *)

TypeOKE ==
  /\ pc \in {"next", "unallocated", "grow", "again", "end", "thrown", "nomem"}
  /\ target \in Var
  /\ mEnumVariableName \in Var \union {NoVar}
  /\ VariableNameBufferSize \in Nat
  /\ VariableNameSize \in Nat
  /\ Found \in BOOLEAN

Visited ==
  /\ visited = UpTo(vars, mEnumVariableName)
  /\ mEnumVariableName # NoVar => Stored(vars, mEnumVariableName)

Searching ==
  /\ pc \in {"next", "unallocated", "grow", "again"} => ~Found /\ target \notin visited
  /\ pc = "end" => IF Found
                   THEN mEnumVariableName = target
                   ELSE After(vars, mEnumVariableName) = {} /\ target \notin visited

(* The size handed back is the one the next name needs, and more than there is
   until the buffer has grown to it. *)
Sized ==
  /\ mEnumVariableName # NoVar => StrSize(mEnumVariableName) <= VariableNameBufferSize
  /\ pc \in {"grow", "again"} =>
       \E w \in Var : /\ IsNext(vars, mEnumVariableName, w)
                      /\ VariableNameSize = 2 * TaNameSize[w]
  /\ pc = "grow" => VariableNameBufferSize < VariableNameSize
  /\ pc = "again" => VariableNameBufferSize = VariableNameSize
  /\ pc = "thrown" => ret.status # "BUFFER_TOO_SMALL"

InvE == Inv /\ proc = "up" /\ TypeOKE /\ Visited /\ Searching /\ Sized

----------------------------------------------------------------------------
(* A call with the buffer there is keeps the invariant, whatever the call is
   answered; only the first of the two calls for a name can be told that the
   buffer is too small. *)
LEMMA CallStep ==
  ASSUME InvE, pc \in {"next", "again"}, NEW size \in Nat,
         size = VariableNameBufferSize, Call(size),
         UNCHANGED <<target, VariableNameBufferSize>>,
         \/ Judge
         \/ ret'.status = "BUFFER_TOO_SMALL" /\ pc' = "grow" /\ UNCHANGED Found,
         ret'.status = "BUFFER_TOO_SMALL" => pc' = "grow"
  PROVE  /\ InvE'
         /\ mEnumVariableName' # mEnumVariableName => mEnumVariableName' \notin visited
<1> DEFINE from == mEnumVariableName
<1>0. /\ Inv /\ from \in Var \union {NoVar} /\ proc = "up"
      /\ ~Found /\ target \notin visited /\ target \in Var
  BY DEF InvE, TypeOKE, Searching
<1>1. /\ Inv' /\ QuietFrame /\ NameGiven(from, size)
      /\ ret'.status = "SUCCESS" => ret'.next \in Var
      /\ ret'.size \in Nat
  <2>1. OpteeRuntimeGetNextVariableName(from, "None", size)
    BY DEF Call
  <2> QED
    BY <1>0, <2>1, NextGives
<1>2. /\ vars' = vars /\ proc' = "up"
      /\ VariableNameSize' \in Nat /\ VariableNameBufferSize' \in Nat
  BY <1>0, <1>1 DEF QuietFrame, Call, InvE, TypeOKE
<1>3. CASE ret'.status = "SUCCESS"
  <2> DEFINE w == ret'.next
  <2>1. /\ w \in Var /\ IsNext(vars, from, w) /\ 2 * TaNameSize[w] <= size
    BY <1>1, <1>3 DEF NameGiven
  <2>2. /\ mEnumVariableName' = w /\ visited' = visited \union {w}
        /\ Found' = (w = target) /\ pc' = IF Found' THEN "end" ELSE "next"
    BY <1>3 DEF Call, Judge
  <2> HIDE DEF w
  <2>3. /\ Stored(vars, w) /\ w \notin visited
        /\ visited \union {w} = UpTo(vars, w)
    BY <1>0, <2>1, UpToNext DEF InvE, Visited
  <2>4. TypeOKE'
    BY <1>0, <1>2, <2>1, <2>2 DEF TypeOKE
  <2>5. Visited'
    BY <1>2, <2>1, <2>2, <2>3, VarAssumption DEF Visited, Stored
  <2>6. Searching'
    <3>1. w # target => target \notin visited'
      BY <1>0, <2>2
    <3> QED
      BY <2>2, <3>1 DEF Searching
  <2>7. Sized'
    <3>1. StrSize(w) <= VariableNameBufferSize'
      BY <2>1, NameSizes
    <3> QED
      BY <2>2, <3>1 DEF Sized
  <2> QED
    BY <1>1, <1>2, <2>2, <2>3, <2>4, <2>5, <2>6, <2>7 DEF InvE
<1>4. CASE ret'.status # "SUCCESS"
  <2>1. mEnumVariableName' = from /\ visited' = visited
    BY <1>4 DEF Call
  <2>2. /\ Found' = Found
        /\ \/ ret'.status = "BUFFER_TOO_SMALL" /\ pc' = "grow"
           \/ ret'.status = "NOT_FOUND" /\ pc' = "end"
           \/ ret'.status \notin {"BUFFER_TOO_SMALL", "NOT_FOUND"} /\ pc' = "thrown"
    BY <1>4 DEF Judge
  <2>3. TypeOKE'
    BY <1>0, <1>2, <2>1, <2>2 DEF InvE, TypeOKE
  <2>4. Visited'
    BY <1>2, <2>1 DEF InvE, Visited, Stored
  <2>5. Searching'
    <3>1. ret'.status = "NOT_FOUND" => After(vars, from) = {}
      BY <1>1 DEF NameGiven, InvE, Visited
    <3> QED
      BY <1>0, <1>2, <2>1, <2>2, <3>1 DEF Searching, After, Stored
  <2>6. Sized'
    <3>1. from # NoVar => StrSize(from) <= VariableNameBufferSize'
      BY DEF InvE, Sized
    <3>2. pc' = "grow" =>
            /\ \E w \in Var : IsNext(vars, from, w) /\ VariableNameSize' = 2 * TaNameSize[w]
            /\ size < VariableNameSize'
      <4> SUFFICES ASSUME ret'.status = "BUFFER_TOO_SMALL"
                   PROVE  /\ \E w \in Var : /\ IsNext(vars, from, w)
                                             /\ VariableNameSize' = 2 * TaNameSize[w]
                          /\ size < VariableNameSize'
        BY <2>2
      <4>1. PICK w \in Var : /\ IsNext(vars, from, w) /\ 2 * TaNameSize[w] > size
                             /\ ret'.size = 2 * TaNameSize[w]
        BY <1>1 DEF NameGiven
      <4>2. VariableNameSize' = ret'.size
        BY <1>1 DEF NameGiven, Call
      <4>3. TaNameSize[w] \in Nat
        BY NameSizes
      <4> QED
        BY <4>1, <4>2, <4>3
    <3> QED
      BY <1>2, <2>1, <2>2, <3>1, <3>2 DEF Sized, IsNext, After, Stored
  <2> QED
    BY <1>1, <1>2, <2>1, <2>3, <2>4, <2>5, <2>6 DEF InvE
<1> QED
  BY <1>3, <1>4

----------------------------------------------------------------------------

LEMMA InitInvE == InitE => InvE
<1> SUFFICES ASSUME InitE PROVE InvE
  OBVIOUS
<1>0. /\ mVariableParamMem = ParamMem(TRUE) /\ mVariableResultMem = ResultMem(TRUE)
      /\ mTeecSessionOpened = TRUE /\ mTeecSession = live /\ live \in SessionId
      /\ proc = "up" /\ ret = NoAnswer /\ io = NoExtents
  BY DEF InitE
<1>1. /\ Absent \in Entry /\ Len(Absent.data) = 0 /\ 0 <= StoreMax
      /\ [attrs |-> {"NV", "BS"}, data |-> <<0>>] \in Entry
      /\ Len(<<0>>) = 1 /\ 1 <= StoreMax
  <2>1. <<0>> \in Seq(Tag) /\ Len(<<0>>) = 1
    BY EnumerationAssumption
  <2>2. {"NV", "BS"} \in SUBSET Attribute /\ {} \in SUBSET Attribute
    BY DEF Attribute
  <2> QED
    BY <2>1, <2>2, EmptyData, StoreAssumption, EnumerationAssumption DEF Absent, Entry
<1>2. vars \in [Var -> Entry] /\ \A v \in Var : Len(vars[v].data) <= StoreMax
  <2>1. /\ vars \in [Var -> {Absent, [attrs |-> {"NV", "BS"}, data |-> <<0>>]}]
    BY DEF InitE
  <2>2. \A v \in Var : vars[v] = Absent \/ vars[v] = [attrs |-> {"NV", "BS"}, data |-> <<0>>]
    BY <2>1
  <2>3. ASSUME NEW v \in Var PROVE vars[v] \in Entry /\ Len(vars[v].data) <= StoreMax
    <3>1. CASE vars[v] = Absent
      BY <1>1, <3>1
    <3>2. CASE vars[v] = [attrs |-> {"NV", "BS"}, data |-> <<0>>]
      <4>1. vars[v].data = <<0>>
        BY <3>2
      <4> QED
        BY <1>1, <3>2, <4>1
    <3> QED
      BY <2>2, <3>1, <3>2
  <2> QED
    BY <2>1, <2>3
<1>3. TypeOK
  BY <1>0, <1>2, BufferTypes, NoAnswerType, NoExtentsType DEF TypeOK
<1>4. StoredFits
  <2>1. ASSUME NEW v \in Var, Stored(vars, v) PROVE SET_PARAM + StrSize(v) <= MemSize
    <3>1. SetFits(v, 1)
      BY <2>1 DEF InitE
    <3>2. SET_PARAM + StrSize(v) + 1 <= MemSize
      BY <1>0, <3>1, BufferTypes, SetFitsIsBound
    <3> QED
      BY <3>2, NameSizes, MemSizeFacts DEF SET_PARAM
  <2> QED
    BY <1>2, <2>1 DEF StoredFits
<1>5. Allocated /\ NotCrashed
  BY <1>0, BufferTypes DEF Allocated, NotCrashed
<1>6. TypeOKE
  BY EnumerationAssumption DEF InitE, TypeOKE
<1>7. Visited /\ Searching /\ Sized
  BY DEF InitE, Visited, UpTo, Searching, Sized
<1> QED
  BY <1>0, <1>3, <1>4, <1>5, <1>6, <1>7 DEF InvE, Inv

LEMMA GrowStep ==
  ASSUME InvE, Grow
  PROVE  InvE' /\ mEnumVariableName' = mEnumVariableName
<1>1. /\ pc = "grow"
      /\ UNCHANGED <<dvars, target, mEnumVariableName, VariableNameSize, Found, visited>>
      /\ \/ VariableNameBufferSize' = VariableNameSize /\ pc' = "again"
         \/ VariableNameBufferSize' = VariableNameBufferSize /\ pc' = "nomem"
  BY DEF Grow
<1>2. Inv' /\ proc' = "up" /\ vars' = vars
  BY <1>1 DEF InvE, Inv, TypeOK, StoredFits, Stored, Allocated, NotCrashed, dvars, session,
              buffers
<1>3. TypeOKE'
  BY <1>1 DEF InvE, TypeOKE
<1>4. Visited' /\ Searching'
  BY <1>1, <1>2 DEF InvE, Visited, Searching, Stored
<1>5. Sized'
  <2>1. /\ VariableNameSize \in Nat /\ VariableNameBufferSize \in Nat
        /\ VariableNameBufferSize < VariableNameSize
        /\ mEnumVariableName # NoVar => /\ mEnumVariableName \in Var
                                        /\ StrSize(mEnumVariableName) <= VariableNameBufferSize
        /\ \E w \in Var : /\ IsNext(vars, mEnumVariableName, w)
                          /\ VariableNameSize = 2 * TaNameSize[w]
    BY <1>1 DEF InvE, TypeOKE, Sized
  <2>2. mEnumVariableName # NoVar => StrSize(mEnumVariableName) <= VariableNameBufferSize'
    BY <1>1, <2>1, NameSizes
  <2> QED
    BY <1>1, <1>2, <2>1, <2>2 DEF Sized, IsNext, After, Stored
<1> QED
  BY <1>1, <1>2, <1>3, <1>4, <1>5 DEF InvE

(* A buffer that was not allocated is refused, and the refusal thrown. *)
LEMMA NullStep ==
  ASSUME InvE, NextNameNull
  PROVE  InvE' /\ mEnumVariableName' = mEnumVariableName
<1>1. /\ pc = "unallocated" /\ Judge /\ Inv /\ proc = "up"
      /\ UNCHANGED <<target, mEnumVariableName, VariableNameBufferSize, VariableNameSize,
                     visited>>
  BY DEF NextNameNull, InvE
<1>2. Refuse("GetNext", "INVALID_PARAMETER")
  BY DEF NextNameNull, OpteeRuntimeGetNextVariableName, NextRefusal, EfiAtRuntime
<1>3. Inv' /\ proc' = "up" /\ vars' = vars
  BY <1>1, <1>2, RefuseStep DEF EfiStatusType, QuietFrame
<1>4. ret'.status = "INVALID_PARAMETER"
  BY <1>2 DEF Refuse, Answer
<1>5. pc' = "thrown" /\ Found' = Found
  BY <1>1, <1>4 DEF Judge
<1>6. TypeOKE' /\ Visited' /\ Searching' /\ Sized'
  BY <1>1, <1>3, <1>4, <1>5 DEF InvE, TypeOKE, Visited, Searching, Sized, Stored
<1> QED
  BY <1>1, <1>3, <1>6 DEF InvE

LEMMA StepE ==
  ASSUME InvE, [NextE]_evars
  PROVE  /\ InvE'
         /\ mEnumVariableName' # mEnumVariableName => mEnumVariableName' \notin visited
<1>1. CASE NextName
  <2>1. /\ pc = "next" /\ Call(VariableNameBufferSize)
        /\ IF ret'.status = "BUFFER_TOO_SMALL"
           THEN pc' = "grow" /\ UNCHANGED Found ELSE Judge
        /\ UNCHANGED <<target, VariableNameBufferSize>>
        /\ VariableNameBufferSize \in Nat
    BY <1>1 DEF NextName, InvE, TypeOKE
  <2> QED
    BY <2>1, CallStep
<1>2. CASE NextNameAgain
  <2>1. /\ pc = "again" /\ Call(VariableNameSize) /\ Judge
        /\ UNCHANGED <<target, VariableNameBufferSize>>
        /\ VariableNameSize = VariableNameBufferSize
        /\ VariableNameSize \in Nat /\ mEnumVariableName \in Var \union {NoVar} /\ Inv
    BY <1>2 DEF NextNameAgain, InvE, TypeOKE, Sized
  <2>2. ret'.status # "BUFFER_TOO_SMALL"
    <3> SUFFICES ASSUME ret'.status = "BUFFER_TOO_SMALL" PROVE FALSE
      OBVIOUS
    <3>1. NameGiven(mEnumVariableName, VariableNameSize)
      <4>1. OpteeRuntimeGetNextVariableName(mEnumVariableName, "None", VariableNameSize)
        BY <2>1 DEF Call
      <4> QED
        BY <2>1, <4>1, NextGives
    <3>2. PICK w \in Var : /\ IsNext(vars, mEnumVariableName, w)
                           /\ 2 * TaNameSize[w] > VariableNameSize
      BY <3>1 DEF NameGiven
    <3>3. PICK x \in Var : /\ IsNext(vars, mEnumVariableName, x)
                           /\ VariableNameSize = 2 * TaNameSize[x]
      BY <2>1 DEF InvE, Sized
    <3>4. w = x /\ TaNameSize[w] \in Nat
      BY <3>2, <3>3, NextIsUnique, NameSizes
    <3> QED
      BY <3>2, <3>3, <3>4
  <2> QED
    BY <2>1, <2>2, CallStep
<1>3. CASE Grow
  BY <1>3, GrowStep
<1>4. CASE UNCHANGED evars
  <2>1. Inv' /\ proc' = "up"
    BY <1>4 DEF evars, dvars, session, buffers, InvE, Inv, TypeOK, StoredFits, Stored,
                Allocated, NotCrashed
  <2>2. TypeOKE' /\ Visited' /\ Searching' /\ Sized'
    BY <1>4 DEF evars, dvars, InvE, TypeOKE, Visited, Searching, Sized, Stored, After, IsNext
  <2> QED
    BY <1>4, <2>1, <2>2 DEF InvE, evars
<1>5. CASE NextNameNull
  BY <1>5, NullStep
<1> QED
  BY <1>1, <1>2, <1>3, <1>4, <1>5 DEF NextE

(* The invariant holds all through an enumeration, in any store and whatever
   the TA answers. *)
THEOREM InvarianceE == SpecE => []InvE
<1>1. InvE /\ [NextE]_evars => InvE'
  BY StepE
<1> QED
  BY <1>1, InitInvE, PTL DEF SpecE

(* An enumeration that ends tells whether the target is stored: what the tests
   conclude from VerifyVariableEnumerable is so (AuthVarTest.c:119-182). *)
THEOREM EnumerationFinds == SpecE => []FoundIfStored
<1>1. InvE => FoundIfStored
  <2> SUFFICES ASSUME InvE, pc = "end" PROVE Found <=> Stored(vars, target)
    BY DEF FoundIfStored
  <2>0. target \in Var /\ Found \in BOOLEAN /\ NoVar \notin Var
    BY VarAssumption DEF InvE, TypeOKE
  <2>1. CASE Found
    BY <2>0, <2>1 DEF InvE, Searching, Visited
  <2>2. CASE ~Found
    <3>1. After(vars, mEnumVariableName) = {} /\ target \notin visited
      BY <2>2 DEF InvE, Searching
    <3>2. visited = {v \in Var : Stored(vars, v)}
      BY <3>1, UpToLast DEF InvE, TypeOKE, Visited
    <3> QED
      BY <2>0, <2>2, <3>1, <3>2
  <2> QED
    BY <2>1, <2>2
<1> QED
  BY <1>1, InvarianceE, PTL

(* One that meets the end of the list has been handed every variable there is. *)
THEOREM EnumerationIsComplete == SpecE => []AllVisited
<1>1. InvE => AllVisited
  BY UpToLast DEF InvE, TypeOKE, Visited, Searching, AllVisited
<1> QED
  BY <1>1, InvarianceE, PTL

(* The name in hand fits the buffer it was written to, and one reallocation is
   enough for a name (AuthVarTest.c:137-158). *)
THEOREM NamesFit == SpecE => []NameFitsBuffer
<1>1. InvE => NameFitsBuffer
  BY DEF InvE, Sized, NameFitsBuffer
<1> QED
  BY <1>1, InvarianceE, PTL

(* No name is handed out twice: the order the TA lists names in leaves no way
   round (AuthVarsDxe.c:516-697). *)
THEOREM NamesComeOnce == SpecE => NoneTwice
<1>1. InvE /\ [NextE]_evars =>
        [mEnumVariableName' # mEnumVariableName => mEnumVariableName' \notin visited]_evars
  BY StepE
<1> QED
  BY <1>1, InvarianceE, PTL DEF SpecE, NoneTwice
=============================================================================
