------------------------- MODULE ToolCommands_proofs -------------------------
(***************************************************************************)
(* Proofs about the command line tool, for any command lines, any answers   *)
(* of the TA and a write of another client at any point.  That a command    *)
(* ends is model-checked only.                                              *)
(***************************************************************************)
EXTENDS ToolCommands, AuthVarsDxe_proofs

----------------------------------------------------------------------------
(* The inductive invariant.  Each part says what a command knows of the store
   between two of its calls, and of the block it has allocated. *)

(* A command calls the driver only once it is up; before that it has neither a
   block nor anything to show, and what shows bytes or figures ends it. *)
Running ==
  /\ pc \in {"call", "read", "grow", "next"} => proc = "up"
  /\ pc \in {"shell", "main"} => at = 1 /\ block = 0
  /\ pc # "done" => shown.what \in {"Nothing", "Name"}
  /\ pc = "done" /\ status = "SUCCESS" => at = Len(line)

(* The second read is of the size the first was told, unless another client
   has changed it. *)
Reading ==
  pc = "read" => /\ call.op = "GET"
                 /\ raced \/ needed = Len(vars[call.var].data)

Naming ==
  /\ pc \in {"grow", "next"} => call.op = "GETNEXT"
  /\ pc = "next" => block \in {needed, 0}
  /\ pc = "done" /\ status = "NOT_FOUND" /\ call.op = "GETNEXT" =>
       After(vars, call.var) = {} \/ (call.var # NoVar /\ ~Stored(vars, call.var))

(* After its first call "bin" has its data in the store. *)
BinStored ==
  at > 1 /\ pc # "done" => raced \/ vars[TestBinVar].data = Bytes(HelloWorld.tag, HelloWorld.size)

(* What a chain has shown is what is listed up to its last name. *)
Chained ==
  chain.whole =>
    /\ chain.names # <<>> /\ IsInjective(chain.names)
    /\ Stored(vars, Last)
    /\ Range(chain.names) = UpTo(vars, Last)

InvC ==
  /\ Inv /\ TypeOKC /\ Running /\ Reading /\ Naming /\ BinStored /\ Chained
  /\ WithinBlock /\ SuccessIsDone /\ BinReadsBack

----------------------------------------------------------------------------
(* Command lines.  Only "bin" is longer than one call; a read, and figures,
   come last. *)

CallOK(c) ==
  /\ c.op \in {"GET", "SET", "GETNEXT", "QUERY", "Usage"}
  /\ c.var \in Var \union {NoVar} /\ (c.op \in {"GET", "SET"} => c.var \in Var)
  /\ c.attrs \in SUBSET Attribute
  /\ c.size \in Nat /\ (c.op = "SET" => c.tag \in Tag)

BinSet == Call("SET", TestBinVar, {"NV", "RT", "BS"}, HelloWorld.size, HelloWorld.tag)
BinNext == Of("GETNEXT", NoVar)
BinGet == Of("GET", TestBinVar)

LEMMA CallFields ==
  ASSUME NEW op, NEW v, NEW attrs, NEW size, NEW tag
  PROVE  /\ Call(op, v, attrs, size, tag).op = op /\ Call(op, v, attrs, size, tag).var = v
         /\ Call(op, v, attrs, size, tag).attrs = attrs
         /\ Call(op, v, attrs, size, tag).size = size
         /\ Call(op, v, attrs, size, tag).tag = tag
  BY DEF Call

LEMMA BinCalls ==
  /\ CallOK(BinSet) /\ BinSet.op = "SET" /\ BinSet.var = TestBinVar
  /\ BinSet.attrs = {"NV", "RT", "BS"} /\ BinSet.size = HelloWorld.size
  /\ BinSet.tag = HelloWorld.tag
  /\ CallOK(BinNext) /\ BinNext.op = "GETNEXT"
  /\ CallOK(BinGet) /\ BinGet.op = "GET" /\ BinGet.var = TestBinVar
  /\ TestBinVar \in Var /\ TestBinVar \notin HookVar
  /\ HelloWorld.size \in Nat /\ HelloWorld.size >= 1 /\ HelloWorld.tag \in Tag
<1>1. /\ TestBinVar \in Var /\ TestBinVar \notin HookVar
      /\ HelloWorld.size \in Nat /\ HelloWorld.size >= 1 /\ HelloWorld.tag \in Tag
  BY ToolAssumption, StoreAssumption
<1>2. {"NV", "RT", "BS"} \in SUBSET Attribute /\ {} \in SUBSET Attribute
  BY DEF Attribute
<1> QED
  BY <1>1, <1>2, CallFields DEF CallOK, BinSet, BinNext, BinGet, Of

LEMMA BinLine ==
  /\ test_compile_time_buffer = <<BinSet, BinNext, BinGet>>
  /\ Len(test_compile_time_buffer) = 3
  /\ \A i \in 1 .. 3 : \/ i = 1 /\ test_compile_time_buffer[i] = BinSet
                       \/ i = 2 /\ test_compile_time_buffer[i] = BinNext
                       \/ i = 3 /\ test_compile_time_buffer[i] = BinGet
<1>1. test_compile_time_buffer = <<BinSet, BinNext, BinGet>>
  BY DEF test_compile_time_buffer, BinSet, BinNext, BinGet
<1>2. ASSUME NEW x, NEW y, NEW z
      PROVE  /\ Len(<<x, y, z>>) = 3
             /\ <<x, y, z>>[1] = x /\ <<x, y, z>>[2] = y /\ <<x, y, z>>[3] = z
  OBVIOUS
<1>3. \A i \in 1 .. 3 : i = 1 \/ i = 2 \/ i = 3
  OBVIOUS
<1> QED
  BY <1>1, <1>2, <1>3

LEMMA OneCall ==
  ASSUME NEW c
  PROVE  Len(<<c>>) = 1 /\ \A i \in 1 .. 1 : i = 1 /\ <<c>>[i] = c
  OBVIOUS

LEMMA Lines ==
  ASSUME NEW l \in CommandLine
  PROVE  /\ Len(l) \in Nat /\ Len(l) >= 1
         /\ Len(l) = 1 \/ l = test_compile_time_buffer
         /\ \A i \in 1 .. Len(l) : CallOK(l[i])
<1>0. AttrSet \subseteq SUBSET Attribute /\ Size \subseteq Nat /\ {} \in SUBSET Attribute
  BY ArgumentAssumption, SizeAssumption
<1>1. ASSUME NEW c, CallOK(c), l = <<c>>
      PROVE  /\ Len(l) \in Nat /\ Len(l) >= 1
             /\ Len(l) = 1 \/ l = test_compile_time_buffer
             /\ \A i \in 1 .. Len(l) : CallOK(l[i])
  BY <1>1, OneCall
<1>2. CASE \E v \in Var : l = <<Of("GET", v)>>
  <2>1. \A v \in Var : CallOK(Of("GET", v))
    BY <1>0, CallFields DEF CallOK, Of
  <2> QED
    BY <1>1, <1>2, <2>1
<1>3. CASE \E v \in Var, attrs \in AttrSet, file \in File :
             l = <<Call("SET", v, attrs, file.size, file.tag)>>
  <2>1. ASSUME NEW v \in Var, NEW attrs \in AttrSet, NEW file \in File
        PROVE  CallOK(Call("SET", v, attrs, file.size, file.tag))
    <3>1. file.size \in Nat /\ file.tag \in Tag
      BY <1>0 DEF File
    <3> QED
      BY <1>0, <3>1, CallFields DEF CallOK
  <2> QED
    BY <1>1, <1>3, <2>1
<1>4. CASE \E v \in Var \union {NoVar} : l = <<Of("GETNEXT", v)>>
  <2>1. \A v \in Var \union {NoVar} : CallOK(Of("GETNEXT", v))
    BY <1>0, CallFields DEF CallOK, Of
  <2> QED
    BY <1>1, <1>4, <2>1
<1>5. CASE l = <<Of("QUERY", NoVar)>> \/ l = <<Of("Usage", NoVar)>>
  <2>1. CallOK(Of("QUERY", NoVar)) /\ CallOK(Of("Usage", NoVar))
    BY <1>0, CallFields DEF CallOK, Of
  <2> QED
    BY <1>1, <1>5, <2>1
<1>6. CASE l = test_compile_time_buffer
  BY <1>6, BinLine, BinCalls
<1> QED
  BY <1>2, <1>3, <1>4, <1>5, <1>6 DEF CommandLine

(* What the call in hand tells of the command. *)
LEMMA InHand ==
  ASSUME TypeOKC
  PROVE  /\ CallOK(call) /\ at \in Nat /\ Len(line) \in Nat /\ at <= Len(line)
         /\ call.op \in {"GET", "QUERY"} => at = Len(line)
         /\ call.op = "SET" /\ Len(line) > 1 => call = BinSet
         /\ call.op = "SET" /\ at < Len(line) => at = 1
         /\ at > 1 => Len(line) > 1
         /\ at = 1 /\ Len(line) > 1 => call = BinSet
         /\ at = Len(line) /\ Len(line) > 1 => call = BinGet
<1>1. line \in CommandLine /\ at \in 1 .. Len(line)
  BY DEF TypeOKC
<1>2. /\ Len(line) \in Nat /\ Len(line) >= 1
      /\ Len(line) = 1 \/ line = test_compile_time_buffer
      /\ CallOK(call)
  BY <1>1, Lines DEF call
<1>3. CASE Len(line) = 1
  <2>1. at = 1
    BY <1>1, <1>3
  <2> QED
    BY <1>2, <1>3, <2>1
<1>4. CASE line = test_compile_time_buffer
  <2>1. /\ Len(line) = 3
        /\ \/ at = 1 /\ call = BinSet
           \/ at = 2 /\ call = BinNext
           \/ at = 3 /\ call = BinGet
    BY <1>1, <1>4, BinLine DEF call
  <2> QED
    BY <1>2, <2>1, BinCalls
<1> QED
  BY <1>2, <1>3, <1>4

----------------------------------------------------------------------------
(* Parts of the steps. *)

LEMMA InvSame ==
  ASSUME Inv, UNCHANGED dvars
  PROVE  Inv'
  BY DEF dvars, session, buffers, Inv, TypeOK, StoredFits, Stored, Allocated, NotCrashed

(* process_command returns: "bin" goes on, or the command is done. *)
LEMMA Returned ==
  ASSUME TypeOKC, NEW res \in EfiStatusType, Return(res)
  PROVE  /\ line' = line /\ raced' = raced /\ status' = res
         /\ at' \in 1 .. Len(line)
         /\ \/ /\ pc' = "call" /\ at' = at + 1 /\ at < Len(line) /\ res = "SUCCESS"
            \/ /\ pc' = "done" /\ at' = at /\ call' = call
               /\ res = "SUCCESS" => at = Len(line)
<1>1. at \in Nat /\ Len(line) \in Nat /\ at <= Len(line) /\ at \in 1 .. Len(line)
  BY InHand DEF TypeOKC
<1>2. /\ line' = line /\ raced' = raced /\ status' = res
      /\ IF res = "SUCCESS" /\ at < Len(line)
         THEN pc' = "call" /\ at' = at + 1
         ELSE pc' = "done" /\ at' = at
  BY DEF Return
<1>3. CASE res = "SUCCESS" /\ at < Len(line)
  BY <1>1, <1>2, <1>3
<1>4. CASE ~(res = "SUCCESS" /\ at < Len(line))
  BY <1>1, <1>2, <1>4 DEF call
<1> QED
  BY <1>3, <1>4

(* A command under way that has shown no more than a name. *)
LEMMA UnderWay ==
  ASSUME pc' # "done", shown'.what \in {"Nothing", "Name"}
  PROVE  WithinBlock' /\ SuccessIsDone' /\ BinReadsBack'
  BY DEF WithinBlock, SuccessIsDone, BinReadsBack

LEMMA AppendOne ==
  ASSUME NEW S, NEW s \in Seq(S), NEW e \in S, IsInjective(s), e \notin Range(s)
  PROVE  /\ IsInjective(Append(s, e)) /\ Range(Append(s, e)) = Range(s) \union {e}
         /\ Append(s, e) \in Seq(S) /\ Append(s, e) # <<>>
         /\ Append(s, e)[Len(Append(s, e))] = e
<1> DEFINE t == Append(s, e)
<1>1. /\ Len(s) \in Nat /\ DOMAIN s = 1 .. Len(s)
      /\ t \in Seq(S) /\ t # <<>> /\ Len(t) = Len(s) + 1 /\ DOMAIN t = 1 .. (Len(s) + 1)
      /\ \A i \in 1 .. Len(s) : t[i] = s[i]
      /\ t[Len(s) + 1] = e
  BY AppendProperties, LenProperties
<1> HIDE DEF t
<1>2. \A i \in 1 .. Len(s) : s[i] \in Range(s) /\ s[i] # e
  BY <1>1 DEF Range
<1>3. \A i \in DOMAIN t : i \in 1 .. Len(s) \/ i = Len(s) + 1
  BY <1>1
<1>4. IsInjective(t)
  <2>1. ASSUME NEW i \in DOMAIN t, NEW j \in DOMAIN t, t[i] = t[j] PROVE i = j
    BY <1>1, <1>2, <1>3, <2>1 DEF IsInjective
  <2> QED
    BY <2>1 DEF IsInjective
<1>5. Range(t) = Range(s) \union {e}
  <2>1. \A i \in DOMAIN t : t[i] \in Range(s) \union {e}
    BY <1>1, <1>2, <1>3
  <2>2. \A x \in Range(s) : \E i \in DOMAIN t : t[i] = x
    BY <1>1 DEF Range
  <2>3. Len(s) + 1 \in DOMAIN t
    BY <1>1
  <2> QED
    BY <1>1, <2>1, <2>2, <2>3 DEF Range
<1> QED
  BY <1>1, <1>4, <1>5 DEF t

LEMMA NothingListed ==
  <<>> \in Seq(Var) /\ IsInjective(<<>>) /\ Range(<<>>) = {}
  BY EmptySeq DEF IsInjective, Range

LEMMA LastNamed ==
  ASSUME TypeOKC, chain.names # <<>>
  PROVE  Last \in Var
<1>1. chain.names \in Seq(Var) /\ Len(chain.names) \in Nat /\ Len(chain.names) # 0
  BY EmptySeq, LenProperties DEF TypeOKC
<1>2. Len(chain.names) \in 1 .. Len(chain.names)
  BY <1>1
<1>3. chain.names[Len(chain.names)] \in Var
  BY <1>1, <1>2, ElementOfSeq
<1> QED
  BY <1>3 DEF Last

(* A chain stands as long as no variable comes or goes. *)
LEMMA ChainStands ==
  ASSUME TypeOKC, Chained, chain' = chain, Listed(vars') = Listed(vars)
  PROVE  Chained'
<1>1. \A v \in Var : Stored(vars', v) <=> Stored(vars, v)
  BY DEF Listed
<1>2. \A v \in Var : UpTo(vars', v) = UpTo(vars, v)
  BY <1>1 DEF UpTo
<1>3. Last' = Last
  BY DEF Last
<1> QED
  BY <1>1, <1>2, <1>3, LastNamed DEF Chained

LEMMA ChainStep ==
  ASSUME TypeOKC, Chained, ChainHolds
  PROVE  Chained' /\ chain' \in [names : Seq(Var), whole : BOOLEAN]
<1>1. CASE Listed(vars') = Listed(vars) /\ chain' = chain
  BY <1>1, ChainStands DEF TypeOKC
<1>2. CASE chain' = NoChain
  BY <1>2, NothingListed DEF NoChain, Chained
<1> QED
  BY <1>1, <1>2 DEF ChainHolds

(* It grows by the name that comes next. *)
LEMMA ChainGrowsStep ==
  ASSUME TypeOKC, Chained, vars' = vars,
         NEW from \in Var \union {NoVar}, NEW next \in Var, IsNext(vars, from, next),
         ChainGrows(from, next)
  PROVE  Chained' /\ chain' \in [names : Seq(Var), whole : BOOLEAN]
<1>1. /\ Stored(vars, next) /\ next \notin UpTo(vars, from)
      /\ UpTo(vars, next) = UpTo(vars, from) \union {next}
  BY UpToNext
<1>2. ASSUME NEW s \in Seq(Var), IsInjective(s), Range(s) = UpTo(vars, from),
             NEW b \in BOOLEAN, chain' = [names |-> Append(s, next), whole |-> b]
      PROVE  Chained' /\ chain' \in [names : Seq(Var), whole : BOOLEAN]
  <2>1. /\ IsInjective(Append(s, next)) /\ Range(Append(s, next)) = Range(s) \union {next}
        /\ Append(s, next) \in Seq(Var) /\ Append(s, next) # <<>>
        /\ Append(s, next)[Len(Append(s, next))] = next
    BY <1>1, <1>2, AppendOne
  <2>2. Last' = next
    BY <1>2, <2>1 DEF Last
  <2> QED
    BY <1>1, <1>2, <2>1, <2>2 DEF Chained
<1>3. CASE from = NoVar /\ chain' = [names |-> <<next>>, whole |-> TRUE]
  <2>1. Append(<<>>, next) = <<next>> /\ UpTo(vars, from) = {}
    BY <1>3 DEF UpTo
  <2> QED
    BY <1>2, <1>3, <2>1, NothingListed
<1>4. CASE /\ from # NoVar /\ chain.whole /\ from = Last
           /\ chain' = [chain EXCEPT !.names = Append(@, next)]
  <2>1. chain.names \in Seq(Var) /\ IsInjective(chain.names)
        /\ Range(chain.names) = UpTo(vars, from)
    BY <1>4 DEF TypeOKC, Chained
  <2>2. /\ chain' = [names |-> Append(chain.names, next), whole |-> chain.whole]
        /\ chain.whole \in BOOLEAN
    BY <1>4 DEF TypeOKC
  <2> QED
    BY <1>2, <1>4, <2>1, <2>2
<1>5. CASE chain' = NoChain
  BY <1>5, NothingListed DEF NoChain, Chained
<1> QED
  BY <1>3, <1>4, <1>5 DEF ChainGrows

----------------------------------------------------------------------------
(* The steps. *)

LEMMA InitStep == InitT => InvC
<1> SUFFICES ASSUME InitT PROVE InvC
  OBVIOUS
<1>1. Inv
  BY InitInv DEF InitT
<1>2. NoCommand \in CommandLine /\ Len(NoCommand) = 1
  BY OneCall DEF NoCommand, CommandLine
<1>3. shown.what = "Nothing"
  BY DEF InitT, Nothing, Show
<1>4. TypeOKC
  <2>1. line \in CommandLine /\ at \in 1 .. Len(line)
    BY <1>2 DEF InitT
  <2>2. chain \in [names : Seq(Var), whole : BOOLEAN]
    BY NothingListed DEF InitT, NoChain
  <2> QED
    BY <1>1, <1>3, <2>1, <2>2 DEF InitT, TypeOKC, Inv, EfiStatusType
<1>5. Running /\ Reading /\ Naming /\ BinStored
  BY <1>3 DEF InitT, Running, Reading, Naming, BinStored
<1>6. Chained
  BY DEF InitT, NoChain, Chained
<1>7. WithinBlock /\ SuccessIsDone /\ BinReadsBack
  BY <1>3 DEF InitT, WithinBlock, SuccessIsDone, BinReadsBack
<1> QED
  BY <1>1, <1>4, <1>5, <1>6, <1>7 DEF InvC

LEMMA TypeStep ==
  ASSUME InvC, Type
  PROVE  InvC'
<1>1. /\ pc' = "main" /\ line' \in CommandLine
      /\ UNCHANGED <<dvars, at, status, needed, block, shown, raced, chain>>
      /\ pc = "shell" /\ at = 1 /\ block = 0 /\ shown.what \in {"Nothing", "Name"}
  BY DEF Type, InvC, Running
<1>2. Inv' /\ vars' = vars
  BY <1>1, InvSame DEF InvC, dvars
<1>3. at' \in 1 .. Len(line')
  BY <1>1, Lines
<1>4. TypeOKC'
  BY <1>1, <1>2, <1>3 DEF InvC, Inv, TypeOKC
<1>5. Running' /\ Reading' /\ Naming' /\ BinStored'
  BY <1>1 DEF Running, Reading, Naming, BinStored
<1>6. Chained'
  BY <1>1, <1>2, ChainStands DEF InvC
<1>7. WithinBlock' /\ SuccessIsDone' /\ BinReadsBack'
  BY <1>1, UnderWay
<1> QED
  BY <1>2, <1>4, <1>5, <1>6, <1>7 DEF InvC

LEMMA MainStep ==
  ASSUME InvC, Unopened, Main
  PROVE  InvC'
<1>1. /\ pc = "main" /\ at = 1 /\ block = 0 /\ shown.what \in {"Nothing", "Name"}
      /\ \/ pc' = "call" /\ proc' = "up" /\ status' = status
         \/ pc' = "done" /\ status' = "errx"
      /\ UNCHANGED <<line, at, needed, block, shown, raced, chain>>
  BY DEF Main, local, InvC, Running
<1>2. Inv' /\ vars' = vars
  BY StartStep DEF Main, Start, InvC
<1>3. TypeOKC'
  BY <1>1, <1>2 DEF InvC, Inv, TypeOKC
<1>4. Running' /\ Reading' /\ Naming' /\ BinStored'
  BY <1>1 DEF Running, Reading, Naming, BinStored
<1>5. Chained'
  BY <1>1, <1>2, ChainStands DEF InvC
<1>6. WithinBlock' /\ SuccessIsDone' /\ BinReadsBack'
  BY <1>1 DEF WithinBlock, SuccessIsDone, BinReadsBack
<1> QED
  BY <1>2, <1>3, <1>4, <1>5, <1>6 DEF InvC

LEMMA QueryCallStep ==
  ASSUME InvC, QueryCall
  PROVE  InvC'
<1>1. /\ pc = "call" /\ call.op = "QUERY" /\ proc = "up"
      /\ OpteeRuntimeQueryVariableInfo(FALSE) /\ Return(ret'.status)
      /\ UNCHANGED <<needed, block, chain>>
      /\ shown'.what = IF ret'.status = "SUCCESS" THEN "Figures" ELSE "Garbage"
  BY DEF QueryCall, Show, InvC, Running
<1>2. Inv' /\ vars' = vars /\ TypeOKC
  BY <1>1, QueryStep DEF InvC, QuietFrame
<1>3. io'.handed = 0
  <2>1. CASE io' = NoExtents
    BY <2>1, NoExtentsType
  <2>2. CASE io' = Extents(QUERY_PARAM, QUERY_PARAM, QUERY_RESULT, 0, 0, TRUE)
    BY <2>2 DEF Extents
  <2> QED
    BY <1>1, <2>1, <2>2 DEF OpteeRuntimeQueryVariableInfo, Refuse
<1>4. /\ line' = line /\ raced' = raced /\ status' = ret'.status
      /\ at = Len(line) /\ at' = at /\ pc' = "done" /\ call' = call
      /\ status' \in EfiStatusType /\ at' \in 1 .. Len(line)
  <2>1. ret'.status \in EfiStatusType
    BY <1>2 DEF Inv, TypeOK, AnswerType
  <2>2. at = Len(line) /\ ~(at < Len(line))
    BY <1>1, <1>2, InHand
  <2> QED
    BY <1>1, <1>2, <2>1, <2>2, Returned
<1>5. TypeOKC'
  BY <1>1, <1>2, <1>4 DEF Inv, TypeOKC
<1>6. Running' /\ Reading' /\ Naming' /\ BinStored'
  BY <1>1, <1>4 DEF Running, Reading, Naming, BinStored
<1>7. Chained'
  BY <1>1, <1>2, ChainStands DEF InvC
<1>8. WithinBlock'
  BY <1>1, <1>2, <1>3 DEF WithinBlock, TypeOKC
<1>9. SuccessIsDone'
  BY <1>1, <1>4 DEF SuccessIsDone
<1>10. BinReadsBack'
  <2>1. ~(Len(line) > 1)
    BY <1>1, <1>2, <1>4, InHand, BinCalls
  <2> QED
    BY <1>4, <2>1 DEF BinReadsBack
<1> QED
  BY <1>2, <1>5, <1>6, <1>7, <1>8, <1>9, <1>10 DEF InvC

LEMMA SetCallStep ==
  ASSUME InvC, SetCall
  PROVE  InvC'
<1>1. /\ pc = "call" /\ call.op = "SET" /\ proc = "up"
      /\ OpteeRuntimeSetVariable(call.var, "None", call.attrs, call.size, call.tag)
      /\ Return(ret'.status) /\ ChainHolds
      /\ UNCHANGED <<needed, block, shown>>
      /\ shown.what \in {"Nothing", "Name"} /\ Inv /\ TypeOKC
  BY DEF SetCall, InvC, Running
<1>2. /\ call.var \in Var /\ call.attrs \in SUBSET Attribute
      /\ call.size \in Nat /\ call.tag \in Tag
  BY <1>1, InHand DEF CallOK
<1>3. /\ Inv' /\ QuietSet /\ DataTaken(call.var, call.attrs, call.size, call.tag)
      /\ io'.handed = 0
  <2>1. mTeecSessionOpened => ~NoBuffers
    BY <1>1 DEF Inv, Allocated, NoBuffers
  <2> QED
    BY <1>1, <1>2, <2>1, SetGives
<1>4. proc' = "up"
  BY <1>1, <1>3 DEF QuietSet
<1>5. /\ line' = line /\ raced' = raced /\ status' = ret'.status
      /\ status' \in EfiStatusType /\ at' \in 1 .. Len(line)
      /\ \/ /\ pc' = "call" /\ at' = at + 1 /\ at < Len(line) /\ status' = "SUCCESS"
         \/ /\ pc' = "done" /\ at' = at /\ call' = call
            /\ status' = "SUCCESS" => at = Len(line)
  <2>1. ret'.status \in EfiStatusType
    BY <1>3 DEF Inv, TypeOK, AnswerType
  <2> QED
    BY <1>1, <2>1, Returned
<1>6. Chained' /\ chain' \in [names : Seq(Var), whole : BOOLEAN]
  BY <1>1, ChainStep DEF InvC
<1>7. TypeOKC'
  BY <1>1, <1>3, <1>5, <1>6 DEF Inv, TypeOKC
<1>8. Running' /\ Reading' /\ Naming'
  BY <1>1, <1>4, <1>5 DEF Running, Reading, Naming
<1>9. BinStored'
  <2> SUFFICES ASSUME pc' = "call"
               PROVE  vars'[TestBinVar].data = Bytes(HelloWorld.tag, HelloWorld.size)
    BY <1>5 DEF BinStored
  <2>1. call = BinSet /\ ret'.status = "SUCCESS"
    BY <1>1, <1>5, InHand
  <2>2. vars' = [vars EXCEPT ![TestBinVar] =
                   Written(vars[TestBinVar], {"NV", "RT", "BS"},
                           Bytes(HelloWorld.tag, HelloWorld.size))]
    BY <1>3, <2>1, BinCalls DEF DataTaken
  <2>3. Bytes(HelloWorld.tag, HelloWorld.size) # <<>>
    BY BinCalls, BytesLen, EmptySeq
  <2>4. Written(vars[TestBinVar], {"NV", "RT", "BS"},
                Bytes(HelloWorld.tag, HelloWorld.size)).data
          = Bytes(HelloWorld.tag, HelloWorld.size)
    BY <2>3 DEF Written, IsDelete
  <2>5. vars \in [Var -> Entry]
    BY <1>1 DEF TypeOKC, TypeOK
  <2> QED
    BY <2>2, <2>4, <2>5, BinCalls
<1>10. WithinBlock'
  BY <1>1, <1>3 DEF WithinBlock, TypeOKC
<1>11. SuccessIsDone'
  <2> SUFFICES ASSUME pc' = "done", status' = "SUCCESS",
                      call.var \notin HookVar, "AP" \notin call.attrs
               PROVE  vars'[call.var] = Written(Absent, call.attrs, Bytes(call.tag, call.size))
    BY <1>1, <1>5 DEF SuccessIsDone
  <2>1. vars' = [vars EXCEPT ![call.var] =
                   Written(vars[call.var], call.attrs, Bytes(call.tag, call.size))]
    BY <1>3, <1>5 DEF DataTaken
  <2>2. vars \in [Var -> Entry]
    BY <1>1 DEF TypeOKC, TypeOK
  <2> QED
    BY <1>2, <2>1, <2>2 DEF Written
<1>12. BinReadsBack'
  <2> SUFFICES ASSUME pc' = "done", status' = "SUCCESS", Len(line) > 1 PROVE FALSE
    BY <1>5 DEF BinReadsBack
  <2> QED
    BY <1>1, <1>5, InHand, BinCalls
<1> QED
  BY <1>3, <1>6, <1>7, <1>8, <1>9, <1>10, <1>11, <1>12 DEF InvC

LEMMA GetSizeStep ==
  ASSUME InvC, GetSize
  PROVE  InvC'
<1>1. /\ pc = "call" /\ call.op = "GET" /\ proc = "up"
      /\ OpteeRuntimeGetVariable(call.var, "Data", 0)
      /\ \/ /\ ret'.status = "BUFFER_TOO_SMALL" /\ needed' = ret'.size /\ pc' = "read"
            /\ UNCHANGED <<line, at, status, raced>>
         \/ /\ ret'.status # "BUFFER_TOO_SMALL" /\ Return(ret'.status)
            /\ needed' = needed
      /\ UNCHANGED <<block, shown, chain>>
      /\ shown.what \in {"Nothing", "Name"} /\ Inv /\ TypeOKC
  BY DEF GetSize, InvC, Running
<1>2. call.var \in Var /\ at = Len(line)
  BY <1>1, InHand DEF CallOK
<1>3. /\ Inv' /\ QuietFrame /\ DataGiven(call.var, "Data", 0)
      /\ io'.handed <= 0
  BY <1>1, <1>2, GetGives
<1>4. vars' = vars /\ proc' = "up"
  BY <1>1, <1>3 DEF QuietFrame
<1>5. Len(vars[call.var].data) \in Nat
  <2>1. vars[call.var].data \in Seq(Tag)
    BY <1>1, <1>2 DEF Inv, TypeOK, Entry
  <2> QED
    BY <2>1, LenProperties
<1>6. /\ ret'.status \in EfiStatusType /\ ret'.status # "SUCCESS"
      /\ ret'.status = "BUFFER_TOO_SMALL" => ret'.size = Len(vars[call.var].data)
  <2>1. ret'.status \in EfiStatusType
    BY <1>3 DEF Inv, TypeOK, AnswerType
  <2>2. ~GetIsHook(call.var, "Data", 0)
    BY DEF GetIsHook
  <2>3. ~(Stored(vars, call.var) /\ Len(vars[call.var].data) <= 0)
    <3>1. vars[call.var].data \in Seq(Tag)
      BY <1>1, <1>2 DEF Inv, TypeOK, Entry
    <3>2. Len(vars[call.var].data) = 0 => vars[call.var].data = <<>>
      BY <3>1, EmptySeq
    <3>3. \A n \in Nat : n <= 0 => n = 0
      OBVIOUS
    <3> QED
      BY <1>5, <3>2, <3>3 DEF Stored
  <2> QED
    BY <1>3, <2>1, <2>2, <2>3 DEF DataGiven
<1>7. Chained'
  BY <1>1, <1>4, ChainStands DEF InvC
<1>8. CASE ret'.status = "BUFFER_TOO_SMALL"
  <2>1. /\ pc' = "read" /\ needed' = Len(vars[call.var].data)
        /\ UNCHANGED <<line, at, status, raced, block, shown, chain>> /\ call' = call
    BY <1>1, <1>6, <1>8 DEF call
  <2>2. TypeOKC'
    BY <1>1, <1>3, <1>5, <2>1 DEF Inv, TypeOKC
  <2>3. Running' /\ Reading' /\ Naming' /\ BinStored'
    BY <1>1, <1>4, <2>1 DEF InvC, Running, Reading, Naming, BinStored
  <2>4. WithinBlock' /\ SuccessIsDone' /\ BinReadsBack'
    BY <1>1, <2>1, UnderWay
  <2> QED
    BY <1>3, <1>7, <2>2, <2>3, <2>4 DEF InvC
<1>9. CASE ret'.status # "BUFFER_TOO_SMALL"
  <2>1. /\ pc' = "done" /\ at' = at /\ call' = call /\ line' = line /\ raced' = raced
        /\ status' = ret'.status /\ at' \in 1 .. Len(line)
        /\ UNCHANGED <<needed, block, shown, chain>>
    BY <1>1, <1>6, <1>9, Returned
  <2>2. TypeOKC'
    BY <1>1, <1>3, <1>6, <2>1 DEF Inv, TypeOKC
  <2>3. Running' /\ Reading' /\ Naming' /\ BinStored'
    BY <1>1, <1>6, <2>1 DEF Running, Reading, Naming, BinStored
  <2>4. SuccessIsDone' /\ BinReadsBack'
    BY <1>6, <2>1 DEF SuccessIsDone, BinReadsBack
  <2>5. WithinBlock'
    <3>1. io'.handed <= block'
      BY <1>1, <1>3, <2>1 DEF TypeOKC, Inv, TypeOK, ExtentsType
    <3> QED
      BY <1>1, <2>1, <3>1 DEF WithinBlock
  <2> QED
    BY <1>3, <1>7, <2>2, <2>3, <2>4, <2>5 DEF InvC
<1> QED
  BY <1>8, <1>9

LEMMA GetDataStep ==
  ASSUME InvC, GetData
  PROVE  InvC'
<1>1. /\ pc = "read" /\ call.op = "GET" /\ proc = "up"
      /\ raced \/ needed = Len(vars[call.var].data)
      /\ OpteeRuntimeGetVariable(call.var, "None", needed)
      /\ PrintBlock /\ block' = needed /\ Return(ret'.status)
      /\ UNCHANGED <<needed, chain>>
      /\ Inv /\ TypeOKC
  BY DEF GetData, InvC, Running, Reading
<1>2. call.var \in Var /\ at = Len(line) /\ needed \in Nat
  BY <1>1, InHand DEF CallOK, TypeOKC
<1>3. /\ Inv' /\ QuietFrame /\ DataGiven(call.var, "None", needed)
      /\ io'.handed <= needed
  BY <1>1, <1>2, GetGives
<1>4. vars' = vars /\ vars[call.var] \in Entry
  BY <1>1, <1>2, <1>3 DEF QuietFrame, Inv, TypeOK
<1>5. /\ pc' = "done" /\ at' = at /\ call' = call /\ line' = line /\ raced' = raced
      /\ status' = ret'.status /\ at' \in 1 .. Len(line) /\ ret'.status \in EfiStatusType
  <2>1. ret'.status \in EfiStatusType
    BY <1>3 DEF Inv, TypeOK, AnswerType
  <2>2. ~(at < Len(line))
    BY <1>1, <1>2, InHand
  <2> QED
    BY <1>1, <2>1, <2>2, Returned
<1>6. /\ shown'.what \in {"Bytes", "Session"} /\ shown'.var = call.var
      /\ ret'.op = "Get" <=> shown'.what = "Bytes"
      /\ ret'.op = "Get" =>
           /\ shown'.size = IF ret'.var = call.var THEN ret'.size ELSE needed
           /\ shown'.attrs = ret'.attrs /\ shown'.data = ret'.data
      /\ ret'.op # "Get" => shown'.size = needed
  BY <1>1 DEF PrintBlock, Show
<1>7. Chained'
  BY <1>1, <1>4, ChainStands DEF InvC
<1>8. TypeOKC'
  BY <1>1, <1>2, <1>3, <1>5, <1>6 DEF Inv, TypeOKC
<1>9. Running' /\ Reading' /\ Naming' /\ BinStored'
  BY <1>1, <1>2, <1>5 DEF Running, Reading, Naming, BinStored
<1>10. WithinBlock'
  <2>1. needed <= needed /\ NoAnswer.op # "Get"
    BY <1>2, NoAnswerFields
  <2>2. CASE ret'.op = "Get" /\ ret'.var = call.var /\ ret'.status = "BUFFER_TOO_SMALL"
    <3>1. raced
      <4>1. Len(vars[call.var].data) > needed
        BY <1>3, <2>1, <2>2 DEF DataGiven
      <4>2. ~(needed > needed)
        BY <1>2
      <4> QED
        BY <1>1, <4>1, <4>2
    <3> QED
      BY <1>1, <1>3, <1>5, <2>2, <3>1 DEF WithinBlock
  <2>3. CASE ~(ret'.op = "Get" /\ ret'.var = call.var /\ ret'.status = "BUFFER_TOO_SMALL")
    <3>1. ret'.op = "Get" /\ ret'.var = call.var => ret'.size <= needed
      BY <1>3, <2>1, <2>3 DEF DataGiven
    <3>2. shown'.size <= needed
      BY <1>6, <2>1, <3>1
    <3> QED
      BY <1>1, <1>3, <1>5, <3>2 DEF WithinBlock
  <2> QED
    BY <2>2, <2>3
<1>11. ret'.status = "SUCCESS" /\ ret'.op = "Get" =>
          /\ shown'.data = vars[call.var].data /\ shown'.attrs = vars[call.var].attrs
          /\ shown'.size = Len(vars[call.var].data)
  BY <1>3, <1>6, NoAnswerFields DEF DataGiven
<1>12. vars[call.var] = [attrs |-> vars[call.var].attrs, data |-> vars[call.var].data]
  BY <1>4 DEF Entry
<1>13. SuccessIsDone'
  BY <1>1, <1>4, <1>5, <1>6, <1>11, <1>12 DEF SuccessIsDone
<1>14. BinReadsBack'
  <2> SUFFICES ASSUME ret'.status = "SUCCESS", Len(line) > 1, ~raced
               PROVE  shown'.data = Bytes(HelloWorld.tag, HelloWorld.size)
    BY <1>5 DEF BinReadsBack
  <2>1. call.var = TestBinVar /\ at > 1
    BY <1>1, <1>2, InHand, BinCalls
  <2>2. ret'.op = "Get"
    BY <1>3, <2>1, BinCalls DEF DataGiven, GetIsHook
  <2>3. vars[TestBinVar].data = Bytes(HelloWorld.tag, HelloWorld.size)
    BY <1>1, <2>1 DEF InvC, BinStored
  <2> QED
    BY <1>11, <2>1, <2>2, <2>3
<1> QED
  BY <1>3, <1>7, <1>8, <1>9, <1>10, <1>13, <1>14 DEF InvC

LEMMA NextNameStep ==
  ASSUME InvC, NextName
  PROVE  InvC'
<1>1. /\ pc = "call" /\ call.op = "GETNEXT" /\ proc = "up"
      /\ needed' = NameBytes(call.var) /\ pc' = "grow"
      /\ UNCHANGED <<dvars, line, at, status, block, shown, raced, chain>>
      /\ shown.what \in {"Nothing", "Name"} /\ Inv /\ TypeOKC
  BY DEF NextName, InvC, Running
<1>2. Inv' /\ vars' = vars /\ proc' = proc /\ call' = call
  BY <1>1, InvSame DEF dvars, call
<1>3. needed' \in Nat
  BY <1>1, InHand, NameSizes, ToolAssumption DEF CallOK, NameBytes
<1>4. TypeOKC'
  BY <1>1, <1>2, <1>3 DEF Inv, TypeOKC
<1>5. Running' /\ Reading' /\ Naming' /\ BinStored'
  BY <1>1, <1>2 DEF InvC, Running, Reading, Naming, BinStored
<1>6. Chained'
  BY <1>1, <1>2, ChainStands DEF InvC
<1>7. WithinBlock' /\ SuccessIsDone' /\ BinReadsBack'
  BY <1>1, UnderWay
<1> QED
  BY <1>2, <1>4, <1>5, <1>6, <1>7 DEF InvC

LEMMA GrowBlockStep ==
  ASSUME InvC, Grow
  PROVE  InvC'
<1>1. /\ pc = "grow" /\ call.op = "GETNEXT" /\ proc = "up"
      /\ block' \in {needed, 0} /\ pc' = "next"
      /\ UNCHANGED <<dvars, line, at, status, needed, shown, raced, chain>>
      /\ shown.what \in {"Nothing", "Name"} /\ Inv /\ TypeOKC
  BY DEF Grow, InvC, Running, Naming
<1>2. Inv' /\ vars' = vars /\ proc' = proc /\ call' = call
  BY <1>1, InvSame DEF dvars, call
<1>3. TypeOKC'
  BY <1>1, <1>2 DEF Inv, TypeOKC
<1>4. Running' /\ Reading' /\ Naming' /\ BinStored'
  BY <1>1, <1>2 DEF InvC, Running, Reading, Naming, BinStored
<1>5. Chained'
  BY <1>1, <1>2, ChainStands DEF InvC
<1>6. WithinBlock' /\ SuccessIsDone' /\ BinReadsBack'
  BY <1>1, UnderWay
<1> QED
  BY <1>2, <1>3, <1>4, <1>5, <1>6 DEF InvC

LEMMA CallNextStep ==
  ASSUME InvC, CallNext
  PROVE  InvC'
<1>1. /\ pc = "next" /\ call.op = "GETNEXT" /\ proc = "up"
      /\ block \in {needed, 0} /\ block' = block
      /\ OpteeRuntimeGetNextVariableName(call.var, NullName, needed) /\ TakeNext
      /\ shown.what \in {"Nothing", "Name"} /\ Inv /\ TypeOKC
  BY DEF CallNext, InvC, Running, Naming
<1>2. call.var \in Var \union {NoVar} /\ needed \in Nat /\ block \in Nat
  BY <1>1, InHand DEF CallOK, TypeOKC
<1>3. /\ Inv' /\ QuietFrame /\ NameGiven(call.var, needed)
      /\ ret'.status = "SUCCESS" => ret'.next \in Var
      /\ ret'.size \in Nat /\ io'.handed <= needed
  <2>1. NullName # "Size"
    BY DEF NullName
  <2> QED
    BY <1>1, <1>2, <2>1, NextGives
<1>4. vars' = vars /\ proc' = "up" /\ ret'.status \in EfiStatusType
  BY <1>1, <1>3 DEF QuietFrame, Inv, TypeOK, AnswerType
<1>5. CASE ret'.status = "BUFFER_TOO_SMALL"
  <2>1. /\ needed' = ret'.size /\ pc' = "grow" /\ call' = call
        /\ UNCHANGED <<line, at, status, raced, block, shown, chain>>
    BY <1>1, <1>5 DEF TakeNext, call
  <2>2. TypeOKC'
    BY <1>1, <1>3, <2>1 DEF Inv, TypeOKC
  <2>3. Running' /\ Reading' /\ Naming' /\ BinStored'
    BY <1>1, <1>4, <2>1 DEF InvC, Running, Reading, Naming, BinStored
  <2>4. WithinBlock' /\ SuccessIsDone' /\ BinReadsBack'
    BY <1>1, <2>1, UnderWay
  <2>5. Chained'
    BY <1>1, <1>4, <2>1, ChainStands DEF InvC
  <2> QED
    BY <1>3, <2>2, <2>3, <2>4, <2>5 DEF InvC
<1>6. CASE ret'.status # "BUFFER_TOO_SMALL"
  <2>1. /\ needed' = needed /\ Return(ret'.status)
        /\ IF ret'.status = "SUCCESS"
           THEN shown' = Show("Name", ret'.next, {}, ret'.size, <<>>)
                /\ ChainGrows(call.var, ret'.next)
           ELSE shown' = shown /\ chain' = chain
    BY <1>1, <1>6 DEF TakeNext
  <2>2. /\ line' = line /\ raced' = raced /\ status' = ret'.status
        /\ at' \in 1 .. Len(line)
        /\ \/ /\ pc' = "call" /\ at' = at + 1 /\ at < Len(line) /\ status' = "SUCCESS"
           \/ /\ pc' = "done" /\ at' = at /\ call' = call
              /\ status' = "SUCCESS" => at = Len(line)
    BY <1>1, <1>4, <2>1, Returned
  <2>3. /\ shown'.what \in {"Nothing", "Name"}
        /\ ret'.status = "SUCCESS" =>
             /\ shown'.what = "Name" /\ shown'.var = ret'.next
             /\ IsNext(vars, call.var, ret'.next)
    BY <1>1, <1>3, <2>1 DEF Show, NameGiven
  <2>4. Chained' /\ chain' \in [names : Seq(Var), whole : BOOLEAN]
    <3>1. CASE ret'.status = "SUCCESS"
      BY <1>1, <1>2, <1>3, <1>4, <2>1, <2>3, <3>1, ChainGrowsStep DEF InvC
    <3>2. CASE ret'.status # "SUCCESS"
      BY <1>1, <1>4, <2>1, <3>2, ChainStands DEF InvC, TypeOKC
    <3> QED
      BY <3>1, <3>2
  <2>5. TypeOKC'
    BY <1>1, <1>2, <1>3, <1>4, <2>1, <2>2, <2>3, <2>4 DEF Inv, TypeOKC
  <2>6. Running' /\ Reading'
    BY <1>1, <1>4, <2>2, <2>3 DEF Running, Reading
  <2>7. Naming'
    BY <1>1, <1>3, <1>4, <2>2 DEF Naming, NameGiven
  <2>8. BinStored'
    <3> SUFFICES ASSUME at' > 1, pc' = "call", ~raced
                 PROVE  vars[TestBinVar].data = Bytes(HelloWorld.tag, HelloWorld.size)
      BY <1>4, <2>2 DEF BinStored
    <3>1. at > 1
      <4>1. call # BinSet
        BY <1>1, BinCalls
      <4>2. at \in Nat /\ at >= 1 /\ Len(line) \in Nat /\ Len(line) > 1
        BY <1>1, <2>2, InHand DEF TypeOKC
      <4>3. at = 1 => call = BinSet
        BY <1>1, <4>2, InHand
      <4> QED
        BY <4>1, <4>2, <4>3
    <3> QED
      BY <1>1, <3>1 DEF InvC, BinStored
  <2>9. WithinBlock'
    <3>1. block # 0 => io'.handed <= block
      BY <1>1, <1>3
    <3> QED
      BY <1>1, <2>3, <3>1 DEF WithinBlock
  <2>10. SuccessIsDone'
    <3>1. ret'.status = "SUCCESS" => Stored(vars, ret'.next)
      BY <2>3 DEF IsNext, After
    <3> QED
      BY <1>1, <1>4, <2>2, <2>3, <3>1 DEF SuccessIsDone
  <2>11. BinReadsBack'
    <3> SUFFICES ASSUME pc' = "done", status' = "SUCCESS", Len(line) > 1 PROVE FALSE
      BY <2>2 DEF BinReadsBack
    <3> QED
      BY <1>1, <2>2, InHand, BinCalls
  <2> QED
    BY <1>3, <2>4, <2>5, <2>6, <2>7, <2>8, <2>9, <2>10, <2>11 DEF InvC
<1> QED
  BY <1>5, <1>6

LEMMA GoneStep ==
  ASSUME InvC, Gone
  PROVE  InvC'
<1>1. /\ Restart /\ line' = NoCommand /\ at' = 1 /\ pc' = "shell" /\ status' = "SUCCESS"
      /\ needed' = 0 /\ block' = 0 /\ shown' = Nothing /\ raced' = FALSE
      /\ ChainHolds /\ Inv /\ TypeOKC
  BY DEF Gone, InvC
<1>2. Inv'
  BY <1>1, RestartStep
<1>3. shown'.what = "Nothing"
  BY <1>1 DEF Nothing, Show
<1>4. line' \in CommandLine /\ at' \in 1 .. Len(line')
  BY <1>1, OneCall DEF NoCommand, CommandLine
<1>5. Chained' /\ chain' \in [names : Seq(Var), whole : BOOLEAN]
  BY <1>1, ChainStep DEF InvC
<1>6. TypeOKC'
  BY <1>1, <1>2, <1>3, <1>4, <1>5 DEF Inv, TypeOKC, EfiStatusType
<1>7. Running' /\ Reading' /\ Naming' /\ BinStored'
  BY <1>1, <1>3 DEF Running, Reading, Naming, BinStored
<1>8. WithinBlock' /\ SuccessIsDone' /\ BinReadsBack'
  BY <1>1, <1>3, UnderWay
<1> QED
  BY <1>2, <1>5, <1>6, <1>7, <1>8 DEF InvC

LEMMA OtherClientStep ==
  ASSUME InvC, OtherClient
  PROVE  InvC'
<1>1. /\ pc \in {"main", "call", "read", "grow", "next"} /\ raced' = TRUE /\ ChainHolds
      /\ UNCHANGED <<session, buffers, proc, ret, io, line, at, pc, status, needed,
                     block, shown>>
      /\ shown.what \in {"Nothing", "Name"} /\ Inv /\ TypeOKC
  BY DEF OtherClient, InvC, Running
<1>2. PICK v \in Var, attrs \in AttrSet, size \in Size, tag \in Tag :
        /\ SET_PARAM + StrSize(v) + size <= MemSize
        /\ \E r \in TaSet(vars, v, attrs, Bytes(tag, size)) : vars' = r.store
  BY DEF OtherClient
<1>3. PICK r \in TaSet(vars, v, attrs, Bytes(tag, size)) : vars' = r.store
  BY <1>2
<1>4. /\ vars \in [Var -> Entry] /\ attrs \in SUBSET Attribute /\ size \in Nat
      /\ Bytes(tag, size) \in Seq(Tag)
  BY <1>1, ArgumentAssumption, SizeAssumption, BytesType DEF Inv, TypeOK
<1>5. /\ vars' \in [Var -> Entry]
      /\ \A w \in Var : w # v => vars'[w] = vars[w]
      /\ vars'[v] = vars[v] \/ Len(vars'[v].data) <= StoreMax
  <2>1. /\ r.store \in [Var -> Entry]
        /\ \A w \in Var : w # v => r.store[w] = vars[w]
        /\ r.store[v] = vars[v] \/ Len(r.store[v].data) <= StoreMax
    BY <1>3, <1>4, TaSetReplies
  <2> QED
    BY <1>3, <2>1, Zenon
<1>6. StoredFits'
  <2>1. SET_PARAM + StrSize(v) <= MemSize
    BY <1>2, <1>4, NameSizes, MemSizeFacts DEF SET_PARAM
  <2> QED
    BY <1>1, <1>5, <2>1 DEF Inv, StoredFits, Stored
<1>7. Inv'
  BY <1>1, <1>5, <1>6 DEF Inv, TypeOK, Allocated, NotCrashed, session, buffers
<1>8. call' = call
  BY <1>1 DEF call
<1>9. Chained' /\ chain' \in [names : Seq(Var), whole : BOOLEAN]
  BY <1>1, ChainStep DEF InvC
<1>10. TypeOKC'
  BY <1>1, <1>7, <1>9 DEF Inv, TypeOKC
<1>11. Running' /\ Reading' /\ Naming' /\ BinStored'
  BY <1>1, <1>8 DEF InvC, Running, Reading, Naming, BinStored
<1>12. WithinBlock' /\ SuccessIsDone' /\ BinReadsBack'
  BY <1>1, UnderWay
<1> QED
  BY <1>7, <1>9, <1>10, <1>11, <1>12 DEF InvC

LEMMA StutterC ==
  ASSUME InvC, UNCHANGED tvars
  PROVE  InvC'
<1>1. UNCHANGED <<dvars, line, at, pc, status, needed, block, shown, raced, chain>>
  BY DEF tvars
<1>2. Inv' /\ vars' = vars /\ proc' = proc /\ io' = io /\ call' = call
  BY <1>1, InvSame DEF InvC, dvars, call
<1>3. TypeOKC'
  BY <1>1, <1>2 DEF InvC, Inv, TypeOKC
<1>4. Running' /\ Reading' /\ Naming' /\ BinStored'
  BY <1>1, <1>2 DEF InvC, Running, Reading, Naming, BinStored
<1>5. Chained'
  BY <1>1, <1>2, ChainStands DEF InvC
<1>6. WithinBlock' /\ SuccessIsDone' /\ BinReadsBack'
  BY <1>1, <1>2 DEF InvC, WithinBlock, SuccessIsDone, BinReadsBack
<1> QED
  BY <1>2, <1>3, <1>4, <1>5, <1>6 DEF InvC

(* A command that is still to start the driver has no session. *)
LEMMA UnopenedStepC == Unopened /\ [NextT]_tvars => Unopened'
<1> SUFFICES ASSUME Unopened, [NextT]_tvars PROVE Unopened'
  OBVIOUS
<1>1. CASE Main
  BY <1>1 DEF Main, Start, Unopened
<1>2. CASE QueryCall \/ SetCall \/ GetSize \/ GetData \/ CallNext
  <2>1. Going
    BY <1>2, QueryGoes, SetGoes, GetGoes, GetNextGoes
    DEF QueryCall, SetCall, GetSize, GetData, CallNext
  <2> QED
    BY <2>1 DEF Going, Unopened
<1>3. CASE Gone
  BY <1>3 DEF Gone, Restart, Load, Unopened
<1>4. CASE Type \/ NextName \/ Grow \/ OtherClient \/ UNCHANGED tvars
  BY <1>4 DEF Type, NextName, Grow, OtherClient, tvars, dvars, session, Unopened
<1> QED
  BY <1>1, <1>2, <1>3, <1>4 DEF NextT, Command

(* The invariant holds for every command line, whatever the TA answers, whatever
   another client writes while a command runs, and wherever the process or the
   machine stops. *)
THEOREM InvarianceC == SpecT => []InvC
<1>1. InvC /\ Unopened /\ [NextT]_tvars => InvC'
  BY TypeStep, MainStep, QueryCallStep, SetCallStep, GetSizeStep, GetDataStep,
     NextNameStep, GrowBlockStep, CallNextStep, GoneStep, OtherClientStep, StutterC
  DEF NextT, Command
<1>2. InitT => Unopened
  BY DEF InitT, Init, Unopened
<1> QED
  BY <1>1, <1>2, InitStep, UnopenedStepC, PTL DEF SpecT

(* The variables of the tool keep to their types. *)
THEOREM TypeCorrectC == SpecT => []TypeOKC
<1>1. InvC => TypeOKC
  BY DEF InvC
<1> QED
  BY <1>1, InvarianceC, PTL

(* The driver writes within the block process_command has allocated, and unless
   another client lengthens the variable between the two reads nothing is shown
   from behind its end (main.c:120-188). *)
THEOREM BlocksHold == SpecT => []WithinBlock
<1>1. InvC => WithinBlock
  BY DEF InvC
<1> QED
  BY <1>1, InvarianceC, PTL

(* A command that exits with 0 has done what it was asked for. *)
THEOREM SuccessMeansDone == SpecT => []SuccessIsDone
<1>1. InvC => SuccessIsDone
  BY DEF InvC
<1> QED
  BY <1>1, InvarianceC, PTL

(* What "bin" has shown when it exits with 0 is the data compiled in. *)
THEOREM BinShowsItsData == SpecT => []BinReadsBack
<1>1. InvC => BinReadsBack
  BY DEF InvC
<1> QED
  BY <1>1, InvarianceC, PTL

(* Any number of "getnext" commands, each given the name the one before has
   shown, name every variable once, in a list of any length. *)
THEOREM ChainsVisitAll == SpecT => []ChainVisitsAll
<1>1. InvC => ChainVisitsAll
  <2> SUFFICES ASSUME InvC, chain.whole, pc = "done", status = "NOT_FOUND",
                      call = Of("GETNEXT", Last)
               PROVE  Range(chain.names) = Listed(vars)
    BY DEF ChainVisitsAll, InvC, Chained
  <2>1. /\ Stored(vars, Last) /\ Last \in Var /\ Last # NoVar
        /\ Range(chain.names) = UpTo(vars, Last)
    BY LastNamed, VarAssumption DEF InvC, Chained
  <2>2. call.op = "GETNEXT" /\ call.var = Last
    BY CallFields DEF Of
  <2>3. After(vars, Last) = {}
    BY <2>1, <2>2 DEF InvC, Naming
  <2> QED
    BY <2>1, <2>3, UpToLast DEF Listed
<1> QED
  BY <1>1, InvarianceC, PTL
=============================================================================
