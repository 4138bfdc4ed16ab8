---------------------------- MODULE ToolCommands ----------------------------
(***************************************************************************)
(* The command line tool, authvars_test/host/main.c: what "get", "set",     *)
(* "getnext", "query" and "bin" do with the driver linked into it, what     *)
(* they show and the status they exit with.  Each command is a process of   *)
(* its own, over the store the earlier ones left; while one runs another    *)
(* client of the TA may write.  The self test is SelfTest's; the writes of  *)
(* the secure boot variables at the start are AuthVarsInit's.               *)
(***************************************************************************)
EXTENDS AuthVarsDxe, FiniteSets, Functions

CONSTANTS
  TestBinVar,   \* TEST_BIN_VAR_NAME with TEST_BIN_GUID
  HelloWorld,   \* [size, tag] of the data compiled in, hello_world
  CHAR16_SIZE   \* sizeof(CHAR16)

ASSUME ToolAssumption ==
  /\ TestBinVar \in Var \ HookVar
  /\ HelloWorld \in [size : 1 .. StoreMax, tag : Tag]
  /\ CHAR16_SIZE \in Nat

VARIABLES
  line,      \* the calls of process_command the command consists of
  at,        \* the one it is at
  pc,
  status,    \* res: the status of that call, and in the end the exit status
  needed,    \* required_size and name_bytes
  block,     \* bytes of the block process_command has allocated
  shown,     \* what the command has printed
  raced,     \* another client has written while the command ran
  chain      \* the names shown since "getnext" last started at the first one

tvars == <<dvars, line, at, pc, status, needed, block, shown, raced, chain>>
local == <<line, at, needed, block, shown, raced, chain>>

----------------------------------------------------------------------------
(* The command lines.  "Usage" stands for all that main gives up at with errx:
   unknown commands and attributes, too few arguments, files it cannot read. *)

Call(op, v, attrs, size, tag) ==
  [op |-> op, var |-> v, attrs |-> attrs, size |-> size, tag |-> tag]
Of(op, v) == Call(op, v, {}, 0, 0)

test_compile_time_buffer ==
  <<Call("SET", TestBinVar, {"NV", "RT", "BS"}, HelloWorld.size, HelloWorld.tag),
    Of("GETNEXT", NoVar),
    Of("GET", TestBinVar)>>

(* read_file *)
File == [size : Size, tag : Tag]

CommandLine ==
  {<<Of("GET", v)>> : v \in Var} \union
  {<<Call("SET", v, attrs, file.size, file.tag)>> :
     v \in Var, attrs \in AttrSet, file \in File} \union
  {<<Of("GETNEXT", v)>> : v \in Var \union {NoVar}} \union
  {<<Of("QUERY", NoVar)>>, <<Of("Usage", NoVar)>>, test_compile_time_buffer}

call == line[at]

(* What is printed: the bytes of a variable, their number, the attributes and
   the data that was read into the block; or the next name; or figures. *)
Show(what, v, attrs, size, data) ==
  [what |-> what, var |-> v, attrs |-> attrs, size |-> size, data |-> data]
Nothing == Show("Nothing", NoVar, {}, 0, <<>>)

NoChain == [names |-> <<>>, whole |-> FALSE]

NoCommand == <<Of("Usage", NoVar)>>

InitT ==
  /\ Init
  /\ line = NoCommand
  /\ at = 1
  /\ pc = "shell"
  /\ status = "SUCCESS"
  /\ needed = 0
  /\ block = 0
  /\ shown = Nothing
  /\ raced = FALSE
  /\ chain = NoChain

(* A chain of "getnext" commands sees one list of names as long as no variable
   comes or goes.  It starts with the first name; every other command of it
   names the variable the one before has shown. *)
Last == IF chain.names = <<>> THEN NoVar ELSE chain.names[Len(chain.names)]
Listed(store) == {v \in Var : Stored(store, v)}
ChainHolds ==
  chain' = IF Listed(vars') = Listed(vars) THEN chain ELSE NoChain
ChainGrows(from, next) ==
  chain' = IF from = NoVar THEN [names |-> <<next>>, whole |-> TRUE]
           ELSE IF chain.whole /\ from = Last
                THEN [chain EXCEPT !.names = Append(@, next)]
           ELSE NoChain

----------------------------------------------------------------------------
(* main. *)

Type ==
  /\ pc = "shell"
  /\ line' \in CommandLine
  /\ pc' = "main"
  /\ UNCHANGED <<dvars, at, status, needed, block, shown, raced, chain>>

(* The driver is started before the command line is looked at. *)
Main ==
  /\ pc = "main"
  /\ Start
  /\ IF proc' = "up" /\ call.op # "Usage"
     THEN pc' = "call" /\ UNCHANGED status
     ELSE pc' = "done" /\ status' = "errx"
  /\ UNCHANGED local

(* Mutant: "bin" goes on whatever a step of it returns. *)
ReturnAlways(res) ==
  /\ status' = res
  /\ IF at < Len(line)
     THEN pc' = "call" /\ at' = at + 1
     ELSE pc' = "done" /\ UNCHANGED at
  /\ UNCHANGED <<line, raced>>

(* process_command returns; "bin" goes on if there was no error. *)
Return(res) ==
  /\ status' = res
  /\ IF res = "SUCCESS" /\ at < Len(line)
     THEN pc' = "call" /\ at' = at + 1
     ELSE pc' = "done" /\ UNCHANGED at
  /\ UNCHANGED <<line, raced>>

(* QUERY prints its three local variables even if nothing was put in them. *)
QueryCall ==
  /\ pc = "call" /\ call.op = "QUERY"
  /\ OpteeRuntimeQueryVariableInfo(FALSE)
  /\ shown' = Show(IF ret'.status = "SUCCESS" THEN "Figures" ELSE "Garbage",
                   NoVar, {}, 0, <<>>)
  /\ Return(ret'.status)
  /\ UNCHANGED <<needed, block, chain>>

(* SET copies the data to a block of its own first. *)
SetCall ==
  /\ pc = "call" /\ call.op = "SET"
  /\ OpteeRuntimeSetVariable(call.var, "None", call.attrs, call.size, call.tag)
  /\ Return(ret'.status)
  /\ ChainHolds
  /\ UNCHANGED <<needed, block, shown>>

----------------------------------------------------------------------------
(* GET asks for the size of the data, allocates a block of that size and asks
   again. *)

GetSize ==
  /\ pc = "call" /\ call.op = "GET"
  /\ OpteeRuntimeGetVariable(call.var, "Data", 0)
  /\ IF ret'.status = "BUFFER_TOO_SMALL"
     THEN /\ needed' = ret'.size
          /\ pc' = "read"
          /\ UNCHANGED <<line, at, status, raced>>
     ELSE Return(ret'.status) /\ UNCHANGED needed
  /\ UNCHANGED <<block, shown, chain>>

(* What is printed has the size the second call leaves, whatever it returns.
   The hook answers for a variable of its name with the session id. *)
PrintBlock ==
  shown' = IF ret'.op = "Get"
           THEN Show("Bytes", call.var, ret'.attrs,
                     IF ret'.var = call.var THEN ret'.size ELSE needed, ret'.data)
           ELSE Show("Session", call.var, {}, needed, <<>>)

(* Mutant: the block of the first call's answer is taken to be filled. *)
GetDataUnread ==
  /\ pc = "read"
  /\ OpteeRuntimeGetVariable(call.var, "None", needed)
  /\ PrintBlock
  /\ block' = needed
  /\ Return("SUCCESS")
  /\ UNCHANGED <<needed, chain>>

GetData ==
  /\ pc = "read"
  /\ OpteeRuntimeGetVariable(call.var, "None", needed)
  /\ PrintBlock
  /\ block' = needed
  /\ Return(ret'.status)
  /\ UNCHANGED <<needed, chain>>

----------------------------------------------------------------------------
(* GETNEXT calls with the name it is given in a block as long as that name, and
   again in a longer block while it is told to. *)

NameBytes(v) == IF v = NoVar THEN CHAR16_SIZE ELSE StrSize(v)

NextName ==
  /\ pc = "call" /\ call.op = "GETNEXT"
  /\ needed' = NameBytes(call.var)
  /\ pc' = "grow"
  /\ UNCHANGED <<dvars, line, at, status, block, shown, raced, chain>>

(* Mutant: the block is allocated once, ahead of the loop. *)
GrowOnce ==
  /\ pc = "grow"
  /\ block' = IF block = 0 THEN needed ELSE block
  /\ pc' = "next"
  /\ UNCHANGED <<dvars, line, at, status, needed, shown, raced, chain>>

(* One turn of the loop: realloc, which may find no memory, then the call. *)
Grow ==
  /\ pc = "grow"
  /\ block' \in {needed, 0}
  /\ pc' = "next"
  /\ UNCHANGED <<dvars, line, at, status, needed, shown, raced, chain>>

(* Mutant: the size to allocate is computed afresh on every turn. *)
TakeNextAfresh ==
  /\ UNCHANGED needed
  /\ IF ret'.status = "BUFFER_TOO_SMALL"
     THEN pc' = "call" /\ UNCHANGED <<line, at, status, shown, raced, chain>>
     ELSE Return(ret'.status) /\ UNCHANGED <<shown, chain>>

(* What is done with the answer. *)
TakeNext ==
  IF ret'.status = "BUFFER_TOO_SMALL"
  THEN /\ needed' = ret'.size
       /\ pc' = "grow"
       /\ UNCHANGED <<line, at, status, shown, raced, chain>>
  ELSE /\ UNCHANGED needed
       /\ Return(ret'.status)
       /\ IF ret'.status = "SUCCESS"
          THEN /\ shown' = Show("Name", ret'.next, {}, ret'.size, <<>>)
               /\ ChainGrows(call.var, ret'.next)
          ELSE UNCHANGED <<shown, chain>>

NullName == IF block = 0 THEN "Name" ELSE "None"

(* Mutant: the name is not kept when the block grows. *)
CallNextLost ==
  /\ pc = "next"
  /\ OpteeRuntimeGetNextVariableName(
       IF needed = NameBytes(call.var) THEN call.var ELSE NoVar, NullName, needed)
  /\ TakeNext
  /\ UNCHANGED block

(* The call is refused if there was no memory for the name. *)
CallNext ==
  /\ pc = "next"
  /\ OpteeRuntimeGetNextVariableName(call.var, NullName, needed)
  /\ TakeNext
  /\ UNCHANGED block

----------------------------------------------------------------------------
(* The process ends or is ended: by the user, by a block that could not be
   allocated and is used untested, or with the machine. *)
Gone ==
  /\ pc # "shell"
  /\ Restart
  /\ line' = NoCommand /\ at' = 1
  /\ pc' = "shell"
  /\ status' = "SUCCESS"
  /\ needed' = 0 /\ block' = 0
  /\ shown' = Nothing
  /\ raced' = FALSE
  /\ ChainHolds

(* Another client writes what a driver like this one can carry, at most once
   while a command runs. *)
OtherClient ==
  /\ pc \in {"main", "call", "read", "grow", "next"}
  /\ ~raced
  /\ \E v \in Var, attrs \in AttrSet, size \in Size, tag \in Tag :
       /\ SET_PARAM + StrSize(v) + size <= MemSize
       /\ \E r \in TaSet(vars, v, attrs, Bytes(tag, size)) : vars' = r.store
  /\ vars' # vars
  /\ raced' = TRUE
  /\ ChainHolds
  /\ UNCHANGED <<session, buffers, proc, ret, io, line, at, pc, status, needed,
                 block, shown>>

Command == Main \/ QueryCall \/ SetCall \/ GetSize \/ GetData \/ NextName \/ Grow \/ CallNext

NextT == Type \/ Command \/ Gone \/ OtherClient

(* A command that was started runs; every call of the TA returns. *)
SpecT == InitT /\ [][NextT]_tvars /\ WF_tvars(Command)

----------------------------------------------------------------------------
(* Properties. *)

(* Every variable of the tool holds what its type allows. *)
TypeOKC ==
  /\ TypeOK
  /\ line \in CommandLine /\ at \in 1 .. Len(line)
  /\ pc \in {"shell", "main", "call", "read", "grow", "next", "done"}
  /\ status \in EfiStatusType \union {"errx"}
  /\ needed \in Nat /\ block \in Nat
  /\ shown.what \in {"Nothing", "Bytes", "Session", "Name", "Figures", "Garbage"}
  /\ raced \in BOOLEAN
  /\ chain \in [names : Seq(Var), whole : BOOLEAN]

(* Nothing is written to or printed from behind the end of a block: the driver
   puts no more in it than it holds, whatever the loop over its size came to,
   and the bytes printed, after a failed second read too, are bytes of it.
   Only if another client lengthens the variable between the two reads, which
   the second one answers with BUFFER_TOO_SMALL, does print_buffer run past the
   block: the code does, and prints what lies behind it.  Every other write in
   between leaves it in the block. *)
WithinBlock ==
  /\ pc = "done" /\ block # 0 => io.handed <= block
  /\ shown.what \in {"Bytes", "Session"} =>
       shown.size <= block \/ (raced /\ status = "BUFFER_TOO_SMALL")

(* Exit status 0 means the command did what it was asked for: "get" has shown
   the variable as it was when it was read, no byte of it unread; "set" has
   stored or deleted the variable as asked; "getnext" has shown a variable that
   is stored; the figures of "query" are figures.  The session-id hook answers
   for the variables it hides. *)
SuccessIsDone ==
  pc = "done" /\ status = "SUCCESS" =>
    /\ shown.what # "Garbage"
    /\ shown.what = "Bytes" =>
         /\ shown.size = Len(shown.data)
         /\ ~raced => vars[shown.var] = [attrs |-> shown.attrs, data |-> shown.data]
    /\ call.op = "GET" => shown.what \in {"Bytes", "Session"} /\ shown.var = call.var
    /\ call.op = "GETNEXT" =>
         shown.what = "Name" /\ (~raced => Stored(vars, shown.var))
    /\ call.op = "SET" /\ call.var \notin HookVar /\ "AP" \notin call.attrs /\ ~raced =>
         vars[call.var] = Written(Absent, call.attrs, Bytes(call.tag, call.size))

(* main.c:6, "bin: Sets then gets the contents of a compiled in binary object":
   if it exits with 0 the bytes it has shown are those, although nothing in it
   compares them, and unless somebody else wrote them meanwhile. *)
BinReadsBack ==
  pc = "done" /\ status = "SUCCESS" /\ Len(line) > 1 /\ ~raced =>
    shown.data = Bytes(HelloWorld.tag, HelloWorld.size)

(* Typing what every "getnext" says to "Run next" goes through all variables,
   in processes of their own: no name comes up twice and the one that ends it
   with NOT_FOUND has seen all of them. *)
ChainVisitsAll ==
  chain.whole =>
    /\ IsInjective(chain.names)
    /\ pc = "done" /\ status = "NOT_FOUND" /\ ~raced
       /\ call = Of("GETNEXT", Last) => Range(chain.names) = Listed(vars)

(* Every command comes to its end, however the sizes it is told come out. *)
CommandEnds == pc = "main" ~> pc \in {"done", "shell"}
=============================================================================
