-------------------------- MODULE AuthVarsInit_proofs --------------------------
(***************************************************************************)
(* Proofs about the start of the driver, for every answer to every call,    *)
(* every place where the start can be cut short and everything that is      *)
(* written through the services afterwards.                                 *)
(***************************************************************************)
EXTENDS AuthVarsInit, AuthVarsDxe_proofs

----------------------------------------------------------------------------
(* The inductive invariant.  Each part says how far the initialization has
   come: what is open, what the locals stand for in the store, and what has
   been written. *)

Opening == {"context", "session"}
Calling == {"PK", "SetupMode", "SecureBootEnable?", "SecureBootEnable", "SecureBoot",
            "CustomMode", "publish"}

Usable ==
  /\ mTeecSessionOpened
  /\ live \in SessionId /\ mTeecSession \in SessionId
  /\ ~NoBuffers
  /\ mVariableParamMem.size = MemSize /\ mVariableResultMem.size = MemSize

(* The process is the one that initializes until main takes over; it has no
   session before it opens one, and every call after that finds it usable. *)
Opened ==
  /\ pc \in Opening => ~mTeecSessionOpened
  /\ pc \in Calling => Usable
  /\ pc \in Opening \union Calling => proc = "starting" /\ ~published
  /\ pc = "returned" => proc = "starting"
  /\ published => Usable
  /\ pc = "returned" /\ Status = "SUCCESS" => published \/ ~mTeecSessionOpened
  /\ pc = "running" => published \/ ~mTeecSessionOpened

(* The mode is what the platform key said. *)
ModeRead ==
  pc \in Calling \ {"PK"} =>
    IF SetupMode = USER_MODE
    THEN Len(vars[PK].data) > 1
    ELSE PK \notin unsure => Len(vars[PK].data) <= 1

ModeWritten ==
  pc \in Calling \ {"PK", "SetupMode"} => Holds(SetupModeVar, SetupMode)

(* SecureBootEnable is about to be set up only if what was read of it was an
   error, and in user mode it is stored as the driver goes by it. *)
EnableSettled ==
  /\ pc = "SecureBootEnable" =>
       /\ SetupMode = USER_MODE
       /\ SecureBootEnableVar \notin unsure => Len(vars[SecureBootEnableVar].data) # 1
  /\ pc \in {"SecureBoot", "CustomMode", "publish"} =>
       IF SetupMode = USER_MODE
       THEN Holds(SecureBootEnableVar, SecureBootEnable)
       ELSE SecureBootEnable = SECURE_BOOT_DISABLE

StateWritten ==
  /\ pc \in {"CustomMode", "publish"} => Holds(SecureBootVar, SecureBootMode)
  /\ pc = "publish" => Holds(CustomModeVar, STANDARD_SECURE_BOOT_MODE)

InvI ==
  /\ TypeOKI /\ StoredFits /\ Allocated
  /\ Opened /\ ModeRead /\ ModeWritten /\ EnableSettled /\ StateWritten

----------------------------------------------------------------------------
(* Sequences of one byte. *)

LEMMA OneByte ==
  ASSUME NEW S, NEW s \in Seq(S), Len(s) = 1
  PROVE  s = <<s[1]>> /\ s[1] \in S
<1>1. s \in [1 .. 1 -> S]
  BY SeqDef, LenProperties
<1>2. 1 \in 1 .. 1 /\ s[1] \in S
  BY <1>1
<1>3. <<s[1]>> \in [1 .. 1 -> S] /\ <<s[1]>>[1] = s[1]
  BY <1>2
<1>4. \A i \in 1 .. 1 : s[i] = <<s[1]>>[i]
  BY <1>3
<1> QED
  BY <1>1, <1>2, <1>3, <1>4

LEMMA Singletons ==
  ASSUME NEW x, NEW y
  PROVE  /\ <<x>> = <<y>> <=> x = y
         /\ <<x>> # <<>> /\ Len(<<x>>) = 1
<1>1. <<x>>[1] = x /\ <<y>>[1] = y
  OBVIOUS
<1> QED
  BY <1>1

LEMMA OneByteWritten ==
  ASSUME NEW byte \in Tag
  PROVE  Bytes(byte, 1) = <<byte>>
<1>1. Bytes(byte, 1) \in Seq(Tag) /\ Len(Bytes(byte, 1)) = 1
  BY BytesType, BytesLen
<1>2. Bytes(byte, 1)[1] = byte
  BY DEF Bytes
<1> QED
  BY <1>1, <1>2, OneByte

LEMMA Counts ==
  \A n \in Nat : /\ n > 1 \/ n = 0 => n # 1
                 /\ n = 1 \/ n = 0 => n <= 1
                 /\ n # 0 /\ n <= 1 => n = 1
                 /\ n > 1 => ~(n <= 1)
  OBVIOUS

----------------------------------------------------------------------------
(* The two calls the initialization makes. *)

(* What it reads with a buffer of one byte. *)
ByteRead(v) ==
  \/ ret'.status = "SUCCESS" /\ Len(vars[v].data) = 1 /\ ret'.data = vars[v].data
  \/ ret'.status = "BUFFER_TOO_SMALL" /\ Len(vars[v].data) > 1
  \/ ret'.status = "NOT_FOUND" /\ Len(vars[v].data) = 0
  \/ ret'.status \notin {"SUCCESS", "BUFFER_TOO_SMALL", "NOT_FOUND"}

LEMMA ReadStep ==
  ASSUME Inv, NEW v \in Var, OpteeRuntimeGetVariable(v, "None", 1)
  PROVE  Inv' /\ QuietFrame /\ ByteRead(v)
<1>1. Inv' /\ QuietFrame /\ DataGiven(v, "None", 1)
  BY GetGives
<1>2. ~GetIsHook(v, "None", 1)
  BY DEF GetIsHook, UINTN_SIZE
<1>3. /\ Len(vars[v].data) \in Nat
      /\ Stored(vars, v) <=> Len(vars[v].data) # 0
  <2>1. vars[v].data \in Seq(Tag)
    BY DEF Inv, TypeOK, Entry
  <2> QED
    BY <2>1, LenProperties, EmptySeq DEF Stored
<1>4. Stored(vars, v) /\ Len(vars[v].data) <= 1 => Len(vars[v].data) = 1
  BY <1>3, Counts
<1> QED
  BY <1>1, <1>2, <1>3, <1>4 DEF DataGiven, ByteRead

(* What it leaves when it writes one byte. *)
ByteWritten(v, attrs, byte) ==
  IF ret'.status = "SUCCESS"
  THEN vars' = [vars EXCEPT ![v] = [attrs |-> attrs, data |-> <<byte>>]]
  ELSE vars' = vars

LEMMA WriteStep ==
  ASSUME Inv, Usable, NEW v \in Var, NEW attrs \in SUBSET Attribute, NEW byte \in Tag,
         attrs # {}, "AP" \notin attrs,
         OpteeRuntimeSetVariable(v, "None", attrs, 1, byte)
  PROVE  /\ Inv' /\ SameAllocation /\ UNCHANGED <<session, proc>>
         /\ ByteWritten(v, attrs, byte)
<1>1. /\ Inv' /\ SameAllocation /\ UNCHANGED <<live, mTeecSessionOpened, proc>>
      /\ DataTaken(v, attrs, 1, byte)
  BY SetGives DEF Usable, QuietSet
<1>2. ~(v \in HookVar /\ 1 = UINTN_SIZE)
  BY DEF UINTN_SIZE
<1>3. Written(vars[v], attrs, Bytes(byte, 1)) = [attrs |-> attrs, data |-> <<byte>>]
  BY OneByteWritten, Singletons DEF IsDelete, Written
<1> QED
  BY <1>1, <1>2, <1>3 DEF DataTaken, ByteWritten, session

----------------------------------------------------------------------------
(* The same two as steps of the initialization. *)

LEMMA CallingInv ==
  ASSUME InvI, pc \in Calling
  PROVE  Inv /\ Usable /\ proc = "starting" /\ ~published
  BY DEF InvI, Opened, TypeOKI, Inv, NotCrashed

LEMMA UsableKept ==
  ASSUME Usable, SameAllocation, UNCHANGED session
  PROVE  Usable'
  BY DEF Usable, SameAllocation, session, NoBuffers

LEMMA DataLen ==
  ASSUME TypeOKI, NEW v \in Var
  PROVE  Len(vars[v].data) \in Nat
  BY LenProperties DEF TypeOKI, TypeOK, Entry

LEMMA ReadCall ==
  ASSUME InvI, pc \in Calling, NEW v \in {PK, SecureBootEnableVar}, Read(v)
  PROVE  /\ TypeOK' /\ StoredFits' /\ Allocated' /\ Usable'
         /\ vars' = vars /\ proc' = "starting"
         /\ ByteRead(v)
         /\ unsure' \subseteq {PK, SecureBootEnableVar}
         /\ v \notin unsure' =>
              ret'.status \in {"SUCCESS", "NOT_FOUND", "BUFFER_TOO_SMALL"}
         /\ \A w : w \notin unsure' => w \notin unsure
<1>1. v \in Var /\ Inv /\ Usable /\ proc = "starting"
  BY CallingInv, InitAssumption
<1>2. Inv' /\ QuietFrame /\ ByteRead(v)
  BY <1>1, ReadStep DEF Read
<1>3. Usable' /\ vars' = vars /\ proc' = "starting"
  BY <1>1, <1>2, UsableKept DEF QuietFrame
<1>4. /\ unsure' \subseteq {PK, SecureBootEnableVar}
      /\ v \notin unsure' =>
           ret'.status \in {"SUCCESS", "NOT_FOUND", "BUFFER_TOO_SMALL"}
      /\ \A w : w \notin unsure' => w \notin unsure
  BY DEF Read, InvI, TypeOKI
<1> QED
  BY <1>2, <1>3, <1>4 DEF Inv

LEMMA WriteCall ==
  ASSUME InvI, pc \in Calling, NEW v \in Var, NEW attrs \in SUBSET Attribute,
         NEW byte \in Tag, NEW next, attrs # {}, "AP" \notin attrs,
         Write(v, attrs, byte, next)
  PROVE  /\ TypeOK' /\ StoredFits' /\ Allocated' /\ Usable'
         /\ proc' = "starting"
         /\ UNCHANGED <<SetupMode, SecureBootEnable, published, unsure>>
         /\ \/ /\ pc' = next /\ Status' = Status
               /\ vars' = [vars EXCEPT ![v] = [attrs |-> attrs, data |-> <<byte>>]]
            \/ pc' = "returned" /\ Status' # "SUCCESS" /\ vars' = vars
<1>1. Inv /\ Usable /\ proc = "starting"
  BY CallingInv
<1>2. /\ Inv' /\ SameAllocation /\ UNCHANGED <<session, proc>>
      /\ ByteWritten(v, attrs, byte)
  BY <1>1, WriteStep DEF Write
<1>3. Usable' /\ proc' = "starting"
  BY <1>1, <1>2, UsableKept
<1> QED
  BY <1>2, <1>3 DEF Write, ByteWritten, Goto, Return, locals, Inv

----------------------------------------------------------------------------
(* One lemma per action. *)

LEMMA Names ==
  /\ PK \in Var /\ SetupModeVar \in Var /\ SecureBootEnableVar \in Var
  /\ SecureBootVar \in Var /\ CustomModeVar \in Var
  /\ 0 \in Tag /\ 1 \in Tag /\ PcdSecureBootEnable \in {0, 1}
  BY InitAssumption DEF SECURE_BOOT_ENABLE, SECURE_BOOT_DISABLE

LEMMA InitInvI == InitI => InvI
<1> SUFFICES ASSUME InitI PROVE InvI
  OBVIOUS
<1>1. TypeOK /\ StoredFits /\ Allocated
  BY InitInv DEF InitI, Inv
<1>2. TypeOKI
  BY <1>1, Names DEF InitI, TypeOKI, SETUP_MODE, SECURE_BOOT_DISABLE
<1>3. Opened
  BY DEF InitI, Init, Opened, Opening, Calling
<1>4. ModeRead /\ ModeWritten /\ EnableSettled /\ StateWritten
  BY DEF InitI, ModeRead, ModeWritten, EnableSettled, StateWritten, Calling
<1> QED
  BY <1>1, <1>2, <1>3, <1>4 DEF InvI

LEMMA ContextStep ==
  ASSUME InvI, InitializeContext
  PROVE  InvI'
<1>1. UNCHANGED <<dvars, locals, published, unsure>> /\ pc = "context"
  BY DEF InitializeContext
<1>2. pc' = "session" \/ (pc' = "returned" /\ Status' \in {"SUCCESS", "PROTOCOL_ERROR"})
  BY DEF InitializeContext, Goto, Return
<1>3. TypeOKI' /\ StoredFits' /\ Allocated'
  BY <1>1, <1>2 DEF InvI, TypeOKI, TypeOK, StoredFits, Stored, Allocated, dvars, session,
                    buffers, locals
<1>4. Opened'
  BY <1>1, <1>2 DEF InvI, Opened, Opening, Calling, dvars, session
<1>5. ModeRead' /\ ModeWritten' /\ EnableSettled' /\ StateWritten'
  BY <1>2 DEF ModeRead, ModeWritten, EnableSettled, StateWritten, Calling
<1> QED
  BY <1>3, <1>4, <1>5 DEF InvI

LEMMA OpenStep ==
  ASSUME InvI, OpenTaSession
  PROVE  InvI'
<1>1. PICK status \in {"PROTOCOL_ERROR", "OUT_OF_RESOURCES", "SUCCESS"} :
        /\ TaOpenSession(status)
        /\ IF status = "SUCCESS" THEN Goto("PK") ELSE Return(status)
  BY DEF OpenTaSession
<1>2. /\ UNCHANGED <<vars, proc, ret, io, locals, published, unsure>>
      /\ pc = "session" /\ proc = "starting" /\ ~published /\ ~mTeecSessionOpened
  BY DEF OpenTaSession, InvI, Opened, Opening
<1>3. \/ status = "SUCCESS" /\ pc' = "PK" /\ Usable'
      \/ status # "SUCCESS" /\ pc' = "returned" /\ Status' # "SUCCESS"
  <2>1. CASE status = "SUCCESS"
    BY <1>1, <2>1, BufferTypes DEF TaOpenSession, OpenSession, Usable, NoBuffers, Goto
  <2>2. CASE status # "SUCCESS"
    BY <1>1, <2>2 DEF Return
  <2> QED
    BY <2>1, <2>2
<1>4. TypeOK'
  <2>1. /\ live' \in SessionId \union {NoSession}
        /\ mTeecSession' \in SessionId \union {NoSession}
        /\ mTeecSessionOpened' \in BOOLEAN
    BY <1>1 DEF TaOpenSession, OpenSession, session, InvI, TypeOKI, TypeOK
  <2>2. mVariableParamMem' \in ParamMemType /\ mVariableResultMem' \in ResultMemType
    BY <1>1, BufferTypes DEF TaOpenSession, buffers, InvI, TypeOKI, TypeOK
  <2> QED
    BY <1>2, <2>1, <2>2 DEF InvI, TypeOKI, TypeOK
<1>5. TypeOKI' /\ StoredFits' /\ Allocated'
  BY <1>2, <1>3, <1>4 DEF InvI, TypeOKI, StoredFits, Stored, Allocated, locals
<1>6. Opened'
  BY <1>2, <1>3 DEF Opened, Opening, Calling
<1>7. ModeRead' /\ ModeWritten' /\ EnableSettled' /\ StateWritten'
  BY <1>3 DEF ModeRead, ModeWritten, EnableSettled, StateWritten, Calling
<1> QED
  BY <1>5, <1>6, <1>7 DEF InvI

(* A write that fails returns, and nothing is left to be said of the phases. *)
LEMMA ReturnedInv ==
  ASSUME TypeOKI', StoredFits', Allocated', proc' = "starting", ~published',
         pc' = "returned", Status' # "SUCCESS"
  PROVE  InvI'
<1>1. Opened'
  BY DEF Opened, Opening, Calling
<1>2. ModeRead' /\ ModeWritten' /\ EnableSettled' /\ StateWritten'
  BY DEF ModeRead, ModeWritten, EnableSettled, StateWritten, Calling
<1> QED
  BY <1>1, <1>2 DEF InvI

LEMMA ReadPkStep ==
  ASSUME InvI, ReadPk
  PROVE  InvI'
<1>1. pc = "PK" /\ pc \in Calling /\ Read(PK) /\ ~published
  BY CallingInv DEF ReadPk, Calling
<1>2. /\ TypeOK' /\ StoredFits' /\ Allocated' /\ Usable'
      /\ vars' = vars /\ proc' = "starting" /\ ByteRead(PK)
      /\ unsure' \subseteq {PK, SecureBootEnableVar}
      /\ PK \notin unsure' =>
           ret'.status \in {"SUCCESS", "NOT_FOUND", "BUFFER_TOO_SMALL"}
  BY <1>1, ReadCall
<1>3. /\ pc' = "SetupMode" /\ UNCHANGED <<Status, SecureBootEnable, published>>
      /\ SetupMode' = IF ret'.status = "BUFFER_TOO_SMALL" THEN USER_MODE ELSE SETUP_MODE
  BY DEF ReadPk, Goto
<1>4. TypeOKI'
  BY <1>2, <1>3 DEF InvI, TypeOKI
<1>5. Opened'
  BY <1>1, <1>2, <1>3 DEF Opened, Opening, Calling
<1>6. ModeRead'
  <2>1. CASE ret'.status = "BUFFER_TOO_SMALL"
    BY <1>2, <1>3, <2>1 DEF ModeRead, ByteRead
  <2>2. CASE ret'.status # "BUFFER_TOO_SMALL"
    <3>1. ASSUME PK \notin unsure' PROVE Len(vars[PK].data) <= 1
      <4>1. ret'.status = "SUCCESS" \/ ret'.status = "NOT_FOUND"
        BY <1>2, <2>2, <3>1
      <4>2. Len(vars[PK].data) = 1 \/ Len(vars[PK].data) = 0
        BY <1>2, <4>1 DEF ByteRead
      <4> QED
        BY <4>2, DataLen, Names, Counts, Zenon DEF InvI
    <3> QED
      BY <1>2, <1>3, <2>2, <3>1 DEF ModeRead, USER_MODE, SETUP_MODE
  <2> QED
    BY <2>1, <2>2
<1>7. ModeWritten' /\ EnableSettled' /\ StateWritten'
  BY <1>3 DEF ModeWritten, EnableSettled, StateWritten
<1> QED
  BY <1>2, <1>4, <1>5, <1>6, <1>7 DEF InvI

LEMMA WriteSetupModeStep ==
  ASSUME InvI, WriteSetupMode
  PROVE  InvI'
<1>1. /\ pc = "SetupMode" /\ pc \in Calling /\ ~published
      /\ Write(SetupModeVar, {"BS", "RT"}, SetupMode, "SecureBootEnable?")
  BY CallingInv DEF WriteSetupMode, Calling
<1>2. /\ SetupMode \in Tag /\ SetupModeVar \in Var
      /\ {"BS", "RT"} \in SUBSET Attribute /\ {"BS", "RT"} # {} /\ "AP" \notin {"BS", "RT"}
  BY Names DEF InvI, TypeOKI, SETUP_MODE, USER_MODE, Attribute
<1> DEFINE written == [attrs |-> {"BS", "RT"}, data |-> <<SetupMode>>]
<1>3. /\ TypeOK' /\ StoredFits' /\ Allocated' /\ Usable' /\ proc' = "starting"
      /\ UNCHANGED <<SetupMode, SecureBootEnable, published, unsure>>
      /\ \/ /\ pc' = "SecureBootEnable?" /\ Status' = Status
            /\ vars' = [vars EXCEPT ![SetupModeVar] = written]
         \/ pc' = "returned" /\ Status' # "SUCCESS" /\ vars' = vars
  BY <1>1, <1>2, WriteCall
<1>4. TypeOKI'
  BY <1>3 DEF InvI, TypeOKI
<1>5. CASE /\ pc' = "SecureBootEnable?"
           /\ vars' = [vars EXCEPT ![SetupModeVar] = written]
  <2>1. /\ vars'[SetupModeVar].data = <<SetupMode>>
        /\ vars'[PK] = vars[PK]
    BY <1>5, InitAssumption DEF InvI, TypeOKI, TypeOK
  <2>2. Opened'
    BY <1>1, <1>3, <1>5 DEF Opened, Opening, Calling
  <2>3. ModeRead'
    BY <1>1, <1>3, <2>1 DEF InvI, ModeRead, Calling
  <2>4. ModeWritten'
    BY <1>3, <2>1 DEF ModeWritten, Holds
  <2>5. EnableSettled' /\ StateWritten'
    BY <1>5 DEF EnableSettled, StateWritten
  <2> QED
    BY <1>3, <1>4, <2>2, <2>3, <2>4, <2>5 DEF InvI
<1> QED
  BY <1>1, <1>3, <1>4, <1>5, ReturnedInv

LEMMA ReadEnableStep ==
  ASSUME InvI, ReadSecureBootEnable
  PROVE  InvI'
<1> DEFINE v == SecureBootEnableVar
<1>1. pc = "SecureBootEnable?" /\ pc \in Calling /\ Read(v) /\ ~published
  BY CallingInv DEF ReadSecureBootEnable, Calling
<1>2. /\ TypeOK' /\ StoredFits' /\ Allocated' /\ Usable'
      /\ vars' = vars /\ proc' = "starting" /\ ByteRead(v)
      /\ unsure' \subseteq {PK, v}
      /\ v \notin unsure' =>
           ret'.status \in {"SUCCESS", "NOT_FOUND", "BUFFER_TOO_SMALL"}
      /\ PK \notin unsure' => PK \notin unsure
  BY <1>1, ReadCall
<1>3. /\ UNCHANGED <<Status, SetupMode, published>>
      /\ SecureBootEnable' =
           IF SetupMode # USER_MODE THEN SECURE_BOOT_DISABLE
           ELSE IF ret'.status = "SUCCESS" THEN ret'.data[1] ELSE PcdSecureBootEnable
      /\ pc' = IF ret'.status # "SUCCESS" /\ SetupMode = USER_MODE
               THEN "SecureBootEnable" ELSE "SecureBoot"
  BY DEF ReadSecureBootEnable, Goto
<1>4. ret'.status = "SUCCESS" =>
        ret'.data[1] \in Tag /\ vars[v].data = <<ret'.data[1]>>
  <2>1. vars[v].data \in Seq(Tag)
    BY Names DEF InvI, TypeOKI, TypeOK, Entry
  <2>2. ret'.status = "SUCCESS" => Len(vars[v].data) = 1 /\ ret'.data = vars[v].data
    BY <1>2 DEF ByteRead
  <2> QED
    BY <2>1, <2>2, OneByte
<1>5. TypeOKI'
  <2>1. SecureBootEnable' \in Tag
    BY <1>3, <1>4, Names DEF SECURE_BOOT_DISABLE
  <2> QED
    BY <1>2, <1>3, <2>1 DEF InvI, TypeOKI
<1>6. Opened'
  BY <1>1, <1>2, <1>3 DEF Opened, Opening, Calling
<1>7. ModeRead' /\ ModeWritten'
  BY <1>1, <1>2, <1>3 DEF InvI, ModeRead, ModeWritten, Holds, Calling
<1>8. EnableSettled'
  <2>1. CASE pc' = "SecureBootEnable"
    <3>1. SetupMode = USER_MODE /\ ret'.status # "SUCCESS"
      BY <1>3, <2>1
    <3>2. ASSUME v \notin unsure' PROVE Len(vars[v].data) # 1
      <4>1. ret'.status = "BUFFER_TOO_SMALL" \/ ret'.status = "NOT_FOUND"
        BY <1>2, <3>1, <3>2
      <4>2. Len(vars[v].data) > 1 \/ Len(vars[v].data) = 0
        BY <1>2, <4>1 DEF ByteRead
      <4>3. Len(vars[v].data) \in Nat
        BY DataLen, Names DEF InvI
      <4> QED
        BY <4>2, <4>3, Counts, Zenon
    <3> QED
      BY <1>2, <1>3, <2>1, <3>1, <3>2 DEF EnableSettled
  <2>2. CASE pc' = "SecureBoot"
    <3>1. SetupMode = USER_MODE => ret'.status = "SUCCESS"
      BY <1>3, <2>2
    <3> QED
      BY <1>2, <1>3, <1>4, <2>2, <3>1 DEF EnableSettled, Holds
  <2> QED
    BY <1>3, <2>1, <2>2
<1>9. StateWritten'
  BY <1>3 DEF StateWritten
<1> QED
  BY <1>2, <1>5, <1>6, <1>7, <1>8, <1>9 DEF InvI

LEMMA WriteEnableStep ==
  ASSUME InvI, WriteSecureBootEnable
  PROVE  InvI'
<1>1. /\ pc = "SecureBootEnable" /\ pc \in Calling /\ ~published
      /\ Write(SecureBootEnableVar, {"NV", "BS"}, SecureBootEnable, "SecureBoot")
  BY CallingInv DEF WriteSecureBootEnable, Calling
<1>2. /\ SecureBootEnable \in Tag /\ SecureBootEnableVar \in Var
      /\ {"NV", "BS"} \in SUBSET Attribute /\ {"NV", "BS"} # {} /\ "AP" \notin {"NV", "BS"}
  BY Names DEF InvI, TypeOKI, Attribute
<1> DEFINE written == [attrs |-> {"NV", "BS"}, data |-> <<SecureBootEnable>>]
<1>3. /\ TypeOK' /\ StoredFits' /\ Allocated' /\ Usable' /\ proc' = "starting"
      /\ UNCHANGED <<SetupMode, SecureBootEnable, published, unsure>>
      /\ \/ /\ pc' = "SecureBoot" /\ Status' = Status
            /\ vars' = [vars EXCEPT ![SecureBootEnableVar] = written]
         \/ pc' = "returned" /\ Status' # "SUCCESS" /\ vars' = vars
  BY <1>1, <1>2, WriteCall
<1>4. TypeOKI'
  BY <1>3 DEF InvI, TypeOKI
<1>5. CASE /\ pc' = "SecureBoot"
           /\ vars' = [vars EXCEPT ![SecureBootEnableVar] = written]
  <2>1. /\ vars'[SecureBootEnableVar].data = <<SecureBootEnable>>
        /\ vars'[PK] = vars[PK] /\ vars'[SetupModeVar] = vars[SetupModeVar]
    BY <1>5, InitAssumption DEF InvI, TypeOKI, TypeOK
  <2>2. Opened'
    BY <1>1, <1>3, <1>5 DEF Opened, Opening, Calling
  <2>3. ModeRead' /\ ModeWritten'
    BY <1>1, <1>3, <2>1 DEF InvI, ModeRead, ModeWritten, Holds, Calling
  <2>4. EnableSettled'
    BY <1>1, <1>3, <1>5, <2>1 DEF InvI, EnableSettled, Holds
  <2>5. StateWritten'
    BY <1>5 DEF StateWritten
  <2> QED
    BY <1>3, <1>4, <2>2, <2>3, <2>4, <2>5 DEF InvI
<1> QED
  BY <1>1, <1>3, <1>4, <1>5, ReturnedInv

LEMMA WriteSecureBootStep ==
  ASSUME InvI, WriteSecureBoot
  PROVE  InvI'
<1>1. /\ pc = "SecureBoot" /\ pc \in Calling /\ ~published
      /\ Write(SecureBootVar, {"BS", "RT"}, SecureBootMode, "CustomMode")
  BY CallingInv DEF WriteSecureBoot, Calling
<1>2. /\ SecureBootMode \in Tag /\ SecureBootVar \in Var
      /\ {"BS", "RT"} \in SUBSET Attribute /\ {"BS", "RT"} # {} /\ "AP" \notin {"BS", "RT"}
  BY Names DEF SecureBootMode, SECURE_BOOT_MODE_ENABLE, SECURE_BOOT_MODE_DISABLE, Attribute
<1> DEFINE written == [attrs |-> {"BS", "RT"}, data |-> <<SecureBootMode>>]
<1>3. /\ TypeOK' /\ StoredFits' /\ Allocated' /\ Usable' /\ proc' = "starting"
      /\ UNCHANGED <<SetupMode, SecureBootEnable, published, unsure>>
      /\ \/ /\ pc' = "CustomMode" /\ Status' = Status
            /\ vars' = [vars EXCEPT ![SecureBootVar] = written]
         \/ pc' = "returned" /\ Status' # "SUCCESS" /\ vars' = vars
  BY <1>1, <1>2, WriteCall
<1>4. TypeOKI'
  BY <1>3 DEF InvI, TypeOKI
<1>5. CASE /\ pc' = "CustomMode"
           /\ vars' = [vars EXCEPT ![SecureBootVar] = written]
  <2>1. /\ vars'[SecureBootVar].data = <<SecureBootMode>>
        /\ vars'[PK] = vars[PK] /\ vars'[SetupModeVar] = vars[SetupModeVar]
        /\ vars'[SecureBootEnableVar] = vars[SecureBootEnableVar]
    BY <1>5, InitAssumption DEF InvI, TypeOKI, TypeOK
  <2>2. Opened'
    BY <1>1, <1>3, <1>5 DEF Opened, Opening, Calling
  <2>3. ModeRead' /\ ModeWritten'
    BY <1>1, <1>3, <2>1 DEF InvI, ModeRead, ModeWritten, Holds, Calling
  <2>4. EnableSettled'
    BY <1>1, <1>3, <1>5, <2>1 DEF InvI, EnableSettled, Holds
  <2>5. StateWritten'
    BY <1>3, <1>5, <2>1 DEF StateWritten, Holds, SecureBootMode
  <2> QED
    BY <1>3, <1>4, <2>2, <2>3, <2>4, <2>5 DEF InvI
<1> QED
  BY <1>1, <1>3, <1>4, <1>5, ReturnedInv

LEMMA WriteCustomModeStep ==
  ASSUME InvI, WriteCustomMode
  PROVE  InvI'
<1>1. /\ pc = "CustomMode" /\ pc \in Calling /\ ~published
      /\ Write(CustomModeVar, {"NV", "BS"}, STANDARD_SECURE_BOOT_MODE, "publish")
  BY CallingInv DEF WriteCustomMode, Calling
<1>2. /\ STANDARD_SECURE_BOOT_MODE \in Tag /\ CustomModeVar \in Var
      /\ {"NV", "BS"} \in SUBSET Attribute /\ {"NV", "BS"} # {} /\ "AP" \notin {"NV", "BS"}
  BY Names DEF STANDARD_SECURE_BOOT_MODE, Attribute
<1> DEFINE written == [attrs |-> {"NV", "BS"}, data |-> <<STANDARD_SECURE_BOOT_MODE>>]
<1>3. /\ TypeOK' /\ StoredFits' /\ Allocated' /\ Usable' /\ proc' = "starting"
      /\ UNCHANGED <<SetupMode, SecureBootEnable, published, unsure>>
      /\ \/ /\ pc' = "publish" /\ Status' = Status
            /\ vars' = [vars EXCEPT ![CustomModeVar] = written]
         \/ pc' = "returned" /\ Status' # "SUCCESS" /\ vars' = vars
  BY <1>1, <1>2, WriteCall
<1>4. TypeOKI'
  BY <1>3 DEF InvI, TypeOKI
<1>5. CASE /\ pc' = "publish"
           /\ vars' = [vars EXCEPT ![CustomModeVar] = written]
  <2>1. /\ vars'[CustomModeVar].data = <<STANDARD_SECURE_BOOT_MODE>>
        /\ vars'[PK] = vars[PK] /\ vars'[SetupModeVar] = vars[SetupModeVar]
        /\ vars'[SecureBootEnableVar] = vars[SecureBootEnableVar]
        /\ vars'[SecureBootVar] = vars[SecureBootVar]
    BY <1>5, InitAssumption DEF InvI, TypeOKI, TypeOK
  <2>2. Opened'
    BY <1>1, <1>3, <1>5 DEF Opened, Opening, Calling
  <2>3. ModeRead' /\ ModeWritten'
    BY <1>1, <1>3, <2>1 DEF InvI, ModeRead, ModeWritten, Holds, Calling
  <2>4. EnableSettled'
    BY <1>1, <1>3, <1>5, <2>1 DEF InvI, EnableSettled, Holds
  <2>5. StateWritten'
    BY <1>1, <1>3, <1>5, <2>1 DEF InvI, StateWritten, Holds, SecureBootMode
  <2> QED
    BY <1>3, <1>4, <2>2, <2>3, <2>4, <2>5 DEF InvI
<1> QED
  BY <1>1, <1>3, <1>4, <1>5, ReturnedInv

LEMMA PublishStep ==
  ASSUME InvI, Publish
  PROVE  InvI'
<1>1. /\ pc \in Calling /\ Usable /\ proc = "starting"
      /\ pc' = "returned" /\ published' = TRUE
      /\ UNCHANGED <<dvars, locals, unsure>>
  BY CallingInv DEF Publish, Return, Calling
<1>2. TypeOKI' /\ StoredFits' /\ Allocated'
  BY <1>1 DEF InvI, TypeOKI, TypeOK, StoredFits, Stored, Allocated, dvars, session,
              buffers, locals
<1>3. Usable' /\ proc' = "starting"
  BY <1>1 DEF Usable, NoBuffers, dvars, session, buffers
<1>4. Opened'
  BY <1>1, <1>3 DEF Opened, Opening, Calling
<1>5. ModeRead' /\ ModeWritten' /\ EnableSettled' /\ StateWritten'
  BY <1>1 DEF ModeRead, ModeWritten, EnableSettled, StateWritten, Calling
<1> QED
  BY <1>2, <1>4, <1>5 DEF InvI

LEMMA MainStep ==
  ASSUME InvI, Main
  PROVE  InvI'
<1>1. /\ pc = "returned"
      /\ \/ Status = "SUCCESS" /\ pc' = "running" /\ proc' = "up"
         \/ Status # "SUCCESS" /\ pc' = "exited" /\ proc' = "gone"
      /\ UNCHANGED <<vars, session, buffers, ret, io, Status, locals, published, unsure>>
  BY DEF Main
<1>2. TypeOKI' /\ StoredFits'
  BY <1>1 DEF InvI, TypeOKI, TypeOK, StoredFits, Stored, session, buffers, locals
<1>3. pc' = "running" => published \/ ~mTeecSessionOpened
  BY <1>1 DEF InvI, Opened
<1>4. published => Usable'
  BY <1>1 DEF InvI, Opened, Usable, NoBuffers, session, buffers
<1>5. Opened'
  BY <1>1, <1>3, <1>4 DEF Opened, Opening, Calling, session
<1>6. Allocated'
  <2>1. CASE published
    BY <1>1, <1>2, <1>4, <2>1
    DEF Allocated, Usable, NoBuffers, TypeOKI, TypeOK, ParamMemType, ResultMemType
  <2>2. CASE ~published
    BY <1>1, <1>3, <2>2 DEF Allocated, session
  <2> QED
    BY <2>1, <2>2
<1>7. ModeRead' /\ ModeWritten' /\ EnableSettled' /\ StateWritten'
  BY <1>1 DEF ModeRead, ModeWritten, EnableSettled, StateWritten, Calling
<1> QED
  BY <1>2, <1>5, <1>6, <1>7 DEF InvI

(* Once the services are in use, only what main and the caller may touch
   changes: the store, and the session id the hook puts in place. *)
LEMMA UseStep ==
  ASSUME InvI, Use
  PROVE  InvI'
<1>1. /\ pc = "running" /\ pc' = "running" /\ proc = "up"
      /\ UNCHANGED <<Status, locals, published, unsure>>
  BY DEF Use
<1>2. ModeRead' /\ ModeWritten' /\ EnableSettled' /\ StateWritten'
  BY <1>1 DEF ModeRead, ModeWritten, EnableSettled, StateWritten, Calling
<1>3. CASE \E v \in Var \ ReadOnlyVar, attrs \in AttrSet, size \in Size, tag \in Tag :
             OpteeRuntimeSetVariable(v, "None", attrs, size, tag)
  <2>1. PICK v \in Var, attrs \in SUBSET Attribute, size \in Nat, tag \in Tag :
          OpteeRuntimeSetVariable(v, "None", attrs, size, tag)
    BY <1>3, SizeAssumption, ArgumentAssumption
  <2>2. Inv
    BY <1>1 DEF InvI, TypeOKI, Inv, NotCrashed
  <2>3. mTeecSessionOpened => ~NoBuffers
    BY <1>1, <2>2 DEF Inv, Allocated, NoBuffers
  <2>4. Inv' /\ QuietSet
    BY <2>1, <2>2, <2>3, SetStep
  <2>5. TypeOKI' /\ StoredFits' /\ Allocated'
    BY <1>1, <2>4 DEF InvI, TypeOKI, Inv, locals
  <2>6. Usable => Usable'
    BY <2>4 DEF Usable, QuietSet, SameAllocation, NoBuffers
  <2>7. Opened'
    BY <1>1, <2>4, <2>6 DEF InvI, Opened, Opening, Calling, QuietSet
  <2> QED
    BY <1>2, <2>5, <2>7 DEF InvI
<1>4. CASE ~published /\ proc' = "crashed" /\ UNCHANGED <<vars, session, buffers, ret, io>>
  <2>1. TypeOKI' /\ StoredFits' /\ Allocated'
    BY <1>1, <1>4 DEF InvI, TypeOKI, TypeOK, StoredFits, Stored, Allocated, session,
                      buffers, locals
  <2>2. Opened'
    BY <1>1, <1>4 DEF InvI, Opened, Opening, Calling, session
  <2> QED
    BY <1>2, <2>1, <2>2 DEF InvI
<1> QED
  BY <1>3, <1>4 DEF Use

LEMMA RestartIStep ==
  ASSUME InvI, RestartI
  PROVE  InvI'
<1>1. /\ Restart /\ pc' = "context" /\ SetupMode' = SETUP_MODE
      /\ SecureBootEnable' = SECURE_BOOT_DISABLE /\ published' = FALSE /\ unsure' = {}
  BY DEF RestartI
<1>2. TypeOK' /\ StoredFits' /\ Allocated'
  <2>1. Absent \in Entry /\ Absent.data = <<>> /\ Len(Absent.data) = 0
    BY EmptyData DEF Absent, Entry
  <2>2. /\ vars' \in [Var -> Entry]
        /\ \A v \in Var : vars'[v] = vars[v] \/ vars'[v] = Absent
    BY <1>1, <2>1 DEF Restart, Rebooted, InvI, TypeOKI, TypeOK
  <2>3. TypeOK'
    BY <1>1, <2>2, NoAnswerType, NoExtentsType, BufferTypes DEF Restart, Load, TypeOK
  <2>4. StoredFits'
    BY <2>1, <2>2, StoreAssumption DEF InvI, StoredFits, Stored
  <2> QED
    BY <1>1, <2>3, <2>4 DEF Restart, Load, Allocated
<1>3. TypeOKI'
  BY <1>1, <1>2, Names DEF TypeOKI, SETUP_MODE, SECURE_BOOT_DISABLE
<1>4. Opened'
  BY <1>1 DEF Restart, Load, Opened, Opening, Calling
<1>5. ModeRead' /\ ModeWritten' /\ EnableSettled' /\ StateWritten'
  BY <1>1 DEF ModeRead, ModeWritten, EnableSettled, StateWritten, Calling
<1> QED
  BY <1>2, <1>3, <1>4, <1>5 DEF InvI

LEMMA NextInvI == InvI /\ [NextI]_ivars => InvI'
<1> SUFFICES ASSUME InvI, [NextI]_ivars PROVE InvI'
  OBVIOUS
<1>1. CASE Initialize
  BY <1>1, ContextStep, OpenStep, ReadPkStep, WriteSetupModeStep, ReadEnableStep,
     WriteEnableStep, WriteSecureBootStep, WriteCustomModeStep, PublishStep
  DEF Initialize
<1>2. CASE Main
  BY <1>2, MainStep
<1>3. CASE Use
  BY <1>3, UseStep
<1>4. CASE RestartI
  BY <1>4, RestartIStep
<1>5. CASE UNCHANGED ivars
  <2>1. TypeOKI' /\ StoredFits' /\ Allocated'
    BY <1>5 DEF ivars, dvars, session, buffers, locals, InvI, TypeOKI, TypeOK, StoredFits,
                Stored, Allocated
  <2>2. Opened'
    BY <1>5 DEF ivars, dvars, session, buffers, InvI, Opened, Usable, NoBuffers
  <2>3. ModeRead' /\ ModeWritten' /\ EnableSettled' /\ StateWritten'
    BY <1>5 DEF ivars, dvars, locals, InvI, ModeRead, ModeWritten, EnableSettled,
                StateWritten, Holds, SecureBootMode
  <2> QED
    BY <2>1, <2>2, <2>3 DEF InvI
<1> QED
  BY <1>1, <1>2, <1>3, <1>4, <1>5 DEF NextI

----------------------------------------------------------------------------
(* Whatever fails, wherever the initialization is cut short, and whatever is
   written through the services afterwards. *)
THEOREM InvarianceI == SpecI => []InvI
  BY InitInvI, NextInvI, PTL DEF SpecI

(* The variables of the initialization keep to their types; SecureBootEnable is
   a byte that was read or the PCD's (AuthVarsDxe.c:1055-1206). *)
THEOREM TypeCorrectI == SpecI => []TypeOKI
<1>1. InvI => TypeOKI
  BY DEF InvI
<1> QED
  BY <1>1, InvarianceI, PTL

(* Services that have been published have a session with the TA and both
   transport buffers (AuthVarsDxe.c:984-1052 and 1513-1598). *)
THEOREM PublishedAreUsable == SpecI => []PublishedIsUsable
<1>1. InvI => PublishedIsUsable
  BY ArgumentAssumption DEF InvI, Opened, Usable, PublishedIsUsable
<1> QED
  BY <1>1, InvarianceI, PTL

(* Only Publish publishes. *)
LEMMA PublishingStep ==
  ASSUME NextI, ~published, published'
  PROVE  Publish
  BY DEF NextI, Initialize, InitializeContext, OpenTaSession, ReadPk, WriteSetupMode, Write,
         ReadSecureBootEnable, WriteSecureBootEnable, WriteSecureBoot, WriteCustomMode,
         Main, Use, RestartI

(* What holds of the store when the services are published. *)
LEMMA PublishedState ==
  ASSUME InvI, Publish
  PROVE  /\ Holds(SecureBootVar, SECURE_BOOT_MODE_ENABLE) <=>
              /\ Holds(SetupModeVar, USER_MODE)
              /\ Holds(SecureBootEnableVar, SECURE_BOOT_ENABLE)
         /\ \/ Holds(SecureBootVar, SECURE_BOOT_MODE_DISABLE)
            \/ Holds(SecureBootVar, SECURE_BOOT_MODE_ENABLE)
         /\ Holds(SetupModeVar, USER_MODE) => Stored(vars, PK)
         /\ Holds(CustomModeVar, STANDARD_SECURE_BOOT_MODE)
         /\ PK \notin unsure =>
              (Holds(SetupModeVar, SETUP_MODE) <=> Len(vars[PK].data) <= 1)
<1>1. pc = "publish" /\ pc \in Calling /\ pc # "PK" /\ pc # "SetupMode"
  BY DEF Publish, Calling
<1>2. /\ vars[SetupModeVar].data = <<SetupMode>>
      /\ vars[SecureBootVar].data = <<SecureBootMode>>
      /\ vars[CustomModeVar].data = <<STANDARD_SECURE_BOOT_MODE>>
      /\ SetupMode = USER_MODE => vars[SecureBootEnableVar].data = <<SecureBootEnable>>
      /\ SetupMode # USER_MODE => SecureBootEnable = SECURE_BOOT_DISABLE
  BY <1>1 DEF InvI, ModeWritten, StateWritten, EnableSettled, Holds
<1>3. \A x, y : <<x>> = <<y>> <=> x = y
  BY Singletons
<1>4. SetupMode = 0 \/ SetupMode = 1
  BY DEF InvI, TypeOKI, SETUP_MODE, USER_MODE
<1>5. /\ Holds(SetupModeVar, USER_MODE) <=> SetupMode = 0
      /\ Holds(SetupModeVar, SETUP_MODE) <=> SetupMode = 1
      /\ SetupMode = 0 =>
           (Holds(SecureBootEnableVar, SECURE_BOOT_ENABLE) <=> SecureBootEnable = 1)
  BY <1>2, <1>3 DEF Holds, SETUP_MODE, USER_MODE, SECURE_BOOT_ENABLE
<1>6. /\ Holds(SecureBootVar, SECURE_BOOT_MODE_ENABLE) <=> SecureBootMode = 1
      /\ Holds(SecureBootVar, SECURE_BOOT_MODE_DISABLE) <=> SecureBootMode = 0
      /\ SecureBootMode = IF SecureBootEnable = 1 /\ SetupMode = 0 THEN 1 ELSE 0
  BY <1>2, <1>3 DEF Holds, SecureBootMode, SECURE_BOOT_MODE_ENABLE,
                    SECURE_BOOT_MODE_DISABLE, SECURE_BOOT_ENABLE, USER_MODE
<1>7. /\ SetupMode = 0 => Len(vars[PK].data) > 1
      /\ SetupMode = 1 /\ PK \notin unsure => Len(vars[PK].data) <= 1
  BY <1>1 DEF InvI, ModeRead, USER_MODE
<1>8. /\ Len(vars[PK].data) \in Nat
      /\ vars[PK].data = <<>> => Len(vars[PK].data) = 0
  BY Names, DataLen, EmptyData DEF InvI
<1>9. SetupMode = 0 => Stored(vars, PK)
  <2>1. Len(vars[PK].data) > 1 => Len(vars[PK].data) # 0
    BY <1>8
  <2> QED
    BY <1>7, <1>8, <2>1 DEF Stored
<1>10. PK \notin unsure => (SetupMode = 1 <=> Len(vars[PK].data) <= 1)
  BY <1>4, <1>7, <1>8, Counts
<1> QED
  BY <1>2, <1>5, <1>6, <1>9, <1>10 DEF Holds

(* SecureBoot, SetupMode, SecureBootEnable, the platform key and custom mode
   agree whenever the services are published, for any store an earlier process
   left behind (AuthVarsDxe.c:1055-1206). *)
THEOREM SecureBootStatesAgree == SpecI => SecureBootStateAgrees
<1>1. InvI /\ [NextI]_ivars =>
        [~published /\ published' =>
           /\ Holds(SecureBootVar, SECURE_BOOT_MODE_ENABLE) <=>
                Holds(SetupModeVar, USER_MODE) /\ Holds(SecureBootEnableVar, SECURE_BOOT_ENABLE)
           /\ Holds(SecureBootVar, SECURE_BOOT_MODE_DISABLE) \/ Holds(SecureBootVar, SECURE_BOOT_MODE_ENABLE)
           /\ Holds(SetupModeVar, USER_MODE) => Stored(vars, PK)
           /\ Holds(CustomModeVar, STANDARD_SECURE_BOOT_MODE)]_ivars
  BY PublishingStep, PublishedState
<1> QED
  BY <1>1, InvarianceI, PTL DEF SpecI, SecureBootStateAgrees

(* The mode announced is the one the platform key stands for, unless the key
   could not be read (AuthVarsDxe.c:1081-1118). *)
THEOREM SetupModeFollows == SpecI => SetupModeFollowsPk
<1>1. InvI /\ [NextI]_ivars =>
        [~published /\ published' /\ PK \notin unsure =>
           (Holds(SetupModeVar, SETUP_MODE) <=> Len(vars[PK].data) <= 1)]_ivars
  BY PublishingStep, PublishedState
<1> QED
  BY <1>1, InvarianceI, PTL DEF SpecI, SetupModeFollowsPk

(* No step of an initialization whose read of SecureBootEnable was answered
   changes one of a byte. *)
LEMMA EnableStep ==
  ASSUME InvI, NextI, pc \notin {"running", "context"}, pc' # "context",
         SecureBootEnableVar \notin unsure, Len(vars[SecureBootEnableVar].data) = 1
  PROVE  vars'[SecureBootEnableVar] = vars[SecureBootEnableVar]
<1>1. CASE pc \notin Calling
  <2>1. OpenTaSession \/ Main
    BY <1>1 DEF NextI, Initialize, InitializeContext, ReadPk, WriteSetupMode,
                ReadSecureBootEnable, WriteSecureBootEnable, WriteSecureBoot,
                WriteCustomMode, Publish, Use, RestartI, Calling
  <2> QED
    BY <2>1 DEF OpenTaSession, Main
<1>2. CASE pc \in Calling
  <2>1. ASSUME NEW v \in Var, NEW attrs \in SUBSET Attribute, NEW byte \in Tag, NEW next,
               attrs # {}, "AP" \notin attrs, Write(v, attrs, byte, next),
               v # SecureBootEnableVar
        PROVE  vars'[SecureBootEnableVar] = vars[SecureBootEnableVar]
    <3>1. \/ vars' = [vars EXCEPT ![v] = [attrs |-> attrs, data |-> <<byte>>]]
          \/ vars' = vars
      BY <1>2, <2>1, WriteCall
    <3> QED
      BY <2>1, <3>1, Names DEF InvI, TypeOKI, TypeOK
  <2>2. /\ {"BS", "RT"} \in SUBSET Attribute /\ {"BS", "RT"} # {} /\ "AP" \notin {"BS", "RT"}
        /\ {"NV", "BS"} \in SUBSET Attribute /\ {"NV", "BS"} # {} /\ "AP" \notin {"NV", "BS"}
    BY DEF Attribute
  <2>3. ASSUME WriteSetupMode
        PROVE  vars'[SecureBootEnableVar] = vars[SecureBootEnableVar]
    <3>1. Write(SetupModeVar, {"BS", "RT"}, SetupMode, "SecureBootEnable?")
      BY <2>3 DEF WriteSetupMode
    <3>2. SetupMode \in Tag /\ SetupModeVar # SecureBootEnableVar /\ SetupModeVar \in Var
      BY Names, InitAssumption DEF InvI, TypeOKI, SETUP_MODE, USER_MODE
    <3> QED
      BY <2>1, <2>2, <3>1, <3>2
  <2>4. ASSUME WriteSecureBoot
        PROVE  vars'[SecureBootEnableVar] = vars[SecureBootEnableVar]
    <3>1. Write(SecureBootVar, {"BS", "RT"}, SecureBootMode, "CustomMode")
      BY <2>4 DEF WriteSecureBoot
    <3>2. SecureBootMode \in Tag /\ SecureBootVar # SecureBootEnableVar /\ SecureBootVar \in Var
      BY Names, InitAssumption
      DEF SecureBootMode, SECURE_BOOT_MODE_ENABLE, SECURE_BOOT_MODE_DISABLE
    <3> QED
      BY <2>1, <2>2, <3>1, <3>2
  <2>5. ASSUME WriteCustomMode
        PROVE  vars'[SecureBootEnableVar] = vars[SecureBootEnableVar]
    <3>1. Write(CustomModeVar, {"NV", "BS"}, STANDARD_SECURE_BOOT_MODE, "publish")
      BY <2>5 DEF WriteCustomMode
    <3>2. /\ STANDARD_SECURE_BOOT_MODE \in Tag
          /\ CustomModeVar # SecureBootEnableVar /\ CustomModeVar \in Var
      BY Names, InitAssumption DEF STANDARD_SECURE_BOOT_MODE
    <3> QED
      BY <2>1, <2>2, <3>1, <3>2
  <2>6. ASSUME WriteSecureBootEnable PROVE FALSE
    BY <2>6 DEF InvI, EnableSettled, WriteSecureBootEnable
  <2>7. ASSUME ReadPk \/ ReadSecureBootEnable PROVE vars' = vars
    <3>1. PICK v \in {PK, SecureBootEnableVar} : Read(v)
      BY <2>7 DEF ReadPk, ReadSecureBootEnable
    <3> QED
      BY <1>2, <3>1, ReadCall
  <2>8. ASSUME Publish PROVE vars' = vars
    BY <2>8 DEF Publish, dvars
  <2>9. ~InitializeContext /\ ~OpenTaSession /\ ~Main /\ ~Use /\ ~RestartI
    BY <1>2 DEF InitializeContext, OpenTaSession, Main, Use, RestartI, Calling
  <2> QED
    BY <2>3, <2>4, <2>5, <2>6, <2>7, <2>8, <2>9 DEF NextI, Initialize
<1> QED
  BY <1>1, <1>2

(* SecureBootEnable of the size the driver writes is the user's: no start whose
   read of it was answered changes it (AuthVarsDxe.c:1120-1160). *)
THEOREM EnableKept == SpecI => EnableIsKept
<1>1. InvI /\ [NextI]_ivars =>
        [pc \notin {"running", "context"} /\ SecureBootEnableVar \notin unsure
         /\ Len(vars[SecureBootEnableVar].data) = 1 /\ pc' # "context"
         => vars'[SecureBootEnableVar] = vars[SecureBootEnableVar]]_ivars
  BY EnableStep
<1> QED
  BY <1>1, InvarianceI, PTL DEF SpecI, EnableIsKept
=============================================================================
