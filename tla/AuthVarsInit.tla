---------------------------- MODULE AuthVarsInit ----------------------------
(***************************************************************************)
(* The start of the driver: VariableAuthOpteeRuntimeInitialize and          *)
(* InitSecureBootVariables in AuthVarsDxe.c, one action per call they make  *)
(* on the TEE, and the program that runs on (authvars_test/host/main.c).    *)
(* Every call may fail, and the process or the machine may stop between any *)
(* two of them; what was written by then stays written.                     *)
(***************************************************************************)
EXTENDS AuthVarsDxe

CONSTANTS
  PK, SetupModeVar, SecureBootEnableVar, SecureBootVar, CustomModeVar,
  PcdSecureBootEnable  \* the byte written for that PCD, FALSE in uefi_globals.c

SETUP_MODE == 1
USER_MODE == 0
SECURE_BOOT_ENABLE == 1
SECURE_BOOT_DISABLE == 0
SECURE_BOOT_MODE_ENABLE == 1
SECURE_BOOT_MODE_DISABLE == 0
STANDARD_SECURE_BOOT_MODE == 0

(* Five variables with names of their own. *)
ASSUME InitAssumption ==
  /\ {PK, SetupModeVar, SecureBootEnableVar, SecureBootVar, CustomModeVar} \subseteq Var
  /\ PK \notin {SetupModeVar, SecureBootEnableVar, SecureBootVar, CustomModeVar}
  /\ SetupModeVar \notin {SecureBootEnableVar, SecureBootVar, CustomModeVar}
  /\ SecureBootEnableVar \notin {SecureBootVar, CustomModeVar}
  /\ SecureBootVar # CustomModeVar
  /\ {0, 1} \subseteq Tag
  /\ PcdSecureBootEnable \in {SECURE_BOOT_ENABLE, SECURE_BOOT_DISABLE}

VARIABLES
  pc,                \* the call the initialization makes next
  Status,            \* what VariableAuthOpteeRuntimeInitialize returns
  SetupMode,
  SecureBootEnable,
  published,         \* gRT holds the four services
  unsure             \* the variables whose read failed for another reason than
                     \* their absence, during this initialization

locals == <<SetupMode, SecureBootEnable>>
ivars == <<dvars, pc, Status, locals, published, unsure>>

InitI ==
  /\ Init
  /\ pc = "context"
  /\ Status = "garbage"
  /\ SetupMode = SETUP_MODE
  /\ SecureBootEnable = SECURE_BOOT_DISABLE
  /\ published = FALSE
  /\ unsure = {}

Return(status) ==
  /\ pc' = "returned"
  /\ Status' = status

Goto(next) ==
  /\ pc' = next
  /\ UNCHANGED Status

(* One write of InitSecureBootVariables, which ends it when it fails. *)
Write(v, attrs, byte, next) ==
  /\ OpteeRuntimeSetVariable(v, "None", attrs, 1, byte)
  /\ IF ret'.status = "SUCCESS" THEN Goto(next) ELSE Return(ret'.status)
  /\ UNCHANGED <<locals, published, unsure>>

(* One read, with a buffer of one byte. *)
Read(v) ==
  /\ OpteeRuntimeGetVariable(v, "None", 1)
  /\ unsure' = IF ret'.status \in {"SUCCESS", "NOT_FOUND", "BUFFER_TOO_SMALL"}
               THEN unsure ELSE unsure \union {v}

----------------------------------------------------------------------------
(* TEEC_InitializeContext: when it fails, Status has not been assigned yet, and
   what is returned is whatever the stack holds. *)
InitializeContext ==
  /\ pc = "context"
  /\ \/ Goto("session")
     \/ \E garbage \in {"SUCCESS", "PROTOCOL_ERROR"} : Return(garbage)
  /\ UNCHANGED <<dvars, locals, published, unsure>>

OpenTaSession ==
  /\ pc = "session"
  /\ \E status \in {"PROTOCOL_ERROR", "OUT_OF_RESOURCES", "SUCCESS"} :
       /\ TaOpenSession(status)
       /\ IF status = "SUCCESS" THEN Goto("PK") ELSE Return(status)
  /\ UNCHANGED <<vars, proc, ret, io, locals, published, unsure>>

(* Mutants: the size read is kept for the mode; success is taken for a key. *)
ReadPkSize ==
  /\ pc = "PK"
  /\ Read(PK)
  /\ SetupMode' = ret'.size
  /\ Goto("SetupMode")
  /\ UNCHANGED <<SecureBootEnable, published>>

ReadPkSuccess ==
  /\ pc = "PK"
  /\ Read(PK)
  /\ SetupMode' = IF ret'.status = "SUCCESS" THEN USER_MODE ELSE SETUP_MODE
  /\ Goto("SetupMode")
  /\ UNCHANGED <<SecureBootEnable, published>>

(* A platform key is present if it does not fit one byte. *)
ReadPk ==
  /\ pc = "PK"
  /\ Read(PK)
  /\ SetupMode' = IF ret'.status = "BUFFER_TOO_SMALL" THEN USER_MODE ELSE SETUP_MODE
  /\ Goto("SetupMode")
  /\ UNCHANGED <<SecureBootEnable, published>>

WriteSetupMode ==
  /\ pc = "SetupMode"
  /\ Write(SetupModeVar, {"BS", "RT"}, SetupMode, "SecureBootEnable?")

(* Mutant: user mode sets SecureBootEnable up, whatever was read. *)
ReadSecureBootEnableAnew ==
  /\ pc = "SecureBootEnable?"
  /\ Read(SecureBootEnableVar)
  /\ SecureBootEnable' =
       IF SetupMode # USER_MODE THEN SECURE_BOOT_DISABLE ELSE PcdSecureBootEnable
  /\ Goto(IF SetupMode = USER_MODE THEN "SecureBootEnable" ELSE "SecureBoot")
  /\ UNCHANGED <<SetupMode, published>>

(* SecureBootEnable is taken over in user mode; any error sets it up anew. *)
ReadSecureBootEnable ==
  /\ pc = "SecureBootEnable?"
  /\ Read(SecureBootEnableVar)
  /\ SecureBootEnable' =
       IF SetupMode # USER_MODE THEN SECURE_BOOT_DISABLE
       ELSE IF ret'.status = "SUCCESS" THEN ret'.data[1]
       ELSE PcdSecureBootEnable
  /\ Goto(IF ret'.status # "SUCCESS" /\ SetupMode = USER_MODE
          THEN "SecureBootEnable" ELSE "SecureBoot")
  /\ UNCHANGED <<SetupMode, published>>

WriteSecureBootEnable ==
  /\ pc = "SecureBootEnable"
  /\ Write(SecureBootEnableVar, {"NV", "BS"}, SecureBootEnable, "SecureBoot")

(* Mutant: SecureBootEnable is not looked at. *)
SecureBootModeOfSetup ==
  IF SetupMode = USER_MODE THEN SECURE_BOOT_MODE_ENABLE ELSE SECURE_BOOT_MODE_DISABLE

SecureBootMode ==
  IF SecureBootEnable = SECURE_BOOT_ENABLE /\ SetupMode = USER_MODE
  THEN SECURE_BOOT_MODE_ENABLE
  ELSE SECURE_BOOT_MODE_DISABLE

WriteSecureBoot ==
  /\ pc = "SecureBoot"
  /\ Write(SecureBootVar, {"BS", "RT"}, SecureBootMode, "CustomMode")

WriteCustomMode ==
  /\ pc = "CustomMode"
  /\ Write(CustomModeVar, {"NV", "BS"}, STANDARD_SECURE_BOOT_MODE, "publish")

Publish ==
  /\ pc = "publish"
  /\ published' = TRUE
  /\ Return("SUCCESS")
  /\ UNCHANGED <<dvars, locals, unsure>>

Initialize ==
  \/ InitializeContext \/ OpenTaSession
  \/ ReadPk \/ WriteSetupMode
  \/ ReadSecureBootEnable \/ WriteSecureBootEnable
  \/ WriteSecureBoot \/ WriteCustomMode
  \/ Publish

----------------------------------------------------------------------------
(* The variables that describe the boot are read-only for its users
   (uefi_globals.h, "Should be treated as read-only"). *)
ReadOnlyVar == {SetupModeVar, SecureBootVar}

(* main gives up on an error; on success it runs a command, which calls the
   driver, or the tests, which call it through gRT. *)
Main ==
  /\ pc = "returned"
  /\ \/ /\ Status = "SUCCESS"
        /\ pc' = "running" /\ proc' = "up"
     \/ /\ Status # "SUCCESS"
        /\ pc' = "exited" /\ proc' = "gone"
  /\ UNCHANGED <<vars, session, buffers, ret, io, Status, locals, published, unsure>>

Use ==
  /\ pc = "running" /\ proc = "up"
  /\ \/ \E v \in Var \ ReadOnlyVar, attrs \in AttrSet, size \in Size, tag \in Tag :
          OpteeRuntimeSetVariable(v, "None", attrs, size, tag)
     \/ /\ ~published
        /\ proc' = "crashed"
        /\ UNCHANGED <<vars, session, buffers, ret, io>>
  /\ UNCHANGED <<pc, Status, locals, published, unsure>>

(* The process ends or is stopped at any point and is started again, on the
   same machine or after a reboot. *)
RestartI ==
  /\ Restart
  /\ pc' = "context"
  /\ Status' = "garbage"
  /\ SetupMode' = SETUP_MODE
  /\ SecureBootEnable' = SECURE_BOOT_DISABLE
  /\ published' = FALSE
  /\ unsure' = {}

NextI == Initialize \/ Main \/ Use \/ RestartI

SpecI == InitI /\ [][NextI]_ivars

----------------------------------------------------------------------------
(* Properties. *)

Holds(v, byte) == vars[v].data = <<byte>>

(* The variables of the initialization keep to their values. *)
TypeOKI ==
  /\ TypeOK
  /\ pc \in {"context", "session", "PK", "SetupMode", "SecureBootEnable?",
             "SecureBootEnable", "SecureBoot", "CustomMode", "publish",
             "returned", "running", "exited"}
  /\ SetupMode \in {SETUP_MODE, USER_MODE}
  /\ SecureBootEnable \in Tag
  /\ published \in BOOLEAN
  /\ unsure \subseteq {PK, SecureBootEnableVar}

(* When the services are published the TEE has a session for them and both
   buffers are there, whichever step of an earlier attempt had failed. *)
PublishedIsUsable ==
  published => /\ mTeecSessionOpened /\ live # NoSession
               /\ mTeecSession \in SessionId
               /\ ~NoBuffers

(* At the moment the services are published, whatever failed or was cut short
   before: SecureBoot is on exactly in user mode with SecureBootEnable on, user
   mode means that a platform key is stored, and custom mode is off. *)
SecureBootStateAgrees ==
  [][~published /\ published' =>
       /\ Holds(SecureBootVar, SECURE_BOOT_MODE_ENABLE) <=>
            Holds(SetupModeVar, USER_MODE) /\ Holds(SecureBootEnableVar, SECURE_BOOT_ENABLE)
       /\ Holds(SecureBootVar, SECURE_BOOT_MODE_DISABLE) \/ Holds(SecureBootVar, SECURE_BOOT_MODE_ENABLE)
       /\ Holds(SetupModeVar, USER_MODE) => Stored(vars, PK)
       /\ Holds(CustomModeVar, STANDARD_SECURE_BOOT_MODE)]_ivars

(* Setup mode, in which no platform key protects the others, is announced with
   a multi-byte platform key in the store only if the key could not be read. *)
SetupModeFollowsPk ==
  [][~published /\ published' /\ PK \notin unsure =>
       (Holds(SetupModeVar, SETUP_MODE) <=> Len(vars[PK].data) <= 1)]_ivars

(* SecureBootEnable is the user's: an initialization whose reads were answered
   does not change one of the size the driver writes. *)
EnableIsKept ==
  [][pc \notin {"running", "context"} /\ SecureBootEnableVar \notin unsure
     /\ Len(vars[SecureBootEnableVar].data) = 1 /\ pc' # "context"
     => vars'[SecureBootEnableVar] = vars[SecureBootEnableVar]]_ivars

(* AuthVarsDxe.c:1505, "@retval EFI_SUCCESS Variable service successfully
   initialized". *)
SuccessMeansPublished == pc = "returned" /\ Status = "SUCCESS" => published

(* AuthVarsDxe.c:1147, the initialization writes SecureBootEnable because
   "SecureBootEnable" not exist. *)
EnableWrittenIfAbsent ==
  pc = "SecureBootEnable" => ~Stored(vars, SecureBootEnableVar)
=============================================================================
