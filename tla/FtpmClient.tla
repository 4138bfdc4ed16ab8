----------------------------- MODULE FtpmClient -----------------------------
(***************************************************************************)
(* The fTPM test client, ftpm_test/host/main.c: twice in a row a context, a *)
(* session with the fTPM TA, one TPM2_SelfTest through a block of shared    *)
(* memory, and everything closed again.  The first call that fails ends the *)
(* process.  What the TEE and the TPM answer is not determined.             *)
(***************************************************************************)
EXTENDS Integers, Sequences

VARIABLES
  cpc,       \* the call the client is at
  context,   \* ctx is initialised
  sess,      \* the session that is open, by number; 0 is none
  opened,    \* sessions opened so far
  shared,    \* blocks of shared memory allocated and not released
  answers,   \* for every self test printed: its session and response code
  exit       \* the exit status, or -1

cvars == <<cpc, context, sess, opened, shared, answers, exit>>

InitC ==
  /\ cpc = "idle"
  /\ context = FALSE
  /\ sess = 0
  /\ opened = 0
  /\ shared = 0
  /\ answers = <<>>
  /\ exit = -1

errx ==
  /\ cpc' = "exit"
  /\ exit' = 1
  /\ UNCHANGED <<context, sess, opened, shared, answers>>

(* A shell starts it. *)
StartClient == cpc = "idle" /\ cpc' = "context"
               /\ UNCHANGED <<context, sess, opened, shared, answers, exit>>

InitializeContext ==
  /\ cpc = "context"
  /\ \/ errx
     \/ /\ context' = TRUE
        /\ cpc' = "session"
        /\ UNCHANGED <<sess, opened, shared, answers, exit>>

OpenSession ==
  /\ cpc = "session"
  /\ \/ errx
     \/ /\ opened' = opened + 1
        /\ sess' = opened'
        /\ cpc' = "allocate"
        /\ UNCHANGED <<context, shared, answers, exit>>

(* selftest.  The block it allocates is released by nobody. *)
AllocateSharedMemory ==
  /\ cpc = "allocate"
  /\ \/ errx
     \/ /\ shared' = shared + 1
        /\ cpc' = "invoke"
        /\ UNCHANGED <<context, sess, opened, answers, exit>>

(* The response code is printed before it is tested. *)
InvokeCommand ==
  /\ cpc = "invoke"
  /\ \/ errx
     \/ /\ \E code \in {0, 1} : answers' = Append(answers, [sess |-> sess, code |-> code])
        /\ cpc' = "check"
        /\ UNCHANGED <<context, sess, opened, shared, exit>>

(* Mutant: the response of the TPM is printed and no more. *)
CheckNothing ==
  /\ cpc = "check"
  /\ cpc' = "close"
  /\ UNCHANGED <<context, sess, opened, shared, answers, exit>>

CheckResponse ==
  /\ cpc = "check"
  /\ IF answers[Len(answers)].code # 0
     THEN errx
     ELSE cpc' = "close" /\ UNCHANGED <<context, sess, opened, shared, answers, exit>>

CloseSession ==
  /\ cpc = "close"
  /\ sess' = 0
  /\ cpc' = "finalize"
  /\ UNCHANGED <<context, opened, shared, answers, exit>>

(* Mutant: main does it over and over. *)
FinalizeAndAgain ==
  /\ cpc = "finalize"
  /\ context' = FALSE
  /\ cpc' = "context"
  /\ UNCHANGED <<sess, opened, shared, answers, exit>>

(* main does it all once more, and returns. *)
FinalizeContext ==
  /\ cpc = "finalize"
  /\ context' = FALSE
  /\ IF opened = 1
     THEN cpc' = "context" /\ UNCHANGED exit
     ELSE cpc' = "exit" /\ exit' = 0
  /\ UNCHANGED <<sess, opened, shared, answers>>

ClientCall == InitializeContext \/ OpenSession \/ AllocateSharedMemory \/ InvokeCommand
              \/ CheckResponse \/ CloseSession \/ FinalizeContext

----------------------------------------------------------------------------
(* Exit status 0 means two self tests have succeeded, in two sessions, the
   first of them closed, with its context, before the second was opened, and
   nothing is left open for the end of the process to close. *)
SelfTestTwice ==
  exit = 0 =>
    /\ answers = <<[sess |-> 1, code |-> 0], [sess |-> 2, code |-> 0]>>
    /\ sess = 0 /\ ~context

TypeC ==
  /\ cpc \in {"idle", "context", "session", "allocate", "invoke", "check", "close",
              "finalize", "exit"}
  /\ context \in BOOLEAN
  /\ opened \in 0 .. 2 /\ sess \in 0 .. opened /\ shared \in 0 .. opened
  /\ answers \in Seq([sess : 1 .. 2, code : {0, 1}]) /\ Len(answers) <= shared
  /\ exit \in {-1, 0, 1}
=============================================================================
