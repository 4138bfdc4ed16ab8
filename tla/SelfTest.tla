------------------------------- MODULE SelfTest -------------------------------
(***************************************************************************)
(* A run of the functional tests: the harness (edk2_test_harness/EdkTest.h) *)
(* with the module's setup and cleanup (AuthVarTest.c) over the variable    *)
(* service.  A call may fail though it should not, an allocation may fail,  *)
(* and the process may die between any two steps; the store outlives it and *)
(* is what the next run finds.                                              *)
(***************************************************************************)
EXTENDS VariableService, TestScripts

CONSTANTS
  PK,                \* the platform key
  TEST_METADATA_MAX,
  Capacity,          \* units of data the TA keeps, for each kind of storage
  MaxRun,            \* bounds: the runs,
  MaxTrouble         \*   and the failures and crashes in all of them

ASSUME SelfTestAssumption ==
  /\ IsFiniteSet(Var)
  /\ PK \in Var \ (Persistent \union Transient)
  /\ TEST_METADATA_MAX \in Nat
  /\ Capacity \in Nat \ {0}
  /\ {MaxRun, MaxTrouble} \subseteq Nat

VARIABLES
  phase,    \* what of the process runs: "off", "module", "body", "cleanup",
            \* "ended" or "refused"
  test,     \* TestIdx + 1
  pc,       \* the step of the test
  local,    \* what the test measured
  live,     \* the global buffer pointers that are not NULL
  lost,     \* those that were overwritten while they held a buffer
  TestPassedCount, TestFailedCount,
  faults,   \* where something failed that should not have: in the setup of
            \* the module, the cleanup ahead of this test, or its body
  before,   \* the store when the test began
  runs, troubles

context == <<TestPassedCount, TestFailedCount>>
ghosts == <<faults, before, runs, troubles>>
tvars == <<svars, phase, test, pc, local, live, lost, context, ghosts>>

NoMeasure == [space |-> 0, max |-> 0]

(* RegisterTestFunc_ for each of the tests: those beyond the table are left
   out. *)
TestMetadataCount ==
  IF Len(TestFunc) <= TEST_METADATA_MAX THEN Len(TestFunc) ELSE TEST_METADATA_MAX

(* A store before the tests were ever run, secure boot provisioned or not. *)
InitT ==
  /\ store \in {[v \in Var |-> Absent],
                [v \in Var |-> IF v = PK THEN [attrs |-> BaseAttributes, data |-> Bytes(Baked, 1)]
                               ELSE Absent]}
  /\ reply = NoAnswer
  /\ phase = "off"
  /\ test = 0 /\ pc = 0 /\ local = NoMeasure
  /\ live = {} /\ lost = {}
  /\ TestPassedCount = 0 /\ TestFailedCount = 0
  /\ faults = {} /\ before = store
  /\ runs = 0 /\ troubles = 0

----------------------------------------------------------------------------
(* The TA's accounts, and what it answers to a write if nothing goes wrong. *)

InArea(s, attrs) == {v \in Var : Stored(s, v) /\ ("NV" \in s[v].attrs <=> "NV" \in attrs)}
Space(s, attrs) == Capacity - MapThenSumSet(LAMBDA v : Len(s[v].data), InArea(s, attrs))
Largest(s, attrs) == Max({Len(s[v].data) : v \in InArea(s, attrs)} \union {0})

Due(v, attrs, data) ==
  LET after == [store EXCEPT ![v] = Written(@, attrs, data)]
      authenticated == v \in ToSet(mSecureBootVariables)
  IN  IF IsDelete(attrs, data) /\ ~Stored(store, v) THEN {"NOT_FOUND"}
      ELSE IF authenticated /\ data[1] = Garbage THEN {"SECURITY_VIOLATION"}
      ELSE IF Space(after, after[v].attrs) < 0 THEN {"OUT_OF_RESOURCES"}
      ELSE IF authenticated /\ Stored(store, PK) THEN {"SUCCESS", "SECURITY_VIOLATION"}
      ELSE {"SUCCESS"}

(* A call or an allocation fails though it should not: wrong, at a place. *)
Fault(wrong, place) ==
  /\ wrong => troubles < MaxTrouble
  /\ troubles' = IF wrong THEN troubles + 1 ELSE troubles
  /\ faults' = IF wrong THEN faults \union {place} ELSE faults

Write(v, attrs, data, place) ==
  /\ SetVariable(v, attrs, data)
  /\ reply'.status \in Due(v, attrs, data) \union Failure
  /\ Fault(reply'.status \notin Due(v, attrs, data), place)

Read(v, room, place) ==
  /\ GetVariable(v, room)
  /\ Fault(reply'.status \in Failure, place)

----------------------------------------------------------------------------
(* UefiMain and RunModule_. *)

(* The process is started, on the same machine or after a reboot. *)
UefiMain ==
  /\ phase \in {"off", "ended", "refused"}
  /\ runs < MaxRun
  /\ Restart
  /\ phase' = "module"
  /\ test' = 0 /\ pc' = 0 /\ local' = NoMeasure
  /\ live' = {} /\ lost' = {}
  /\ TestPassedCount' = 0 /\ TestFailedCount' = 0
  /\ faults' = {} /\ before' = store'
  /\ runs' = runs + 1
  /\ UNCHANGED troubles

(* RunTestFunc_ is entered; TestSetup has nothing to do and never fails. *)
Enter(i) ==
  /\ phase' = "body"
  /\ test' = i
  /\ pc' = 1
  /\ local' = NoMeasure
  /\ before' = store'

(* Mutant: the platform key counts as present if it can be read. *)
ModuleSetupSucceeds == reply'.status # "SUCCESS"

(* ModuleSetup: a platform key for which a buffer of no size is too small. *)
ModuleSetup == reply'.status # "BUFFER_TOO_SMALL"

(* The tests are counted, the module is set up, and the first test begins. *)
RunModule ==
  /\ phase = "module"
  /\ IF TestMetadataCount >= TEST_METADATA_MAX
     THEN /\ phase' = "refused"
          /\ UNCHANGED <<svars, test, pc, local, before, faults, troubles>>
     ELSE /\ Read(PK, 0, "setup")
          /\ IF ModuleSetup
             THEN Enter(1)
             ELSE phase' = "refused" /\ UNCHANGED <<test, pc, local, before>>
  /\ UNCHANGED <<live, lost, context, runs>>

----------------------------------------------------------------------------
(* The body of a test, one step at a time. *)

Advance(n) == pc' = pc + n /\ UNCHANGED <<phase, TestFailedCount>>

(* A verification fails: TEST_TRHOW_ jumps to the catch of RunTestFunc_. *)
Throw ==
  /\ phase' = "cleanup"
  /\ TestFailedCount' = TestFailedCount + 1
  /\ UNCHANGED pc

Verify(condition) == IF condition THEN Advance(1) ELSE Throw

(* An assignment to one of the global pointers. *)
Assign(b, allocated) ==
  /\ live' = IF allocated THEN live \union {b} ELSE live \ {b}
  /\ lost' = IF b \in live THEN lost \union {b} ELSE lost

DoAllocate(step) ==
  /\ step.op = "Allocate"
  /\ \E allocated \in BOOLEAN :
       /\ Assign(step.buffer, allocated)
       /\ Fault(~allocated, "body")
       /\ Verify(allocated)
  /\ UNCHANGED svars

DoRelease(step) ==
  /\ step.op = "Release"
  /\ live' = live \ {step.buffer}
  /\ Advance(1)
  /\ UNCHANGED <<svars, lost, faults, troubles>>

DoVerifyBuffer(step) ==
  /\ step.op = "VerifyBuffer"
  /\ Verify(step.buffer \in live <=> step.there)
  /\ UNCHANGED <<svars, live, lost, faults, troubles>>

DoSet(step) ==
  /\ step.op = "Set"
  /\ Write(step.var, step.attrs, step.data, "body")
  /\ Verify(reply'.status = step.status)
  /\ UNCHANGED <<live, lost>>

(* The driver answers this itself. *)
DoSetNameless(step) ==
  /\ step.op = "SetNameless"
  /\ Refuse /\ reply'.op = "Set" /\ reply'.status = "INVALID_PARAMETER"
  /\ Verify(reply'.status = step.status)
  /\ UNCHANGED <<live, lost, faults, troubles>>

DoGet(step) ==
  /\ step.op = "Get"
  /\ Read(step.var, step.room, "body")
  /\ Verify(/\ reply'.status = step.status
            /\ "attrs" \in step.verified => reply'.attrs = step.attrs
            /\ "size" \in step.verified => reply'.size = Len(step.data)
            /\ "data" \in step.verified => reply'.data = step.data)
  /\ UNCHANGED <<live, lost>>

DoSkipIfAbsent(step) ==
  /\ step.op = "SkipIfAbsent"
  /\ Read(step.var, 0, "body")
  /\ IF reply'.status = "NOT_FOUND"
     THEN Advance(1 + step.skip)
     ELSE Verify(reply'.status = "BUFFER_TOO_SMALL")
  /\ UNCHANGED <<live, lost>>

(* VerifyVariableEnumerable (module VariableEnumeration) as a whole: it tells
   whether the variable is stored, or throws; only a loop that ended as expected
   frees its buffer, and a reallocation that fails frees it too. *)
DoEnumerate(step) ==
  /\ step.op = "Enumerate"
  /\ \E outcome \in {"told", "thrown", "nomem"} :
       LET fine == outcome = "told" /\ (Stored(store, step.var) <=> step.found) IN
       /\ Assign("mEnumVariableName", ~fine /\ outcome # "nomem")
       /\ Fault(outcome # "told", "body")
       /\ Verify(fine)
  /\ UNCHANGED svars

DoQuery(step) ==
  /\ step.op = "Query"
  /\ QueryVariableInfo
  /\ Fault(reply'.status # "SUCCESS", "body")
  /\ LET now == [space |-> Space(store, step.attrs), max |-> Largest(store, step.attrs)] IN
     /\ local' = IF step.verified = "measured" /\ reply'.status = "SUCCESS" THEN now ELSE local
     /\ Verify(/\ reply'.status = "SUCCESS"
               /\ step.verified = "larger" =>
                    /\ now.space <= Minus(local.space, LargerVariableSize(local))
                    /\ now.max > local.max
               /\ step.verified = "full" => now.space < OverflowSize)
  /\ UNCHANGED <<live, lost>>

Body ==
  /\ phase = "body"
  /\ LET script == Script(TestFunc[test], local)
         step == script[pc] IN
     /\ pc <= Len(script)
     /\ \/ DoAllocate(step) \/ DoRelease(step) \/ DoVerifyBuffer(step)
        \/ DoSet(step) \/ DoSetNameless(step)
        \/ DoGet(step) \/ DoSkipIfAbsent(step)
        \/ DoEnumerate(step)
        \/ DoQuery(step)
     /\ step.op # "Query" => UNCHANGED local
  /\ UNCHANGED <<test, TestPassedCount, before, runs>>

(* The body returns. *)
Return ==
  /\ phase = "body"
  /\ pc > Len(Script(TestFunc[test], local))
  /\ phase' = "cleanup"
  /\ TestPassedCount' = TestPassedCount + 1
  /\ UNCHANGED <<svars, test, pc, local, live, lost, TestFailedCount, ghosts>>

----------------------------------------------------------------------------
(* RunTestFunc_ calls TestCleanup, and RunModule_ goes on with the next test or
   ends with its summary. *)
NextTest ==
  IF test < TestMetadataCount
  THEN Enter(test + 1)
  ELSE phase' = "ended" /\ UNCHANGED <<test, pc, local, before>>

(* What TestCleanup frees; mutant: it forgets a pointer. *)
FreedButActual == {"mImageData", "mEnumVariableName"}
Freed == {"mImageData", "mActualImageData", "mEnumVariableName"}

(* Mutants: the cleanup verifies its call, which jumps to the catch of the test
   that is over; it leaves the overflow variable alone. *)
TestCleanupVerified ==
  /\ phase = "cleanup"
  /\ live' = live \ Freed
  /\ faults' = faults \ {"body", "cleanup"} /\ UNCHANGED troubles
  /\ SetVariable(QueryOverflowVariableName1, {}, <<>>)
  /\ IF reply'.status = "SUCCESS"
     THEN NextTest /\ UNCHANGED TestFailedCount
     ELSE Throw /\ UNCHANGED <<test, local, before>>
  /\ UNCHANGED <<lost, TestPassedCount, runs>>

TestCleanupBuffers ==
  /\ phase = "cleanup"
  /\ live' = live \ Freed
  /\ faults' = faults \ {"body", "cleanup"}
  /\ UNCHANGED <<svars, troubles>>
  /\ NextTest
  /\ UNCHANGED <<lost, context, runs>>

(* The buffers are freed and the overflow variable is deleted, whatever the
   answer. *)
TestCleanup ==
  /\ phase = "cleanup"
  /\ live' = live \ Freed
  /\ \E status \in Due(QueryOverflowVariableName1, {}, <<>>) \union Failure :
       LET wrong == status \notin Due(QueryOverflowVariableName1, {}, <<>>) IN
       /\ SetVariable(QueryOverflowVariableName1, {}, <<>>) /\ reply'.status = status
       /\ wrong => troubles < MaxTrouble
       /\ troubles' = IF wrong THEN troubles + 1 ELSE troubles
       /\ faults' = (faults \ {"body", "cleanup"}) \union IF wrong THEN {"cleanup"} ELSE {}
  /\ NextTest
  /\ UNCHANGED <<lost, context, runs>>

(* The process dies or the machine reboots in the middle of a run. *)
Crash ==
  /\ phase \in {"module", "body", "cleanup"}
  /\ troubles < MaxTrouble
  /\ troubles' = troubles + 1
  /\ Restart
  /\ phase' = "off"
  /\ live' = {} /\ lost' = {}
  /\ UNCHANGED <<test, pc, local, context, faults, before, runs>>

NextT == UefiMain \/ RunModule \/ Body \/ Return \/ TestCleanup \/ Crash

SpecT == InitT /\ [][NextT]_tvars

----------------------------------------------------------------------------
(* Properties. *)

(* The variables keep to their types; every byte a test writes is one of the
   known ones. *)
TypeOKT ==
  /\ store \in [Var -> Entry]
  /\ phase \in {"off", "module", "body", "cleanup", "ended", "refused"}
  /\ test \in 0..TestMetadataCount
  /\ pc \in Nat
  /\ local \in [space : Nat, max : Nat]
  /\ live \subseteq Freed /\ lost \subseteq Freed
  /\ {TestPassedCount, TestFailedCount} \subseteq 0..TestMetadataCount
  /\ faults \subseteq {"setup", "body", "cleanup"}
  /\ runs \in 0..MaxRun /\ troubles \in 0..MaxTrouble

(* AuthVarTest.c:637, "Indicate that all writes succeeded": at every moment,
   within a run, after a failure or a crash, the flag is in the store only with
   all three variables as the next run will check them. *)
FlagMeansWritten ==
  Stored(store, PersistanceTestFlag) =>
    \A i \in 1..3 :
      store[Persisted[i].var] = [attrs |-> BaseAttributes, data |-> Persisted[i].data]

(* No jump out of a test loses a buffer: none of the global pointers is
   overwritten while it holds one, and every test begins with all of them NULL. *)
BuffersReleased ==
  /\ lost = {}
  /\ phase = "body" /\ pc = 1 => live = {}

(* Every test that was begun is counted once, as passed or as failed. *)
SummaryAddsUp ==
  TestPassedCount + TestFailedCount =
    CASE phase \in {"cleanup", "ended"} -> test
      [] phase = "body" -> test - 1
      [] phase = "off" -> TestPassedCount + TestFailedCount
      [] OTHER -> 0

(* The variables a test expects to be absent, or measures, when it begins. *)
Residue(func) ==
  CASE func = "TestValidNonVolatileVars" -> ToSet(SizedVariable)
    [] func = "VerifyNameHandling"       -> ToSet(TestVariableNameList)
    [] func = "VerifyQuery"              -> {QueryVariableName}
    [] func = "TestValidAuthVars"        -> ToSet(mSecureBootVariables)
    [] OTHER                             -> {}

(* Tests do not break each other: one fails only if a call or an allocation
   failed in it, if a run that was cut short in the same test left a variable of
   its own, if the overflow variable outlived a run or the cleanup that should
   have deleted it, or on a machine whose platform key could not be read.  The
   persistence test is without residue: once it fails for want of a true fault,
   "a subsequent run will reset the values" (AuthVarTest.c:421). *)
FailuresHaveCause ==
  [][TestFailedCount' > TestFailedCount =>
       \/ "body" \in faults'
       \/ \E v \in Residue(TestFunc[test]) : Stored(before, v)
       \/ /\ Stored(before, QueryOverflowVariableName1)
          /\ test = 1 \/ "cleanup" \in faults
       \/ Stored(before, PK)]_tvars

(* What a passed test may have changed, and the variables it leaves. *)
Kept(func) ==
  IF func = "VerifyAppendShrinkReplacePersist"
  THEN {PersistanceTestFlag} \union {Persisted[i].var : i \in 1..3} ELSE {}
Deleted(func) ==
  Residue(func) \union
  CASE func = "VerifyNameHandling" -> {NameTestVariable, LongString}
    [] func = "VerifyOverflow"     -> {QueryOverflowVariableName1, QueryOverflowVariableName2}
    [] OTHER                       -> {}

(* A test that passes leaves the store as it found it, but for the persistent
   variables, which are there with the flag, and its own, which are gone. *)
PassedIsClean ==
  [][TestPassedCount' > TestPassedCount =>
       \A v \in Var :
         IF v \in Kept(TestFunc[test]) THEN Stored(store, v)
         ELSE IF v \in Deleted(TestFunc[test]) THEN ~Stored(store, v)
         ELSE store[v] = before[v]]_tvars

(* AuthVarTest.c:1232: no test runs on a machine with a platform key, so that its
   configuration is kept, unless the key could not be asked for. *)
ProvisionedKept ==
  phase \in {"body", "cleanup", "ended"} /\ Stored(store, PK) => "setup" \in faults

(* EdkTest.h:49, "Support up-to 32 test function per module": a module whose
   tests fit the table is run. *)
RegisteredTestsRun ==
  phase = "refused" => Len(TestFunc) > TEST_METADATA_MAX \/ Stored(store, PK)
=============================================================================
