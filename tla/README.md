# A TLA+ model of the authenticated variable driver and its tests

The repository tests two OP-TEE trusted applications (TAs) under QEMU. Its core
is a port of an EDK2 driver, `authvars_test/host/edk2_driver/AuthVarsDxe.c`: the
UEFI variable services, implemented by calls on the Authenticated Variable TA
through the TEE client API. Around it are a start-up sequence that sets the
secure boot variables, a suite of functional tests with a small test harness, and
a command line tool. The other TA, an fTPM, has a small client of its own, and
shell scripts run either program in a guest. This directory models the driver, its
start, the conversion of names, the tests, the tool, the fTPM client and the
scripts; checks them with TLC; and proves with TLAPS, for every value of the
constants, every invariant and every action property of theirs but one, and that
the driver implements its abstract specification.

## 1. Inventory

Paths are under `src/authvars_test/host/` unless they say otherwise.

| Component | Where | State it keeps | Operations | Modelled by |
|---|---|---|---|---|
| Variable services | `edk2_driver/AuthVarsDxe.c` 188-1052, 1432-1495 | session flag and id, two transport buffers and their sizes | GetVariable, GetNextVariableName, SetVariable, QueryVariableInfo, TaOpenSession, OnExitBootServices | `AuthVarsDxe`, promised by `VariableService` |
| Driver start | `AuthVarsDxe.c` 1054-1240, 1500-1620, `edk2/uefi_globals.h` | the five secure boot variables in the TA's store; `gRT` | VariableAuthOpteeRuntimeInitialize, InitSecureBootVariables | `AuthVarsInit` |
| Authenticated Variable TA | not in the repository | the variables | VSGet, VSGetNextVar, VSSet, VSQueryInfo | `AuthVarTA`, `Variables` (external) |
| Enumeration | `edk2_variable_test/AuthVarTest.c` 118-182 | a name buffer that grows | VerifyVariableEnumerable | `VariableEnumeration` |
| Functional tests | `AuthVarTest.c` 184-1322 | variables of the test vendor that outlive the process, three global buffers | seven tests, module setup, test cleanup | `TestScripts`, `SelfTest` |
| Test harness | `edk2_test_harness/EdkTest.h` | registered tests, counters, a jump buffer | register, run, throw, summary | `SelfTest` |
| C library layer | `edk2/uefi_c.c`, `edk2/linux_fixup.c` | none | FixWideString, RestoreWideString; SetMem, StrSize, pools | `WideNames`; operators of `Variables`, `AuthVarsDxe`, `SelfTest` |
| Command line tool | `main.c` | a block of memory, the sizes it was told, per command | get, set, getnext, query, bin, (selftest) | `ToolCommands` |
| fTPM client | `src/ftpm_test/host/main.c` | one context, session and shared block at a time | self test, twice | `FtpmClient` |
| QEMU runners | `src/run_*_test_*.sh` | pipes, logs, child processes and their pids | boot, log in, send the commands, wait for the flag, judge, clean up | `QemuRunner` |
| Build, pipeline | Makefiles, `azure-pipelines.yml` | - | - | no: no state of the running system |

**How they interact.** A caller (tool or test) calls a service through `gRT`. The
service fills the param buffer with a fixed structure, a name and possibly data,
calls `TEEC_InvokeCommand` with the sizes of what it filled and of the room in
the result buffer, maps the TEEC result to an EFI status, and copies from the
result buffer to the caller's. All four services share both buffers and one
session. The store lives in the TA and outlives the process; its volatile part
does not outlive a reboot. A process is single threaded and a call on the TA is
synchronous; between two calls another client of the TA may write. A runner script
starts QEMU, copies its serial ports to logs, types three lines into one of them
(log in; mount; run the test and echo a flag), waits for the flag in the log,
and judges the test by one line of it. It and its background jobs are processes
of their own, and so is the guest.

**What is hard.** In the driver no concurrency, but sizes: three kinds of character
(4-byte, 2-byte, and the TA's), sums of 32-bit sizes that wrap, a 16-bit size field.
Shared buffers that two services clear and two do not. Errors: every call may
fail and most errors are folded into a few statuses. And the store that
survives: a start or a test that is cut short between two writes leaves the
first of them for the next start or test to find. In the tool, reads that take two
calls, of which the second may be answered from another state. In the scripts,
processes held together by `sleep`, and a log that is judged by what it contains.

**What makes each component correct.**
- Services: no buffer is overrun, the TA reads the name that was passed, every
  reply agrees with the store, what was written can be read, and a service
  without session or buffers refuses.
- Start: published services are usable; SecureBoot, SetupMode, SecureBootEnable
  and the platform key agree whatever happened before; the user's
  SecureBootEnable survives.
- Enumeration: it ends, visits every variable once, and tells the truth.
- Tests: a test fails for a reason of its own, a passed test leaves no trace, the
  persistence flag is true, no buffer is lost, the summary adds up.
- Name conversion: it stays within the name; what comes back is what was given, or
  at least names the same variable.
- Tool: what is shown was read and lies in the block; status 0 is true; following
  the printed continuations visits every variable; every command ends.
- fTPM client: status 0 means two successes, one after the other.
- Scripts: a verdict is earned, no job is left behind, the script ends.

## 2. Modules

```
Variables ----- AuthVarTA ----- AuthVarsDxe -+- AuthVarsInit
   |                               |         +- VariableEnumeration
   |                  (implements) |         +- ToolCommands
   +----------- VariableService <--+         +- AuthVarsDxe_proofs
   |                  |
   +- TestScripts ----+- SelfTest -- SelfTest_scripts -- SelfTest_proofs

WideNames -- WideNames_proofs        FtpmClient -- QemuRunner -- QemuRunner_proofs
```

`AuthVarsInit_proofs`, `VariableEnumeration_proofs` and `ToolCommands_proofs` extend
the module they are named after and `AuthVarsDxe_proofs`, whose lemmas on the
services they cite.

**Variables** holds what all share: variables (a name with its GUID is one model
value with a length and a rank), `StrSize` and `ShortSize` (the bytes of a name on
the two sides of `FixWideString`), the store, what a write and a reboot do to it.

**AuthVarTA** is external: per command, the set of replies the driver must be
ready for. The assumptions about the TA are these. A reply is the one the store
determines or a failure that leaves the store alone. A read that does not fit
reports the size it needs and may or may not leave the attributes in the buffer.
Names come in a fixed order, and an enumeration does not go on from a name that
is not stored. A write without append replaces, one without data or attributes
deletes, deleting what is not there is `ITEM_NOT_FOUND`. The TA stores at most
`StoreMax` bytes in a variable. It takes the size of a name to lie between its
2-byte characters and what was declared.

**AuthVarsDxe** translates the driver. A service is one action: all of its
argument tests in the code's order, clearing and filling of buffers, the call,
the reply, the sizes and data handed back. `mVariableParamMem.dirty` says how far
non-zero bytes reach in the param buffer, which is all that matters to a name
that is shorter than it is declared. `io` records the extents of the last call
(bytes filled, declared, room declared, bytes handed to the caller, room the
caller gave) and `ret` the reply. Sizes follow the code's arithmetic: sums are
`% Word`, the name's size field `% HalfWord`. The two test hooks (a variable
named 1 in GUID 1 with 4 bytes reads or sets the session id) are modelled; a
session id the TEE does not have open is answered with an error.
GetNextVariableName called with a NULL size pointer, or SetVariable without
buffers, crashes the process, which is what the code would do. A start that gets no
context leaves the driver as it was and goes on or not, since its status is
unassigned (1514, 1537). Before data or a name is handed back, its size is compared
with the caller's room (`Overflows`; 495, 685: "Shouldn't happen, but..."). That only
matters with a TA that returns more than it was given room for; `OverlongGet` and
`OverlongNext` are such replies, in a specification of their own, `SpecCareless`.

`SetMem (Buffer, Length, 0)` is modelled by what it does: nothing (finding 1).
`OpteeRuntimeFvbAddressChange` and `EfiAtRuntime` are for a firmware at runtime,
which the port never enters (`EfiAtRuntime` is FALSE).

**VariableService** is the abstract specification, after the comments above the
services: a store and a reply. A read hands out the whole variable, or its size,
or says that it does not exist; an enumeration step names the next one; a write
that succeeds is carried out in full, any other changes nothing.

**AuthVarsInit** EXTENDS AuthVarsDxe and makes each call of the start an action,
with `pc` the next one. Reads and writes are the driver's own actions. A restart,
with or without a reboot, may come at any point; afterwards `main` runs and a
user may write any variable but the two that describe the boot (`Use`). The tool calls
the driver directly, so that without a published table it gets NOT_READY; the
self test calls through `gRT` and would crash.

**VariableEnumeration** EXTENDS AuthVarsDxe with the loop of
`VerifyVariableEnumerable`, one action per call and one for the reallocation. The
first allocation may fail, unnoticed, and the call is then refused (`NextNameNull`). It
starts on any store of variables that SetVariable has taken (`SetFits`), each with
the one byte that the test wrote.

**TestScripts** writes the seven tests as sequences of steps (allocate, write,
read and verify, enumerate, query). A loop over a table is unrolled; the two
tests that measure the store first take what they measured as a parameter. The
unit of data is a chunk: the interleaved buffers are told apart chunk by chunk
as the code fills them (a byte counter modulo 256), random and signed data are
one tag each. The lists and names of the tests are constants; that names differ
where they do in `AuthVarTest.c` is an assumption (`TestVariableAssumption`).

**SelfTest** EXTENDS VariableService and TestScripts: the harness runs the steps.
A verification that does not hold jumps to the catch of `RunTestFunc_`. Any call
may fail though it should not, any allocation may fail, and the process may die at
any step; the ghost `faults` remembers where. The TA keeps accounts, one for each
kind of storage: a write that would exceed one is answered with OUT_OF_RESOURCES
(`Due`) whatever else is true of it. The enumeration is one step here:
that it tells whether the variable is stored or throws is what
VariableEnumeration's `FoundIfStored` checks. `TestSetup` returns TRUE, so that
no test is ever skipped and the branch is left out.

**ToolCommands** EXTENDS AuthVarsDxe with `main.c`. A command is a process: the
driver starts (`Main`), the calls of `process_command` follow, one action each,
and the process ends (`Gone`, also for kills and reboots, after which what `block`,
`shown` and `status` held is gone while the store is kept). `get` is two calls,
one for the size and one for the data; `getnext` is a loop of `realloc` and call;
`bin` is a line of three calls that goes on only after EFI_SUCCESS. `OtherClient`
lets somebody else, who has a driver like this one, write at any point between the
calls of a command; the ghost `raced` says that it happened. The ghost `chain` is the list of names that
`getnext` commands have shown when each was given the last one's name, which is
what the tool prints as "Run next". Error exits of `main` are one command line,
"Usage". The writes of the secure boot variables at the start are AuthVarsInit's,
and the self test is SelfTest's; both are left out here.

**WideNames** is `linux_fixup.c` character by character, one turn of a loop a step:
what the other modules take as `ShortSize` of a name. Widths are constants. A
buffer that is used again holds anything behind the name, since nothing clears it.
Both functions are followed by `Again`, an enumeration that goes on with the name
it was handed.

**FtpmClient** has one action per call of `main` and `selftest`; each may fail, and
the first failure ends the process. It has no specification of its own: its guest
runs it. **QemuRunner** EXTENDS it with the script (starting a job and noting its
pid are two commands), the jobs (`cat`, `tail`), QEMU, which may die, and the guest:
boot, login, shell. A line of a log is kept as what the script greps for. A login
at work may drop what is typed ahead, echoed or not; what is typed comes back as an
echo, and the echo of the test command contains the flag. A `tail` may stop
following its log (`TailStalls`): "tail won't update sometimes", as line 91 of the script
has it, which is why its loop reads the log each time round (92). Whether such a
read makes the tail go on (`forces`) the script does not know, and neither does the
model; it is chosen at the start. The mount may
fail, in which case the test command does nothing but print the flag. The four
scripts are the same program but for names and two strings, so one is modelled and
`program` chooses between the two strings.

## 3. Runs

| Run | Question | Bounds |
|---|---|---|
| `dxe_safety` | bounds, names, usability, readability of the driver | three variables of 1, 2 and 6 characters on 57-byte buffers; sizes 0, 1, 4, 5, 12, 50 and 2^32-1; two session ids (symmetric) |
| `dxe_service` | does the driver implement `VariableService`; is a handed back size enough | the same variables, sizes 0, 1, 4, 8, one session id |
| `init` | the start, with failures and restarts anywhere | five variables, keys of up to two bytes |
| `enumeration` | the enumeration loop, with liveness | every store of four variables with names of 1 to 4 characters, every target |
| `selftest` | the seven tests | three runs, two troubles in all, two members of every list |
| `tool` | every command of the tool, in any sequence, with another client writing | three variables with names of 1 to 3 characters, one of them the hook's and one `bin`'s; sizes 1 and 4, at most 4 bytes stored; one foreign write per command |
| `names` | the conversion of names, trip after trip | 2-bit INT16, 4-bit wchar_t, six characters, buffers of four, 0 or 1 left in them |
| `runner` | a script, its jobs, the guest and the program in it | one run of the script, either program |
| `dxe_cleared`, `init_status`, `init_enable`, `selftest_registered` | the four findings below | as the run they belong to |

**Why the bounds are enough.** `dxe_safety`: `Word` is 256 and `HalfWord` 64, just
above what the buffers need, so that a sum can wrap and a size can lose its high
bits. Every test of a size is passed and failed, the second test of each pair
after passing the first; one size passes the data test and fails the sum; one
wraps the sum. Names of three lengths give every order of shorter after longer.
The variable with the longest name cannot be written, so that a failing name
test is met too. `init`: one byte tells SecureBootEnable's two values apart, two
bytes a platform key from its absence. `enumeration`: the lengths come neither in
the order of the names nor in reverse, so that the buffer grows at the start, in
the middle, and not at the last name; the TA keeps two of the names at
their shortest and two as declared. `selftest`: one run to set the persistent
variables, one in which something goes wrong, one to see what it left; the second
trouble lets a cleanup fail after a test failed, or a run be cut short after one
did. Storage of 24 units is more than all leftovers together and small enough
for the overflow test to fill in a few rounds.

`tool`: the buffers of a command are empty, longer than what comes, exactly as
long, and too short, the last by another client's write; names of different
lengths in an order that makes `getnext` grow its block, and, with a variable
deleted meanwhile, not; one write in a command is enough for a second
read that answers from another state than the first, and since a chain of commands
runs on, any number of writes come between those; four bytes are what the hook of
the driver asks for, and two one-byte appends get round it. `names`: the six
characters are NUL, one that survives in either half, one above 0x7FFF, one that is
cut to NUL, one that is cut to another, and one negative in both widths; a buffer
of four takes names of three, so that a cut NUL comes first, in the middle and
last; a value of 1 left behind a name is what makes a missing NUL show. `runner`:
the program prints at most two lines and the script starts four jobs; nothing in
it repeats but polling, so one run of it is all there is. Everything between
sleeps may take any time, since no sleep is a guarantee.

`CHECK_DEADLOCK FALSE` is set where the system stops: an enumeration ends, the
runs of `selftest` are numbered, and a script exits once, or waits for ever. `tool`
sets it for the driver's crash, after which nothing of the command is left to run;
the properties are about every state before. The runs of the driver check
deadlock: a process that crashed or left can always be started again.

**Fairness.** `enumeration` assumes weak fairness of the loop's next step: the loop
runs in one thread, nothing else runs on its session, and each call on the TEE is
synchronous and returns. `tool` assumes the same of the steps of a command
(`WF(Command)`); neither typing, nor ending, nor the other client has to happen.
`runner` assumes it of the script, of the guest and of the `cat` and `tail` that
carry the log, unless the tail has stalled: they are processes that a scheduler
runs. No fairness ends a stall or keeps the tail from stalling again; only the
script's own reading does, where it helps. It assumes nothing of QEMU dying, of
signals, and of which way a choice goes. The other runs need none.

### Properties

*Driver.* `TypeOK`; `TransportBounds`: filled <= declared <= buffer for all sizes,
though sums wrap; `CallerBounds`: no more is copied to the caller than it has room
for, also if the TA returned more than that (`SpecCareless`, which this run
checks); `NameAsSent`: the TA reads the name passed,
though a longer one may lie beneath it in a buffer that two services do not clear;
`ServicesUsable`: no order of calls reaches the transport without its buffers
(SetVariable does not test them); `ReadableBack`: no stored variable is one that
reads or enumerations refuse for its size; `RetryFits`: the size handed back with
BUFFER_TOO_SMALL is enough; `ServiceSpec`: the refinement.

*Start.* `PublishedIsUsable`; `SecureBootStateAgrees` at the moment of publishing;
`SetupModeFollowsPk` unless the key could not be read; `EnableIsKept`.

*Enumeration.* `FoundIfStored`, `AllVisited`, `NoneTwice`, `NameFitsBuffer` (one
reallocation per name is enough), `EnumerationEnds`.

*Tests.* `FlagMeansWritten`: at every moment the flag is stored only with all three
variables as the next run will check them; `FailuresHaveCause`: a test fails only
for a fault in it, a leftover of its own, or an overflow variable that a failing
cleanup or a dead process left; `PassedIsClean`; `BuffersReleased`;
`SummaryAddsUp`; `ProvisionedKept`: with a platform key nothing runs, unless the
key could not be asked for.

*Tool.* `WithinBlock`: neither the driver's writes nor what is printed pass the end of
the block, unless another client lengthened the variable between the two reads, which
the second one answers with BUFFER_TOO_SMALL (see the observations); a variable that was
deleted or shortened meanwhile is no excuse;
`SuccessIsDone`: status 0 means that what was asked for was done and what was shown
was read; `BinReadsBack`; `ChainVisitsAll`; `CommandEnds`: the loop of `getnext`
does too.

*Names.* `WithinName`: no loop leaves the name, and the search for the NUL on the way
back meets one that was written; `NameKept`: exactly the names of characters that
survive come back; `SameNameAsked`: a name that comes back changed still asks the TA
for the same variable, so that an enumeration by such names is not lost.

*fTPM client.* `SelfTestTwice`.

*Scripts.* `VerdictExact`: a pass means that the line of success was printed, a fail,
if `tail` was in time, that it was not; `NoJobLeft`, for an end by itself or by a
signal that runs the trap (SIGKILL runs none, and leaves all jobs); `RunnerEnds`, with the
four ways in which it does not: QEMU dies, the login drops a line, the flag is in the
log before the tail is, or the tail stalls for good and reading the log does not help.
Where it helps, the script ends however often the tail stalls.

Each has a mutant: a plausible bug in the mapped code that breaks it.

## 4. Findings

1. `dxe_cleared`: "Clear the buffers entirely to start with." (`AuthVarsDxe.c`:627
   and 937) clears nothing, because `SetMem` (`uefi_c.c`:56) passes its length as
   memset's byte and its value, 0, as the count. What keeps names right all the
   same is that GetNextVariableName declares exactly the bytes it writes: a
   model that declares the caller's 4-byte size there violates `NameAsSent`.
2. `init_status`: when `TEEC_InitializeContext` fails, the start returns an
   unassigned `Status` (1514, 1537), which may be EFI_SUCCESS with nothing
   published.
3. `init_enable`: SecureBootEnable is "not exist" (1147) for any error of its
   read; a transport error overwrites the user's value.
4. `selftest_registered`: "Support up-to 32 test function per module"
   (`EdkTest.h`:49), but `RunModule_` (253) refuses a module with 32.

Observations that no property states:
- GetNextVariableName tests its three pointers and promises EFI_INVALID_PARAMETER
  (`AuthVarsDxe.c`:521 and 547), but it has read `*VariableNameSize` by then, to log
  it (540), and reads it again on the way out (702): a call without a size crashes.
  No caller in the repository makes one. The model has the crash; `NextNull` says
  whether callers leave out the size, and the runs are about those that do not.
- Appending is bounded by the transport one call at a time, reading as a whole: a
  variable can outgrow what a read carries. `ReadableBack` assumes a TA that
  stores no more than that (`GET_RESULT + StoreMax <= MemSize`). The overflow test
  builds such a variable and never reads it.
- A test that is cut short between writing and deleting fails in every later run:
  its first step verifies that the variable is absent (`AuthVarTest.c`:208, 823),
  and nothing deletes it. A leftover of VerifyQuery grows with every run. Only the
  persistence test and the overflow test recover by themselves
  (`FailuresHaveCause` says exactly this).
- VerifyNameHandling passes `mActualImageData` as the data to check (801, 838), so
  that the data read is compared with itself. VerifyOverflow with less than one
  chunk of space free would fail when it deletes what it never wrote.
- `UefiMain` returns 0 whether or not tests failed; the runner scripts look for
  "Passed = 6, Failed = 1", a result in which any one test may have failed. In the
  model, with a TA that does what AuthVarTA says, all seven pass; which of them the
  real TA fails the repository does not say.
- No path of `main` closes the session (413 is not reached). `query` prints its
  results even if the query failed, and `get` prints its block even if the second
  read failed or found less, in which case part of it was never written
  (`main.c`:130-138). If another client has lengthened the variable meanwhile, what is printed runs
  past the block. `SuccessIsDone` and `WithinBlock` say how far the exit status
  can be relied on. `bin` does not compare what it reads with what it wrote.
- `RestoreWideString` widens signed characters: a name with a character above U+7FFF
  comes back as another (`NameKept`), which names the same variable to the TA
  (`SameNameAsked`). A character with 16 low bits of zero cuts the name.
- `TimerStart` (`EdkTest.h`:195) is not volatile across `SetJump`; it is only printed.
- The scripts wait for a flag that the terminal echoes when the test command is
  typed. `sleep 1` before `tail` keeps the echo out of the log that is looked at; an
  echo that is later than that ends the wait at once with "Test failed". Nothing
  turns it into a pass. No wait has a timeout of its own; the pipeline's is
  `azure-pipelines.yml`:207.
- The fTPM script's line of success is printed by either of the two self tests: it
  passes when the first succeeded, though the second failed and the client exited
  with 1. The client's shared memory is never released.
- A signal between `&` and the line that notes `$!` leaves that job running.

## 5. Proofs

### The driver

`AuthVarsDxe_proofs` proves, for all variables, names, sizes, limits and session
ids that satisfy the assumptions in the modules:

| Theorem | States |
|---|---|
| `Invariance`, `CarelessInvariance` | `[](Inv /\ Bounds)`, of `Spec` and of `SpecCareless` |
| `TypeCorrect` | `TypeOK` |
| `TransportIsBounded`, `CallersAreBounded`, `NamesAreSent` | the three extents of every call; `CallersAreBounded` of `SpecCareless` |
| `ServicesAreUsable` | `ServicesUsable`, if callers of GetNextVariableName pass a size |
| `WrittenIsReadable` | `ReadableBack`, if the TA stores no more than a read carries |
| `ServicesImplemented` | `Spec => ServiceSpec`: AuthVarsDxe implements VariableService |
| `RetriesFit` | `RetryFits` |

Assumptions on constants: the largest request fits 32 bits
(`SET_PARAM + 2 * MemSize < Word`), a buffer's size fits the 16-bit field
(`MemSize <= HalfWord`), names fit 32 bits, the TA's size of a name lies between
the two sizes the driver knows (`SizeAssumption`, `TaNameSizeAssumption`). With
the source's constants (buffers of 0x8000 bytes and a header, 2^32, 2^16) they hold.

**The invariant.** `Inv == TypeOK /\ StoredFits /\ Allocated /\ NotCrashed`, and beside
it `Unopened`: a process that has not started yet has no session, which is what keeps
`Allocated` true when the start goes on without a context. The start in
`AuthVarsInit`, which is many steps, keeps `Inv` without it.
`ServicesUsable` is not inductive: a write could be thought to come from a state
with an open session and a missing buffer. `Allocated` excludes it: a process that
is up and believes its session open has both buffers at full size, because a
start that got no context never opened a session, one that failed later ends the
process, and the exit handler clears the flag with the buffers. `ReadableBack` speaks of stored variables, so `StoredFits`
carries forward what was tested when they were written: the name fits the larger
of the two request headers, hence every other. `Bounds`, the conjunction of the
three extents, says something of the last call only; it follows from each action,
with `Inv` before it.

**The argument.** Lemmas state what a size test proves (`FitsIsBound`,
`SetFitsIsBound`: from tests on parts, that the sum did not wrap), what the TA may
reply (`TaGetReplies` ...), and that the name is read as it was written
(`NameIsClean`). Each service has a lemma for the call and one for the whole
action; `NextInv` puts them together.

**The refinement.** The mapping is `vars` to the abstract store and `ret` to the
abstract reply; buffers, session and process have no image. Initial states map to
initial states. Each service has a lemma by which its action is, under `Inv`, the
abstract operation or one that is refused, and the end of a process is a stutter or
the abstract restart. `GetOutcome` and its like tell the TA's replies apart by the
store and the room that was declared, which has to be exactly the room that the caller
offers plus the header: that is where the size arithmetic of the driver enters, and
`Inv` with it. `RetriesFit` follows from the abstract specification: as long as a reply of
BUFFER_TOO_SMALL is the last one, its size is what the store asks for (`SizeTold`), and
with that room the same call is not refused for it.

### The start

`AuthVarsInit_proofs` proves of `SpecI`, for whatever was written before, any failure
of any call, and any place at which the start is cut short:

| Theorem | States |
|---|---|
| `InvarianceI` | the invariant below |
| `TypeCorrectI` | `TypeOKI` |
| `PublishedAreUsable` | `PublishedIsUsable` |
| `SecureBootStatesAgree` | `SecureBootStateAgrees` |
| `SetupModeFollows` | `SetupModeFollowsPk` |
| `EnableKept` | `EnableIsKept` |

Beyond those of the driver, `InitAssumption` asks that the five variables are five and
that 0 and 1 are bytes.

**The invariant.** `InvI` has the driver's parts and, by `pc`, what the start knows.
`Opened`: which places of the start have a usable session. `ModeRead`: the local
`SetupMode` is user mode only if a platform key is stored, and setup mode, if the key
could be read, only if none is. `ModeWritten`, `EnableSettled` and `StateWritten` say
which of the variables already hold what the locals say; `SecureBootStateAgrees` is
their conjunction at the step that publishes. A property of that one step cannot be
proved without them, since what it speaks of was written several calls before, in a
run that nothing told apart from one that was cut short. A write that fails ends the
start, hence each of them holds at every place behind its write.

### The enumeration

`VariableEnumeration_proofs` proves of `SpecE`:

| Theorem | States |
|---|---|
| `InvarianceE` | the invariant below |
| `EnumerationFinds` | `FoundIfStored` |
| `EnumerationIsComplete` | `AllVisited` |
| `NamesFit` | `NameFitsBuffer` |
| `NamesComeOnce` | `NoneTwice` |

`EnumerationAssumption`: the TA stores at least one byte, 0 is a byte, and the size
of a character is a number.

**The invariant.** `InvE` adds to the driver's `Visited`: what has been visited is what
is stored up to the name in hand, in the order of the TA. From that a next name is
never one of those before, and at the end of the list nothing is left. `Sized`: the
size handed back is the one that the next name needs, and after the reallocation
there is exactly as much, which is why the second call, whose status the code does not
test for `BUFFER_TOO_SMALL`, does not return it.

### The tool

`ToolCommands_proofs` proves of `SpecT`:

| Theorem | States |
|---|---|
| `InvarianceC` | the invariant below |
| `TypeCorrectC` | `TypeOKC` |
| `BlocksHold` | `WithinBlock` |
| `SuccessMeansDone` | `SuccessIsDone` |
| `BinShowsItsData` | `BinReadsBack` |
| `ChainsVisitAll` | `ChainVisitsAll` |

`ToolAssumption`: `bin`'s variable is not the hook's, its data is not empty and
small enough for the TA. Another client writes once in a command, as in the run.

**The invariant.** `InvC` adds to the driver's what a command knows between two calls:
`Reading` (the size of the first read is still that of the variable, unless
`raced`), `Naming`, `BinStored`, and `Chained`: what a chain of `getnext` has shown is
what is listed up to its last name. The chain is broken by a write, and survives the
end of a process, so `Chained` has to be shown of every action, not only of `getnext`.
`WithinBlock`, `SuccessIsDone` and `BinReadsBack` speak of the step that ends a
command; their proofs are about that step, from `Reading`, `Naming`, `BinStored` and
`CallerBounds`.

### The tests

`SelfTest_scripts` proves what the scripts do, `SelfTest_proofs` what a run of them
does. Of `SpecT`:

| Theorem | States |
|---|---|
| `TypeCorrectT` | `TypeOKT` |
| `SummaryIsComplete` | `SummaryAddsUp` |
| `NoBufferLost` | `BuffersReleased` |
| `FlagIsTrue` | `FlagMeansWritten` |
| `ProvisioningKept` | `ProvisionedKept` |
| `PassedTestsAreClean` | `PassedIsClean` |

This is for lists of any length and any sizes, any number of runs, failures and
crashes, and any `Capacity` but 0, so also for a store that the tests fill. The
assumptions: names that differ in `AuthVarTest.c` differ, and neither the persistent
variables, nor the platform key, are among the others (`TestVariableAssumption`,
`SelfTestAssumption`; the key is not in `mSecureBootVariables`, lines 59-74); the
bytes the tests write are bytes (`TestByteAssumption`).

**The scripts.** A script is a concatenation of parts, some of them flattened from a
list of unknown length, and the theorems are about any of its steps. So each part
has a lemma with what it may write, what it has seen to be absent or to be as given
when it is through, and, for each of the two global buffers, whether it allocates
only what is not held and what it leaves held (`Exclusive`, `GivesBack`, `TakesOver`,
`Spares`). `JoinExclusive`, `JoinEnds` and the others say how these properties go
through a concatenation, and `Flattened` how they go through a list. `Scripts` collects
them: every script of the seven is `Sound`. Two of them measure the store and
compute later steps from what they measured; `Steady` says that a measurement does
not change a step at or before the one that measures, so that a place in a script means
the same before and after it.

**The invariant.** `TypeI`: types, with the room that is left in both accounts (so that
what a test measures is a number) and the counts. `BufferI`: in a test every live buffer was allocated by a step before this one
and by none since released (`Held`). With `Exclusive`, an allocation finds its pointer
empty. `StoreI`: `GoneI`, what a step has seen to be absent is absent until a later
one writes it; `FlagI`, in the persistence test the flag is absent while the three
variables are written, and each of them is as it was last read back; `FrameI`,
variables that are not the test's own are as they were when it began. `PassedIsClean`
is `GoneI` with `FrameI` at the last step of a script, and `FlagMeansWritten` follows
from `FlagI` at the one step that writes the flag.

**Sums and lists.** Two facts that seem to call for induction over data are about
recursive functions rather than operators, and are proved without an induction
theorem: the sum over a set of variables (`SumWithin`, `SumExists`) and the flattening
of a list (`FlatteningExists`). Both take a least counterexample, a finite set with
none within it (`SmallestSubset`) or a least number (`LeastNumber`), which come from
the well-founded order of finite sets.

### The conversion of names

`WideNames_proofs` proves, for names of any characters in buffers of any size:

| Theorem | States |
|---|---|
| `TypeCorrect` | `TypeOKW` |
| `StaysWithinName` | `WithinName` |
| `KeepsNames` | `NameKept` |
| `AsksForTheSame` | `SameNameAsked` |

`WidthAssumption` asks that an INT16 has an even number of values; a wchar_t is
two of them (`Long == Short * Short`, as 2^32 is), and what is left in a buffer is
characters.

**The invariant.** `IInv` is `TypeOKW` with one conjunct per loop and one for the whole.
`Fixing`: up to the pointer the short name is the shortened name, and a NUL is still
ahead, which is what keeps the pointer in the buffer. `Fixed`, `Scanning`: the NUL
that FixWideString wrote bounds the search. `Widening`: beyond the pointer the
name is widened, up to where the short name ends; it says so of every place at
which the short name ends, so that nobody has to construct the least NUL. `Same`:
wherever the given name, once shortened, ends, the name at hand is the same to the
TA up to there. That survives a trip because shortening undoes widening
(`NarrowWiden`, the arithmetic of the file); `NameKept` follows from `Widening` and
`Same` because widening undoes shortening exactly for the characters that survive
(`SurvivorReturns`, `WidenSurvives`).

### The scripts and the client

`QemuRunner_proofs` proves of `SpecR`, from no assumption (the modules have no
constants):

| Theorem | States |
|---|---|
| `ScriptTypes` | `TypeOKR` |
| `TwoSelfTests` | `SelfTestTwice` |
| `PassIsEarned` | `VerdictExact` |
| `JobsCleanedUp` | `NoJobLeft` |

With only one instance, the `runner` run shows the same; what the proof adds is
the reason, since every conjunct below is one that the script relies on.

**The invariant.** `IInv` is `TypeOKR` with these. `Client` ties the answers printed
so far to the call the client is at. `Jobs` says at each place of the script how
many jobs are started and noted, which makes `NoJobLeft` inductive. A failure is true
only if no success comes behind the flag that ended the wait (`Ordered`), which
holds because the guest runs the test once (`Once`). It does so because it was told to
once, which takes some history: what is typed and unread is in the script's order
(`Typed`, by the `Rank` of a line and by what the script has `Sent`), a shell reads none
of it before the login has taken its line, and the login is not sent before a
prompt was seen (`Prompted`), of which there is one. `Honest` says what a line of
success tells of the client. `Judged` keeps what the script saw: the log only grows
and the tail never goes back, so the lines between `from` and the flag stay what
they were.

**The argument.** Step lemmas say what any step can do to one thing (`PrintSteps`,
`SeenSteps`, `LogSteps`, `TailSteps`, `AnswerSteps`, `ScriptSteps`), from facts on
Append and Tail; each conjunct then has a lemma of its own, and `NextIInv` puts
them together.

### Only model-checked

- `CommandEnds`, `EnumerationEnds` and `RunnerEnds`: liveness under fairness is out of
  the prover's reach, as ENABLED is.
- `FailuresHaveCause`. It holds of the run's `Capacity`, and not of every one: a write
  to a store that is too small is answered with OUT_OF_RESOURCES, which is neither a
  fault nor a leftover. What is missing is a bound on what the tests store at one time,
  a sum over seven scripts.

No module declares a RECURSIVE operator.

## 6. Not modelled

Three ASSERTs are taken to hold and left out of the model. The one in `SetMem`
(`uefi_c.c`:54) is about an address that wraps. Those on `ResultSize`
(`AuthVarsDxe.c`:466 and 662) hold of every TEEC_ERROR_SHORT_BUFFER that comes from the TA,
whose size counts the header; one that the transport itself raised, with a size
of 0, is assumed not to occur, since all buffers are registered at their full size.

The contents of authenticated blobs, what authenticated writes verify (the test's
blob is accepted unless it is garbage), `OpteeRuntimeFvbAddressChange`, logging and
timing; of the tool, the parsing of GUIDs, attributes and files and the layout of
what is printed; of the fTPM client, the bytes of the TPM command and of the
printed response; of the scripts, QEMU's options, messages to the reader, and the FIFOs and
logs that stay in `/tmp` after a run. In the modules other than WideNames a name is
a model value with a length. The string and memory functions of `uefi_c.c` that
only forward to the C library are taken as what they are named.

The Makefiles, `azure-pipelines.yml` and the vendored test images have no state of
the running system. (`test_64: prep_64 $(TEST_64)` in `qemu_build/Makefile` uses a
variable that nothing defines, so that `make test_64` runs no test.)

## 7. Plan

Done: the driver, the abstract service, the start, the enumeration, the tests and the
harness, the conversion of names, the tool, the fTPM client and the scripts, in TLC;
the refinement and every invariant and action property but one, in TLAPS. Left:

1. `FailuresHaveCause`: which `Capacity` the tests need, as an assumption that the
   proof finds sufficient, and the step lemma of each operation read the other way
   (a step that does not pass had a fault, or found a leftover).
2. The safety half of `CommandEnds` and `EnumerationEnds`: a bound on the steps that are
   left, which every step of the loop decreases.
