----------------------------- MODULE QemuRunner -----------------------------
(***************************************************************************)
(* The scripts that run a test in QEMU, run_authvars_test_64.sh and the     *)
(* three others that differ from it in names, in the program and in the     *)
(* line that means success: the script, its background jobs (a cat for each *)
(* serial port, QEMU, a tail), the guest that runs the program, and the     *)
(* logs the script judges the outcome by.  Lines are kept for what the      *)
(* script looks for in them: "prompt" is "buildroot login:", "COMPLETE" the *)
(* flag "QEMU TEST COMPLETE", and "good" the line that means success.       *)
(***************************************************************************)
EXTENDS FtpmClient

VARIABLES
  spc,       \* where the script is
  started,   \* the background jobs started, in the order of Job
  PIDS,      \* how many of them the script has noted
  alive,     \* the jobs that run
  code,      \* the exit status of the script, or -1
  typed,     \* REE_PIPE.in: lines sent to the guest
  output,    \* REE_PIPE.out: lines of the guest
  REE_LOG,   \* what cat has taken from there
  from, to,  \* tail follows REE_LOG from here and has come to here
  stalled,   \* tail does not see what is added to REE_LOG
  forces,    \* to read REE_LOG makes a tail that has stalled go on
  guest,     \* what the guest does
  program,   \* the test program it has
  mounted,   \* the host's directory is mounted
  lost       \* a line was typed that no shell has read

svars == <<spc, started, PIDS, code>>
gvars == <<guest, program, mounted, lost>>
tvars == <<from, to, stalled, forces>>
rvars == <<cvars, svars, gvars, tvars, alive, typed, output, REE_LOG>>

Job == <<"cat_ree", "cat_tee", "qemu", "tail">>
QEMU == 3
Noted == {Job[k] : k \in 1 .. PIDS}

(* What the script looks for.  The echo of the test command holds the flag. *)
HasFlag(l) == l \in {"COMPLETE", "echo_test"}
HasGoodResult(l) == l = "good"
RESULTS_LOG == {REE_LOG[k] : k \in from + 1 .. to}

InitR ==
  /\ InitC
  /\ spc = "start" /\ started = 0 /\ PIDS = 0 /\ code = -1
  /\ alive = {}
  /\ typed = <<>> /\ output = <<>> /\ REE_LOG = <<>>
  /\ from = -1 /\ to = -1 /\ stalled = FALSE
  /\ forces \in BOOLEAN  \* the script does not know
  /\ guest = "off" /\ mounted = FALSE /\ lost = FALSE
  /\ program \in {"ftpm_test", "authvars_test"}

----------------------------------------------------------------------------
(* The script. *)

(* "cmd &" and PIDS="${PIDS} $!" are two commands. *)
Background ==
  /\ spc = "start"
  /\ started' = started + 1
  /\ alive' = alive \union {Job[started']}
  /\ spc' = "note"
  /\ guest' = IF started' = QEMU THEN "booting" ELSE guest
  /\ UNCHANGED <<cvars, PIDS, code, typed, output, REE_LOG, tvars, program, mounted, lost>>

After(n) == CASE n < QEMU -> "start" [] n = QEMU -> "boot" [] n > QEMU -> "wait"

(* Mutant: the last job is not noted. *)
NoteButTail ==
  /\ spc = "note"
  /\ PIDS' = IF started > QEMU THEN PIDS ELSE started
  /\ spc' = After(started)
  /\ UNCHANGED <<cvars, gvars, started, alive, code, typed, output, REE_LOG, tvars>>

Note ==
  /\ spc = "note"
  /\ PIDS' = started
  /\ spc' = After(started)
  /\ UNCHANGED <<cvars, gvars, started, alive, code, typed, output, REE_LOG, tvars>>

Boot ==
  /\ spc = "boot"
  /\ \E k \in 1 .. Len(REE_LOG) : REE_LOG[k] = "prompt"
  /\ spc' = "root"
  /\ UNCHANGED <<cvars, gvars, started, PIDS, alive, code, typed, output, REE_LOG, tvars>>

(* echo "..." > $REE_PIPE.in, which opens once QEMU reads from it. *)
Send(line, next) ==
  /\ spc = line
  /\ "qemu" \in alive
  /\ typed' = Append(typed, line)
  /\ spc' = next
  /\ UNCHANGED <<cvars, gvars, started, PIDS, alive, code, output, REE_LOG, tvars>>

SendLine == Send("root", "mount") \/ Send("mount", "test") \/ Send("test", "start")

(* Mutant: the flag is looked for in the log of the login and the commands. *)
WaitWholeLog ==
  /\ spc = "wait"
  /\ \E k \in 1 .. Len(REE_LOG) : HasFlag(REE_LOG[k])
  /\ spc' = "judge"
  /\ UNCHANGED <<cvars, gvars, started, PIDS, alive, code, typed, output, REE_LOG, tvars>>

(* A stalled tail goes on, and finds all that was added. *)
CatchUp == stalled /\ stalled' = FALSE /\ to' = Len(REE_LOG) /\ UNCHANGED <<from, forces>>

(* Mutant: the log is not read in the loop. *)
WaitNoCat ==
  /\ spc = "wait"
  /\ \E l \in RESULTS_LOG : HasFlag(l)
  /\ spc' = "judge"
  /\ UNCHANGED <<cvars, gvars, started, PIDS, alive, code, typed, output, REE_LOG, tvars>>

(* A turn of the loop: grep, and if the flag is not there yet, sleep and
   "cat $REE_LOG > /dev/null" for the tail's sake.  A turn that does not move
   the tail changes nothing. *)
Wait ==
  /\ spc = "wait"
  /\ \/ /\ \E l \in RESULTS_LOG : HasFlag(l)
        /\ spc' = "judge"
        /\ UNCHANGED tvars
     \/ /\ \A l \in RESULTS_LOG : ~HasFlag(l)
        /\ forces /\ CatchUp
        /\ UNCHANGED spc
  /\ UNCHANGED <<cvars, gvars, started, PIDS, alive, code, typed, output, REE_LOG>>

Judge ==
  /\ spc = "judge"
  /\ code' = IF \E l \in RESULTS_LOG : HasGoodResult(l) THEN 0 ELSE 1
  /\ spc' = "cleanup"
  /\ UNCHANGED <<cvars, gvars, started, PIDS, alive, typed, output, REE_LOG, tvars>>

(* The trap, when the script exits and when a signal makes it.  kill succeeds as
   long as one job is there to be killed, and the tail is. *)
Cleanup ==
  /\ spc = "cleanup"
  /\ alive' = alive \ Noted
  /\ guest' = IF "qemu" \in Noted THEN "off" ELSE guest
  /\ spc' = "exited"
  /\ UNCHANGED <<cvars, started, PIDS, code, typed, output, REE_LOG, tvars, program, mounted, lost>>

Interrupt ==
  /\ spc \notin {"cleanup", "exited"}
  /\ code' = 143
  /\ spc' = "cleanup"
  /\ UNCHANGED <<cvars, gvars, started, PIDS, alive, typed, output, REE_LOG, tvars>>

Script == Background \/ Note \/ Boot \/ SendLine \/ Wait \/ Judge \/ Cleanup

----------------------------------------------------------------------------
(* The background jobs. *)

(* cat copies what there is, and ends with QEMU. *)
Cat ==
  /\ "cat_ree" \in alive
  /\ output # <<>>
  /\ REE_LOG' = Append(REE_LOG, Head(output))
  /\ output' = Tail(output)
  /\ UNCHANGED <<cvars, svars, gvars, alive, typed, tvars>>

CatEnds ==
  /\ started >= QEMU /\ "qemu" \notin alive
  /\ \/ "cat_ree" \in alive /\ output = <<>> /\ alive' = alive \ {"cat_ree"}
     \/ "cat_tee" \in alive /\ alive' = alive \ {"cat_tee"}
  /\ UNCHANGED <<cvars, svars, gvars, typed, output, REE_LOG, tvars>>

(* tail -f -n 0 begins behind what is in the log when it opens it. *)
TailOpens ==
  /\ "tail" \in alive /\ from = -1
  /\ from' = Len(REE_LOG) /\ to' = Len(REE_LOG)
  /\ UNCHANGED <<cvars, svars, gvars, alive, typed, output, REE_LOG, stalled, forces>>

TailFollows ==
  /\ "tail" \in alive /\ from >= 0 /\ ~stalled
  /\ to < Len(REE_LOG)
  /\ to' = to + 1
  /\ UNCHANGED <<cvars, svars, gvars, alive, typed, output, REE_LOG, from, stalled, forces>>

(* "tail won't update sometimes": it stalls at any line and any number of times,
   and goes on if the script makes it, by chance, or never. *)
TailStalls ==
  /\ "tail" \in alive /\ from >= 0
  /\ ~stalled /\ stalled' = TRUE
  /\ UNCHANGED <<cvars, svars, gvars, alive, typed, output, REE_LOG, from, to, forces>>

TailGoesOn ==
  /\ "tail" \in alive
  /\ CatchUp
  /\ UNCHANGED <<cvars, svars, gvars, alive, typed, output, REE_LOG>>

----------------------------------------------------------------------------
(* The guest. *)

Emit(l) == output' = Append(output, l)

Boots ==
  /\ guest = "booting"
  /\ guest' = "login"
  /\ Emit("prompt")
  /\ UNCHANGED <<cvars, svars, alive, typed, REE_LOG, tvars, program, mounted, lost>>

Echo(line) == IF line = "test" THEN "echo_test" ELSE "echo"

(* A line is taken by the login, lost while the login is at work, which may
   drop what is typed ahead, or run by the shell. *)
Types ==
  /\ typed # <<>>
  /\ typed' = Tail(typed)
  /\ \/ /\ guest = "login"
        /\ Emit(Echo(Head(typed)))
        /\ guest' = "logging_in"
        /\ UNCHANGED <<mounted, lost>>
     \/ /\ guest = "logging_in"
        /\ output' \in {output, Append(output, Echo(Head(typed)))}
        /\ lost' = TRUE
        /\ UNCHANGED <<guest, mounted>>
     \/ /\ guest = "shell"
        /\ Emit(Echo(Head(typed)))
        /\ IF Head(typed) = "mount"
           THEN mounted' \in BOOLEAN /\ UNCHANGED guest
           ELSE guest' = "command" /\ UNCHANGED mounted
        /\ UNCHANGED lost
  /\ UNCHANGED <<cvars, svars, alive, REE_LOG, tvars, program>>

LoggedIn ==
  /\ guest = "logging_in"
  /\ guest' = "shell"
  /\ UNCHANGED <<cvars, svars, alive, typed, output, REE_LOG, tvars, program, mounted, lost>>

(* sleep 5 && cp /mnt/ci/*.ta ... && the program; echo the flag. *)
TestCommand ==
  /\ guest = "command"
  /\ \/ /\ guest' = "flag"
        /\ UNCHANGED cvars
     \/ /\ mounted
        /\ guest' = "test"
        /\ StartClient
  /\ UNCHANGED <<svars, alive, typed, output, REE_LOG, tvars, program, mounted, lost>>

(* Mutant: "&&" ahead of the echo of the flag too. *)
RunFtpmTestAnd ==
  /\ guest = "test" /\ program = "ftpm_test"
  /\ ClientCall
  /\ IF answers' # answers
     THEN Emit(IF answers'[Len(answers')].code = 0 THEN "good" ELSE "bad")
     ELSE UNCHANGED output
  /\ guest' = IF cpc' # "exit" THEN guest ELSE IF exit' = 0 THEN "flag" ELSE "shell"
  /\ UNCHANGED <<svars, alive, typed, REE_LOG, tvars, program, mounted, lost>>

(* The client prints a line for every self test that is answered. *)
RunFtpmTest ==
  /\ guest = "test" /\ program = "ftpm_test"
  /\ ClientCall
  /\ IF answers' # answers
     THEN Emit(IF answers'[Len(answers')].code = 0 THEN "good" ELSE "bad")
     ELSE UNCHANGED output
  /\ guest' = IF cpc' = "exit" THEN "flag" ELSE guest
  /\ UNCHANGED <<svars, alive, typed, REE_LOG, tvars, program, mounted, lost>>

(* The self test of authvars_test prints its summary, or has died before. *)
RunAuthvarsTest ==
  /\ guest = "test" /\ program = "authvars_test"
  /\ output' \in {output, Append(output, "good"), Append(output, "bad")}
  /\ guest' = "flag"
  /\ UNCHANGED <<cvars, svars, alive, typed, REE_LOG, tvars, program, mounted, lost>>

Flag ==
  /\ guest = "flag"
  /\ Emit("COMPLETE")
  /\ guest' = "shell"
  /\ UNCHANGED <<cvars, svars, alive, typed, REE_LOG, tvars, program, mounted, lost>>

Guest == Boots \/ Types \/ LoggedIn \/ TestCommand \/ RunFtpmTest \/ RunAuthvarsTest \/ Flag

(* QEMU does not start, or crashes. *)
QemuDies ==
  /\ "qemu" \in alive
  /\ alive' = alive \ {"qemu"}
  /\ guest' = "off"
  /\ UNCHANGED <<cvars, svars, typed, output, REE_LOG, tvars, program, mounted, lost>>

Tails == TailOpens \/ TailFollows \/ TailStalls \/ TailGoesOn

NextR == Script \/ Interrupt \/ Cat \/ CatEnds \/ Tails \/ Guest \/ QemuDies

(* Every process runs; the TEE, the TPM and the programs answer.  A tail that has
   not stalled follows the log; nothing makes one that has go on but the script,
   and that only where it can. *)
SpecR ==
  /\ InitR /\ [][NextR]_rvars
  /\ WF_rvars(Script) /\ WF_rvars(Guest)
  /\ WF_rvars(Cat) /\ WF_rvars(TailOpens) /\ WF_rvars(TailFollows)

----------------------------------------------------------------------------
(* Properties. *)

Lines == {"prompt", "echo", "echo_test", "good", "bad", "COMPLETE"}

(* Every variable of the script, the guest and the client holds what its type
   allows. *)
TypeOKR ==
  /\ TypeC
  /\ spc \in {"start", "note", "boot", "root", "mount", "test", "wait", "judge", "cleanup",
              "exited"}
  /\ started \in 0 .. Len(Job) /\ PIDS \in 0 .. started
  /\ alive \subseteq {Job[k] : k \in 1 .. started}
  /\ code \in {-1, 0, 1, 143}
  /\ typed \in Seq({"root", "mount", "test"})
  /\ output \in Seq(Lines) /\ REE_LOG \in Seq(Lines)
  /\ from \in -1 .. Len(REE_LOG) /\ to \in from .. Len(REE_LOG)
  /\ guest \in {"off", "booting", "login", "logging_in", "shell", "command", "test", "flag"}
  /\ mounted \in BOOLEAN /\ lost \in BOOLEAN
  /\ stalled \in BOOLEAN /\ forces \in BOOLEAN

At(l) == {k \in 1 .. Len(REE_LOG) : REE_LOG[k] = l}

(* tail has opened the log behind the echo of the test command and ahead of
   the first line the program has printed, which "sleep 1" on the host and
   "sleep 5" in the guest are there for. *)
InTime ==
  /\ \A k \in At("echo_test") : k <= from
  /\ \A k \in At("good") \union At("bad") \union At("COMPLETE") : from < k

(* A script that exits by itself tells the outcome.  A pass is always earned:
   the program has printed the line that means success.  A failure is true if
   the tail was in time; an echo that is late, which holds the flag, or a
   tail that is, fails a test that has passed.  For the fTPM client the line is
   that of either self test, so that a pass means the first one was good, and
   not that the client exited with 0. *)
VerdictExact ==
  spc = "exited" =>
    /\ code = 0 => At("good") # {}
    /\ code = 0 /\ program = "ftpm_test" => answers[1].code = 0
    /\ code = 1 /\ InTime => At("good") = {}

(* run_authvars_test_64.sh:5, "Make sure to clean up background jobs": none is
   left when the script ends by itself or by a signal that runs its trap (SIGKILL
   runs none), unless the signal came between a job's start and its pid being
   noted; then it is that one. *)
NoJobLeft ==
  spc = "exited" => alive \subseteq {Job[k] : k \in PIDS + 1 .. started}
                    /\ (code # 143 => alive = {})
                    /\ started - PIDS <= 1

(* The script ends, whatever the program does, fails at or prints, and however
   often the tail stalls where to read the log makes it go on
   (run_authvars_test_64.sh:91, "force the file to update?").  It waits forever,
   having no timeout, if QEMU dies, if the login drops what it types, if the flag
   is in the log before the tail opens it, or if the tail stalls for good where
   the script cannot make it go on. *)
RunnerEnds ==
  \/ <>(\/ spc = "exited"
        \/ started >= QEMU /\ "qemu" \notin alive
        \/ lost
        \/ \E k \in At("COMPLETE") : k <= from)
  \/ ~forces /\ <>[]stalled
=============================================================================
