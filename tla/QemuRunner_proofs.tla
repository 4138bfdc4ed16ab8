------------------------- MODULE QemuRunner_proofs -------------------------
(***************************************************************************)
(* What a test script and the client it runs can be relied on for, in every *)
(* interleaving of the script, its jobs, the guest and a signal.            *)
(***************************************************************************)
EXTENDS QemuRunner, TLAPS

----------------------------------------------------------------------------
(* The inductive invariant. *)

(* The self tests that were answered so far, in the order of their sessions. *)
AllGood == \A k \in 1 .. Len(answers) : answers[k].sess = k /\ answers[k].code = 0

Client ==
  /\ cpc = "idle" => opened = 0 /\ shared = 0 /\ answers = <<>>
  /\ cpc \in {"idle", "context"} => ~context /\ sess = 0
  /\ cpc \in {"context", "session"} =>
       opened \in {0, 1} /\ shared = opened /\ Len(answers) = opened /\ AllGood
  /\ cpc \in {"allocate", "invoke"} =>
       /\ opened \in {1, 2} /\ sess = opened
       /\ shared = (IF cpc = "invoke" THEN opened ELSE opened - 1)
       /\ Len(answers) = opened - 1 /\ AllGood
  /\ cpc = "check" =>
       /\ opened \in {1, 2} /\ sess = opened /\ shared = opened /\ Len(answers) = opened
       /\ answers[opened].sess = opened
       /\ \A k \in 1 .. opened - 1 : answers[k].sess = k /\ answers[k].code = 0
  /\ cpc \in {"close", "finalize"} =>
       opened \in {1, 2} /\ shared = opened /\ Len(answers) = opened /\ AllGood
  /\ cpc = "finalize" => sess = 0
  /\ exit = 0 => cpc = "exit" /\ Len(answers) = 2 /\ AllGood /\ sess = 0 /\ ~context
  /\ \A k \in 1 .. Len(answers) - 1 : answers[k].code = 0

(* The script and the jobs it has noted. *)
Jobs ==
  /\ spc = "start" => PIDS = started /\ started < 4
  /\ spc = "note" => PIDS = started - 1
  /\ spc \in {"boot", "root", "mount", "test"} => PIDS = 3 /\ started = 3
  /\ spc \in {"wait", "judge"} => PIDS = 4 /\ started = 4
  /\ started - PIDS <= 1
  /\ spc \notin {"cleanup", "exited"} => code = -1
  /\ spc = "cleanup" /\ code # 143 => PIDS = 4 /\ started = 4
  /\ NoJobLeft

(* The script has yet to send the login. *)
BeforeLogin ==
  \/ spc \in {"start", "note"} /\ started < QEMU
  \/ spc = "note" /\ started = QEMU
  \/ spc \in {"boot", "root"}

In(l, lines) == \E k \in 1 .. Len(lines) : lines[k] = l
Seen(l) == In(l, REE_LOG) \/ In(l, output)

(* What may have been typed and not been read: lines in the order of the script,
   those it has sent, the login only ahead of its being taken. *)
Rank(l) == IF l = "root" THEN 1 ELSE IF l = "mount" THEN 2 ELSE 3
Sent == IF BeforeLogin THEN 0 ELSE IF spc = "mount" THEN 1 ELSE IF spc = "test" THEN 2 ELSE 3

Typed ==
  /\ \A k \in 1 .. Len(typed) : Rank(typed[k]) <= Sent
  /\ \A k \in 1 .. Len(typed) : \A j \in 1 .. k - 1 : Rank(typed[j]) < Rank(typed[k])
  /\ BeforeLogin \/ In("root", typed) => guest \in {"off", "booting", "login"}
  /\ In("root", typed) => guest # "booting"

(* The guest prints its prompt once QEMU has booted, *)
Prompted ==
  /\ started < QEMU => output = <<>> /\ REE_LOG = <<>> /\ guest = "off"
  /\ Seen("prompt") \/ spc = "root" => guest # "booting"

(* a good line only if the first self test was, *)
Honest == Seen("good") /\ program = "ftpm_test" => Len(answers) >= 1 /\ answers[1].code = 0

(* and no good line behind the flag, *)
Ordered ==
  /\ \A k \in 1 .. Len(REE_LOG) : REE_LOG[k] = "COMPLETE" =>
       /\ \A j \in k .. Len(REE_LOG) : REE_LOG[j] # "good"
       /\ ~In("good", output)
  /\ \A k \in 1 .. Len(output) : output[k] = "COMPLETE" =>
       \A j \in k .. Len(output) : output[j] # "good"

(* since it runs the test once, as it was told to once. *)
Once ==
  /\ guest \in {"command", "test", "flag"} \/ Seen("COMPLETE") => Sent = 3 /\ ~In("test", typed)
  /\ Seen("COMPLETE") => guest \notin {"command", "test", "flag"}

Printed == Prompted /\ Honest /\ Ordered /\ Once

(* What the script has judged by. *)
Judged ==
  /\ from = -1 => to = -1 /\ ~stalled
  /\ spc = "judge" => \E k \in from + 1 .. to : from >= 0 /\ HasFlag(REE_LOG[k])
  /\ code = 0 => In("good", REE_LOG)
  /\ code = 1 => \E k \in from + 1 .. to :
       /\ from >= 0 /\ HasFlag(REE_LOG[k])
       /\ \A j \in from + 1 .. k : REE_LOG[j] # "good"

IInv == TypeOKR /\ Client /\ Jobs /\ Typed /\ Printed /\ Judged

----------------------------------------------------------------------------
(* The client. *)

(* Only the guest runs the client. *)
LEMMA ClientSteps == NextR => UNCHANGED cvars \/ StartClient \/ ClientCall
BY DEF NextR, Script, Background, Note, Boot, SendLine, Send, Wait, Judge, Cleanup,
       Interrupt, Cat, CatEnds, Tails, TailOpens, TailFollows, TailStalls, TailGoesOn, CatchUp,
       Guest, Boots, Types, LoggedIn,
       TestCommand, RunFtpmTest, RunAuthvarsTest, Flag, QemuDies, cvars

(* An answer more. *)
LEMMA AppendAnswer ==
  ASSUME NEW T, NEW s \in Seq(T), NEW x \in T
  PROVE  /\ Append(s, x) \in Seq(T) /\ Len(Append(s, x)) = Len(s) + 1
         /\ Append(s, x)[Len(s) + 1] = x
         /\ \A k \in 1 .. Len(s) : Append(s, x)[k] = s[k]
OBVIOUS

LEMMA ClientInv == TypeC /\ Client /\ [StartClient \/ ClientCall]_cvars => TypeC' /\ Client'
<1> SUFFICES ASSUME TypeC, Client, [StartClient \/ ClientCall]_cvars
             PROVE  TypeC' /\ Client'
  OBVIOUS
<1> USE DEF TypeC, Client, AllGood
<1>1. CASE UNCHANGED cvars
  BY <1>1 DEF cvars
<1>2. CASE StartClient
  BY <1>2 DEF StartClient
<1>3. CASE errx /\ cpc # "idle"
  BY <1>3 DEF errx
<1>4. CASE InitializeContext /\ ~errx
  BY <1>4 DEF InitializeContext
<1>5. CASE OpenSession /\ ~errx
  BY <1>5 DEF OpenSession
<1>6. CASE AllocateSharedMemory /\ ~errx
  BY <1>6 DEF AllocateSharedMemory
<1>7. CASE InvokeCommand /\ ~errx
  <2>1. PICK c \in {0, 1} : answers' = Append(answers, [sess |-> sess, code |-> c])
    BY <1>7 DEF InvokeCommand
  <2>2. [sess |-> sess, code |-> c] \in [sess : 1 .. 2, code : {0, 1}] /\ Len(answers) = opened - 1
    BY <1>7 DEF InvokeCommand
  <2>3. /\ answers' \in Seq([sess : 1 .. 2, code : {0, 1}]) /\ Len(answers') = opened
        /\ answers'[opened].sess = sess
        /\ \A k \in 1 .. opened - 1 : answers'[k] = answers[k]
    <3> HIDE DEF TypeC
    <3>1. answers \in Seq([sess : 1 .. 2, code : {0, 1}]) /\ opened = Len(answers) + 1
      BY <2>2 DEF TypeC
    <3> QED
      BY <2>1, <2>2, <3>1, AppendAnswer
  <2>4. /\ cpc' = "check" /\ UNCHANGED <<context, sess, opened, shared, exit>>
        /\ opened \in {1, 2} /\ sess = opened /\ shared = opened
        /\ \A k \in 1 .. opened - 1 : answers[k].sess = k /\ answers[k].code = 0
        /\ exit # 0
    BY <1>7, <2>2 DEF InvokeCommand
  <2>5. TypeC'
    BY <2>3, <2>4
  <2>6. \A k \in 1 .. opened - 1 : answers'[k].sess = k /\ answers'[k].code = 0
    BY <2>3, <2>4
  <2>7. answers'[opened].sess = opened
    BY <2>3, <2>4
  <2>8. \A k \in 1 .. Len(answers') - 1 : answers'[k].code = 0
    <3> HIDE DEF TypeC, Client
    <3>1. Len(answers') - 1 = opened - 1
      BY <2>3
    <3> QED
      BY <2>6, <3>1
  <2>9. Client'
    <3> HIDE DEF TypeC
    <3>1. cpc' = "check" /\ exit' # 0 /\ Len(answers') = opened'
      BY <2>3, <2>4
    <3>2. /\ opened' \in {1, 2} /\ sess' = opened' /\ shared' = opened'
          /\ answers'[opened'].sess = opened'
          /\ \A k \in 1 .. opened' - 1 : answers'[k].sess = k /\ answers'[k].code = 0
      <4> HIDE DEF Client
      <4> QED
        BY <2>4, <2>6, <2>7
    <3> QED
      BY <2>8, <3>1, <3>2
  <2> QED
    BY <2>5, <2>9
<1>8. CASE CheckResponse /\ ~errx
  <2>1. /\ cpc = "check" /\ cpc' = "close" /\ answers[Len(answers)].code = 0
        /\ UNCHANGED <<context, sess, opened, shared, answers, exit>>
    BY <1>8 DEF CheckResponse
  <2>2. opened \in {1, 2} /\ Len(answers) = opened /\ exit # 0
    BY <2>1
  <2>3. answers[opened].sess = opened /\ answers[opened].code = 0
    BY <2>1, <2>2
  <2>5. AllGood
    <3>1. \A k \in 1 .. opened - 1 : answers[k].sess = k /\ answers[k].code = 0
      BY <2>1
    <3> HIDE DEF TypeC, Client
    <3>2. ASSUME NEW k \in 1 .. opened PROVE answers[k].sess = k /\ answers[k].code = 0
      <4>1. CASE k = opened
        BY <2>3, <4>1
      <4>2. CASE k # opened
        BY <2>2, <3>1, <4>2
      <4> QED
        BY <4>1, <4>2
    <3> QED
      BY <2>2, <3>2
  <2>6. \A k \in 1 .. Len(answers) - 1 : answers[k].code = 0
    BY <2>1
  <2> QED
    <3> HIDE DEF AllGood
    <3>1. AllGood'
      BY <2>1, <2>5 DEF AllGood
    <3>2. \A k \in 1 .. Len(answers') - 1 : answers'[k].code = 0
      BY <2>1, <2>6
    <3> QED
      BY <2>1, <2>2, <3>1, <3>2
<1>9. CASE CloseSession
  BY <1>9 DEF CloseSession
<1>10. CASE FinalizeContext
  BY <1>10 DEF FinalizeContext
<1> QED
  BY <1>1, <1>2, <1>3, <1>4, <1>5, <1>6, <1>7, <1>8, <1>9, <1>10
     DEF ClientCall, InitializeContext, OpenSession, AllocateSharedMemory, InvokeCommand,
         CheckResponse

----------------------------------------------------------------------------
(* The script and its jobs. *)

LEMMA JobLength == Len(Job) = 4 /\ QEMU = 3 /\ \A n \in Nat : After(n) =
                     IF n < 3 THEN "start" ELSE IF n = 3 THEN "boot" ELSE "wait"
BY DEF Job, QEMU, After

(* A job or the guest: no step of theirs moves the script. *)
Others == \/ Cat \/ CatEnds \/ Tails \/ Guest \/ QemuDies

LEMMA OthersKeep ==
  Others => UNCHANGED svars /\ alive' \subseteq alive
BY DEF Others, Cat, CatEnds, Tails, TailOpens, TailFollows, TailStalls, TailGoesOn, CatchUp,
       Guest, Boots, Types, LoggedIn,
       TestCommand, RunFtpmTest, RunAuthvarsTest, Flag, QemuDies, svars

(* What the script has noted it kills. *)
LEMMA JobsInv == TypeOKR /\ Jobs /\ [NextR]_rvars => Jobs'
<1> SUFFICES ASSUME TypeOKR, Jobs, [NextR]_rvars
             PROVE  Jobs'
  OBVIOUS
<1> USE JobLength DEF Jobs, NoJobLeft
<1>0. /\ started \in 0 .. 4 /\ PIDS \in 0 .. started /\ code \in {-1, 0, 1, 143}
      /\ alive \subseteq {Job[k] : k \in 1 .. started}
  BY DEF TypeOKR
<1>1. CASE Background
  BY <1>0, <1>1 DEF Background
<1>2. CASE Note
  BY <1>0, <1>2 DEF Note
<1>3. CASE Boot
  BY <1>0, <1>3 DEF Boot
<1>4. CASE SendLine
  BY <1>0, <1>4 DEF SendLine, Send
<1>5. CASE Wait
  BY <1>0, <1>5 DEF Wait
<1>6. CASE Judge
  BY <1>0, <1>6 DEF Judge
<1>7. CASE Cleanup
  <2>1. alive' \subseteq {Job[k] : k \in PIDS + 1 .. started}
    BY <1>0, <1>7 DEF Cleanup, Noted
  <2> QED
    BY <1>0, <1>7, <2>1 DEF Cleanup
<1>8. CASE Interrupt
  BY <1>0, <1>8 DEF Interrupt
<1>9. CASE Others
  BY <1>0, <1>9, OthersKeep DEF svars
<1>10. CASE UNCHANGED rvars
  BY <1>10 DEF rvars, svars
<1> QED
  BY <1>1, <1>2, <1>3, <1>4, <1>5, <1>6, <1>7, <1>8, <1>9, <1>10
     DEF NextR, Script, Others

----------------------------------------------------------------------------
(* What is typed. *)

LEMMA AppendFacts ==
  ASSUME NEW T, NEW s \in Seq(T), NEW x \in T
  PROVE  /\ Append(s, x) \in Seq(T) /\ Len(Append(s, x)) = Len(s) + 1
         /\ Append(s, x)[Len(s) + 1] = x
         /\ \A k \in 1 .. Len(s) : Append(s, x)[k] = s[k]
OBVIOUS

LEMMA ElementFacts ==
  ASSUME NEW T
  PROVE  <<>> \in Seq(T) /\ \A s \in Seq(T) : \A k \in 1 .. Len(s) : s[k] \in T
OBVIOUS

LEMMA TailFacts ==
  ASSUME NEW T, NEW s \in Seq(T), s # <<>>
  PROVE  /\ Tail(s) \in Seq(T) /\ Len(Tail(s)) = Len(s) - 1 /\ Len(s) \in Nat \ {0}
         /\ Head(s) = s[1] /\ s[1] \in T
         /\ \A k \in 1 .. Len(s) - 1 : Tail(s)[k] = s[k + 1]
OBVIOUS

Line == {"root", "mount", "test"}

LEMMA RankRange == \A l : Rank(l) \in 1 .. 3 /\ (Rank(l) = 1 <=> l = "root")
BY DEF Rank

LEMMA SentRange == Sent \in 0 .. 3 /\ (Sent = 0 <=> BeforeLogin)
BY DEF Sent

LEMMA TypedInv ==
  TypeOKR /\ Jobs /\ Typed /\ Printed /\ [NextR]_rvars => Typed'
<1> SUFFICES ASSUME TypeOKR, Jobs, Typed, Printed, [NextR]_rvars
             PROVE  Typed'
  OBVIOUS
<1>0. /\ started \in 0 .. 4 /\ typed \in Seq(Line) /\ Len(typed) \in Nat
      /\ guest \in {"off", "booting", "login", "logging_in", "shell", "command", "test", "flag"}
      /\ spc \in {"boot", "root", "mount", "test"} => started = 3
      /\ spc = "start" => started < 4
  <2>1. typed \in Seq(Line)
    BY DEF TypeOKR, Line
  <2>2. Len(typed) \in Nat
    BY <2>1
  <2> QED
    BY <2>1, <2>2, JobLength DEF TypeOKR, Jobs
<1>a. Sent \in 0 .. 3 /\ (Sent = 0 <=> BeforeLogin)
  BY SentRange
<1>b. Sent' \in 0 .. 3 /\ (Sent' = 0 <=> BeforeLogin')
  BY DEF Sent
<1>c. \A k \in 1 .. Len(typed) : Rank(typed[k]) \in 1 .. Sent /\ (Rank(typed[k]) = 1 <=> typed[k] = "root")
  BY <1>a, RankRange DEF Typed
<1>1. CASE UNCHANGED typed /\ UNCHANGED guest /\ Sent <= Sent' /\ (BeforeLogin' => BeforeLogin)
  BY <1>0, <1>1, <1>a, <1>b, <1>c DEF Typed, In
<1>2. CASE Background
  <2>1. Sent' = Sent /\ (BeforeLogin' <=> BeforeLogin) /\ UNCHANGED typed
    BY <1>0, <1>2, JobLength DEF Background, Sent, BeforeLogin
  <2>2. guest' # guest => BeforeLogin
    BY <1>0, <1>2, JobLength DEF Background, BeforeLogin
  <2>3. BeforeLogin => Len(typed) = 0
    BY <1>0, <1>a, <1>c
  <2>4. guest' \in {guest, "booting"}
    BY <1>2 DEF Background
  <2> QED
    BY <1>0, <2>1, <2>2, <2>3, <2>4 DEF Typed, In
<1>3. CASE Note \/ Boot \/ Wait \/ Judge \/ Interrupt
  <2>1. UNCHANGED typed /\ UNCHANGED guest
    BY <1>3 DEF Note, Boot, Wait, Judge, Interrupt, gvars
  <2>2. Sent <= Sent' /\ (BeforeLogin' => BeforeLogin)
    BY <1>0, <1>3, JobLength DEF Note, Boot, Wait, Judge, Interrupt, Sent, BeforeLogin
  <2> QED
    BY <1>1, <2>1, <2>2
<1>4. CASE SendLine
  <2>1. PICK l \in Line : typed' = Append(typed, l) /\ Rank(l) = Sent + 1 /\ Sent' = Sent + 1
                       /\ guest' = guest /\ ~BeforeLogin'
                       /\ (l = "root" => BeforeLogin /\ spc = "root")
    BY <1>0, <1>4, JobLength DEF SendLine, Send, Sent, BeforeLogin, Rank, Line, gvars
  <2>2. /\ typed' \in Seq(Line) /\ Len(typed') = Len(typed) + 1
        /\ typed'[Len(typed) + 1] = l
        /\ \A k \in 1 .. Len(typed) : typed'[k] = typed[k]
    BY <1>0, <2>1, AppendFacts
  <2>3. In("root", typed') => In("root", typed) \/ l = "root"
    BY <1>0, <2>2 DEF In
  <2>4. spc = "root" => guest # "booting"
    BY DEF Printed, Prompted
  <2>5. \A k \in 1 .. Len(typed') : Rank(typed'[k]) <= Sent'
    <3> SUFFICES ASSUME NEW k \in 1 .. Len(typed') PROVE Rank(typed'[k]) <= Sent'
      OBVIOUS
    <3>1. CASE k = Len(typed) + 1
      BY <1>a, <2>1, <2>2, <3>1
    <3>2. CASE k \in 1 .. Len(typed)
      BY <1>0, <1>a, <1>c, <2>1, <2>2, <3>2
    <3> QED
      BY <1>0, <2>2, <3>1, <3>2
  <2>6. \A k \in 1 .. Len(typed') : \A j \in 1 .. k - 1 : Rank(typed'[j]) < Rank(typed'[k])
    <3> SUFFICES ASSUME NEW k \in 1 .. Len(typed'), NEW j \in 1 .. k - 1
                 PROVE  Rank(typed'[j]) < Rank(typed'[k])
      OBVIOUS
    <3>1. j \in 1 .. Len(typed) /\ typed'[j] = typed[j] /\ Rank(typed[j]) \in 1 .. Sent
      BY <1>0, <1>c, <2>2
    <3>2. CASE k = Len(typed) + 1
      BY <1>a, <2>1, <2>2, <3>1, <3>2
    <3>3. CASE k \in 1 .. Len(typed)
      BY <2>2, <3>1, <3>3 DEF Typed
    <3> QED
      BY <1>0, <2>2, <3>2, <3>3
  <2> QED
    BY <2>1, <2>3, <2>4, <2>5, <2>6 DEF Typed
<1>5. CASE Cleanup
  <2>1. UNCHANGED typed /\ guest' \in {guest, "off"} /\ ~BeforeLogin' /\ Sent <= Sent'
    BY <1>5, <1>0 DEF Cleanup, Sent, BeforeLogin
  <2> QED
    BY <1>0, <1>a, <1>b, <1>c, <2>1 DEF Typed, In
<1>6. CASE Types
  <2>1. typed # <<>> /\ typed' = Tail(typed) /\ Sent' = Sent /\ (BeforeLogin' <=> BeforeLogin)
    BY <1>6 DEF Types, Sent, BeforeLogin, svars
  <2>2. /\ Len(typed') = Len(typed) - 1 /\ Len(typed) \in Nat \ {0} /\ typed' \in Seq(Line)
        /\ \A k \in 1 .. Len(typed) - 1 : typed'[k] = typed[k + 1]
        /\ \A k \in 1 .. Len(typed) : typed[k] \in Line
    BY <1>0, <2>1, TailFacts
  <2>3. \A k \in 1 .. Len(typed') : Rank(typed'[k]) <= Sent'
    BY <2>1, <2>2 DEF Typed
  <2>4. \A k \in 1 .. Len(typed') : \A j \in 1 .. k - 1 : Rank(typed'[j]) < Rank(typed'[k])
    <3> SUFFICES ASSUME NEW k \in 1 .. Len(typed'), NEW j \in 1 .. k - 1
                 PROVE  Rank(typed'[j]) < Rank(typed'[k])
      OBVIOUS
    <3> QED
      BY <2>2 DEF Typed
  <2>5. ~In("root", typed')
    <3> SUFFICES ASSUME NEW k \in 1 .. Len(typed'), typed'[k] = "root"
                 PROVE  FALSE
      BY DEF In
    <3>1. 1 \in 1 .. (k + 1) - 1 /\ k + 1 \in 1 .. Len(typed) /\ typed[k + 1] = "root"
      BY <2>2
    <3>2. Rank(typed[1]) < Rank(typed[k + 1])
      BY <3>1 DEF Typed
    <3> QED
      BY <3>1, <3>2, RankRange
  <2>6. ~BeforeLogin
    <3>1. Rank(typed[1]) \in 1 .. Sent
      BY <1>c, <2>2
    <3> QED
      BY <1>a, <3>1
  <2> QED
    BY <2>1, <2>3, <2>4, <2>5, <2>6 DEF Typed
<1>7. CASE Cat \/ CatEnds \/ Tails \/ UNCHANGED rvars
  <2>1. UNCHANGED typed /\ UNCHANGED guest /\ Sent' = Sent /\ (BeforeLogin' <=> BeforeLogin)
    BY <1>7 DEF Cat, CatEnds, Tails, TailOpens, TailFollows, TailStalls, TailGoesOn, CatchUp,
                svars, gvars, rvars, Sent, BeforeLogin
  <2>2. Sent \in 0 .. 3
    BY DEF Sent
  <2> QED
    BY <1>1, <2>1, <2>2
<1>8. CASE Boots \/ LoggedIn \/ TestCommand \/ RunFtpmTest \/ RunAuthvarsTest \/ Flag \/ QemuDies
  <2>1. UNCHANGED typed /\ UNCHANGED svars
    BY <1>8 DEF Boots, LoggedIn, TestCommand, RunFtpmTest, RunAuthvarsTest, Flag, QemuDies
  <2>2. Sent' = Sent /\ (BeforeLogin' <=> BeforeLogin)
    BY <2>1 DEF svars, Sent, BeforeLogin
  <2>3. \/ guest = "booting" /\ guest' = "login" 
        \/ guest \notin {"off", "booting", "login"}
        \/ guest' = "off"
    BY <1>8 DEF Boots, LoggedIn, TestCommand, RunFtpmTest, RunAuthvarsTest, Flag, QemuDies
  <2>4. guest' # "booting"
    BY <1>8 DEF Boots, LoggedIn, TestCommand, RunFtpmTest, RunAuthvarsTest, Flag, QemuDies
  <2> QED
    BY <2>1, <2>2, <2>3, <2>4 DEF Typed, In
<1> QED
  BY <1>1, <1>2, <1>3, <1>4, <1>5, <1>6, <1>7, <1>8 DEF NextR, Script, Guest

----------------------------------------------------------------------------
(* What is printed. *)

Emits(l) == output' = Append(output, l) /\ UNCHANGED REE_LOG
Copies == /\ output # <<>> /\ output' = Tail(output)
          /\ REE_LOG' = Append(REE_LOG, Head(output))

(* One line is printed or copied at a time, and the lines the others look for
   are printed in one place each. *)
LEMMA PrintSteps ==
  ASSUME TypeOKR, [NextR]_rvars
  PROVE  \/ UNCHANGED <<output, REE_LOG>>
         \/ Copies /\ UNCHANGED <<cvars, svars, gvars, typed>>
         \/ Emits("prompt") /\ guest = "booting" /\ guest' = "login"
         \/ /\ Emits("good") /\ guest = "test"
            /\ program = "ftpm_test" => answers' # answers /\ answers'[Len(answers')].code = 0
         \/ Emits("COMPLETE") /\ guest = "flag" /\ guest' = "shell" /\ UNCHANGED <<typed, svars>>
         \/ \E l \in {"echo", "echo_test", "bad"} : Emits(l) /\ guest \notin {"off", "booting"}
<1>1. CASE Script \/ Interrupt \/ CatEnds \/ Tails \/ QemuDies \/ UNCHANGED rvars
  BY <1>1 DEF Script, Background, Note, Boot, SendLine, Send, Wait, Judge, Cleanup, Interrupt,
              CatEnds, Tails, TailOpens, TailFollows, TailStalls, TailGoesOn, CatchUp, QemuDies,
              rvars
<1>2. CASE Cat
  BY <1>2 DEF Cat, Copies
<1>3. CASE Boots \/ LoggedIn \/ TestCommand \/ Flag
  BY <1>3 DEF Boots, LoggedIn, TestCommand, Flag, Emit, Emits
<1>4. CASE Types
  BY <1>4 DEF Types, Emit, Emits, Echo
<1>5. CASE RunFtpmTest \/ RunAuthvarsTest
  BY <1>5 DEF RunFtpmTest, RunAuthvarsTest, Emit, Emits
<1> QED
  BY <1>1, <1>2, <1>3, <1>4, <1>5 DEF NextR, Guest

(* What is in a list of lines after a line was added, or taken. *)
LEMMA InAppend ==
  ASSUME NEW s \in Seq(Lines), NEW x \in Lines, NEW l
  PROVE  In(l, Append(s, x)) <=> In(l, s) \/ x = l
<1>1. /\ Len(s) \in Nat /\ Len(Append(s, x)) = Len(s) + 1 /\ Append(s, x)[Len(s) + 1] = x
      /\ \A k \in 1 .. Len(s) : Append(s, x)[k] = s[k]
  BY AppendFacts
<1> QED
  BY <1>1 DEF In

LEMMA InTail ==
  ASSUME NEW s \in Seq(Lines), s # <<>>, NEW l
  PROVE  In(l, s) <=> Head(s) = l \/ In(l, Tail(s))
<1>1. /\ Len(s) \in Nat \ {0} /\ Len(Tail(s)) = Len(s) - 1 /\ Head(s) = s[1]
      /\ \A k \in 1 .. Len(s) - 1 : Tail(s)[k] = s[k + 1]
  BY TailFacts
<1>2. ASSUME In(l, s) PROVE Head(s) = l \/ In(l, Tail(s))
  <2>1. PICK k \in 1 .. Len(s) : s[k] = l
    BY <1>2 DEF In
  <2>2. CASE k = 1
    BY <1>1, <2>1, <2>2
  <2>3. CASE k # 1
    <3>1. k - 1 \in 1 .. Len(Tail(s)) /\ Tail(s)[k - 1] = s[(k - 1) + 1] /\ (k - 1) + 1 = k
      BY <1>1, <2>1, <2>3
    <3> QED
      BY <2>1, <3>1 DEF In
  <2> QED
    BY <2>2, <2>3
<1>3. ASSUME Head(s) = l \/ In(l, Tail(s)) PROVE In(l, s)
  BY <1>1, <1>3 DEF In
<1> QED
  BY <1>2, <1>3

LEMMA LogsType == TypeOKR => output \in Seq(Lines) /\ REE_LOG \in Seq(Lines)
BY DEF TypeOKR

(* A line that is seen was seen before or is being printed. *)
SeenNext(l) == In(l, REE_LOG') \/ In(l, output')

LEMMA SeenSteps ==
  ASSUME TypeOKR, [NextR]_rvars
  PROVE  /\ Seen("prompt")' => Seen("prompt") \/ (guest = "booting" /\ guest' = "login")
         /\ Seen("good")' =>
              \/ Seen("good")
              \/ program = "ftpm_test" => answers' # answers /\ answers'[Len(answers')].code = 0
         /\ Seen("COMPLETE")' =>
              \/ Seen("COMPLETE")
              \/ guest = "flag" /\ guest' = "shell" /\ UNCHANGED <<typed, svars>>
<1>0. /\ Seen("prompt")' <=> SeenNext("prompt")
      /\ Seen("good")' <=> SeenNext("good")
      /\ Seen("COMPLETE")' <=> SeenNext("COMPLETE")
  BY DEF Seen, SeenNext
<1>1. CASE UNCHANGED <<output, REE_LOG>>
  <2>1. \A l : SeenNext(l) => Seen(l)
    BY <1>1 DEF Seen, SeenNext, In
  <2> QED
    BY <1>0, <2>1
<1>2. CASE Copies
  <2>1. Head(output) \in Lines
    BY <1>2, LogsType, TailFacts DEF Copies
  <2>2. ASSUME NEW l PROVE SeenNext(l) => Seen(l)
    <3>1. In(l, REE_LOG') <=> In(l, REE_LOG) \/ Head(output) = l
      BY <1>2, <2>1, LogsType, InAppend DEF Copies
    <3>2. In(l, output) <=> Head(output) = l \/ In(l, output')
      BY <1>2, LogsType, InTail DEF Copies
    <3> QED
      BY <3>1, <3>2 DEF Seen, SeenNext
  <2> QED
    BY <1>0, <2>2
<1>3. ASSUME NEW x \in Lines, Emits(x), NEW l PROVE SeenNext(l) => Seen(l) \/ x = l
  <2>1. In(l, output') <=> In(l, output) \/ x = l
    BY <1>3, LogsType, InAppend DEF Emits
  <2> QED
    BY <1>3, <2>1 DEF Emits, Seen, SeenNext
<1>4. {"prompt", "good", "COMPLETE", "echo", "echo_test", "bad"} \subseteq Lines
  BY DEF Lines
<1>5. ASSUME NEW x \in Lines, Emits(x)
      PROVE  /\ SeenNext("prompt") => Seen("prompt") \/ x = "prompt"
             /\ SeenNext("good") => Seen("good") \/ x = "good"
             /\ SeenNext("COMPLETE") => Seen("COMPLETE") \/ x = "COMPLETE"
  BY <1>3, <1>5
<1>6. CASE Emits("prompt") /\ guest = "booting" /\ guest' = "login"
  BY <1>0, <1>4, <1>5, <1>6
<1>7. CASE /\ Emits("good")
           /\ program = "ftpm_test" => answers' # answers /\ answers'[Len(answers')].code = 0
  BY <1>0, <1>4, <1>5, <1>7
<1>8. CASE Emits("COMPLETE") /\ guest = "flag" /\ guest' = "shell" /\ UNCHANGED <<typed, svars>>
  BY <1>0, <1>4, <1>5, <1>8
<1>9. CASE \E l \in {"echo", "echo_test", "bad"} : Emits(l)
  BY <1>0, <1>4, <1>5, <1>9
<1> QED
  BY <1>1, <1>2, <1>6, <1>7, <1>8, <1>9, PrintSteps

(* What was copied was printed, and no line is lost. *)
LEMMA SeenStays ==
  ASSUME TypeOKR, [NextR]_rvars, NEW l
  PROVE  (Seen(l) => Seen(l)') /\ (In(l, REE_LOG) => In(l, REE_LOG'))
<1>1. CASE UNCHANGED <<output, REE_LOG>>
  BY <1>1 DEF Seen, In
<1>2. CASE Copies
  <2>1. Head(output) \in Lines
    BY <1>2, LogsType, TailFacts DEF Copies
  <2>2. In(l, REE_LOG') <=> In(l, REE_LOG) \/ Head(output) = l
    BY <1>2, <2>1, LogsType, InAppend DEF Copies
  <2>3. In(l, output) <=> Head(output) = l \/ In(l, output')
    BY <1>2, LogsType, InTail DEF Copies
  <2> QED
    BY <2>2, <2>3 DEF Seen
<1>3. ASSUME NEW x \in Lines, Emits(x) PROVE (Seen(l) => Seen(l)') /\ UNCHANGED REE_LOG
  <2>1. In(l, output') <=> In(l, output) \/ x = l
    BY <1>3, LogsType, InAppend DEF Emits
  <2> QED
    BY <1>3, <2>1 DEF Emits, Seen
<1>4. \/ UNCHANGED <<output, REE_LOG>> \/ Copies \/ \E x \in Lines : Emits(x)
  BY PrintSteps DEF Lines
<1> QED
  BY <1>1, <1>2, <1>3, <1>4

(* The order of the lines. *)
LEMMA OrderedInv == TypeOKR /\ Printed /\ [NextR]_rvars => Ordered'
<1> SUFFICES ASSUME TypeOKR, Printed, [NextR]_rvars PROVE Ordered'
  OBVIOUS
<1>1. CASE UNCHANGED <<output, REE_LOG>>
  BY <1>1 DEF Printed, Ordered, In
<1>2. CASE Copies
  <2> DEFINE x == Head(output)
             n == Len(REE_LOG)
  <2>1. /\ x = output[1] /\ x \in Lines /\ n \in Nat /\ Len(output) \in Nat \ {0}
        /\ Len(output') = Len(output) - 1
        /\ \A k \in 1 .. Len(output) - 1 : output'[k] = output[k + 1]
    BY <1>2, LogsType, TailFacts DEF Copies
  <2>2. /\ Len(REE_LOG') = n + 1 /\ REE_LOG'[n + 1] = x
        /\ \A k \in 1 .. n : REE_LOG'[k] = REE_LOG[k]
    BY <1>2, <2>1, LogsType, AppendFacts DEF Copies
  <2>a. n \in Nat
    BY <2>1
  <2> HIDE DEF n, x
  <2>3. ASSUME NEW k \in 1 .. n + 1, REE_LOG'[k] = "COMPLETE"
        PROVE  \A j \in k .. n + 1 : REE_LOG'[j] # "good"
    <3>1. CASE k = n + 1
      BY <2>1, <2>2, <2>3, <3>1
    <3>2. CASE k \in 1 .. n
      <4>1. REE_LOG[k] = "COMPLETE"
        BY <2>2, <2>3, <3>2
      <4>2. x # "good" /\ \A j \in k .. n : REE_LOG[j] # "good"
        BY <2>1, <3>2, <4>1 DEF Printed, Ordered, In, n
      <4>3. ASSUME NEW j \in k .. n + 1 PROVE REE_LOG'[j] # "good"
        <5>1. CASE j = n + 1
          BY <2>2, <4>2, <5>1
        <5>2. CASE j \in 1 .. n
          BY <2>2, <4>2, <5>2
        <5> QED
          BY <2>a, <3>2, <5>1, <5>2
      <4> QED
        BY <4>3
    <3> QED
      BY <2>a, <3>1, <3>2
  <2>4. ASSUME NEW k \in 1 .. n + 1, REE_LOG'[k] = "COMPLETE"
        PROVE  \A j \in 1 .. Len(output') : output'[j] # "good"
    <3>1. CASE k = n + 1
      <4>1. \A j \in 1 .. Len(output) : output[j] # "good"
        BY <2>1, <2>2, <2>4, <3>1 DEF Printed, Ordered
      <4> QED
        BY <2>1, <4>1
    <3>2. CASE k \in 1 .. n
      <4>1. \A j \in 1 .. Len(output) : output[j] # "good"
        BY <2>2, <2>4, <3>2 DEF Printed, Ordered, In, n
      <4> QED
        BY <2>1, <4>1
    <3> QED
      BY <2>a, <3>1, <3>2
  <2>5. ASSUME NEW k \in 1 .. Len(output'), output'[k] = "COMPLETE",
               NEW j \in k .. Len(output')
        PROVE  output'[j] # "good"
    <3>1. k + 1 \in 1 .. Len(output) /\ output[k + 1] = "COMPLETE" /\ j + 1 \in k + 1 .. Len(output)
      BY <2>1, <2>5
    <3>2. output[j + 1] # "good" /\ output'[j] = output[j + 1]
      BY <2>1, <3>1 DEF Printed, Ordered
    <3> QED
      BY <3>2
  <2> QED
    BY <2>2, <2>3, <2>4, <2>5 DEF Ordered, In
<1>3. ASSUME NEW x \in Lines, Emits(x), x = "good" => ~Seen("COMPLETE") PROVE Ordered'
  <2>1. /\ Len(output) \in Nat /\ Len(output') = Len(output) + 1
        /\ output'[Len(output) + 1] = x
        /\ \A k \in 1 .. Len(output) : output'[k] = output[k]
    BY <1>3, LogsType, AppendFacts DEF Emits
  <2>2. In("good", output') => In("good", output) \/ x = "good"
    BY <1>3, LogsType, InAppend DEF Emits
  <2>3. UNCHANGED REE_LOG
    BY <1>3 DEF Emits
  <2>4. CASE x = "good"
    <3>1. /\ \A k \in 1 .. Len(REE_LOG) : REE_LOG[k] # "COMPLETE"
          /\ \A k \in 1 .. Len(output') : output'[k] # "COMPLETE"
      BY <1>3, <2>1, <2>4 DEF Seen, In
    <3> QED
      BY <2>3, <3>1 DEF Ordered
  <2>5. CASE x # "good"
    <3>1. ASSUME NEW k \in 1 .. Len(output'), output'[k] = "COMPLETE",
                 NEW j \in k .. Len(output')
          PROVE  output'[j] # "good"
      <4>1. CASE j = Len(output) + 1
        BY <2>1, <2>5, <4>1
      <4>2. CASE j # Len(output) + 1
        BY <2>1, <3>1, <4>2 DEF Printed, Ordered
      <4> QED
        BY <4>1, <4>2
    <3> QED
      BY <2>2, <2>3, <2>5, <3>1 DEF Printed, Ordered
  <2> QED
    BY <2>4, <2>5
<1>4. CASE Emits("good") /\ guest = "test"
  BY <1>3, <1>4 DEF Lines, Printed, Once
<1> QED
  BY <1>1, <1>2, <1>3, <1>4, PrintSteps DEF Lines

(* Nothing the client was answered is taken back. *)
LEMMA AnswerSteps ==
  ASSUME TypeOKR, [NextR]_rvars
  PROVE  \/ answers' = answers
         \/ /\ Len(answers') = Len(answers) + 1
            /\ \A k \in 1 .. Len(answers) : answers'[k] = answers[k]
<1>1. CASE answers' = answers
  BY <1>1
<1>2. CASE InvokeCommand /\ answers' # answers
  <2>1. PICK c \in {0, 1} : answers' = Append(answers, [sess |-> sess, code |-> c])
    BY <1>2 DEF InvokeCommand, errx
  <2>2. answers \in Seq([sess : 1 .. 2, code : {0, 1}])
    BY DEF TypeOKR, TypeC
  <2> QED
    BY <2>1, <2>2
<1>3. InvokeCommand \/ answers' = answers
  BY ClientSteps DEF cvars, rvars, StartClient, ClientCall, errx, InitializeContext, OpenSession,
     AllocateSharedMemory, CheckResponse, CloseSession, FinalizeContext
<1> QED
  BY <1>1, <1>2, <1>3

LEMMA HonestInv == TypeOKR /\ Printed /\ Client' /\ [NextR]_rvars => Honest'
<1> SUFFICES ASSUME TypeOKR, Printed, Client', [NextR]_rvars, Seen("good")', program' = "ftpm_test"
             PROVE  Len(answers') >= 1 /\ answers'[1].code = 0
  BY DEF Honest
<1>1. program' = program
  BY DEF NextR, Script, Background, Note, Boot, SendLine, Send, Wait, Judge, Cleanup, Interrupt,
         Cat, CatEnds, Tails, TailOpens, TailFollows, TailStalls, TailGoesOn, CatchUp, Guest,
         Boots, Types, LoggedIn, TestCommand,
         RunFtpmTest, RunAuthvarsTest, Flag, QemuDies, gvars, rvars
<1>2. Len(answers) \in Nat
  BY DEF TypeOKR, TypeC
<1>3. CASE Seen("good")
  <2>1. Len(answers) >= 1 /\ answers[1].code = 0
    BY <1>1, <1>3 DEF Printed, Honest
  <2> QED
    BY <1>2, <2>1, AnswerSteps
<1>4. CASE ~Seen("good")
  <2>1. answers' # answers /\ answers'[Len(answers')].code = 0
    BY <1>1, <1>4, SeenSteps
  <2>2. Len(answers') = Len(answers) + 1
    BY <2>1, AnswerSteps
  <2>3. \A k \in 1 .. Len(answers') - 1 : answers'[k].code = 0
    BY DEF Client
  <2> QED
    BY <1>2, <2>1, <2>2, <2>3
<1> QED
  BY <1>3, <1>4

(* The script goes forward only, and what it types is one line further on. *)
LEMMA ScriptSteps ==
  ASSUME TypeOKR, Jobs, [NextR]_rvars
  PROVE  /\ Sent <= Sent' /\ Sent \in 0 .. 3 /\ Sent' \in 0 .. 3
         /\ \/ UNCHANGED <<typed, guest>>
            \/ SendLine /\ Sent < 3 /\ UNCHANGED guest
            \/ Types /\ UNCHANGED svars
            \/ UNCHANGED typed /\ Background /\ guest' = "booting" /\ started' = 3 /\ spc' = "note"
            \/ UNCHANGED typed /\ guest' = "off"
            \/ UNCHANGED <<typed, svars>> /\ guest # "off" /\ guest' # "booting"
<1>0. /\ started \in 0 .. 4
      /\ spc \in {"boot", "root", "mount", "test"} => started = 3
      /\ spc = "start" => started < 4
      /\ Sent \in 0 .. 3 /\ Sent' \in 0 .. 3
  BY JobLength, SentRange DEF TypeOKR, Jobs, Sent
<1>1. CASE Background
  BY <1>0, <1>1, JobLength DEF Background, Sent, BeforeLogin
<1>2. CASE Note \/ Boot \/ Wait \/ Judge \/ Interrupt
  BY <1>0, <1>2, JobLength DEF Note, Boot, Wait, Judge, Interrupt, Sent, BeforeLogin, gvars
<1>3. CASE SendLine
  BY <1>0, <1>3, JobLength DEF SendLine, Send, Sent, BeforeLogin, gvars
<1>4. CASE Cleanup
  BY <1>0, <1>4 DEF Cleanup, Sent, BeforeLogin
<1>5. CASE Types
  <2>1. UNCHANGED svars
    BY <1>5 DEF Types
  <2> QED
    BY <1>0, <1>5, <2>1 DEF Sent, BeforeLogin, svars
<1>6. CASE Cat \/ CatEnds \/ Tails \/ UNCHANGED rvars
  <2>1. UNCHANGED <<typed, guest>> /\ UNCHANGED svars
    BY <1>6 DEF Cat, CatEnds, Tails, TailOpens, TailFollows, TailStalls, TailGoesOn, CatchUp,
                svars, gvars, rvars
  <2> QED
    BY <1>0, <2>1 DEF Sent, BeforeLogin, svars
<1>7. CASE Boots \/ LoggedIn \/ TestCommand \/ RunFtpmTest \/ RunAuthvarsTest \/ Flag \/ QemuDies
  <2>1. UNCHANGED typed /\ UNCHANGED svars
    BY <1>7 DEF Boots, LoggedIn, TestCommand, RunFtpmTest, RunAuthvarsTest, Flag, QemuDies
  <2>2. guest' = "off" \/ (guest # "off" /\ guest' # "booting")
    BY <1>7 DEF Boots, LoggedIn, TestCommand, RunFtpmTest, RunAuthvarsTest, Flag, QemuDies
  <2> QED
    BY <1>0, <2>1, <2>2 DEF Sent, BeforeLogin, svars
<1> QED
  BY <1>1, <1>2, <1>3, <1>4, <1>5, <1>6, <1>7 DEF NextR, Script, Guest

LEMMA PromptedInv == TypeOKR /\ Jobs /\ Printed /\ [NextR]_rvars => Prompted'
<1> SUFFICES ASSUME TypeOKR, Jobs, Printed, [NextR]_rvars PROVE Prompted'
  OBVIOUS
<1>1. /\ started \in 0 .. 4 /\ started' \in {started, started + 1}
      /\ guest' = "booting" => guest = "booting" \/ (Background /\ started' = 3 /\ spc' = "note")
      /\ guest = "off" => guest' = "off" \/ started' = 3
  <2>1. started' \in {started, started + 1}
    BY DEF NextR, Script, Background, Note, Boot, SendLine, Send, Wait, Judge, Cleanup, Interrupt,
           Cat, CatEnds, Tails, TailOpens, TailFollows, TailStalls, TailGoesOn, CatchUp, Guest,
           Boots, Types, LoggedIn, TestCommand,
           RunFtpmTest, RunAuthvarsTest, Flag, QemuDies, svars, rvars
  <2>2. Types => guest # "off" /\ guest' # "booting"
    BY DEF Types
  <2> QED
    BY <2>1, <2>2, ScriptSteps, JobLength DEF TypeOKR
<1>2. ASSUME started' < QEMU PROVE output' = <<>> /\ REE_LOG' = <<>> /\ guest' = "off"
  <2>1. output = <<>> /\ REE_LOG = <<>> /\ guest = "off" /\ guest' = "off"
    BY <1>1, <1>2, JobLength DEF Printed, Prompted
  <2> QED
    BY <2>1, PrintSteps DEF Copies
<1>3. ASSUME guest' = "booting" PROVE ~Seen("prompt")' /\ spc' # "root"
  <2>1. CASE guest = "booting"
    <3>1. ~Seen("prompt") /\ spc # "root"
      BY <2>1 DEF Printed, Prompted
    <3>2. ~Seen("prompt")'
      BY <1>3, <3>1, SeenSteps
    <3>3. spc' = "root" => spc = "root" \/ Boot
      BY <1>1, JobLength
         DEF NextR, Script, Background, Note, SendLine, Send, Wait, Judge, Cleanup, Interrupt,
             Cat, CatEnds, Tails, TailOpens, TailFollows, TailStalls, TailGoesOn, CatchUp, Guest,
             Boots, Types, LoggedIn,
             TestCommand, RunFtpmTest, RunAuthvarsTest, Flag, QemuDies, svars, rvars
    <3>4. Boot => Seen("prompt")
      BY DEF Boot, Seen, In
    <3> QED
      BY <3>1, <3>2, <3>3, <3>4
  <2>2. CASE Background /\ started' = 3 /\ spc' = "note"
    <3>1. started < QEMU
      BY <1>1, <2>2, JobLength DEF Background
    <3>2. output' = <<>> /\ REE_LOG' = <<>>
      BY <2>2, <3>1 DEF Background, Printed, Prompted
    <3> QED
      BY <2>2, <3>2 DEF Seen, In
  <2> QED
    BY <1>1, <1>3, <2>1, <2>2
<1> QED
  BY <1>2, <1>3 DEF Prompted

LEMMA OnceInv == TypeOKR /\ Jobs /\ Typed /\ Printed /\ [NextR]_rvars => Once'
<1> SUFFICES ASSUME TypeOKR, Jobs, Typed, Printed, [NextR]_rvars PROVE Once'
  OBVIOUS
<1> DEFINE Busy == {"command", "test", "flag"}
           Over == guest \in Busy \/ Seen("COMPLETE")
<1>1. Sent <= Sent' /\ Sent \in 0 .. 3 /\ Sent' \in 0 .. 3
  BY ScriptSteps
<1>2. Over => Sent = 3 /\ ~In("test", typed)
  BY DEF Printed, Once
<1>3. Seen("COMPLETE")' =>
        Over /\ (Seen("COMPLETE") \/ (guest = "flag" /\ guest' = "shell" /\ UNCHANGED <<typed, svars>>))
  BY SeenSteps
<1>4. typed \in Seq(Line)
  BY DEF TypeOKR, Line
<1>5. CASE Types
  <2>1. /\ typed # <<>> /\ typed' = Tail(typed) /\ guest \in {"login", "logging_in", "shell"}
        /\ guest' \in Busy => guest = "shell" /\ Head(typed) # "mount"
    BY <1>5 DEF Types
  <2>2. /\ Len(typed) \in Nat \ {0} /\ Len(typed') = Len(typed) - 1 /\ Head(typed) = typed[1]
        /\ \A k \in 1 .. Len(typed) - 1 : typed'[k] = typed[k + 1]
        /\ typed[1] \in Line
    BY <1>4, <2>1, TailFacts
  <2>3. ~In("test", typed) => ~In("test", typed')
    BY <2>2 DEF In
  <2>4. ASSUME guest' \in Busy
        PROVE  Sent' = 3 /\ ~In("test", typed') /\ ~Seen("COMPLETE")'
    <3>1. typed[1] # "root"
      <4>1. ~In("root", typed)
        BY <2>1, <2>4 DEF Typed
      <4> QED
        BY <2>2, <4>1 DEF In
    <3>2. typed[1] = "test"
      BY <2>1, <2>2, <2>4, <3>1 DEF Line
    <3>3. Rank(typed[1]) = 3 /\ Rank(typed[1]) <= Sent
      BY <2>2, <3>2 DEF Rank, Typed
    <3>4. ASSUME NEW k \in 1 .. Len(typed') PROVE typed'[k] # "test"
      <4>1. typed'[k] = typed[k + 1] /\ k + 1 \in 1 .. Len(typed) /\ 1 \in 1 .. (k + 1) - 1
        BY <2>2
      <4>2. Rank(typed[1]) < Rank(typed[k + 1])
        BY <4>1 DEF Typed
      <4> QED
        BY <3>3, <4>1, <4>2 DEF Rank
    <3>5. ~Over
      BY <1>2, <2>2, <3>2 DEF In
    <3> QED
      BY <1>1, <1>3, <3>3, <3>4, <3>5 DEF In
  <2>5. guest \notin Busy
    BY <2>1
  <2> QED
    BY <1>1, <1>2, <1>3, <2>3, <2>4, <2>5 DEF Once
<1>6. CASE SendLine /\ Sent < 3 /\ UNCHANGED guest
  BY <1>1, <1>2, <1>3, <1>6 DEF Once
<1>7. CASE UNCHANGED typed /\ (guest' \in Busy => guest \in Busy) /\ ~Types
  <2>1. In("test", typed') => In("test", typed)
    BY <1>7
  <2>2. Seen("COMPLETE") => guest \notin Busy
    BY DEF Printed, Once
  <2> QED
    BY <1>1, <1>2, <1>3, <1>7, <2>1, <2>2 DEF Once
<1>8. \/ Types \/ guest' \notin Busy \/ guest' = guest \/ guest \in Busy
  BY DEF NextR, Script, Background, Note, Boot, SendLine, Send, Wait, Judge, Cleanup, Interrupt,
         Cat, CatEnds, Tails, TailOpens, TailFollows, TailStalls, TailGoesOn, CatchUp, Guest,
         Boots, LoggedIn, TestCommand,
         RunFtpmTest, RunAuthvarsTest, Flag, QemuDies, gvars, rvars
<1> QED
  BY <1>5, <1>6, <1>7, <1>8, ScriptSteps

----------------------------------------------------------------------------
(* What the script judges by. *)

(* The log grows at its end, and the tail goes on from where it began. *)
LEMMA LogSteps ==
  ASSUME TypeOKR, [NextR]_rvars
  PROVE  /\ Len(REE_LOG) \in Nat /\ Len(REE_LOG') \in Nat /\ Len(REE_LOG) <= Len(REE_LOG')
         /\ \A k \in 1 .. Len(REE_LOG) : REE_LOG'[k] = REE_LOG[k]
         /\ REE_LOG' \in Seq(Lines) /\ output' \in Seq(Lines)
<1>1. CASE UNCHANGED <<output, REE_LOG>>
  BY <1>1, LogsType
<1>2. CASE Copies
  <2>1. Head(output) \in Lines /\ output' \in Seq(Lines)
    BY <1>2, LogsType, TailFacts DEF Copies
  <2> QED
    BY <1>2, <2>1, LogsType, AppendFacts DEF Copies
<1>3. ASSUME NEW x \in Lines, Emits(x) PROVE output' \in Seq(Lines) /\ UNCHANGED REE_LOG
  BY <1>3, LogsType, AppendFacts DEF Emits
<1>4. \/ UNCHANGED <<output, REE_LOG>> \/ Copies \/ \E x \in Lines : Emits(x)
  BY PrintSteps DEF Lines
<1> QED
  BY <1>1, <1>2, <1>3, <1>4, LogsType

LEMMA TailMoves ==
  [NextR]_rvars => UNCHANGED tvars \/ TailOpens \/ TailFollows \/ TailStalls \/ CatchUp
BY DEF NextR, Script, Background, Note, Boot, SendLine, Send, Wait, Judge, Cleanup, Interrupt,
       Cat, CatEnds, Tails, TailGoesOn, Guest, Boots, Types, LoggedIn, TestCommand, RunFtpmTest,
       RunAuthvarsTest, Flag, QemuDies, rvars

LEMMA StallSteps ==
  ASSUME stalled \in BOOLEAN, forces \in BOOLEAN, [NextR]_rvars
  PROVE  stalled' \in BOOLEAN /\ forces' \in BOOLEAN
<1>1. stalled' \in {stalled, TRUE, FALSE} /\ forces' = forces
  BY TailMoves, Zenon DEF TailOpens, TailFollows, TailStalls, CatchUp, tvars
<1> QED
  BY <1>1

LEMMA TailSteps ==
  ASSUME TypeOKR, [NextR]_rvars
  PROVE  /\ from' \in -1 .. Len(REE_LOG') /\ to' \in from' .. Len(REE_LOG')
         /\ from >= 0 => from' = from /\ to' >= to
         /\ from = -1 /\ ~stalled =>
              UNCHANGED <<from, to, stalled>> \/ (from' = Len(REE_LOG) /\ to' = Len(REE_LOG))
<1>1. from \in -1 .. Len(REE_LOG) /\ to \in from .. Len(REE_LOG)
  BY DEF TypeOKR
<1>2. Len(REE_LOG) \in Nat /\ Len(REE_LOG') \in Nat /\ Len(REE_LOG) <= Len(REE_LOG')
  BY LogSteps
<1>3. CASE TailOpens
  BY <1>1, <1>2, <1>3 DEF TailOpens
<1>4. CASE TailFollows \/ TailStalls
  BY <1>1, <1>2, <1>4 DEF TailFollows, TailStalls
<1>5. CASE CatchUp
  BY <1>1, <1>2, <1>5 DEF CatchUp
<1>6. CASE UNCHANGED tvars
  BY <1>1, <1>2, <1>6 DEF tvars
<1> QED
  BY TailMoves, <1>3, <1>4, <1>5, <1>6

(* The lines the tail has come past, from the one it began at, stay what they
   are. *)
LEMMA JudgedInv == TypeOKR /\ Jobs /\ Judged /\ [NextR]_rvars => Judged'
<1> SUFFICES ASSUME TypeOKR, Jobs, Judged, [NextR]_rvars PROVE Judged'
  OBVIOUS
<1>1. /\ from \in -1 .. Len(REE_LOG) /\ to \in from .. Len(REE_LOG)
      /\ Len(REE_LOG) \in Nat /\ Len(REE_LOG') \in Nat /\ Len(REE_LOG) <= Len(REE_LOG')
      /\ from' \in -1 .. Len(REE_LOG') /\ to' \in from' .. Len(REE_LOG')
      /\ from >= 0 => from' = from /\ to' >= to
      /\ from = -1 =>
           UNCHANGED <<from, to, stalled>> \/ (from' = Len(REE_LOG) /\ to' = Len(REE_LOG))
      /\ \A k \in 1 .. Len(REE_LOG) : REE_LOG'[k] = REE_LOG[k]
  BY LogSteps, TailSteps DEF TypeOKR, Judged
<1>2. from' = -1 => to' = -1 /\ ~stalled'
  BY <1>1 DEF Judged
<1>3. In("good", REE_LOG) => In("good", REE_LOG')
  BY SeenStays
<1>4. ASSUME NEW k \in from + 1 .. to
      PROVE  /\ from >= 0 /\ from' = from /\ k \in from' + 1 .. to' /\ REE_LOG'[k] = REE_LOG[k]
             /\ \A j \in from + 1 .. k : REE_LOG'[j] = REE_LOG[j]
  <2>1. from >= 0
    BY <1>1 DEF Judged
  <2> QED
    BY <1>1, <2>1
<1>5. CASE Wait /\ spc' = "judge"
  <2>1. /\ spc' = "judge" /\ code' = -1 /\ UNCHANGED <<from, to, REE_LOG>>
        /\ \E l \in RESULTS_LOG : HasFlag(l)
    BY <1>5 DEF Wait, Jobs, tvars
  <2>2. \E k \in from + 1 .. to : from >= 0 /\ HasFlag(REE_LOG[k])
    BY <1>4, <2>1 DEF RESULTS_LOG
  <2>3. \E k \in from' + 1 .. to' : from' >= 0 /\ HasFlag(REE_LOG'[k])
    BY <2>1, <2>2
  <2> QED
    BY <1>2, <2>1, <2>3 DEF Judged
<1>6. CASE Judge
  <2>1. /\ spc' = "cleanup" /\ UNCHANGED <<from, to, REE_LOG>>
        /\ code' = IF \E k \in from + 1 .. to : REE_LOG[k] = "good" THEN 0 ELSE 1
    BY <1>6 DEF Judge, RESULTS_LOG, HasGoodResult, tvars
  <2>2. code' = 0 => In("good", REE_LOG')
    BY <1>1, <1>4, <2>1 DEF In
  <2>3. PICK k \in from + 1 .. to : from >= 0 /\ HasFlag(REE_LOG[k])
    BY <1>6 DEF Judge, Judged
  <2>4. ASSUME code' = 1
        PROVE  \E i \in from' + 1 .. to' :
                 /\ from' >= 0 /\ HasFlag(REE_LOG'[i])
                 /\ \A j \in from' + 1 .. i : REE_LOG'[j] # "good"
    <3>1. \A j \in from + 1 .. to : REE_LOG[j] # "good"
      BY <2>1, <2>4
    <3> QED
      BY <1>1, <2>1, <2>3, <3>1
  <2> QED
    BY <1>2, <2>1, <2>2, <2>4 DEF Judged
<1>7. CASE spc' = "judge" => spc = "judge"
  <2>1. code' # code => code' \notin {0, 1} \/ Judge
    BY DEF NextR, Script, Background, Note, Boot, SendLine, Send, Wait, Cleanup, Interrupt,
           Cat, CatEnds, Tails, TailOpens, TailFollows, TailStalls, TailGoesOn, CatchUp, Guest,
           Boots, Types, LoggedIn, TestCommand,
           RunFtpmTest, RunAuthvarsTest, Flag, QemuDies, svars, rvars
  <2>2. CASE Judge
    BY <1>6, <2>2
  <2>3. CASE code' \in {0, 1} => code' = code
    <3>1. ASSUME spc' = "judge"
          PROVE  \E k \in from' + 1 .. to' : from' >= 0 /\ HasFlag(REE_LOG'[k])
      <4>1. PICK k \in from + 1 .. to : from >= 0 /\ HasFlag(REE_LOG[k])
        BY <1>7, <3>1 DEF Judged
      <4> QED
        BY <1>4, <4>1
    <3>2. ASSUME code' = 1
          PROVE  \E k \in from' + 1 .. to' :
                   /\ from' >= 0 /\ HasFlag(REE_LOG'[k])
                   /\ \A j \in from' + 1 .. k : REE_LOG'[j] # "good"
      <4>1. PICK k \in from + 1 .. to : /\ from >= 0 /\ HasFlag(REE_LOG[k])
                                        /\ \A j \in from + 1 .. k : REE_LOG[j] # "good"
        BY <2>3, <3>2 DEF Judged
      <4> QED
        BY <1>4, <4>1
    <3>3. code' = 0 => In("good", REE_LOG')
      BY <1>3, <2>3 DEF Judged
    <3> QED
      BY <1>2, <3>1, <3>2, <3>3 DEF Judged
  <2> QED
    BY <2>1, <2>2, <2>3
<1>8. spc' = "judge" => spc = "judge" \/ Wait
  BY JobLength
     DEF TypeOKR, NextR, Script, Background, Note, Boot, SendLine, Send, Judge, Cleanup, Interrupt,
         Cat, CatEnds, Tails, TailOpens, TailFollows, TailStalls, TailGoesOn, CatchUp, Guest,
         Boots, Types, LoggedIn, TestCommand,
         RunFtpmTest, RunAuthvarsTest, Flag, QemuDies, svars, rvars
<1> QED
  BY <1>5, <1>7, <1>8

----------------------------------------------------------------------------
(* The types. *)

LEMMA TypeInv ==
  TypeOKR /\ Client /\ Jobs /\ [NextR]_rvars => TypeOKR' /\ Client'
<1> SUFFICES ASSUME TypeOKR, Client, Jobs, [NextR]_rvars PROVE TypeOKR' /\ Client'
  OBVIOUS
<1>1. TypeC' /\ Client'
  <2>1. [StartClient \/ ClientCall]_cvars
    BY ClientSteps DEF rvars, cvars
  <2> QED
    BY <2>1, ClientInv DEF TypeOKR
<1>2. /\ spc' \in {"start", "note", "boot", "root", "mount", "test", "wait", "judge", "cleanup",
                   "exited"}
      /\ started' \in 0 .. Len(Job) /\ PIDS' \in 0 .. started'
      /\ code' \in {-1, 0, 1, 143}
      /\ alive' \subseteq {Job[k] : k \in 1 .. started'}
  <2>0. /\ spc \in {"start", "note", "boot", "root", "mount", "test", "wait", "judge",
                    "cleanup", "exited"}
        /\ started \in 0 .. 4 /\ PIDS \in 0 .. started /\ code \in {-1, 0, 1, 143}
        /\ alive \subseteq {Job[k] : k \in 1 .. started}
        /\ spc = "start" => started < 4
    BY JobLength DEF TypeOKR, Jobs
  <2>1. CASE Background
    BY <2>0, <2>1, JobLength DEF Background
  <2>2. CASE Note \/ Boot \/ SendLine \/ Wait \/ Judge \/ Interrupt
    BY <2>0, <2>2, JobLength DEF Note, Boot, SendLine, Send, Wait, Judge, Interrupt
  <2>3. CASE Cleanup
    BY <2>0, <2>3, JobLength DEF Cleanup
  <2>4. CASE Others \/ UNCHANGED rvars
    BY <2>0, <2>4, JobLength, OthersKeep DEF rvars, svars
  <2> QED
    BY <2>1, <2>2, <2>3, <2>4 DEF NextR, Script, Others
<1>3. typed' \in Seq({"root", "mount", "test"})
  <2>1. typed \in Seq({"root", "mount", "test"})
    BY DEF TypeOKR
  <2>2. CASE SendLine
    <3>1. PICK l \in {"root", "mount", "test"} : typed' = Append(typed, l)
      BY <2>2 DEF SendLine, Send
    <3> QED
      BY <2>1, <3>1, AppendFacts
  <2>3. CASE Types
    BY <2>1, <2>3, TailFacts DEF Types
  <2>4. SendLine \/ Types \/ UNCHANGED typed
    BY ScriptSteps DEF Background
  <2> QED
    BY <2>1, <2>2, <2>3, <2>4
<1>4. /\ guest' \in {"off", "booting", "login", "logging_in", "shell", "command", "test", "flag"}
      /\ mounted' \in BOOLEAN /\ lost' \in BOOLEAN
  <2>1. /\ guest \in {"off", "booting", "login", "logging_in", "shell", "command", "test", "flag"}
        /\ mounted \in BOOLEAN /\ lost \in BOOLEAN
    BY DEF TypeOKR
  <2>2. CASE Script \/ Interrupt \/ Cat \/ CatEnds \/ Tails \/ QemuDies
             \/ UNCHANGED rvars
    BY <2>1, <2>2
       DEF Script, Background, Note, Boot, SendLine, Send, Wait, Judge, Cleanup, Interrupt,
           Cat, CatEnds, Tails, TailOpens, TailFollows, TailStalls, TailGoesOn, CatchUp,
           QemuDies, gvars, rvars
  <2>3. CASE Types
    BY <2>1, <2>3 DEF Types
  <2>4. CASE Boots \/ LoggedIn \/ TestCommand \/ RunFtpmTest \/ RunAuthvarsTest \/ Flag
    BY <2>1, <2>4 DEF Boots, LoggedIn, TestCommand, RunFtpmTest, RunAuthvarsTest, Flag
  <2> QED
    BY <2>2, <2>3, <2>4 DEF NextR, Guest
<1>5. stalled' \in BOOLEAN /\ forces' \in BOOLEAN
  <2>1. stalled \in BOOLEAN /\ forces \in BOOLEAN
    BY DEF TypeOKR
  <2> QED
    BY <2>1, StallSteps
<1> QED
  BY <1>1, <1>2, <1>3, <1>4, <1>5, LogSteps, TailSteps DEF TypeOKR

----------------------------------------------------------------------------
(* The invariant, and what follows from it. *)

LEMMA InitIInv == InitR => IInv
<1> SUFFICES ASSUME InitR PROVE IInv
  OBVIOUS
<1>1. /\ answers = <<>> /\ typed = <<>> /\ output = <<>> /\ REE_LOG = <<>>
      /\ Len(answers) = 0 /\ Len(typed) = 0 /\ Len(output) = 0 /\ Len(REE_LOG) = 0
  BY DEF InitR, InitC
<1>2. TypeOKR
  <2>1. TypeC
    <3>1. answers \in Seq([sess : 1 .. 2, code : {0, 1}])
      BY <1>1, ElementFacts
    <3>2. cpc = "idle" /\ context = FALSE /\ sess = 0 /\ opened = 0 /\ shared = 0 /\ exit = -1
      BY DEF InitR, InitC
    <3>3. Len(answers) <= shared
      BY <1>1, <3>2
    <3>4. context \in BOOLEAN
      BY <3>2, Zenon
    <3>5. /\ opened \in 0 .. 2 /\ sess \in 0 .. opened /\ shared \in 0 .. opened
          /\ exit \in {-1, 0, 1}
      BY <3>2
    <3>6. cpc \in {"idle", "context", "session", "allocate", "invoke", "check", "close",
                  "finalize", "exit"}
      BY <3>2
    <3> QED
      BY <3>1, <3>3, <3>4, <3>5, <3>6, Zenon DEF TypeC
  <2>2. started \in 0 .. Len(Job) /\ PIDS \in 0 .. started /\ alive \subseteq {Job[k] : k \in 1 .. started}
    BY JobLength DEF InitR
  <2>3. from \in -1 .. Len(REE_LOG) /\ to \in from .. Len(REE_LOG)
    BY <1>1 DEF InitR
  <2>4. typed \in Seq({"root", "mount", "test"}) /\ output \in Seq(Lines) /\ REE_LOG \in Seq(Lines)
    BY <1>1, ElementFacts
  <2> QED
    BY <2>1, <2>2, <2>3, <2>4 DEF InitR, TypeOKR
<1>3. Client
  BY <1>1 DEF InitR, InitC, Client
<1>4. Jobs
  BY DEF InitR, Jobs, NoJobLeft
<1>5. Typed
  BY <1>1 DEF InitR, Typed, BeforeLogin, QEMU, In
<1>6. Printed
  BY <1>1 DEF InitR, Printed, Prompted, Honest, Ordered, Once, Seen, In
<1>7. Judged
  BY DEF InitR, Judged
<1> QED
  BY <1>2, <1>3, <1>4, <1>5, <1>6, <1>7 DEF IInv

LEMMA NextIInv == IInv /\ [NextR]_rvars => IInv'
<1> SUFFICES ASSUME IInv, [NextR]_rvars PROVE IInv'
  OBVIOUS
<1>1. TypeOKR /\ Client /\ Jobs /\ Typed /\ Printed /\ Judged
  BY DEF IInv
<1>2. TypeOKR' /\ Client' /\ Jobs' /\ Typed' /\ Judged'
  BY <1>1, TypeInv, JobsInv, TypedInv, JudgedInv
<1>3. Prompted' /\ Honest' /\ Ordered' /\ Once'
  BY <1>1, <1>2, PromptedInv, HonestInv, OrderedInv, OnceInv
<1> QED
  BY <1>2, <1>3 DEF IInv, Printed

LEMMA Invariant == SpecR => []IInv
<1> QED
  BY InitIInv, NextIInv, PTL DEF SpecR

(* Two records with the fields of an answer. *)
LEMMA IInvSelfTestTwice == TypeC /\ Client => SelfTestTwice
<1> SUFFICES ASSUME TypeC, Client, exit = 0
             PROVE  /\ answers = <<[sess |-> 1, code |-> 0], [sess |-> 2, code |-> 0]>>
                    /\ sess = 0 /\ ~context
  BY DEF SelfTestTwice
<1>1. Len(answers) = 2 /\ AllGood /\ sess = 0 /\ ~context
  BY DEF Client
<1>2. answers \in Seq([sess : 1 .. 2, code : {0, 1}])
  BY DEF TypeC
<1>3. ASSUME NEW k \in 1 .. 2 PROVE answers[k] = [sess |-> k, code |-> 0]
  <2>1. k \in 1 .. Len(answers)
    BY <1>1
  <2>2. answers[k] \in [sess : 1 .. 2, code : {0, 1}] /\ answers[k].sess = k /\ answers[k].code = 0
    BY <1>1, <1>2, <2>1, ElementFacts DEF AllGood
  <2> QED
    BY <2>2
<1> QED
  BY <1>1, <1>2, <1>3

(* Whatever the flag was that ended the wait, no good line comes behind it; and
   none was there before it, or the script had found it. *)
LEMMA IInvVerdict == IInv => VerdictExact
<1> SUFFICES ASSUME IInv PROVE VerdictExact
  OBVIOUS
<1>1. TypeOKR /\ Printed /\ Judged
  BY DEF IInv
<1>2. Len(REE_LOG) \in Nat /\ from \in -1 .. Len(REE_LOG) /\ to \in from .. Len(REE_LOG)
  BY <1>1 DEF TypeOKR
<1>3. code = 0 => \E k \in 1 .. Len(REE_LOG) : REE_LOG[k] = "good"
  BY <1>1 DEF Judged, In
<1>4. code = 0 => Seen("good")
  BY <1>3 DEF Seen, In
<1>5. code = 0 /\ program = "ftpm_test" => answers[1].code = 0
  BY <1>1, <1>4 DEF Printed, Honest
<1>6. ASSUME code = 1, InTime, NEW g \in 1 .. Len(REE_LOG), REE_LOG[g] = "good" PROVE FALSE
  <2>1. PICK k \in from + 1 .. to :
          /\ from >= 0 /\ HasFlag(REE_LOG[k]) /\ \A j \in from + 1 .. k : REE_LOG[j] # "good"
    BY <1>1, <1>6 DEF Judged
  <2>2. from < g
    BY <1>6 DEF InTime, At
  <2>3. k \in 1 .. Len(REE_LOG) /\ from < k
    BY <1>2, <2>1
  <2>4. REE_LOG[k] # "echo_test"
    BY <1>6, <1>2, <2>3 DEF InTime, At
  <2>5. REE_LOG[k] = "COMPLETE"
    BY <2>1, <2>4 DEF HasFlag
  <2>6. \A j \in k .. Len(REE_LOG) : REE_LOG[j] # "good"
    BY <1>1, <2>3, <2>5 DEF Printed, Ordered
  <2> QED
    BY <1>2, <1>6, <2>1, <2>2, <2>3, <2>6
<1> QED
  BY <1>3, <1>5, <1>6 DEF VerdictExact, At

----------------------------------------------------------------------------
(* Every variable of the script, its jobs, the guest and the client keeps its
   type: no job runs that was not started, no more than one has not been noted,
   and the tail is never behind where it began nor ahead of the log. *)
THEOREM ScriptTypes == SpecR => []TypeOKR
<1>1. IInv => TypeOKR
  BY DEF IInv
<1> QED
  BY <1>1, Invariant, PTL

(* The fTPM client exits with 0 only after two self tests that succeeded, in two
   sessions one after the other, of which none is left open. *)
THEOREM TwoSelfTests == SpecR => []SelfTestTwice
<1>1. IInv => SelfTestTwice
  BY IInvSelfTestTwice DEF IInv, TypeOKR
<1> QED
  BY <1>1, Invariant, PTL

(* In every interleaving of the script, cat, tail and the guest, a script that
   exits with 0 has been given the line that means success, by a first self test
   that was good where it ran the fTPM client; and one that exits with 1 has not
   been given it, where the tail opened the log in time. *)
THEOREM PassIsEarned == SpecR => []VerdictExact
<1> QED
  BY IInvVerdict, Invariant, PTL

(* No background job outlives the script, but for the one whose start a signal
   has kept from being noted. *)
THEOREM JobsCleanedUp == SpecR => []NoJobLeft
<1>1. IInv => NoJobLeft
  BY DEF IInv, Jobs
<1> QED
  BY <1>1, Invariant, PTL
=============================================================================
