-------------------------- MODULE SelfTest_scripts ---------------------------
(*****************************************************************************)
(* What the scripts of the functional tests do, for every list of variables, *)
(* every size and every measurement: which variables they write, what they   *)
(* have verified when they are through, and how they handle the global buffers.*)
(*****************************************************************************)
EXTENDS SelfTest, FiniteSetTheorems, SequenceTheorems, TLAPS

----------------------------------------------------------------------------
(* Least elements, which stand in for induction, and flattened sequences. *)

(* Among finite sets there is one that has no other within it. *)
LEMMA SmallestSubset ==
  ASSUME NEW S, NEW U, U # {}, \A T \in U : T \subseteq S /\ IsFiniteSet(T)
  PROVE  \E T \in U : \A X \in U : X \subseteq T => X = T
<1> DEFINE R == StrictSubsetOrdering(S)
<1>1. IsWellFoundedOn(R, FiniteSubsetsOf(S))
  BY FS_StrictSubsetOrderingWellFounded
<1>2. U \subseteq FiniteSubsetsOf(S)
  BY DEF FiniteSubsetsOf
<1>3. PICK T \in U : \A X \in U : ~(<<X, T>> \in R)
  <2> HIDE DEF R
  <2> QED BY <1>1, <1>2, WFMin
<1> QED BY <1>3 DEF StrictSubsetOrdering

(* Among natural numbers there is a least one. *)
LEMMA LeastNumber ==
  ASSUME NEW N, N \subseteq Nat, N # {}
  PROVE  \E n \in N : \A m \in N : n <= m
<1> DEFINE U == {1..n : n \in N}
           S == Nat
<1>1. \A T \in U : T \subseteq S /\ IsFiniteSet(T)
  BY FS_Interval
<1>2. PICK T \in U : \A X \in U : X \subseteq T => X = T
  <2>1. U # {}
    OBVIOUS
  <2>2. \A T \in U : T \subseteq S /\ IsFiniteSet(T)
    BY <1>1
  <2> HIDE DEF U, S
  <2> QED BY ONLY <2>2, <2>1, SmallestSubset
<1>3. PICK n \in N : T = 1..n
  BY <1>2
<1>4. \A m \in N : 1..m \subseteq 1..n => 1..m = 1..n
  BY <1>2, <1>3
<1>5. ASSUME NEW m \in N, ~(n <= m) PROVE FALSE
  <2>1. 1..m \subseteq 1..n /\ n \in 1..n /\ n \notin 1..m
    BY <1>5
  <2> QED BY <2>1, <1>4
<1> QED BY <1>5

(* A finite set of numbers that has one has a greatest. *)
LEMMA GreatestNumber ==
  ASSUME NEW N, N \subseteq Nat, N # {}, IsFiniteSet(N)
  PROVE  Max(N) \in N /\ \A n \in N : n <= Max(N)
<1> DEFINE From(k) == {n \in N : k <= n}
           U == {From(k) : k \in N}
<1>1. \A T \in U : T \subseteq N /\ IsFiniteSet(T)
  BY FS_Subset
<1>2. PICK T \in U : \A X \in U : X \subseteq T => X = T
  <2>1. U # {}
    OBVIOUS
  <2> HIDE DEF U
  <2> QED BY <1>1, <2>1, SmallestSubset
<1>3. PICK k \in N : T = From(k)
  BY <1>2
<1>4. ASSUME NEW m \in N, ~(m <= k) PROVE FALSE
  <2>1. From(m) \subseteq From(k) /\ k \in From(k) /\ k \notin From(m)
    <3>1. m \in Nat /\ k \in Nat /\ k < m /\ \A n \in N : n \in Nat
      BY <1>4
    <3>2. \A n \in N : m <= n => k <= n
      BY <3>1
    <3>3. From(m) \subseteq From(k)
      BY <3>2
    <3>4. k \in From(k)
      BY <3>1
    <3>5. k \notin From(m)
      BY <3>1
    <3> HIDE DEF From
    <3> QED BY <3>3, <3>4, <3>5
  <2>2. From(m) \in U
    OBVIOUS
  <2> QED BY <2>1, <2>2, <1>2, <1>3
<1>5. \E x \in N : \A y \in N : x >= y
  BY <1>4
<1> QED BY <1>5 DEF Max

----------------------------------------------------------------------------
(* What FlattenSeq makes of a sequence of sequences. *)

IsFlattening(f, seqs, n) ==
  f = [i \in 1..n |-> IF i = 1 THEN seqs[i] ELSE f[i - 1] \o seqs[i]]

(* A flattening exists for every number of sequences, and only one. *)
LEMMA FlatteningExists ==
  ASSUME NEW S, NEW n \in Nat, NEW seqs \in [1..n -> Seq(S)]
  PROVE  \A k \in 0..n : \E f : IsFlattening(f, seqs, k)
<1> DEFINE N == {k \in 0..n : ~ \E f : IsFlattening(f, seqs, k)}
<1> SUFFICES ASSUME N # {} PROVE FALSE
  OBVIOUS
<1>1. PICK k \in N : \A m \in N : k <= m
  <2>1. N \subseteq Nat
    OBVIOUS
  <2> HIDE DEF N
  <2> QED BY <2>1, LeastNumber
<1>2. k # 0
  <2>1. IsFlattening([i \in 1..0 |-> 0], seqs, 0)
    BY DEF IsFlattening
  <2> QED BY <2>1, <1>1
<1>3. PICK f : IsFlattening(f, seqs, k - 1)
  <2>1. k - 1 \in 0..n /\ ~(k <= k - 1)
    BY <1>1, <1>2
  <2> QED BY <2>1, <1>1
<1> DEFINE g == [i \in 1..k |-> IF i = 1 THEN seqs[i] ELSE f[i - 1] \o seqs[i]]
<1>4. \A i \in 1..(k - 1) : g[i] = f[i]
  <2>1. f = [i \in 1..(k - 1) |-> IF i = 1 THEN seqs[i] ELSE f[i - 1] \o seqs[i]]
    BY <1>3 DEF IsFlattening
  <2>2. \A i \in 1..(k - 1) : f[i] = IF i = 1 THEN seqs[i] ELSE f[i - 1] \o seqs[i]
    BY <2>1
  <2> QED BY <2>2, <1>1
<1>5. \A i \in 1..k : i # 1 => i - 1 \in 1..(k - 1)
  BY <1>1, <1>2
<1>6. g = [i \in 1..k |-> IF i = 1 THEN seqs[i] ELSE g[i - 1] \o seqs[i]]
  <2> HIDE DEF g
  <2>1. g = [i \in 1..k |-> IF i = 1 THEN seqs[i] ELSE f[i - 1] \o seqs[i]]
    BY DEF g
  <2> QED BY <2>1, <1>4, <1>5
<1>7. IsFlattening(g, seqs, k)
  BY <1>6 DEF IsFlattening
<1> QED BY <1>1, <1>7

(* What FlattenSeq returns: nothing of nothing, and one sequence more each time. *)
LEMMA Flattening ==
  ASSUME NEW S, NEW n \in Nat, NEW seqs \in [1..n -> Seq(S)], n # 0
  PROVE  \E f : IsFlattening(f, seqs, n) /\ FlattenSeq(seqs) = f[n]
<1> DEFINE f == CHOOSE f : IsFlattening(f, seqs, n)
<1>1. IsFlattening(f, seqs, n)
  <2>1. \E g : IsFlattening(g, seqs, n)
    BY FlatteningExists
  <2> QED BY <2>1
<1>2. Len(seqs) = n
  OBVIOUS
<1>3. FlattenSeq(seqs) = f[n]
  BY <1>2 DEF FlattenSeq, IsFlattening
<1> QED BY <1>1, <1>3

----------------------------------------------------------------------------
(* The steps of the tests. *)

(* The steps a test is made of, with the variables it may write. *)
Buffers == {"mImageData", "mActualImageData"}
Statuses == {"SUCCESS", "NOT_FOUND", "BUFFER_TOO_SMALL", "INVALID_PARAMETER",
             "SECURITY_VIOLATION", "OUT_OF_RESOURCES"}
Compared == {"attrs", "size", "data"}
BufferSteps ==
  [op : {"Allocate", "Release"}, buffer : Buffers]
  \union [op : {"VerifyBuffer"}, buffer : Buffers, there : BOOLEAN]
SetSteps(V) ==
  [op : {"Set"}, var : V, attrs : SUBSET Attribute, data : Seq(Tag), status : Statuses]
AskSteps ==
  [op : {"SetNameless"}, status : Statuses]
  \union [op : {"Get"}, var : Var, room : Nat, status : Statuses, verified : SUBSET Compared,
          attrs : SUBSET Attribute, data : Seq(Tag)]
  \union [op : {"Enumerate"}, var : Var, found : BOOLEAN]
Steps(V) == BufferSteps \union SetSteps(V) \union AskSteps
QuerySteps(how) == [op : {"Query"}, attrs : SUBSET Attribute, verified : how]
SkipSteps == [op : {"SkipIfAbsent"}, var : Var, skip : Nat]

(* Steps are what their constructors say. *)
LEMMA BufferStep ==
  ASSUME NEW V, NEW b \in Buffers
  PROVE  /\ Allocate(b) \in Steps(V) /\ Release(b) \in Steps(V)
         /\ \A there \in BOOLEAN : VerifyBuffer(b, there) \in Steps(V)
BY DEF Steps, BufferSteps, Allocate, Release, VerifyBuffer

(* A write is one of the steps of whoever may write the variable. *)
LEMMA SetStep ==
  ASSUME NEW V, NEW v \in V, NEW attrs \in SUBSET Attribute, NEW data \in Seq(Tag),
         NEW status \in Statuses
  PROVE  Set(v, attrs, data, status) \in Steps(V)
BY DEF Steps, SetSteps, Set

(* Questions are steps of every test. *)
LEMMA AskStep ==
  ASSUME NEW V, NEW v \in Var, NEW attrs \in SUBSET Attribute, NEW data \in Seq(Tag),
         NEW room \in Nat, NEW status \in Statuses, NEW verified \in SUBSET Compared,
         NEW found \in BOOLEAN
  PROVE  /\ SetNameless(status) \in Steps(V)
         /\ Get(v, room, status, verified, attrs, data) \in Steps(V)
         /\ VerifyVariableEnumerable(v, found) \in Steps(V)
BY DEF Steps, AskSteps, SetNameless, Get, VerifyVariableEnumerable

(* So is a read into no room. *)
LEMMA ProbeStep ==
  ASSUME NEW V, NEW v \in Var, NEW status \in Statuses
  PROVE  Probe(v, status) \in Steps(V)
<1>1. {} \in SUBSET Attribute /\ <<>> \in Seq(Tag) /\ {} \in SUBSET Compared /\ 0 \in Nat
  OBVIOUS
<1> QED BY <1>1, AskStep DEF Probe

(* What a step does to the store and the buffers, and what it has verified when
   it is passed. *)
Writes(step, v) == step.op = "Set" /\ step.var = v
Denies(step, v) ==
  \/ step.op = "Get" /\ step.var = v /\ step.status = "NOT_FOUND"
  \/ step.op = "Enumerate" /\ step.var = v /\ step.found = FALSE
Confirms(step, v, e) ==
  /\ step.op = "Get" /\ step.var = v
  /\ step.status = "SUCCESS" /\ step.verified = {"attrs", "size", "data"}
  /\ step.attrs = e.attrs /\ step.data = e.data
Allocates(step, b) == step.op = "Allocate" /\ step.buffer = b
Releases(step, b) == step.op = "Release" /\ step.buffer = b
IsQuiet(step) == \A b : ~Allocates(step, b) /\ ~Releases(step, b)

(* What each kind of step does, and does not. *)
LEMMA StepKinds ==
  ASSUME NEW v, NEW attrs, NEW data, NEW status, NEW room, NEW verified, NEW found, NEW b
  PROVE  /\ \A w : Writes(Set(v, attrs, data, status), w) <=> w = v
         /\ \A w : ~Writes(Get(v, room, status, verified, attrs, data), w)
         /\ \A w : ~Writes(VerifyVariableEnumerable(v, found), w)
         /\ \A w : ~Writes(VerifyBuffer(b, found), w)
         /\ \A w : ~Writes(Allocate(b), w) /\ ~Writes(Release(b), w)
         /\ \A w : ~Writes(SetNameless(status), w)
         /\ Denies(Get(v, room, "NOT_FOUND", verified, attrs, data), v)
         /\ Denies(VerifyVariableEnumerable(v, FALSE), v)
         /\ IsQuiet(Set(v, attrs, data, status))
         /\ IsQuiet(Get(v, room, status, verified, attrs, data))
         /\ IsQuiet(VerifyVariableEnumerable(v, found))
         /\ IsQuiet(VerifyBuffer(b, found))
         /\ IsQuiet(SetNameless(status))
         /\ \A c : Allocates(Allocate(b), c) <=> c = b
         /\ \A c : ~Releases(Allocate(b), c)
         /\ \A c : Releases(Release(b), c) <=> c = b
         /\ \A c : ~Allocates(Release(b), c)
BY DEF Writes, Denies, Allocates, Releases, IsQuiet, Set, Get, VerifyVariableEnumerable,
       VerifyBuffer, Allocate, Release, SetNameless

(* One sequence after another. *)
LEMMA Joined ==
  ASSUME NEW T, NEW s \in Seq(T), NEW t \in Seq(T)
  PROVE  /\ s \o t \in Seq(T)
         /\ Len(s \o t) = Len(s) + Len(t)
         /\ \A i \in 1..Len(s) : (s \o t)[i] = s[i]
         /\ \A i \in 1..Len(t) : (s \o t)[Len(s) + i] = t[i]
<1>1. Len(s) \in Nat /\ Len(t) \in Nat
  OBVIOUS
<1>2. \A i \in 1..Len(s) : i \in 1..(Len(s) + Len(t)) /\ i <= Len(s)
  BY <1>1
<1>3. \A i \in 1..Len(t) : /\ Len(s) + i \in 1..(Len(s) + Len(t)) /\ ~(Len(s) + i <= Len(s))
                           /\ Len(s) + i - Len(s) = i
  BY <1>1
<1> QED BY <1>2, <1>3, ConcatProperties

(* Data made of one byte. *)
LEMMA BytesType ==
  ASSUME NEW tag \in 0..Garbage, NEW n \in Nat
  PROVE  /\ Bytes(tag, n) \in Seq(Tag)
         /\ Len(Bytes(tag, n)) = n
         /\ n # 0 => Bytes(tag, n) # <<>>
<1>1. tag \in Tag
  BY TestByteAssumption
<1> QED BY <1>1 DEF Bytes

(* The attributes the tests use. *)
LEMMA Attributes ==
  /\ BaseAttributes \in SUBSET Attribute /\ AttributesVolatile \in SUBSET Attribute
  /\ BaseAttributes # {} /\ "AP" \notin BaseAttributes /\ "NV" \in BaseAttributes
  /\ BaseAttributes \union {"AP"} \in SUBSET Attribute
  /\ BaseAttributes \union {} = BaseAttributes
BY DEF BaseAttributes, AttributesVolatile, Attribute

(* SetAndCheckVariable writes the one variable and confirms what is in it. *)
LEMMA SetAndCheckSteps ==
  ASSUME NEW V, NEW v \in V \intersect Var, NEW base \in SUBSET Attribute,
         NEW extra \in SUBSET Attribute,
         NEW add \in Seq(Tag), NEW check \in Seq(Tag), NEW verified \in SUBSET Compared
  PROVE  SetAndCheckVariable(v, base, extra, add, check, verified) \in Seq(Steps(V))
<1> DEFINE s1 == VerifyBuffer("mActualImageData", TRUE)
           s2 == Set(v, base \union extra, add, "SUCCESS")
           s3 == Get(v, Len(check), "SUCCESS", verified, base, check)
           s4 == VerifyVariableEnumerable(v, TRUE)
<1>1. "mActualImageData" \in Buffers /\ "SUCCESS" \in Statuses /\ TRUE \in BOOLEAN
  BY DEF Buffers, Statuses
<1>2. s1 \in Steps(V)
  BY <1>1, BufferStep
<1>3. s2 \in Steps(V)
  <2>1. base \union extra \in SUBSET Attribute
    OBVIOUS
  <2> QED BY <1>1, <2>1, SetStep
<1>4. s3 \in Steps(V) /\ s4 \in Steps(V)
  <2>1. Len(check) \in Nat
    OBVIOUS
  <2> QED BY <1>1, <2>1, AskStep
<1> HIDE DEF s1, s2, s3, s4
<1>5. <<s1, s2, s3, s4>> \in Seq(Steps(V))
  BY <1>2, <1>3, <1>4
<1> QED BY <1>5 DEF SetAndCheckVariable, s1, s2, s3, s4

(* The same, step by step. *)
LEMMA SetAndCheckShape ==
  ASSUME NEW v, NEW base, NEW extra, NEW add, NEW check, NEW verified
  PROVE  LET S == SetAndCheckVariable(v, base, extra, add, check, verified) IN
         /\ Len(S) = 4
         /\ \A w : Writes(S[2], w) <=> w = v
         /\ \A i \in {1, 3, 4} : \A w : ~Writes(S[i], w)
         /\ \A e : verified = {"attrs", "size", "data"} /\ e.attrs = base /\ e.data = check =>
              Confirms(S[3], v, e)
         /\ \A i \in 1..4 : IsQuiet(S[i]) /\ \A w : ~Denies(S[i], w)
<1> DEFINE S == SetAndCheckVariable(v, base, extra, add, check, verified)
           s1 == VerifyBuffer("mActualImageData", TRUE)
           s2 == Set(v, base \union extra, add, "SUCCESS")
           s3 == Get(v, Len(check), "SUCCESS", verified, base, check)
           s4 == VerifyVariableEnumerable(v, TRUE)
<1>1. S = <<s1, s2, s3, s4>>
  BY DEF SetAndCheckVariable
<1>2. (\A w : (Writes(s2, w) <=> w = v) /\ ~Writes(s1, w) /\ ~Writes(s3, w) /\ ~Writes(s4, w))
      /\ IsQuiet(s1) /\ IsQuiet(s2) /\ IsQuiet(s3) /\ IsQuiet(s4)
  BY StepKinds
<1>3. \A e : verified = {"attrs", "size", "data"} /\ e.attrs = base /\ e.data = check =>
        Confirms(s3, v, e)
  BY DEF Confirms, Get
<1>4. \A w : ~Denies(s1, w) /\ ~Denies(s2, w) /\ ~Denies(s3, w) /\ ~Denies(s4, w)
  BY DEF Denies, VerifyBuffer, Set, Get, VerifyVariableEnumerable
<1> HIDE DEF s1, s2, s3, s4, S
<1>5. Len(S) = 4 /\ S[1] = s1 /\ S[2] = s2 /\ S[3] = s3 /\ S[4] = s4
  BY <1>1
<1>6. \A i \in {1, 3, 4} : \A w : ~Writes(S[i], w)
  BY <1>2, <1>5
<1>7. \A i \in 1..4 : i = 1 \/ i = 2 \/ i = 3 \/ i = 4
  OBVIOUS
<1>8. \A i \in 1..4 : IsQuiet(S[i]) /\ \A w : ~Denies(S[i], w)
  BY <1>2, <1>4, <1>5, <1>7, Zenon
<1> QED BY <1>2, <1>5, <1>6, <1>8, <1>3 DEF S

(* DeleteAndCheckVariable writes the one variable and denies it twice. *)
LEMMA DeleteAndCheckSteps ==
  ASSUME NEW V, NEW v \in V \intersect Var, NEW base \in SUBSET Attribute
  PROVE  LET S == DeleteAndCheckVariable(v, base) IN
         /\ S \in Seq(Steps(V))
         /\ Len(S) = 3
         /\ S[1] = Set(v, base, <<>>, "SUCCESS")
         /\ S[2] = Probe(v, "NOT_FOUND")
         /\ \A i \in {2, 3} : Denies(S[i], v) /\ \A w : ~Writes(S[i], w)
         /\ \A i \in 1..3 : IsQuiet(S[i])
<1> DEFINE S == DeleteAndCheckVariable(v, base)
           s1 == Set(v, base, <<>>, "SUCCESS")
           s2 == Probe(v, "NOT_FOUND")
           s3 == VerifyVariableEnumerable(v, FALSE)
<1>1. S = <<s1, s2, s3>>
  BY DEF DeleteAndCheckVariable
<1>2. s1 \in Steps(V) /\ s2 \in Steps(V) /\ s3 \in Steps(V)
  <2>1. "SUCCESS" \in Statuses /\ "NOT_FOUND" \in Statuses
    BY DEF Statuses
  <2>2. s1 \in Steps(V)
    <3>1. <<>> \in Seq(Tag)
      OBVIOUS
    <3> QED BY <2>1, <3>1, SetStep
  <2>3. s2 \in Steps(V)
    BY <2>1, ProbeStep
  <2>4. s3 \in Steps(V)
    BY DEF Steps, AskSteps, VerifyVariableEnumerable
  <2> QED BY <2>2, <2>3, <2>4
<1>3. /\ \A w : ~Writes(s2, w) /\ ~Writes(s3, w)
      /\ Denies(s2, v) /\ Denies(s3, v)
      /\ IsQuiet(s1) /\ IsQuiet(s2) /\ IsQuiet(s3)
  BY StepKinds DEF Probe
<1> HIDE DEF s1, s2, s3, S
<1> QED BY <1>1, <1>2, <1>3 DEF s1, s2, S

----------------------------------------------------------------------------
(* Scripts, one after another. *)

(* What a script does with a buffer: no allocation while it is held; every
   allocation is released again; every allocation comes after a release; none. *)
Exclusive(S, b) ==
  \A p \in 1..Len(S) : \A i \in 1..(p - 1) :
    Allocates(S[i], b) /\ Allocates(S[p], b) => \E j \in (i + 1)..(p - 1) : Releases(S[j], b)
GivesBack(S, b) ==
  \A i \in 1..Len(S) : Allocates(S[i], b) => \E j \in (i + 1)..Len(S) : Releases(S[j], b)
TakesOver(S, b) ==
  \A i \in 1..Len(S) : Allocates(S[i], b) => \E j \in 1..(i - 1) : Releases(S[j], b)
Spares(S, b) == \A i \in 1..Len(S) : ~Allocates(S[i], b)
Drops(S, b) == \E i \in 1..Len(S) : Releases(S[i], b)

(* What a script does with a variable: it does not write it; it has seen that it
   is absent since it wrote it last, or that it is as given. *)
Untouched(S, v) == \A i \in 1..Len(S) : ~Writes(S[i], v)
EndsWithout(S, v) ==
  \E p \in 1..Len(S) : Denies(S[p], v) /\ \A q \in (p + 1)..Len(S) : ~Writes(S[q], v)
EndsWith(S, v, e) ==
  \E p \in 1..Len(S) : Confirms(S[p], v, e) /\ \A q \in (p + 1)..Len(S) : ~Writes(S[q], v)

(* A script that allocates nothing is as careful as can be. *)
LEMMA Sparing ==
  ASSUME NEW S, NEW b, Spares(S, b)
  PROVE  Exclusive(S, b) /\ GivesBack(S, b) /\ TakesOver(S, b)
<1>1. Exclusive(S, b)
  BY DEF Exclusive, Spares
<1>2. GivesBack(S, b) /\ TakesOver(S, b)
  BY DEF GivesBack, TakesOver, Spares
<1> QED BY <1>1, <1>2

(* Where the elements of a joined sequence come from. *)
LEMMA JoinedAt ==
  ASSUME NEW T, NEW s \in Seq(T), NEW t \in Seq(T), NEW p \in 1..Len(s \o t)
  PROVE  \/ p \in 1..Len(s) /\ (s \o t)[p] = s[p]
         \/ /\ p - Len(s) \in 1..Len(t) /\ p > Len(s)
            /\ (s \o t)[p] = t[p - Len(s)]
<1>1. Len(s) \in Nat /\ Len(t) \in Nat /\ Len(s \o t) = Len(s) + Len(t)
  BY Joined
<1>2. CASE p <= Len(s)
  BY <1>1, <1>2, Joined
<1>3. CASE ~(p <= Len(s))
  <2>1. p - Len(s) \in 1..Len(t) /\ Len(s) + (p - Len(s)) = p /\ p > Len(s)
    BY <1>1, <1>3
  <2>2. (s \o t)[Len(s) + (p - Len(s))] = t[p - Len(s)]
    BY <2>1, Joined
  <2> QED BY <2>1, <2>2
<1> QED BY <1>2, <1>3

(* No allocation of a held buffer in one script after another, if the first gives
   back what it takes or the second releases before it allocates. *)
LEMMA JoinExclusive ==
  ASSUME NEW T, NEW s \in Seq(T), NEW t \in Seq(T), NEW b,
         Exclusive(s, b), Exclusive(t, b), GivesBack(s, b) \/ TakesOver(t, b)
  PROVE  Exclusive(s \o t, b)
<1> DEFINE S == s \o t
           n == Len(s)
<1> SUFFICES ASSUME NEW p \in 1..Len(S), NEW i \in 1..(p - 1),
                    Allocates(S[i], b), Allocates(S[p], b)
             PROVE  \E j \in (i + 1)..(p - 1) : Releases(S[j], b)
  BY DEF Exclusive
<1>1. n \in Nat /\ Len(t) \in Nat /\ Len(S) = n + Len(t) /\ i \in 1..Len(S)
  BY Joined
<1>2. \A k \in 1..n : S[k] = s[k]
  BY Joined
<1>3. \A k \in 1..Len(t) : S[n + k] = t[k]
  BY Joined
<1>4. \A k \in 1..Len(S) : k <= n \/ (k > n /\ k - n \in 1..Len(t) /\ S[k] = t[k - n])
  <2>1. \A k \in 1..Len(S) : k <= n \/ (k > n /\ k - n \in 1..Len(t) /\ n + (k - n) = k)
    BY <1>1
  <2> QED BY <2>1, <1>3
<1> HIDE DEF S, n
<1>5. CASE p <= n
  <2>1. p \in 1..n /\ i \in 1..n
    BY <1>1, <1>5
  <2>2. Allocates(s[i], b) /\ Allocates(s[p], b)
    BY <1>2, <2>1
  <2>3. PICK j \in (i + 1)..(p - 1) : Releases(s[j], b)
    BY <2>1, <2>2 DEF Exclusive, n
  <2>4. j \in 1..n
    BY <1>1, <2>1
  <2> QED BY <1>2, <2>3, <2>4
<1>6. CASE i > n
  <2>1. p - n \in 1..Len(t) /\ i - n \in 1..(p - n - 1)
    BY <1>1, <1>6
  <2>2. Allocates(t[i - n], b) /\ Allocates(t[p - n], b)
    BY <1>1, <1>4, <1>6
  <2>3. PICK j \in (i - n + 1)..(p - n - 1) : Releases(t[j], b)
    BY <2>1, <2>2 DEF Exclusive
  <2>4. j \in 1..Len(t) /\ n + j \in (i + 1)..(p - 1)
    BY <1>1, <2>1
  <2> QED BY <1>3, <2>3, <2>4
<1>7. CASE i <= n /\ ~(p <= n)
  <2>1. i \in 1..n /\ p - n \in 1..Len(t)
    BY <1>1, <1>7
  <2>2. Allocates(s[i], b) /\ Allocates(t[p - n], b)
    BY <1>1, <1>2, <1>4, <1>7, <2>1
  <2>3. CASE GivesBack(s, b)
    <3>1. PICK j \in (i + 1)..n : Releases(s[j], b)
      BY <2>1, <2>2, <2>3 DEF GivesBack, n
    <3>2. j \in 1..n /\ j \in (i + 1)..(p - 1)
      BY <1>1, <1>7, <2>1
    <3> QED BY <1>2, <3>1, <3>2
  <2>4. CASE TakesOver(t, b)
    <3>1. PICK j \in 1..(p - n - 1) : Releases(t[j], b)
      BY <2>1, <2>2, <2>4 DEF TakesOver
    <3>2. j \in 1..Len(t) /\ n + j \in (i + 1)..(p - 1)
      BY <1>1, <1>7, <2>1
    <3> QED BY <1>3, <3>1, <3>2
  <2> QED BY <2>3, <2>4
<1> QED BY <1>1, <1>5, <1>6, <1>7

(* One script that gives back after another. *)
LEMMA JoinGivesBack ==
  ASSUME NEW T, NEW s \in Seq(T), NEW t \in Seq(T), NEW b,
         GivesBack(t, b), GivesBack(s, b) \/ Drops(t, b)
  PROVE  GivesBack(s \o t, b)
<1> DEFINE S == s \o t
           n == Len(s)
<1> SUFFICES ASSUME NEW i \in 1..Len(S), Allocates(S[i], b)
             PROVE  \E j \in (i + 1)..Len(S) : Releases(S[j], b)
  BY DEF GivesBack
<1>1. n \in Nat /\ Len(t) \in Nat /\ Len(S) = n + Len(t)
  BY Joined
<1>2. \A k \in 1..n : S[k] = s[k]
  BY Joined
<1>3. \A k \in 1..Len(t) : S[n + k] = t[k]
  BY Joined
<1> HIDE DEF S, n
<1>4. CASE i <= n
  <2>1. i \in 1..n /\ Allocates(s[i], b)
    BY <1>1, <1>2, <1>4
  <2>2. CASE GivesBack(s, b)
    <3>1. PICK j \in (i + 1)..n : Releases(s[j], b)
      BY <2>1, <2>2 DEF GivesBack, n
    <3>2. j \in 1..n /\ j \in (i + 1)..Len(S)
      BY <1>1, <2>1
    <3> QED BY <1>2, <3>1, <3>2
  <2>3. CASE Drops(t, b)
    <3>1. PICK j \in 1..Len(t) : Releases(t[j], b)
      BY <2>3 DEF Drops
    <3>2. n + j \in (i + 1)..Len(S)
      BY <1>1, <2>1
    <3> QED BY <1>3, <3>1, <3>2
  <2> QED BY <2>2, <2>3
<1>5. CASE ~(i <= n)
  <2>1. i - n \in 1..Len(t) /\ n + (i - n) = i
    BY <1>1, <1>5
  <2>2. Allocates(t[i - n], b)
    BY <1>3, <2>1
  <2>3. PICK j \in (i - n + 1)..Len(t) : Releases(t[j], b)
    BY <2>1, <2>2 DEF GivesBack
  <2>4. j \in 1..Len(t) /\ n + j \in (i + 1)..Len(S)
    BY <1>1, <2>1
  <2> QED BY <1>3, <2>3, <2>4
<1> QED BY <1>4, <1>5

(* One script that takes over after another that does or drops. *)
LEMMA JoinTakesOver ==
  ASSUME NEW T, NEW s \in Seq(T), NEW t \in Seq(T), NEW b,
         TakesOver(s, b), TakesOver(t, b)
  PROVE  TakesOver(s \o t, b)
<1> DEFINE S == s \o t
           n == Len(s)
<1> SUFFICES ASSUME NEW i \in 1..Len(S), Allocates(S[i], b)
             PROVE  \E j \in 1..(i - 1) : Releases(S[j], b)
  BY DEF TakesOver
<1>1. n \in Nat /\ Len(t) \in Nat /\ Len(S) = n + Len(t)
  BY Joined
<1>2. \A k \in 1..n : S[k] = s[k]
  BY Joined
<1>3. \A k \in 1..Len(t) : S[n + k] = t[k]
  BY Joined
<1> HIDE DEF S, n
<1>4. CASE i <= n
  <2>1. i \in 1..n /\ Allocates(s[i], b)
    BY <1>1, <1>2, <1>4
  <2>2. PICK j \in 1..(i - 1) : Releases(s[j], b)
    BY <2>1 DEF TakesOver, n
  <2>3. j \in 1..n
    BY <1>1, <2>1
  <2> QED BY <1>2, <2>2, <2>3
<1>5. CASE ~(i <= n)
  <2>1. i - n \in 1..Len(t) /\ n + (i - n) = i
    BY <1>1, <1>5
  <2>2. Allocates(t[i - n], b)
    BY <1>3, <2>1
  <2>3. PICK j \in 1..(i - n - 1) : Releases(t[j], b)
    BY <2>1, <2>2 DEF TakesOver
  <2>4. j \in 1..Len(t) /\ n + j \in 1..(i - 1)
    BY <1>1, <2>1
  <2> QED BY <1>3, <2>3, <2>4
<1> QED BY <1>4, <1>5

(* One script that allocates nothing after another. *)
LEMMA JoinSpares ==
  ASSUME NEW T, NEW s \in Seq(T), NEW t \in Seq(T), NEW b,
         Spares(s, b), Spares(t, b)
  PROVE  Spares(s \o t, b)
BY JoinedAt DEF Spares

(* One script that does not write a variable after another. *)
LEMMA JoinUntouched ==
  ASSUME NEW T, NEW s \in Seq(T), NEW t \in Seq(T), NEW v,
         Untouched(s, v), Untouched(t, v)
  PROVE  Untouched(s \o t, v)
BY JoinedAt DEF Untouched

(* How a script leaves a variable is up to its last part that writes it. *)
LEMMA JoinEnds ==
  ASSUME NEW T, NEW s \in Seq(T), NEW t \in Seq(T), NEW v
  PROVE  /\ EndsWithout(t, v) \/ (EndsWithout(s, v) /\ Untouched(t, v)) => EndsWithout(s \o t, v)
         /\ \A e : EndsWith(t, v, e) \/ (EndsWith(s, v, e) /\ Untouched(t, v)) => EndsWith(s \o t, v, e)
<1> DEFINE S == s \o t
           n == Len(s)
<1>1. n \in Nat /\ Len(t) \in Nat /\ Len(S) = n + Len(t)
  BY Joined
<1>2. \A k \in 1..n : S[k] = s[k]
  BY Joined
<1>3. \A k \in 1..Len(t) : S[n + k] = t[k]
  BY Joined
<1> HIDE DEF S, n
<1>4. ASSUME NEW p \in 1..Len(t), \A q \in (p + 1)..Len(t) : ~Writes(t[q], v)
      PROVE  /\ n + p \in 1..Len(S) /\ S[n + p] = t[p]
             /\ \A q \in (n + p + 1)..Len(S) : ~Writes(S[q], v)
  <2>1. \A q \in (n + p + 1)..Len(S) : q - n \in (p + 1)..Len(t) /\ q - n \in 1..Len(t) /\ n + (q - n) = q
    BY <1>1
  <2>2. n + p \in 1..Len(S)
    BY <1>1
  <2> QED BY <1>3, <1>4, <2>1, <2>2
<1>5. ASSUME NEW p \in 1..n, \A q \in (p + 1)..n : ~Writes(s[q], v), Untouched(t, v)
      PROVE  /\ p \in 1..Len(S) /\ S[p] = s[p]
             /\ \A q \in (p + 1)..Len(S) : ~Writes(S[q], v)
  <2>1. \A q \in (p + 1)..Len(S) : \/ q \in (p + 1)..n /\ q \in 1..n
                                   \/ q - n \in 1..Len(t) /\ n + (q - n) = q
    BY <1>1
  <2>2. p \in 1..Len(S)
    BY <1>1
  <2> QED BY <1>2, <1>3, <1>5, <2>1, <2>2 DEF Untouched
<1>6. ASSUME EndsWithout(t, v) \/ (EndsWithout(s, v) /\ Untouched(t, v))
      PROVE  EndsWithout(S, v)
  <2>1. CASE EndsWithout(t, v)
    <3>1. PICK p \in 1..Len(t) : Denies(t[p], v) /\ \A q \in (p + 1)..Len(t) : ~Writes(t[q], v)
      BY <2>1 DEF EndsWithout
    <3> QED BY <3>1, <1>4 DEF EndsWithout
  <2>2. CASE EndsWithout(s, v) /\ Untouched(t, v)
    <3>1. PICK p \in 1..n : Denies(s[p], v) /\ \A q \in (p + 1)..n : ~Writes(s[q], v)
      BY <2>2 DEF EndsWithout, n
    <3> QED BY <3>1, <2>2, <1>5 DEF EndsWithout
  <2> QED BY <1>6, <2>1, <2>2
<1>7. ASSUME NEW e, EndsWith(t, v, e) \/ (EndsWith(s, v, e) /\ Untouched(t, v))
      PROVE  EndsWith(S, v, e)
  <2>1. CASE EndsWith(t, v, e)
    <3>1. PICK p \in 1..Len(t) : Confirms(t[p], v, e) /\ \A q \in (p + 1)..Len(t) : ~Writes(t[q], v)
      BY <2>1 DEF EndsWith
    <3> QED BY <3>1, <1>4 DEF EndsWith
  <2>2. CASE EndsWith(s, v, e) /\ Untouched(t, v)
    <3>1. PICK p \in 1..n : Confirms(s[p], v, e) /\ \A q \in (p + 1)..n : ~Writes(s[q], v)
      BY <2>2 DEF EndsWith, n
    <3> QED BY <3>1, <2>2, <1>5 DEF EndsWith
  <2> QED BY <1>7, <2>1, <2>2
<1> QED BY <1>6, <1>7 DEF S

----------------------------------------------------------------------------
(* Scripts, any number of them. *)

(* Scripts of any number, one after another. *)
LEMMA Flattened ==
  ASSUME NEW T, NEW n \in Nat, NEW seqs \in [1..n -> Seq(T)]
  PROVE  LET S == FlattenSeq(seqs) IN
         /\ S \in Seq(T)
         /\ \A b : (\A i \in 1..n : Exclusive(seqs[i], b) /\ GivesBack(seqs[i], b))
              => Exclusive(S, b) /\ GivesBack(S, b)
         /\ \A b : (\A i \in 1..n : Exclusive(seqs[i], b) /\ TakesOver(seqs[i], b))
              => Exclusive(S, b) /\ TakesOver(S, b)
         /\ \A k \in 1..n : \A v :
              EndsWithout(seqs[k], v) /\ (\A i \in (k + 1)..n : Untouched(seqs[i], v))
              => EndsWithout(S, v)
         /\ \A v : (\A i \in 1..n : Untouched(seqs[i], v)) => Untouched(S, v)
<1> DEFINE Balanced(b) == \A i \in 1..n : Exclusive(seqs[i], b) /\ GivesBack(seqs[i], b)
           Passed(b) == \A i \in 1..n : Exclusive(seqs[i], b) /\ TakesOver(seqs[i], b)
           Final(k, v) ==
             EndsWithout(seqs[k], v) /\ \A i \in (k + 1)..n : Untouched(seqs[i], v)
           Clear(v) == \A i \in 1..n : Untouched(seqs[i], v)
           P(S, m) == /\ S \in Seq(T)
                      /\ \A b : Balanced(b) => Exclusive(S, b) /\ GivesBack(S, b)
                      /\ \A b : Passed(b) => Exclusive(S, b) /\ TakesOver(S, b)
                      /\ \A k \in 1..m : \A v : Final(k, v) => EndsWithout(S, v)
                      /\ \A v : Clear(v) => Untouched(S, v)
<1> SUFFICES P(FlattenSeq(seqs), n)
  OBVIOUS
<1> HIDE DEF Balanced, Passed, Final, Clear
<1>1. CASE n = 0
  <2>1. Len(seqs) = 0 /\ seqs \in Seq(T)
    BY <1>1
  <2>2. FlattenSeq(seqs) = seqs
    BY <2>1 DEF FlattenSeq
  <2>3. 1..Len(seqs) = {} /\ 1..n = {}
    BY <1>1, <2>1
  <2> QED BY <2>1, <2>2, <2>3 DEF Exclusive, GivesBack, TakesOver, Untouched
<1>2. CASE n # 0
  <2>1. PICK f : IsFlattening(f, seqs, n) /\ FlattenSeq(seqs) = f[n]
    BY <1>2, Flattening
  <2>2. \A i \in 1..n : f[i] = IF i = 1 THEN seqs[i] ELSE f[i - 1] \o seqs[i]
    <3>1. f = [i \in 1..n |-> IF i = 1 THEN seqs[i] ELSE f[i - 1] \o seqs[i]]
      BY <2>1 DEF IsFlattening
    <3> QED BY <3>1
  <2> DEFINE N == {m \in 1..n : ~P(f[m], m)}
  <2>3. N = {}
    <3> SUFFICES ASSUME N # {} PROVE FALSE
      OBVIOUS
    <3>1. PICK m \in N : \A x \in N : m <= x
      <4>1. N \subseteq Nat
        OBVIOUS
      <4> HIDE DEF N
      <4> QED BY <4>1, LeastNumber
    <3>2. CASE m = 1
      <4>1. f[1] = seqs[1]
        BY <2>2, <3>2
      <4>2. P(seqs[1], 1)
        BY <1>2 DEF Balanced, Passed, Final, Clear
      <4> QED BY <3>1, <3>2, <4>1, <4>2
    <3>3. CASE m # 1
      <4> DEFINE s == f[m - 1]
                 t == seqs[m]
      <4>1. P(s, m - 1)
        <5>1. m \in 1..n /\ m - 1 \in 1..n /\ ~(m <= m - 1)
          BY <3>1, <3>3
        <5>2. m - 1 \notin N
          BY <5>1, <3>1
        <5> HIDE DEF P
        <5> QED BY <5>1, <5>2
      <4>2. f[m] = s \o t /\ s \in Seq(T) /\ t \in Seq(T) /\ m \in 1..n
        BY <2>2, <3>1, <3>3, <4>1
      <4> HIDE DEF s, t
      <4>3. s \o t \in Seq(T)
        BY <4>2, Joined
      <4>4. ASSUME NEW b, Balanced(b)
            PROVE  Exclusive(s \o t, b) /\ GivesBack(s \o t, b)
        <5>1. Exclusive(s, b) /\ GivesBack(s, b) /\ Exclusive(t, b) /\ GivesBack(t, b)
          BY <4>1, <4>2, <4>4 DEF Balanced, t
        <5> QED BY <5>1, <4>2, JoinExclusive, JoinGivesBack
      <4>5. ASSUME NEW b, Passed(b)
            PROVE  Exclusive(s \o t, b) /\ TakesOver(s \o t, b)
        <5>1. Exclusive(s, b) /\ TakesOver(s, b) /\ Exclusive(t, b) /\ TakesOver(t, b)
          BY <4>1, <4>2, <4>5 DEF Passed, t
        <5> QED BY <5>1, <4>2, JoinExclusive, JoinTakesOver
      <4>6. ASSUME NEW k \in 1..m, NEW v, Final(k, v)
            PROVE  EndsWithout(s \o t, v)
        <5>1. CASE k = m
          <6>1. EndsWithout(t, v)
            BY <4>6, <5>1 DEF Final, t
          <6> QED BY <6>1, <4>2, JoinEnds
        <5>2. CASE k # m
          <6>1. k \in 1..(m - 1) /\ m \in (k + 1)..n
            BY <4>2, <5>2
          <6>2. EndsWithout(s, v)
            BY <6>1, <4>1, <4>6
          <6>3. Untouched(t, v)
            BY <6>1, <4>6 DEF Final, t
          <6> QED BY <6>2, <6>3, <4>2, JoinEnds
        <5> QED BY <5>1, <5>2
      <4>7. ASSUME NEW v, Clear(v)
            PROVE  Untouched(s \o t, v)
        <5>1. Untouched(s, v) /\ Untouched(t, v)
          BY <4>1, <4>2, <4>7 DEF Clear, t
        <5> QED BY <5>1, <4>2, JoinUntouched
      <4>8. P(f[m], m)
        BY <4>2, <4>3, <4>4, <4>5, <4>6, <4>7
      <4> HIDE DEF P
      <4> QED BY <4>8, <3>1
    <3> QED BY <3>2, <3>3
  <2>4. n \in 1..n
    BY <1>2
  <2> HIDE DEF P
  <2>5. P(f[n], n)
    BY <2>3, <2>4
  <2> QED BY <2>1, <2>5
<1> QED BY <1>1, <1>2

(* The steps of a script touch only what its type says. *)
LEMMA OnlyWrites ==
  ASSUME NEW V, NEW S \in Seq(Steps(V)), NEW v, v \notin V
  PROVE  Untouched(S, v)
BY DEF Untouched, Writes, Steps, BufferSteps, SetSteps, AskSteps

(* Who may write more may take the same steps. *)
LEMMA StepsWithin ==
  ASSUME NEW V, NEW W, V \subseteq W
  PROVE  Seq(Steps(V)) \subseteq Seq(Steps(W))
<1>1. Steps(V) \subseteq Steps(W)
  BY DEF Steps, SetSteps
<1> QED BY <1>1

(* A script of steps that are all quiet. *)
LEMMA QuietSpares ==
  ASSUME NEW S, NEW b, \A i \in 1..Len(S) : IsQuiet(S[i])
  PROVE  Spares(S, b)
BY DEF Spares, IsQuiet

----------------------------------------------------------------------------
(* The tests that write, read and delete. *)

(* VerifyValidVarWriteReadEnumDel deletes what it wrote. *)
LEMMA ValidSteps ==
  ASSUME NEW V, NEW v \in V \intersect Var, NEW attrs \in SUBSET Attribute, NEW data \in Seq(Tag),
         NEW verifyData \in BOOLEAN
  PROVE  LET S == VerifyValidVarWriteReadEnumDel(v, attrs, data, verifyData) IN
         /\ S \in Seq(Steps(V))
         /\ EndsWithout(S, v)
         /\ Exclusive(S, "mActualImageData") /\ GivesBack(S, "mActualImageData")
         /\ Spares(S, "mImageData")
<1> DEFINE S == VerifyValidVarWriteReadEnumDel(v, attrs, data, verifyData)
           act == "mActualImageData"
           verified(what) == IF verifyData THEN what ELSE {}
           s1 == Probe(v, "NOT_FOUND")
           s2 == Set(v, attrs, data, "SUCCESS")
           s3 == VerifyVariableEnumerable(v, TRUE)
           s4 == Get(v, 0, "BUFFER_TOO_SMALL", verified({"size"}), attrs, data)
           s5 == Allocate(act)
           s6 == Get(v, Len(data), "SUCCESS", verified({"attrs", "data"}), attrs, data)
           s7 == Release(act)
           s8 == Set(v, {}, data, "SUCCESS")
           s9 == VerifyVariableEnumerable(v, FALSE)
<1>1. S = <<s1, s2, s3, s4, s5, s6, s7, s8, s9, s1>>
  BY DEF VerifyValidVarWriteReadEnumDel
<1>2. /\ s1 \in Steps(V) /\ s2 \in Steps(V) /\ s3 \in Steps(V) /\ s4 \in Steps(V)
      /\ s5 \in Steps(V) /\ s6 \in Steps(V) /\ s7 \in Steps(V) /\ s8 \in Steps(V)
      /\ s9 \in Steps(V)
  <2>1. /\ "SUCCESS" \in Statuses /\ "NOT_FOUND" \in Statuses /\ "BUFFER_TOO_SMALL" \in Statuses
        /\ act \in Buffers
    BY DEF Statuses, Buffers
  <2>2. verified({"size"}) \in SUBSET Compared /\ verified({"attrs", "data"}) \in SUBSET Compared
    BY DEF Compared
  <2>3. s1 \in Steps(V)
    BY <2>1, ProbeStep
  <2>4. s2 \in Steps(V)
    BY <2>1, SetStep
  <2>5. {} \in SUBSET Attribute
    OBVIOUS
  <2>6. s8 \in Steps(V)
    BY <2>1, <2>5, SetStep
  <2>7. s5 \in Steps(V) /\ s7 \in Steps(V)
    BY <2>1, BufferStep
  <2>8. 0 \in Nat /\ Len(data) \in Nat
    OBVIOUS
  <2> HIDE DEF verified
  <2>9. s4 \in Steps(V) /\ s6 \in Steps(V)
    BY <2>1, <2>2, <2>8, AskStep
  <2>10. s3 \in Steps(V) /\ s9 \in Steps(V)
    BY DEF Steps, AskSteps, VerifyVariableEnumerable
  <2> QED BY <2>3, <2>4, <2>6, <2>7, <2>9, <2>10
<1>3. /\ Denies(s1, v) /\ \A w : ~Writes(s1, w)
      /\ \A b : /\ ~Allocates(s1, b) /\ ~Allocates(s2, b) /\ ~Allocates(s3, b) /\ ~Allocates(s4, b)
                /\ ~Allocates(s6, b) /\ ~Allocates(s7, b) /\ ~Allocates(s8, b) /\ ~Allocates(s9, b)
      /\ \A b : Allocates(s5, b) => b = act
      /\ Releases(s7, act)
  BY StepKinds DEF Probe, IsQuiet
<1> HIDE DEF S, s1, s2, s3, s4, s5, s6, s7, s8, s9
<1>4. /\ Len(S) = 10 /\ S \in Seq(Steps(V))
      /\ S[5] = s5 /\ S[7] = s7 /\ S[10] = s1
  BY <1>1, <1>2
<1>5. \A i \in 1..10 : i # 5 => \A b : ~Allocates(S[i], b)
  BY <1>1, <1>3
<1>6. EndsWithout(S, v)
  BY <1>3, <1>4 DEF EndsWithout
<1>7. Exclusive(S, act) /\ GivesBack(S, act)
  BY <1>3, <1>4, <1>5 DEF Exclusive, GivesBack
<1>8. Spares(S, "mImageData")
  BY <1>3, <1>4, <1>5 DEF Spares
<1> QED BY <1>4, <1>6, <1>7, <1>8 DEF S

(* A script of one release. *)
LEMMA ReleasesOnly ==
  ASSUME NEW V, NEW c \in Buffers
  PROVE  LET r == <<Release(c)>> IN
         /\ r \in Seq(Steps(V))
         /\ \A b : Spares(r, b)
         /\ Drops(r, c)
         /\ \A w : Untouched(r, w)
<1> DEFINE s == Release(c)
           r == <<s>>
<1>1. s \in Steps(V) /\ Releases(s, c) /\ (\A b : ~Allocates(s, b)) /\ \A w : ~Writes(s, w)
  BY BufferStep, StepKinds
<1> HIDE DEF s
<1>2. r \in Seq(Steps(V)) /\ Len(r) = 1 /\ r[1] = s
  BY <1>1
<1> HIDE DEF r
<1>3. (\A b : Spares(r, b)) /\ Drops(r, c) /\ \A w : Untouched(r, w)
  BY <1>1, <1>2 DEF Spares, Drops, Untouched
<1> QED BY <1>2, <1>3 DEF r, s

(* A script of one allocation. *)
LEMMA AllocatesOnly ==
  ASSUME NEW V, NEW c \in Buffers
  PROVE  LET a == <<Allocate(c)>> IN
         /\ a \in Seq(Steps(V))
         /\ Exclusive(a, c)
         /\ \A b : b # c => Spares(a, b)
         /\ \A w : Untouched(a, w)
<1> DEFINE s == Allocate(c)
           a == <<s>>
<1>1. s \in Steps(V) /\ (\A b : Allocates(s, b) => b = c) /\ \A w : ~Writes(s, w)
  BY BufferStep, StepKinds
<1> HIDE DEF s
<1>2. a \in Seq(Steps(V)) /\ Len(a) = 1 /\ a[1] = s
  BY <1>1
<1> HIDE DEF a
<1>3. Exclusive(a, c) /\ (\A b : b # c => Spares(a, b)) /\ \A w : Untouched(a, w)
  BY <1>1, <1>2 DEF Exclusive, Spares, Untouched
<1> QED BY <1>2, <1>3 DEF a, s

(* Both tests of valid variables hold mImageData around the steps above. *)
LEMMA HeldSteps ==
  ASSUME NEW V, NEW v, NEW pre \in Seq(Steps(V)), NEW s \in Seq(Steps(V)),
         Exclusive(pre, "mImageData"), Spares(pre, "mActualImageData"),
         EndsWithout(s, v), Spares(s, "mImageData"),
         Exclusive(s, "mActualImageData"), GivesBack(s, "mActualImageData")
  PROVE  LET S == pre \o s \o <<Release("mImageData")>> IN
         /\ S \in Seq(Steps(V))
         /\ EndsWithout(S, v)
         /\ \A b \in Buffers : Exclusive(S, b) /\ GivesBack(S, b)
<1> DEFINE r == <<Release("mImageData")>>
           t == pre \o s
<1>1. /\ r \in Seq(Steps(V)) /\ (\A b : Spares(r, b)) /\ Drops(r, "mImageData")
      /\ \A w : Untouched(r, w)
  BY ReleasesOnly DEF Buffers
<1>2. t \in Seq(Steps(V)) /\ EndsWithout(t, v)
  BY Joined, JoinEnds
<1>3. Exclusive(t, "mImageData")
  BY Sparing, JoinExclusive
<1>4. Exclusive(t, "mActualImageData") /\ GivesBack(t, "mActualImageData")
  BY Sparing, JoinExclusive, JoinGivesBack
<1> HIDE DEF r, t
<1>5. t \o r \in Seq(Steps(V)) /\ EndsWithout(t \o r, v)
  BY <1>1, <1>2, Joined, JoinEnds
<1>6. \A b : Exclusive(r, b) /\ GivesBack(r, b) /\ TakesOver(r, b)
  BY <1>1, Sparing
<1>7. \A b \in Buffers : Exclusive(t \o r, b)
  <2>1. \A b : Exclusive(t, b) => Exclusive(t \o r, b)
    BY <1>1, <1>2, <1>6, JoinExclusive
  <2> QED BY <2>1, <1>3, <1>4 DEF Buffers
<1>8. \A b \in Buffers : GivesBack(t \o r, b)
  <2>1. GivesBack(t \o r, "mImageData")
    BY <1>1, <1>2, <1>6, JoinGivesBack
  <2>2. GivesBack(t \o r, "mActualImageData")
    BY <1>1, <1>2, <1>4, <1>6, JoinGivesBack
  <2> QED BY <2>1, <2>2 DEF Buffers
<1> QED BY <1>5, <1>7, <1>8 DEF t, r

(* What every script has: no buffer is allocated while it is held. *)
Careful(S) == \A b \in Buffers : Exclusive(S, b)

(* The variables a test may write. *)
MayWrite(func) ==
  IF func = "TestInvalidAuthVars" THEN {mSecureBootVariables[1]} ELSE Kept(func) \union Deleted(func)

(* The variables of a list. *)
LEMMA InSequence ==
  ASSUME NEW s \in Seq(Var), NEW i \in 1..Len(s)
  PROVE  s[i] \in Var /\ s[i] \in ToSet(s)
BY DEF ToSet

(* A loop over variables whose body deletes its variable again. *)
LEMMA FlattenedHeld ==
  ASSUME NEW vars \in Seq(Var), IsInjective(vars), NEW blocks \in [1..Len(vars) -> Seq(Steps(ToSet(vars)))],
         \A i \in 1..Len(vars) :
           /\ blocks[i] \in Seq(Steps({vars[i]}))
           /\ EndsWithout(blocks[i], vars[i])
           /\ \A b \in Buffers : Exclusive(blocks[i], b) /\ GivesBack(blocks[i], b)
  PROVE  LET S == FlattenSeq(blocks) IN
         /\ S \in Seq(Steps(ToSet(vars)))
         /\ Careful(S)
         /\ \A v \in ToSet(vars) : EndsWithout(S, v)
<1> DEFINE S == FlattenSeq(blocks)
           n == Len(vars)
<1>1. n \in Nat
  OBVIOUS
<1>2. S \in Seq(Steps(ToSet(vars)))
  BY <1>1, Flattened
<1>3. ASSUME NEW b \in Buffers
      PROVE  Exclusive(S, b)
  BY <1>1, <1>3, Flattened
<1>4. ASSUME NEW v \in ToSet(vars)
      PROVE  EndsWithout(S, v)
  <2>1. PICK k \in 1..n : v = vars[k]
    BY DEF ToSet
  <2>2. ASSUME NEW i \in (k + 1)..n
        PROVE  Untouched(blocks[i], v)
    <3>1. i \in 1..n /\ i # k
      BY <2>1
    <3>2. vars[i] # v
      BY <2>1, <3>1 DEF IsInjective
    <3>3. blocks[i] \in Seq(Steps({vars[i]})) /\ v \notin {vars[i]}
      BY <3>1, <3>2
    <3> HIDE DEF n
    <3> QED BY <3>3, OnlyWrites
  <2>3. EndsWithout(blocks[k], v)
    BY <2>1
  <2> HIDE DEF S, n
  <2> QED BY <1>1, <2>1, <2>2, <2>3, Flattened DEF S, n
<1> QED BY <1>2, <1>3, <1>4 DEF Careful

(* TestValidNonVolatileVars deletes what it wrote and is careful. *)
LEMMA ValidNonVolatileScript ==
  LET S == TestValidNonVolatileVars IN
  /\ S \in Seq(Steps(ToSet(SizedVariable)))
  /\ Careful(S)
  /\ \A v \in ToSet(SizedVariable) : EndsWithout(S, v)
<1> DEFINE n == Len(BufferSizes)
           data(i) == Bytes(Random, BufferSizes[i])
           valid(i) == VerifyValidVarWriteReadEnumDel(SizedVariable[i], BaseAttributes, data(i), TRUE)
           block(i) == << Allocate("mImageData") >> \o valid(i) \o << Release("mImageData") >>
           blocks == [i \in 1..n |-> block(i)]
<1>1. n \in Nat /\ n = Len(SizedVariable) /\ SizedVariable \in Seq(Var) /\ IsInjective(SizedVariable)
  BY TestVariableAssumption
<1>2. ASSUME NEW i \in 1..n, NEW V, SizedVariable[i] \in V
      PROVE  /\ block(i) \in Seq(Steps(V)) /\ EndsWithout(block(i), SizedVariable[i])
             /\ \A b \in Buffers : Exclusive(block(i), b) /\ GivesBack(block(i), b)
  <2> DEFINE v == SizedVariable[i]
             pre == << Allocate("mImageData") >>
             s == valid(i)
  <2>1. v \in V \intersect Var
    BY <1>1, <1>2
  <2>2. data(i) \in Seq(Tag)
    <3>1. BufferSizes[i] \in Nat /\ Random \in 0..Garbage
      BY TestVariableAssumption DEF Random, Garbage
    <3> QED BY <3>1, BytesType
  <2>3. pre \in Seq(Steps(V)) /\ Exclusive(pre, "mImageData") /\ Spares(pre, "mActualImageData")
    BY AllocatesOnly DEF Buffers
  <2> HIDE DEF pre, v, data
  <2>4. /\ s \in Seq(Steps(V)) /\ EndsWithout(s, v) /\ Spares(s, "mImageData")
        /\ Exclusive(s, "mActualImageData") /\ GivesBack(s, "mActualImageData")
    <3>1. TRUE \in BOOLEAN /\ BaseAttributes \in SUBSET Attribute
      BY Attributes
    <3> QED BY <2>1, <2>2, <3>1, ValidSteps DEF v
  <2> HIDE DEF s
  <2> QED BY <2>3, <2>4, HeldSteps DEF s, pre, v
<1> HIDE DEF block
<1>3. \A i \in 1..n : SizedVariable[i] \in ToSet(SizedVariable) /\ SizedVariable[i] \in {SizedVariable[i]}
  BY <1>1, InSequence
<1>4. blocks \in [1..Len(SizedVariable) -> Seq(Steps(ToSet(SizedVariable)))]
  BY <1>1, <1>2, <1>3
<1>5. \A i \in 1..Len(SizedVariable) :
        /\ blocks[i] \in Seq(Steps({SizedVariable[i]}))
        /\ EndsWithout(blocks[i], SizedVariable[i])
        /\ \A b \in Buffers : Exclusive(blocks[i], b) /\ GivesBack(blocks[i], b)
  BY <1>1, <1>2, <1>3
<1>6. TestValidNonVolatileVars = FlattenSeq(blocks)
  BY DEF TestValidNonVolatileVars, block
<1> HIDE DEF blocks, n
<1> QED BY <1>1, <1>4, <1>5, <1>6, FlattenedHeld

(* So does TestValidAuthVars. *)
LEMMA ValidAuthScript ==
  LET S == TestValidAuthVars IN
  /\ S \in Seq(Steps(ToSet(mSecureBootVariables)))
  /\ Careful(S)
  /\ \A v \in ToSet(mSecureBootVariables) : EndsWithout(S, v)
<1> DEFINE vars == mSecureBootVariables
           n == Len(vars)
           data == Bytes(Baked, 1)
           valid(i) == VerifyValidVarWriteReadEnumDel(vars[i], BaseAttributes, data, FALSE)
           pre == << VerifyBuffer("mImageData", FALSE), Allocate("mImageData") >>
           block(i) == pre \o valid(i) \o << Release("mImageData") >>
           blocks == [i \in 1..n |-> block(i)]
<1>1. n \in Nat /\ vars \in Seq(Var) /\ IsInjective(vars)
  BY TestVariableAssumption
<1>2. ASSUME NEW V
      PROVE  pre \in Seq(Steps(V)) /\ Exclusive(pre, "mImageData") /\ Spares(pre, "mActualImageData")
  <2> DEFINE s1 == VerifyBuffer("mImageData", FALSE)
             s2 == Allocate("mImageData")
  <2>1. s1 \in Steps(V) /\ s2 \in Steps(V)
    BY BufferStep DEF Buffers
  <2>2. (\A b : ~Allocates(s1, b)) /\ \A b : Allocates(s2, b) => b = "mImageData"
    BY StepKinds DEF IsQuiet
  <2>3. pre = <<s1, s2>>
    OBVIOUS
  <2> HIDE DEF s1, s2, pre
  <2>4. pre \in Seq(Steps(V)) /\ Len(pre) = 2 /\ pre[1] = s1 /\ pre[2] = s2
    BY <2>1, <2>3
  <2>5. Exclusive(pre, "mImageData")
    BY <2>2, <2>4 DEF Exclusive
  <2>6. Spares(pre, "mActualImageData")
    BY <2>2, <2>4 DEF Spares
  <2> QED BY <2>4, <2>5, <2>6
<1> HIDE DEF pre
<1>3. ASSUME NEW i \in 1..n, NEW V, vars[i] \in V
      PROVE  /\ block(i) \in Seq(Steps(V)) /\ EndsWithout(block(i), vars[i])
             /\ \A b \in Buffers : Exclusive(block(i), b) /\ GivesBack(block(i), b)
  <2> DEFINE v == vars[i]
             s == valid(i)
  <2>1. v \in V \intersect Var
    BY <1>1, <1>3
  <2>2. data \in Seq(Tag)
    <3>1. 1 \in Nat /\ Baked \in 0..Garbage
      BY DEF Baked, Garbage
    <3> QED BY <3>1, BytesType
  <2> HIDE DEF v, data
  <2>3. /\ s \in Seq(Steps(V)) /\ EndsWithout(s, v) /\ Spares(s, "mImageData")
        /\ Exclusive(s, "mActualImageData") /\ GivesBack(s, "mActualImageData")
    <3>1. FALSE \in BOOLEAN /\ BaseAttributes \in SUBSET Attribute
      BY Attributes
    <3> QED BY <2>1, <2>2, <3>1, ValidSteps DEF v
  <2> HIDE DEF s
  <2> QED BY <1>2, <2>3, HeldSteps DEF s, v
<1> HIDE DEF block
<1>4. \A i \in 1..n : vars[i] \in ToSet(vars) /\ vars[i] \in {vars[i]}
  BY <1>1, InSequence
<1>5. blocks \in [1..n -> Seq(Steps(ToSet(vars)))]
  BY <1>3, <1>4
<1>6. \A i \in 1..n :
        /\ blocks[i] \in Seq(Steps({vars[i]}))
        /\ EndsWithout(blocks[i], vars[i])
        /\ \A b \in Buffers : Exclusive(blocks[i], b) /\ GivesBack(blocks[i], b)
  BY <1>3, <1>4
<1>7. TestValidAuthVars = FlattenSeq(blocks)
  BY DEF TestValidAuthVars, block, pre
<1> HIDE DEF blocks
<1> QED BY <1>1, <1>5, <1>6, <1>7, FlattenedHeld

(* TestInvalidAuthVars writes nothing that is not refused. *)
LEMMA InvalidAuthScript ==
  LET S == TestInvalidAuthVars
      v == mSecureBootVariables[1] IN
  /\ v \in ToSet(mSecureBootVariables)
  /\ S \in Seq(Steps({v}))
  /\ Careful(S)
  /\ \A p \in 1..Len(S) : Writes(S[p], v) => S[p].status = "SECURITY_VIOLATION"
<1> DEFINE v == mSecureBootVariables[1]
           s1 == Allocate("mImageData")
           s2 == Set(v, BaseAttributes, Bytes(Garbage, 1), "SECURITY_VIOLATION")
           S == TestInvalidAuthVars
<1>1. v \in ToSet(mSecureBootVariables) /\ v \in Var
  <2>1. 1 \in 1..Len(mSecureBootVariables) /\ mSecureBootVariables \in Seq(Var)
    BY TestVariableAssumption
  <2> QED BY <2>1, InSequence
<1>2. S = <<s1, s2>>
  BY DEF TestInvalidAuthVars
<1>3. s1 \in Steps({v}) /\ s2 \in Steps({v})
  <2>1. "mImageData" \in Buffers /\ "SECURITY_VIOLATION" \in Statuses
    BY DEF Buffers, Statuses
  <2>2. Bytes(Garbage, 1) \in Seq(Tag)
    BY BytesType DEF Garbage
  <2>3. BaseAttributes \in SUBSET Attribute /\ v \in {v}
    BY Attributes
  <2> QED BY <2>1, <2>2, <2>3, BufferStep, SetStep
<1>4. /\ \A w : ~Writes(s1, w)
      /\ \A b : ~Allocates(s2, b)
      /\ s2.status = "SECURITY_VIOLATION"
  BY StepKinds DEF IsQuiet, Set
<1> HIDE DEF s1, s2, S, v
<1>5. S \in Seq(Steps({v})) /\ Len(S) = 2 /\ S[1] = s1 /\ S[2] = s2
  BY <1>2, <1>3
<1>6. Careful(S)
  BY <1>4, <1>5 DEF Careful, Exclusive
<1>7. \A p \in 1..Len(S) : Writes(S[p], v) => S[p].status = "SECURITY_VIOLATION"
  BY <1>4, <1>5
<1> QED BY <1>1, <1>5, <1>6, <1>7 DEF S, v

----------------------------------------------------------------------------
(* The names of VerifyNameHandling. *)

(* A careful script goes on being careful with steps that are quiet, or that
   release a buffer before they allocate it. *)
LEMMA CarefulOn ==
  ASSUME NEW T, NEW s \in Seq(T), NEW t \in Seq(T), Careful(s),
         \/ \A i \in 1..Len(t) : IsQuiet(t[i])
         \/ \A b \in Buffers : Exclusive(t, b) /\ TakesOver(t, b)
  PROVE  Careful(s \o t)
<1>1. ASSUME NEW b \in Buffers
      PROVE  Exclusive(t, b) /\ TakesOver(t, b)
  BY QuietSpares, Sparing
<1>2. \A b \in Buffers : Exclusive(s, b)
  BY DEF Careful
<1> QED BY <1>1, <1>2, JoinExclusive DEF Careful

(* An enumeration is a step of every test. *)
LEMMA EnumerateStep ==
  ASSUME NEW V, NEW v \in Var, NEW found \in BOOLEAN
  PROVE  VerifyVariableEnumerable(v, found) \in Steps(V)
BY DEF Steps, AskSteps, VerifyVariableEnumerable

(* DeleteAndCheckVariable ends without the variable. *)
LEMMA DeleteEnds ==
  ASSUME NEW V, NEW v \in V \intersect Var, NEW base \in SUBSET Attribute
  PROVE  EndsWithout(DeleteAndCheckVariable(v, base), v)
<1> DEFINE S == DeleteAndCheckVariable(v, base)
<1>1. Len(S) = 3 /\ Denies(S[3], v)
  BY DeleteAndCheckSteps
<1> HIDE DEF S
<1>2. 3 \in 1..Len(S) /\ \A q \in (3 + 1)..Len(S) : FALSE
  BY <1>1
<1>3. EndsWithout(S, v)
  BY <1>1, <1>2 DEF EndsWithout
<1> QED BY <1>3 DEF S

(* One round of the loop over confusable names. *)
LEMMA ConfuseSteps ==
  ASSUME NEW V, NEW v \in V \intersect Var, NEW data \in Seq(Tag)
  PROVE  LET S == SetAndConfuse(v, data) IN
         /\ S \in Seq(Steps(V))
         /\ \A b \in Buffers : Exclusive(S, b) /\ TakesOver(S, b)
<1> DEFINE s1 == Release("mImageData")
           s2 == Allocate("mImageData")
           s3 == VerifyVariableEnumerable(v, FALSE)
           pre == <<s1, s2, s3>>
           mid == SetAndCheckVariable(v, BaseAttributes, {}, data, data, {"attrs", "size"})
           s4 == VerifyVariableEnumerable(Reference, FALSE)
           post == <<s4>>
<1>1. SetAndConfuse(v, data) = pre \o mid \o post
  BY DEF SetAndConfuse
<1>2. s1 \in Steps(V) /\ s2 \in Steps(V) /\ s3 \in Steps(V) /\ s4 \in Steps(V)
  <2>1. Reference \in Var
    BY TestVariableAssumption
  <2> QED BY <2>1, BufferStep, EnumerateStep DEF Buffers
<1>3. /\ Releases(s1, "mImageData")
      /\ \A b : ~Allocates(s1, b) /\ ~Allocates(s3, b) /\ ~Allocates(s4, b)
      /\ \A b : Allocates(s2, b) => b = "mImageData"
  BY StepKinds DEF IsQuiet
<1>4. mid \in Seq(Steps(V)) /\ \A b : Spares(mid, b)
  <2>1. {"attrs", "size"} \in SUBSET Compared
    BY DEF Compared
  <2>2. BaseAttributes \in SUBSET Attribute /\ {} \in SUBSET Attribute
    BY Attributes
  <2>3. mid \in Seq(Steps(V))
    BY <2>1, <2>2, SetAndCheckSteps
  <2>4. Len(mid) = 4 /\ \A i \in 1..4 : IsQuiet(mid[i])
    BY SetAndCheckShape
  <2> HIDE DEF mid
  <2> QED BY <2>3, <2>4, QuietSpares
<1> HIDE DEF s1, s2, s3, s4, mid
<1>5. pre \in Seq(Steps(V)) /\ Len(pre) = 3 /\ pre[1] = s1 /\ pre[2] = s2 /\ pre[3] = s3
  BY <1>2
<1>6. post \in Seq(Steps(V)) /\ Len(post) = 1 /\ post[1] = s4
  BY <1>2
<1> HIDE DEF pre, post
<1>7. \A b : Exclusive(pre, b) /\ TakesOver(pre, b)
  BY <1>3, <1>5 DEF Exclusive, TakesOver
<1>8. \A b : Spares(post, b)
  BY <1>3, <1>6 DEF Spares
<1>9. pre \o mid \in Seq(Steps(V)) /\ \A b : Exclusive(pre \o mid, b) /\ TakesOver(pre \o mid, b)
  BY <1>4, <1>5, <1>7, Sparing, Joined, JoinExclusive, JoinTakesOver
<1>10. /\ (pre \o mid) \o post \in Seq(Steps(V))
       /\ \A b : Exclusive((pre \o mid) \o post, b) /\ TakesOver((pre \o mid) \o post, b)
  BY <1>6, <1>8, <1>9, Sparing, Joined, JoinExclusive, JoinTakesOver
<1> QED BY <1>1, <1>10

(* The loop that deletes them. *)
LEMMA DeleteNamesSteps ==
  ASSUME NEW names \in Seq(Var), IsInjective(names)
  PROVE  LET S == DeleteNames(names) IN
         /\ S \in Seq(Steps(ToSet(names)))
         /\ \A b \in Buffers : Exclusive(S, b) /\ TakesOver(S, b)
         /\ \A v \in ToSet(names) : EndsWithout(S, v)
<1> DEFINE n == Len(names)
           block(i) == DeleteAndCheckVariable(names[i], BaseAttributes)
           blocks == [i \in 1..n |-> block(i)]
           S == FlattenSeq(blocks)
<1>1. n \in Nat /\ \A i \in 1..n : names[i] \in ToSet(names) /\ names[i] \in Var
  BY InSequence
<1>2. ASSUME NEW i \in 1..n, NEW V, names[i] \in V
      PROVE  /\ block(i) \in Seq(Steps(V))
             /\ \A b : Exclusive(block(i), b) /\ TakesOver(block(i), b)
             /\ EndsWithout(block(i), names[i])
  <2>1. names[i] \in V \intersect Var /\ BaseAttributes \in SUBSET Attribute
    BY <1>1, <1>2, Attributes
  <2>2. block(i) \in Seq(Steps(V)) /\ Len(block(i)) = 3 /\ \A k \in 1..3 : IsQuiet(block(i)[k])
    BY <2>1, DeleteAndCheckSteps
  <2>3. EndsWithout(block(i), names[i])
    BY <2>1, DeleteEnds
  <2> HIDE DEF block
  <2> QED BY <2>2, <2>3, QuietSpares, Sparing
<1> HIDE DEF block
<1>3. blocks \in [1..n -> Seq(Steps(ToSet(names)))]
  BY <1>1, <1>2
<1>4. \A i \in 1..n : blocks[i] = block(i)
  OBVIOUS
<1>5. DeleteNames(names) = S
  BY DEF DeleteNames, block
<1> HIDE DEF blocks
<1>6. S \in Seq(Steps(ToSet(names)))
  BY <1>1, <1>3, Flattened
<1>7. ASSUME NEW b \in Buffers
      PROVE  Exclusive(S, b) /\ TakesOver(S, b)
  <2>1. \A i \in 1..n : Exclusive(blocks[i], b) /\ TakesOver(blocks[i], b)
    BY <1>1, <1>2, <1>4
  <2> QED BY <1>1, <1>3, <2>1, Flattened
<1>8. ASSUME NEW v \in ToSet(names)
      PROVE  EndsWithout(S, v)
  <2>1. PICK k \in 1..n : v = names[k]
    BY DEF ToSet
  <2>2. ASSUME NEW i \in (k + 1)..n
        PROVE  Untouched(blocks[i], v)
    <3>1. i \in 1..n /\ i # k
      BY <2>1
    <3>2. names[i] # v
      BY <2>1, <3>1 DEF IsInjective
    <3>3. blocks[i] \in Seq(Steps({names[i]})) /\ v \notin {names[i]}
      BY <1>2, <1>4, <3>1, <3>2
    <3> QED BY <3>3, OnlyWrites
  <2>3. EndsWithout(blocks[k], v)
    BY <1>1, <1>2, <1>4, <2>1
  <2> HIDE DEF S, n
  <2> QED BY <1>1, <1>3, <2>1, <2>2, <2>3, Flattened DEF S, n
<1> HIDE DEF S
<1> QED BY <1>5, <1>6, <1>7, <1>8

(* VerifyNameHandling deletes every name it wrote and is careful. *)
LEMMA NameScript ==
  LET S == VerifyNameHandling
      V == ToSet(TestVariableNameList) \union {NameTestVariable, LongString} IN
  /\ S \in Seq(Steps(V))
  /\ Careful(S)
  /\ \A v \in V : EndsWithout(S, v)
<1> DEFINE names == TestVariableNameList
           data == Bytes(Random, 1)
           V == ToSet(names) \union {NameTestVariable, LongString}
           T == Steps(V)
           c1 == Fetch(NameTestVariable, 1, BaseAttributes, data)
           c2 == VerifyVariableEnumerable(NameTestVariable, TRUE)
           check == <<c1, c2>>
           a1 == Allocate("mImageData")
           a2 == Allocate("mActualImageData")
           a3 == Set(NameTestVariable, BaseAttributes, data, "SUCCESS")
           start == <<a1, a2, a3>>
           del == DeleteAndCheckVariable(NameTestVariable, BaseAttributes)
           nameless == [i \in 1..3 |-> SetNameless("INVALID_PARAMETER")]
           long == SetAndCheckVariable(LongString, BaseAttributes, {}, data, data, {"attrs", "size"})
           delLong == DeleteAndCheckVariable(LongString, BaseAttributes)
           confused == [i \in 1..Len(names) |-> SetAndConfuse(names[i], data)]
           confuse == FlattenSeq(confused)
           last == DeleteNames(names)
           t1 == start \o check
           t2 == t1 \o check
           t3 == t2 \o del
           t4 == t3 \o nameless
           t5 == t4 \o long
           t6 == t5 \o delLong
           t7 == t6 \o confuse
           t8 == t7 \o last
<1>1. VerifyNameHandling = t8
  BY DEF VerifyNameHandling
<1>2. /\ names \in Seq(Var) /\ IsInjective(names)
      /\ NameTestVariable \in V \intersect Var /\ LongString \in V \intersect Var
      /\ NameTestVariable # LongString
      /\ NameTestVariable \notin ToSet(names) /\ LongString \notin ToSet(names)
  BY TestVariableAssumption DEF Transient
<1>3. data \in Seq(Tag)
  BY BytesType DEF Random, Garbage
<1>4. /\ {"attrs", "size", "data"} \in SUBSET Compared /\ {"attrs", "size"} \in SUBSET Compared
      /\ "SUCCESS" \in Statuses /\ "INVALID_PARAMETER" \in Statuses
      /\ "mImageData" \in Buffers /\ "mActualImageData" \in Buffers
  BY DEF Compared, Statuses, Buffers
<1>5. BaseAttributes \in SUBSET Attribute /\ {} \in SUBSET Attribute
  BY Attributes
<1>6. ASSUME NEW W
      PROVE  check \in Seq(Steps(W)) /\ \A i \in 1..Len(check) : IsQuiet(check[i])
  <2>1. c1 \in Steps(W)
    BY <1>2, <1>3, <1>4, <1>5, AskStep DEF Fetch
  <2>2. c2 \in Steps(W)
    BY <1>2, EnumerateStep
  <2>3. IsQuiet(c1) /\ IsQuiet(c2)
    BY DEF IsQuiet, Allocates, Releases, Fetch, Get, VerifyVariableEnumerable
  <2> HIDE DEF c1, c2
  <2> QED BY <2>1, <2>2, <2>3
<1>7. start \in Seq(T) /\ Careful(start)
  <2>1. a1 \in T /\ a2 \in T
    BY <1>4, BufferStep
  <2>2. a3 \in T
    BY <1>2, <1>3, <1>4, <1>5, SetStep
  <2>3. /\ \A b : Allocates(a1, b) => b = "mImageData"
        /\ \A b : Allocates(a2, b) => b = "mActualImageData"
        /\ \A b : ~Allocates(a3, b)
    BY StepKinds DEF IsQuiet
  <2> HIDE DEF a1, a2, a3, T
  <2>4. start \in Seq(T) /\ Len(start) = 3 /\ start[1] = a1 /\ start[2] = a2 /\ start[3] = a3
    BY <2>1, <2>2
  <2> HIDE DEF start
  <2>5. Careful(start)
    BY <2>3, <2>4 DEF Careful, Exclusive
  <2> QED BY <2>4, <2>5
<1>8. /\ del \in Seq(T) /\ EndsWithout(del, NameTestVariable)
      /\ \A i \in 1..Len(del) : IsQuiet(del[i])
  BY <1>2, <1>5, DeleteAndCheckSteps, DeleteEnds
<1>9. ASSUME NEW W
      PROVE  nameless \in Seq(Steps(W)) /\ \A i \in 1..Len(nameless) : IsQuiet(nameless[i])
  <2>1. SetNameless("INVALID_PARAMETER") \in Steps(W)
    BY <1>4 DEF Steps, AskSteps, SetNameless
  <2>2. IsQuiet(SetNameless("INVALID_PARAMETER"))
    BY StepKinds
  <2> QED BY <2>1, <2>2
<1>10. ASSUME NEW W, LongString \in W
       PROVE  long \in Seq(Steps(W)) /\ \A i \in 1..Len(long) : IsQuiet(long[i])
  <2>1. long \in Seq(Steps(W))
    BY <1>2, <1>3, <1>4, <1>5, <1>10, SetAndCheckSteps
  <2>2. Len(long) = 4 /\ \A i \in 1..4 : IsQuiet(long[i])
    BY SetAndCheckShape
  <2> QED BY <2>1, <2>2
<1>11. ASSUME NEW W, LongString \in W
       PROVE  /\ delLong \in Seq(Steps(W)) /\ EndsWithout(delLong, LongString)
              /\ \A i \in 1..Len(delLong) : IsQuiet(delLong[i])
  BY <1>2, <1>5, <1>11, DeleteAndCheckSteps, DeleteEnds
<1>12. /\ confuse \in Seq(Steps(ToSet(names)))
       /\ \A b \in Buffers : Exclusive(confuse, b) /\ TakesOver(confuse, b)
  <2>1. ASSUME NEW i \in 1..Len(names)
        PROVE  /\ confused[i] \in Seq(Steps(ToSet(names)))
               /\ \A b \in Buffers : Exclusive(confused[i], b) /\ TakesOver(confused[i], b)
    <3>1. names[i] \in ToSet(names) \intersect Var
      BY <1>2, InSequence
    <3> QED BY <1>3, <3>1, ConfuseSteps
  <2>2. Len(names) \in Nat /\ confused \in [1..Len(names) -> Seq(Steps(ToSet(names)))]
    BY <1>2, <2>1
  <2> HIDE DEF confused
  <2> QED BY <2>1, <2>2, Flattened
<1>13. /\ last \in Seq(Steps(ToSet(names)))
       /\ \A b \in Buffers : Exclusive(last, b) /\ TakesOver(last, b)
       /\ \A v \in ToSet(names) : EndsWithout(last, v)
  BY <1>2, DeleteNamesSteps
<1>14. /\ long \in Seq(T) /\ delLong \in Seq(T)
       /\ nameless \in Seq(T) /\ check \in Seq(T) /\ confuse \in Seq(T) /\ last \in Seq(T)
  <2>1. Seq(Steps(ToSet(names))) \subseteq Seq(T)
    BY StepsWithin
  <2>2. long \in Seq(T) /\ delLong \in Seq(T)
    BY <1>2, <1>10, <1>11
  <2>3. nameless \in Seq(T) /\ check \in Seq(T)
    BY <1>6, <1>9
  <2> QED BY <1>12, <1>13, <2>1, <2>2, <2>3
<1>15. \A w : w # LongString => Untouched(long, w) /\ Untouched(delLong, w)
  <2>1. LongString \in {LongString}
    OBVIOUS
  <2>2. long \in Seq(Steps({LongString})) /\ delLong \in Seq(Steps({LongString}))
    BY <1>10, <1>11, <2>1
  <2> HIDE DEF long, delLong
  <2> QED BY <2>2, OnlyWrites
<1>16. \A w : Untouched(nameless, w)
  <2>1. nameless \in Seq(Steps({}))
    BY <1>9
  <2> HIDE DEF nameless
  <2> QED BY <2>1, OnlyWrites
<1>17. \A w : w \notin ToSet(names) => Untouched(confuse, w) /\ Untouched(last, w)
  <2> HIDE DEF confuse, last
  <2> QED BY <1>12, <1>13, OnlyWrites
<1>18. EndsWithout(delLong, LongString)
  <2>1. LongString \in {LongString}
    OBVIOUS
  <2> QED BY <1>11, <2>1
<1>19. \A i \in 1..Len(long) : IsQuiet(long[i])
  <2>1. LongString \in {LongString}
    OBVIOUS
  <2> QED BY <1>10, <2>1
<1>20. \A i \in 1..Len(delLong) : IsQuiet(delLong[i])
  <2>1. LongString \in {LongString}
    OBVIOUS
  <2> QED BY <1>11, <2>1
<1> HIDE DEF check, start, del, nameless, long, delLong, confuse, last, T
<1>21. t1 \in Seq(T) /\ Careful(t1)
  BY <1>6, <1>7, <1>14, Joined, CarefulOn
<1> HIDE DEF t1
<1>22. t2 \in Seq(T) /\ Careful(t2)
  BY <1>6, <1>14, <1>21, Joined, CarefulOn
<1> HIDE DEF t2
<1>23. t3 \in Seq(T) /\ Careful(t3) /\ EndsWithout(t3, NameTestVariable)
  BY <1>8, <1>22, Joined, CarefulOn, JoinEnds
<1> HIDE DEF t3
<1>24. t4 \in Seq(T) /\ Careful(t4) /\ EndsWithout(t4, NameTestVariable)
  BY <1>9, <1>14, <1>16, <1>23, Joined, CarefulOn, JoinEnds
<1> HIDE DEF t4
<1>25. t5 \in Seq(T) /\ Careful(t5) /\ EndsWithout(t5, NameTestVariable)
  BY <1>2, <1>19, <1>14, <1>15, <1>24, Joined, CarefulOn, JoinEnds
<1> HIDE DEF t5
<1>26. /\ t6 \in Seq(T) /\ Careful(t6)
       /\ EndsWithout(t6, NameTestVariable) /\ EndsWithout(t6, LongString)
  BY <1>2, <1>20, <1>14, <1>15, <1>18, <1>25, Joined, CarefulOn, JoinEnds
<1> HIDE DEF t6
<1>27. /\ t7 \in Seq(T) /\ Careful(t7)
       /\ EndsWithout(t7, NameTestVariable) /\ EndsWithout(t7, LongString)
  BY <1>2, <1>12, <1>14, <1>17, <1>26, Joined, CarefulOn, JoinEnds
<1> HIDE DEF t7
<1>28. /\ t8 \in Seq(T) /\ Careful(t8)
       /\ EndsWithout(t8, NameTestVariable) /\ EndsWithout(t8, LongString)
       /\ \A v \in ToSet(names) : EndsWithout(t8, v)
  BY <1>2, <1>13, <1>14, <1>17, <1>27, Joined, CarefulOn, JoinEnds
<1> HIDE DEF t8, names
<1>29. \A v \in V : v \in ToSet(names) \/ v = NameTestVariable \/ v = LongString
  OBVIOUS
<1>30. \A v \in V : EndsWithout(t8, v)
  BY <1>28, <1>29, Zenon
<1> QED BY <1>1, <1>28, <1>30 DEF T, names

----------------------------------------------------------------------------
(* The tests that measure. *)

(* What a test measures, and the steps of the tests that do. *)
Measures == [space : Nat, max : Nat]
QueriesToo(V) == Steps(V) \union QuerySteps({"measured", "larger", "full"})

(* Steps, and scripts, that do the same to the same variables and buffers. *)
Alike(s, t) ==
  \A x : /\ (Writes(s, x) <=> Writes(t, x)) /\ (Denies(s, x) <=> Denies(t, x))
         /\ (Allocates(s, x) <=> Allocates(t, x)) /\ (Releases(s, x) <=> Releases(t, x))
AllAlike(S, T) == Len(S) = Len(T) /\ \A i \in 1..Len(S) : Alike(S[i], T[i])

(* Scripts that are alike, one after another. *)
LEMMA JoinAlike ==
  ASSUME NEW T, NEW s \in Seq(T), NEW t \in Seq(T), NEW x \in Seq(T), NEW y \in Seq(T),
         AllAlike(s, x), AllAlike(t, y)
  PROVE  AllAlike(s \o t, x \o y)
<1>1. Len(s \o t) = Len(x \o y)
  <2>1. Len(s) = Len(x) /\ Len(t) = Len(y)
    BY DEF AllAlike
  <2>2. Len(s \o t) = Len(s) + Len(t)
    BY Joined
  <2>3. Len(x \o y) = Len(x) + Len(y)
    BY Joined
  <2> QED BY <2>1, <2>2, <2>3
<1>2. ASSUME NEW p \in 1..Len(s \o t)
      PROVE  Alike((s \o t)[p], (x \o y)[p])
  <2>1. Len(s) \in Nat /\ Len(s) = Len(x) /\ Len(t) = Len(y)
    BY DEF AllAlike
  <2>2. CASE p \in 1..Len(s) /\ (s \o t)[p] = s[p]
    BY <2>1, <2>2, Joined DEF AllAlike
  <2>3. CASE p - Len(s) \in 1..Len(t) /\ p > Len(s) /\ (s \o t)[p] = t[p - Len(s)]
    <3>1. Len(x) + (p - Len(s)) = p
      BY <2>1
    <3>2. (x \o y)[Len(x) + (p - Len(s))] = y[p - Len(s)]
      BY <2>1, <2>3, Joined
    <3> QED BY <2>3, <3>1, <3>2 DEF AllAlike
  <2> QED BY <2>2, <2>3, JoinedAt
<1> QED BY <1>1, <1>2 DEF AllAlike

(* A script is like itself. *)
LEMMA AlikeItself ==
  ASSUME NEW S
  PROVE  AllAlike(S, S)
BY DEF AllAlike, Alike

(* SetAndCheckVariable does the same whatever the data. *)
LEMMA SetAndCheckAlike ==
  ASSUME NEW v, NEW base, NEW extra, NEW add, NEW check, NEW add2, NEW check2, NEW verified
  PROVE  AllAlike(SetAndCheckVariable(v, base, extra, add, check, verified),
                  SetAndCheckVariable(v, base, extra, add2, check2, verified))
<1> DEFINE S == SetAndCheckVariable(v, base, extra, add, check, verified)
           T == SetAndCheckVariable(v, base, extra, add2, check2, verified)
           Shaped(x) == /\ Len(x) = 4
                        /\ \A w : Writes(x[2], w) <=> w = v
                        /\ \A i \in {1, 3, 4} : \A w : ~Writes(x[i], w)
                        /\ \A i \in 1..4 : IsQuiet(x[i]) /\ \A w : ~Denies(x[i], w)
<1>1. Shaped(S)
  <2>1. Len(S) = 4
    BY SetAndCheckShape
  <2>2. \A w : Writes(S[2], w) <=> w = v
    BY SetAndCheckShape
  <2>3. \A i \in {1, 3, 4} : \A w : ~Writes(S[i], w)
    BY SetAndCheckShape
  <2>4. \A i \in 1..4 : IsQuiet(S[i]) /\ \A w : ~Denies(S[i], w)
    BY SetAndCheckShape
  <2> QED BY <2>1, <2>2, <2>3, <2>4
<1>2. Shaped(T)
  <2>1. Len(T) = 4
    BY SetAndCheckShape
  <2>2. \A w : Writes(T[2], w) <=> w = v
    BY SetAndCheckShape
  <2>3. \A i \in {1, 3, 4} : \A w : ~Writes(T[i], w)
    BY SetAndCheckShape
  <2>4. \A i \in 1..4 : IsQuiet(T[i]) /\ \A w : ~Denies(T[i], w)
    BY SetAndCheckShape
  <2> QED BY <2>1, <2>2, <2>3, <2>4
<1> HIDE DEF S, T
<1>3. \A i \in 1..4 : \A w : Writes(S[i], w) <=> Writes(T[i], w)
  BY <1>1, <1>2
<1>4. AllAlike(S, T)
  BY <1>1, <1>3, <1>2 DEF AllAlike, Alike, IsQuiet
<1> QED BY <1>4 DEF S, T

(* A query is a step that writes nothing. *)
LEMMA QueryStep ==
  ASSUME NEW V, NEW attrs \in SUBSET Attribute, NEW verified \in {"measured", "larger", "full"}
  PROVE  /\ Query(attrs, verified) \in QueriesToo(V)
         /\ IsQuiet(Query(attrs, verified))
         /\ \A w : ~Writes(Query(attrs, verified), w)
BY DEF QueriesToo, QuerySteps, Query, IsQuiet, Allocates, Releases, Writes

(* The steps of a test that measures nothing. *)
LEMMA StepsAreQueriesToo ==
  ASSUME NEW V, NEW W, V \subseteq W
  PROVE  /\ Seq(Steps(V)) \subseteq Seq(QueriesToo(W))
         /\ Steps(V) \subseteq QueriesToo(W)
<1>1. Steps(V) \subseteq QueriesToo(W)
  BY DEF QueriesToo, Steps, SetSteps
<1> QED BY <1>1

(* One half of VerifyQuery: what it does does not depend on what it measured. *)
LEMMA QueryLargerSteps ==
  ASSUME NEW attrs \in SUBSET Attribute, NEW data \in Seq(Tag), NEW other \in Seq(Tag)
  PROVE  LET S == QueryLarger(attrs, data) IN
         /\ S \in Seq(QueriesToo({QueryVariableName}))
         /\ \A b \in Buffers : Exclusive(S, b) /\ GivesBack(S, b)
         /\ EndsWithout(S, QueryVariableName)
         /\ AllAlike(S, QueryLarger(attrs, other))
<1> DEFINE V == {QueryVariableName}
           T == QueriesToo(V)
           q1 == Query(attrs, "measured")
           a1 == Allocate("mImageData")
           a2 == Allocate("mActualImageData")
           start == <<q1, a1, a2>>
           set(d) == SetAndCheckVariable(QueryVariableName, attrs, {}, d, d, {"attrs", "size", "data"})
           q2 == Query(attrs, "larger")
           ask == <<q2>>
           del == DeleteAndCheckVariable(QueryVariableName, attrs)
           r1 == Release("mImageData")
           r2 == Release("mActualImageData")
           end == <<r1, r2>>
           t1(d) == start \o set(d)
           t2(d) == t1(d) \o ask
           t3(d) == t2(d) \o del
           t4(d) == t3(d) \o end
<1>1. \A d : QueryLarger(attrs, d) = t4(d)
  BY DEF QueryLarger
<1>2. QueryVariableName \in V \intersect Var
  BY TestVariableAssumption DEF Transient
<1>3. /\ {"attrs", "size", "data"} \in SUBSET Compared
      /\ "mImageData" \in Buffers /\ "mActualImageData" \in Buffers
      /\ {} \in SUBSET Attribute /\ attrs \union {} = attrs
  BY DEF Compared, Buffers
<1>4. Seq(Steps(V)) \subseteq Seq(T) /\ Steps(V) \subseteq T
  BY StepsAreQueriesToo
<1>5. q1 \in T /\ q2 \in T /\ IsQuiet(q1) /\ IsQuiet(q2) /\ \A w : ~Writes(q1, w) /\ ~Writes(q2, w)
  BY QueryStep
<1>6. /\ a1 \in T /\ a2 \in T /\ r1 \in T /\ r2 \in T
      /\ \A b : Allocates(a1, b) => b = "mImageData"
      /\ \A b : Allocates(a2, b) => b = "mActualImageData"
      /\ Releases(r1, "mImageData") /\ Releases(r2, "mActualImageData")
      /\ \A b : ~Allocates(r1, b) /\ ~Allocates(r2, b)
      /\ \A w : ~Writes(r1, w) /\ ~Writes(r2, w)
  <2>1. a1 \in Steps(V) /\ a2 \in Steps(V) /\ r1 \in Steps(V) /\ r2 \in Steps(V)
    BY <1>3, BufferStep
  <2>2. /\ \A b : Allocates(a1, b) => b = "mImageData"
        /\ \A b : Allocates(a2, b) => b = "mActualImageData"
        /\ Releases(r1, "mImageData") /\ Releases(r2, "mActualImageData")
        /\ \A b : ~Allocates(r1, b) /\ ~Allocates(r2, b)
        /\ \A w : ~Writes(r1, w) /\ ~Writes(r2, w)
    BY StepKinds
  <2> QED BY <1>4, <2>1, <2>2
<1> HIDE DEF q1, q2, a1, a2, r1, r2, T
<1>7. start \in Seq(T) /\ Careful(start)
  <2>1. start \in Seq(T) /\ Len(start) = 3 /\ start[1] = q1 /\ start[2] = a1 /\ start[3] = a2
    BY <1>5, <1>6
  <2> HIDE DEF start
  <2>2. Careful(start)
    BY <1>5, <1>6, <2>1 DEF Careful, Exclusive, IsQuiet
  <2> QED BY <2>1, <2>2
<1>8. ask \in Seq(T) /\ \A i \in 1..Len(ask) : IsQuiet(ask[i])
  BY <1>5
<1>9. /\ end \in Seq(T) /\ \A w : Untouched(end, w)
      /\ \A b \in Buffers : Spares(end, b) /\ Drops(end, b)
  <2>1. end \in Seq(T) /\ Len(end) = 2 /\ end[1] = r1 /\ end[2] = r2
    BY <1>6
  <2> HIDE DEF end
  <2>2. \A w : Untouched(end, w)
    BY <1>6, <2>1 DEF Untouched
  <2>3. \A b \in Buffers : Spares(end, b) /\ Drops(end, b)
    BY <1>6, <2>1 DEF Spares, Drops, Buffers
  <2> QED BY <2>1, <2>2, <2>3
<1>10. /\ del \in Seq(T) /\ \A i \in 1..Len(del) : IsQuiet(del[i])
       /\ EndsWithout(del, QueryVariableName)
  BY <1>2, <1>4, DeleteAndCheckSteps, DeleteEnds
<1>11. ASSUME NEW d \in Seq(Tag)
       PROVE  set(d) \in Seq(T) /\ \A i \in 1..Len(set(d)) : IsQuiet(set(d)[i])
  <2>1. set(d) \in Seq(Steps(V))
    BY <1>2, <1>3, SetAndCheckSteps
  <2>2. Len(set(d)) = 4 /\ \A i \in 1..4 : IsQuiet(set(d)[i])
    BY SetAndCheckShape
  <2> HIDE DEF set
  <2> QED BY <1>4, <2>1, <2>2
<1>12. AllAlike(set(data), set(other))
  BY SetAndCheckAlike
<1> HIDE DEF start, set, ask, del, end
<1>13. ASSUME NEW d \in Seq(Tag)
       PROVE  t1(d) \in Seq(T) /\ Careful(t1(d))
  BY <1>7, <1>11, Joined, CarefulOn
<1>14. AllAlike(t1(data), t1(other))
  BY <1>7, <1>11, <1>12, JoinAlike, AlikeItself
<1> HIDE DEF t1
<1>15. ASSUME NEW d \in Seq(Tag)
       PROVE  t2(d) \in Seq(T) /\ Careful(t2(d))
  BY <1>8, <1>13, Joined, CarefulOn
<1>16. AllAlike(t2(data), t2(other))
  BY <1>8, <1>13, <1>14, JoinAlike, AlikeItself
<1> HIDE DEF t2
<1>17. ASSUME NEW d \in Seq(Tag)
       PROVE  t3(d) \in Seq(T) /\ Careful(t3(d)) /\ EndsWithout(t3(d), QueryVariableName)
  BY <1>10, <1>15, Joined, CarefulOn, JoinEnds
<1>18. AllAlike(t3(data), t3(other))
  BY <1>10, <1>15, <1>16, JoinAlike, AlikeItself
<1> HIDE DEF t3
<1>19. ASSUME NEW d \in Seq(Tag)
       PROVE  /\ t4(d) \in Seq(T) /\ EndsWithout(t4(d), QueryVariableName)
              /\ \A b \in Buffers : Exclusive(t4(d), b) /\ GivesBack(t4(d), b)
  <2>1. t4(d) \in Seq(T) /\ EndsWithout(t4(d), QueryVariableName)
    BY <1>9, <1>17, Joined, JoinEnds
  <2>2. ASSUME NEW b \in Buffers
        PROVE  Exclusive(t4(d), b) /\ GivesBack(t4(d), b)
    <3>1. Exclusive(t3(d), b)
      BY <1>17, <2>2 DEF Careful
    <3>2. Exclusive(end, b) /\ GivesBack(end, b) /\ TakesOver(end, b) /\ Drops(end, b)
      BY <1>9, <2>2, Sparing
    <3> QED BY <1>9, <1>17, <3>1, <3>2, JoinExclusive, JoinGivesBack
  <2> QED BY <2>1, <2>2
<1>20. AllAlike(t4(data), t4(other))
  BY <1>9, <1>17, <1>18, JoinAlike, AlikeItself
<1> HIDE DEF t4
<1>21. QueryLarger(attrs, data) = t4(data) /\ QueryLarger(attrs, other) = t4(other)
  BY <1>1
<1> QED BY <1>19, <1>20, <1>21 DEF T

(* VerifyQuery deletes what it wrote, is careful, and does the same whatever it
   measures. *)
LEMMA QueryScript ==
  ASSUME NEW l \in Measures
  PROVE  LET S == VerifyQuery(l) IN
         /\ S \in Seq(QueriesToo({QueryVariableName}))
         /\ Careful(S)
         /\ EndsWithout(S, QueryVariableName)
         /\ \A l2 \in Measures : AllAlike(S, VerifyQuery(l2))
<1> DEFINE data(m) == Bytes(Random, LargerVariableSize(m))
           s(m) == QueryLarger(BaseAttributes, data(m))
           t(m) == QueryLarger(AttributesVolatile, data(m))
           T == QueriesToo({QueryVariableName})
<1>1. ASSUME NEW m \in Measures
      PROVE  data(m) \in Seq(Tag)
  <2>1. LargerVariableSize(m) \in Nat /\ Random \in 0..Garbage
    BY DEF LargerVariableSize, Measures, Random, Garbage
  <2> QED BY <2>1, BytesType
<1>2. BaseAttributes \in SUBSET Attribute /\ AttributesVolatile \in SUBSET Attribute
  BY Attributes
<1>3. \A m : VerifyQuery(m) = s(m) \o t(m)
  BY DEF VerifyQuery
<1> HIDE DEF data
<1>4. ASSUME NEW m \in Measures, NEW m2 \in Measures
      PROVE  /\ s(m) \in Seq(T) /\ t(m) \in Seq(T)
             /\ \A b \in Buffers : Exclusive(s(m), b) /\ GivesBack(s(m), b) /\ Exclusive(t(m), b)
             /\ EndsWithout(t(m), QueryVariableName)
             /\ AllAlike(s(m), s(m2)) /\ AllAlike(t(m), t(m2))
  <2>1. data(m) \in Seq(Tag) /\ data(m2) \in Seq(Tag)
    BY <1>1
  <2> QED BY <1>2, <2>1, QueryLargerSteps
<1> HIDE DEF s, t, T
<1>5. s(l) \o t(l) \in Seq(T) /\ EndsWithout(s(l) \o t(l), QueryVariableName)
  BY <1>4, Joined, JoinEnds
<1>6. Careful(s(l) \o t(l))
  BY <1>4, JoinExclusive DEF Careful
<1>7. \A l2 \in Measures : AllAlike(s(l) \o t(l), s(l2) \o t(l2))
  BY <1>4, JoinAlike
<1> QED BY <1>3, <1>5, <1>6, <1>7 DEF T

(* VerifyOverflow deletes what it wrote, is careful, and measures first. *)
LEMMA OverflowScript ==
  ASSUME NEW l \in Measures
  PROVE  LET S == VerifyOverflow(l) IN
         /\ S \in Seq(QueriesToo({QueryOverflowVariableName1, QueryOverflowVariableName2}))
         /\ Careful(S)
         /\ EndsWithout(S, QueryOverflowVariableName1)
         /\ EndsWithout(S, QueryOverflowVariableName2)
         /\ \A p \in 1..Len(S) : S[p].op = "Query" /\ S[p].verified = "measured" => p = 1
         /\ Len(S) >= 1 /\ S[1] = Query(BaseAttributes, "measured")
<1> DEFINE o1 == QueryOverflowVariableName1
           o2 == QueryOverflowVariableName2
           V == {o1, o2}
           T == QueriesToo(V)
           data == Bytes(Random, OverflowSize)
           append(status) == Set(o1, BaseAttributes \union {"AP"}, data, status)
           goal == l.space \div OverflowSize
           q1 == Query(BaseAttributes, "measured")
           a1 == Allocate("mImageData")
           start == <<q1, a1>>
           fill == [i \in 1..goal |-> append("SUCCESS")]
           q2 == Query(BaseAttributes, "full")
           w1 == append("OUT_OF_RESOURCES")
           w2 == Set(o2, BaseAttributes, data, "OUT_OF_RESOURCES")
           full == <<q2, w1, w2>>
           del == DeleteAndCheckVariable(o1, BaseAttributes)
           e2 == VerifyVariableEnumerable(o2, FALSE)
           end == <<e2>>
           t1 == start \o fill
           t2 == t1 \o full
           t3 == t2 \o del
           t4 == t3 \o end
           Unmeasured(S) == \A p \in 1..Len(S) : ~(S[p].op = "Query" /\ S[p].verified = "measured")
           Once(S) == /\ \A p \in 1..Len(S) : S[p].op = "Query" /\ S[p].verified = "measured" => p = 1
                      /\ Len(S) >= 1 /\ S[1] = q1
<1>1. VerifyOverflow(l) = t4
  BY DEF VerifyOverflow
<1>2. o1 \in V \intersect Var /\ o2 \in V \intersect Var
  BY TestVariableAssumption DEF Transient
<1>3. data \in Seq(Tag)
  BY BytesType DEF Random, Garbage, OverflowSize
<1>4. goal \in Nat
  BY DEF Measures, OverflowSize
<1>5. /\ "SUCCESS" \in Statuses /\ "OUT_OF_RESOURCES" \in Statuses /\ "mImageData" \in Buffers
      /\ BaseAttributes \in SUBSET Attribute /\ BaseAttributes \union {"AP"} \in SUBSET Attribute
  BY Attributes DEF Statuses, Buffers
<1>6. Seq(Steps(V)) \subseteq Seq(T) /\ Steps(V) \subseteq T
  BY StepsAreQueriesToo
<1>7. q1 \in T /\ q2 \in T /\ IsQuiet(q1) /\ IsQuiet(q2)
  BY <1>5, QueryStep
<1>8. /\ a1 \in T /\ \A b : Allocates(a1, b) => b = "mImageData"
      /\ a1.op # "Query"
  <2>1. a1 \in Steps(V)
    BY <1>5, BufferStep
  <2>2. \A b : Allocates(a1, b) => b = "mImageData"
    BY StepKinds
  <2>3. a1.op # "Query"
    BY DEF Allocate
  <2> QED BY <1>6, <2>1, <2>2, <2>3
<1>9. ASSUME NEW status \in Statuses
      PROVE  append(status) \in T /\ IsQuiet(append(status)) /\ append(status).op # "Query"
  <2>1. append(status) \in Steps(V)
    BY <1>2, <1>3, <1>5, SetStep
  <2>2. IsQuiet(append(status))
    BY StepKinds
  <2>3. append(status).op # "Query"
    BY DEF Set
  <2> QED BY <1>6, <2>1, <2>2, <2>3
<1>10. w2 \in T /\ IsQuiet(w2) /\ w2.op # "Query"
  <2>1. w2 \in Steps(V)
    BY <1>2, <1>3, <1>5, SetStep
  <2>2. IsQuiet(w2)
    BY DEF IsQuiet, Allocates, Releases, Set
  <2>3. w2.op # "Query"
    BY DEF Set
  <2> QED BY <1>6, <2>1, <2>2, <2>3
<1>11. e2 \in T /\ IsQuiet(e2) /\ Denies(e2, o2) /\ e2.op # "Query" /\ \A w : ~Writes(e2, w)
  <2>1. e2 \in Steps(V)
    BY <1>2, EnumerateStep
  <2>2. IsQuiet(e2) /\ Denies(e2, o2) /\ \A w : ~Writes(e2, w)
    BY StepKinds
  <2>3. e2.op # "Query"
    BY DEF VerifyVariableEnumerable
  <2> QED BY <1>6, <2>1, <2>2, <2>3
<1>12. /\ del \in Seq(T) /\ \A i \in 1..Len(del) : IsQuiet(del[i])
       /\ EndsWithout(del, o1) /\ Unmeasured(del)
  <2>1. /\ del \in Seq(Steps(V)) /\ Len(del) = 3 /\ \A i \in 1..3 : IsQuiet(del[i])
    BY <1>2, <1>5, DeleteAndCheckSteps
  <2>2. EndsWithout(del, o1)
    BY <1>2, <1>5, DeleteEnds
  <2>3. \A s \in Steps(V) : s.op # "Query"
    BY DEF Steps, BufferSteps, SetSteps, AskSteps
  <2> HIDE DEF del
  <2>4. \A p \in 1..Len(del) : del[p] \in Steps(V)
    BY <2>1
  <2>5. Unmeasured(del)
    BY <2>3, <2>4
  <2> QED BY <1>6, <2>1, <2>2, <2>5
<1>13. q2.verified # "measured"
  BY DEF Query
<1>14. w1 \in T /\ IsQuiet(w1) /\ w1.op # "Query"
  BY <1>5, <1>9
<1>15. append("SUCCESS") \in T /\ IsQuiet(append("SUCCESS")) /\ append("SUCCESS").op # "Query"
  BY <1>5, <1>9
<1> HIDE DEF T, append, q1, a1, q2, w1, w2, del, e2, goal
<1>16. start \in Seq(T) /\ Careful(start) /\ Once(start)
  <2>1. start \in Seq(T) /\ Len(start) = 2 /\ start[1] = q1 /\ start[2] = a1
    BY <1>7, <1>8
  <2> HIDE DEF start
  <2>2. Careful(start)
    BY <1>7, <1>8, <2>1 DEF Careful, Exclusive, IsQuiet
  <2> QED BY <1>8, <2>1, <2>2
<1>17. fill \in Seq(T) /\ (\A i \in 1..Len(fill) : IsQuiet(fill[i])) /\ Unmeasured(fill)
  BY <1>4, <1>15
<1>18. full \in Seq(T) /\ (\A i \in 1..Len(full) : IsQuiet(full[i])) /\ Unmeasured(full)
  <2>1. full \in Seq(T) /\ Len(full) = 3 /\ full[1] = q2 /\ full[2] = w1 /\ full[3] = w2
    BY <1>7, <1>10, <1>14
  <2> HIDE DEF full
  <2>2. \A i \in 1..Len(full) : full[i] = q2 \/ full[i] = w1 \/ full[i] = w2
    BY <2>1
  <2> QED BY <1>7, <1>10, <1>13, <1>14, <2>1, <2>2
<1>19. /\ end \in Seq(T) /\ (\A i \in 1..Len(end) : IsQuiet(end[i])) /\ Unmeasured(end)
       /\ EndsWithout(end, o2) /\ \A w : Untouched(end, w)
  <2>1. end \in Seq(T) /\ Len(end) = 1 /\ end[1] = e2
    BY <1>11
  <2> HIDE DEF end
  <2>2. EndsWithout(end, o2)
    BY <1>11, <2>1 DEF EndsWithout
  <2>3. \A w : Untouched(end, w)
    BY <1>11, <2>1 DEF Untouched
  <2> QED BY <1>11, <2>1, <2>2, <2>3
<1> HIDE DEF start, fill, full, end
<1>20. ASSUME NEW s \in Seq(T), NEW t \in Seq(T), Once(s), Unmeasured(t)
       PROVE  Once(s \o t)
  <2>1. Len(s \o t) >= 1 /\ (s \o t)[1] = q1
    <3>1. Len(s \o t) = Len(s) + Len(t) /\ Len(t) \in Nat /\ Len(s) \in Nat /\ 1 \in 1..Len(s)
      BY <1>20, Joined
    <3> QED BY <1>20, <3>1, Joined
  <2>2. ASSUME NEW p \in 1..Len(s \o t),
               (s \o t)[p].op = "Query", (s \o t)[p].verified = "measured"
        PROVE  p = 1
    <3>1. CASE p \in 1..Len(s) /\ (s \o t)[p] = s[p]
      BY <1>20, <2>2, <3>1
    <3>2. CASE p - Len(s) \in 1..Len(t) /\ (s \o t)[p] = t[p - Len(s)]
      BY <1>20, <2>2, <3>2
    <3> QED BY <3>1, <3>2, JoinedAt
  <2> QED BY <2>1, <2>2
<1> HIDE DEF Once, Unmeasured
<1>21. t1 \in Seq(T) /\ Careful(t1) /\ Once(t1)
  BY <1>16, <1>17, <1>20, Joined, CarefulOn
<1> HIDE DEF t1
<1>22. t2 \in Seq(T) /\ Careful(t2) /\ Once(t2)
  BY <1>18, <1>20, <1>21, Joined, CarefulOn
<1> HIDE DEF t2
<1>23. t3 \in Seq(T) /\ Careful(t3) /\ Once(t3) /\ EndsWithout(t3, o1)
  BY <1>12, <1>20, <1>22, Joined, CarefulOn, JoinEnds
<1> HIDE DEF t3
<1>24. t4 \in Seq(T) /\ Careful(t4) /\ Once(t4)
  BY <1>19, <1>20, <1>23, Joined, CarefulOn
<1>25. EndsWithout(t4, o1) /\ EndsWithout(t4, o2)
  BY <1>19, <1>23, JoinEnds
<1> HIDE DEF t4
<1> QED BY <1>1, <1>24, <1>25 DEF Once, T, q1

----------------------------------------------------------------------------
(* The persistence test. *)

(* The chunks of a buffer. *)
LEMMA BufferType ==
  ASSUME NEW k \in 1..3, NEW from \in Nat, NEW to \in Nat, from <= to
  PROVE  Buffer(k, from, to) \in Seq(Tag) /\ Buffer(k, from, to) # <<>>
<1>1. ASSUME NEW n \in Nat
      PROVE  Chunk(n) \in Tag
  <2>1. Chunk(n) \in 0..15
    BY DEF Chunk, ChunkSize
  <2> QED BY <2>1, TestByteAssumption DEF Garbage
<1>2. \A i \in 1..(to - from + 1) : (k - 1) * MaxChunksPerVar + from + i - 1 \in Nat
  BY DEF MaxChunksPerVar
<1>3. to - from + 1 \in Nat \ {0}
  OBVIOUS
<1>4. Buffer(k, from, to) \in Seq(Tag) /\ Len(Buffer(k, from, to)) = to - from + 1
  BY <1>1, <1>2, <1>3 DEF Buffer
<1> QED BY <1>3, <1>4

(* What the flag vouches for, of each of the variables. *)
LEMMA PersistedParts ==
  /\ Persisted[1].var = TestVariableName1 /\ Persisted[1].data = Buffer(1, 0, 3)
  /\ Persisted[2].var = TestVariableName2 /\ Persisted[2].data = Buffer(2, 0, 0)
  /\ Persisted[3].var = TestVariableName3 /\ Persisted[3].data = Buffer(3, 0, 0)
  /\ \A k \in 1..3 : /\ Persisted[k].var \in {TestVariableName1, TestVariableName2, TestVariableName3}
                     /\ Persisted[k].var \in Var /\ Persisted[k].var # PersistanceTestFlag
                     /\ Persisted[k].data \in Seq(Tag) /\ Persisted[k].data # <<>>
<1>1. /\ Persisted[1].var = TestVariableName1 /\ Persisted[1].data = Buffer(1, 0, 3)
      /\ Persisted[2].var = TestVariableName2 /\ Persisted[2].data = Buffer(2, 0, 0)
      /\ Persisted[3].var = TestVariableName3 /\ Persisted[3].data = Buffer(3, 0, 0)
  BY DEF Persisted
<1>2. /\ {TestVariableName1, TestVariableName2, TestVariableName3} \subseteq Var
      /\ PersistanceTestFlag \notin {TestVariableName1, TestVariableName2, TestVariableName3}
  <2> DEFINE names == <<PersistanceTestFlag, TestVariableName1, TestVariableName2, TestVariableName3>>
  <2>1. IsInjective(names) /\ DOMAIN names = 1..4
    BY TestVariableAssumption
  <2>2. names[1] # names[2] /\ names[1] # names[3] /\ names[1] # names[4]
    BY <2>1 DEF IsInjective
  <2>3. {TestVariableName1, TestVariableName2, TestVariableName3} \subseteq Var
    BY TestVariableAssumption DEF Persistent
  <2> QED BY <2>2, <2>3
<1>3. /\ Buffer(1, 0, 3) \in Seq(Tag) /\ Buffer(2, 0, 0) \in Seq(Tag) /\ Buffer(3, 0, 0) \in Seq(Tag)
      /\ Buffer(1, 0, 3) # <<>> /\ Buffer(2, 0, 0) # <<>> /\ Buffer(3, 0, 0) # <<>>
  BY BufferType
<1>4. \A k \in 1..3 : k = 1 \/ k = 2 \/ k = 3
  OBVIOUS
<1> QED BY <1>1, <1>2, <1>3, <1>4

(* One write of AppendAndShrink. *)
LEMMA WriteSteps ==
  ASSUME NEW V, NEW v \in V \intersect Var, NEW extra \in {{}, {"AP"}},
         NEW add \in Seq(Tag), NEW check \in Seq(Tag)
  PROVE  LET S == SetAndCheckVariable(v, BaseAttributes, extra, add, check, Compared) IN
         /\ S \in Seq(Steps(V))
         /\ Len(S) = 4
         /\ \A i \in 1..Len(S) : IsQuiet(S[i])
         /\ \A w : w # v => Untouched(S, w)
         /\ \A e : e.attrs = BaseAttributes /\ e.data = check => EndsWith(S, v, e)
<1> DEFINE S == SetAndCheckVariable(v, BaseAttributes, extra, add, check, Compared)
<1>1. BaseAttributes \in SUBSET Attribute /\ extra \in SUBSET Attribute /\ Compared \in SUBSET Compared
  BY Attributes DEF Attribute
<1>2. S \in Seq(Steps(V))
  BY <1>1, SetAndCheckSteps
<1>3. Len(S) = 4
  BY SetAndCheckShape
<1>4. \A w : Writes(S[2], w) <=> w = v
  BY SetAndCheckShape
<1>5. \A i \in {1, 3, 4} : \A w : ~Writes(S[i], w)
  BY SetAndCheckShape
<1>6. \A i \in 1..4 : IsQuiet(S[i])
  BY SetAndCheckShape
<1>7. \A e : e.attrs = BaseAttributes /\ e.data = check => Confirms(S[3], v, e)
  BY SetAndCheckShape DEF Compared
<1> HIDE DEF S
<1>8. \A w : w # v => Untouched(S, w)
  BY <1>3, <1>4, <1>5 DEF Untouched
<1>9. \A e : e.attrs = BaseAttributes /\ e.data = check => EndsWith(S, v, e)
  <2>1. 3 \in 1..Len(S) /\ \A q \in (3 + 1)..Len(S) : q = 4
    BY <1>3
  <2> QED BY <1>5, <1>7, <2>1 DEF EndsWith
<1> QED BY <1>2, <1>3, <1>6, <1>8, <1>9 DEF S

(* PersistanceCheck deletes the flag first and writes nothing else. *)
LEMMA PersistanceCheckSteps ==
  LET S == PersistanceCheck IN
  /\ S \in Seq(Steps({PersistanceTestFlag}))
  /\ Len(S) = 6
  /\ S[1] = Set(PersistanceTestFlag, BaseAttributes, <<>>, "SUCCESS")
  /\ \A i \in 1..6 : IsQuiet(S[i])
  /\ \A i \in 2..6 : \A w : ~Writes(S[i], w)
  /\ \A i \in 1..6 : \A w : Denies(S[i], w) => w = PersistanceTestFlag
<1> DEFINE V == {PersistanceTestFlag}
           d1 == Set(PersistanceTestFlag, BaseAttributes, <<>>, "SUCCESS")
           d2 == Probe(PersistanceTestFlag, "NOT_FOUND")
           d3 == VerifyVariableEnumerable(PersistanceTestFlag, FALSE)
           del == DeleteAndCheckVariable(PersistanceTestFlag, BaseAttributes)
           fetch(i) == Fetch(Persisted[i].var, 3 * MaxChunksPerVar, BaseAttributes, Persisted[i].data)
           fetches == [i \in 1..3 |-> fetch(i)]
           S == del \o fetches
<1>1. PersistanceCheck = S
  BY DEF PersistanceCheck
<1>2. /\ del \in Seq(Steps(V)) /\ Len(del) = 3 /\ \A i \in 1..3 : IsQuiet(del[i])
  <2>1. PersistanceTestFlag \in V \intersect Var /\ BaseAttributes \in SUBSET Attribute
    BY Attributes, TestVariableAssumption DEF Persistent
  <2> QED BY <2>1, DeleteAndCheckSteps
<1>3. del = <<d1, d2, d3>>
  BY DEF DeleteAndCheckVariable
<1>4. /\ \A w : ~Denies(d1, w)
      /\ \A w : ~Writes(d2, w) /\ ~Writes(d3, w)
      /\ \A w : Denies(d2, w) \/ Denies(d3, w) => w = PersistanceTestFlag
  BY DEF Denies, Writes, Set, Probe, Get, VerifyVariableEnumerable
<1>5. ASSUME NEW i \in 1..3
      PROVE  /\ fetch(i) \in Steps(V) /\ IsQuiet(fetch(i))
             /\ \A w : ~Writes(fetch(i), w) /\ ~Denies(fetch(i), w)
  <2>1. /\ Persisted[i].var \in Var /\ Persisted[i].data \in Seq(Tag)
        /\ 3 * MaxChunksPerVar \in Nat
        /\ "SUCCESS" \in Statuses /\ {"attrs", "size", "data"} \in SUBSET Compared
        /\ BaseAttributes \in SUBSET Attribute
    BY PersistedParts, Attributes DEF MaxChunksPerVar, Statuses, Compared
  <2>2. fetch(i) \in Steps(V)
    BY <2>1, AskStep DEF Fetch
  <2>3. IsQuiet(fetch(i)) /\ \A w : ~Writes(fetch(i), w) /\ ~Denies(fetch(i), w)
    BY DEF IsQuiet, Allocates, Releases, Writes, Denies, Fetch, Get
  <2> QED BY <2>2, <2>3
<1> HIDE DEF d1, d2, d3, fetch, del
<1>6. /\ fetches \in Seq(Steps(V)) /\ Len(fetches) = 3
      /\ \A i \in 1..3 : fetches[i] = fetch(i)
  BY <1>5
<1>7. Len(del) = 3 /\ del[1] = d1 /\ del[2] = d2 /\ del[3] = d3
  BY <1>3
<1> HIDE DEF fetches
<1>8. /\ S \in Seq(Steps(V)) /\ Len(S) = 6
      /\ \A i \in 1..3 : S[i] = del[i]
  <2> HIDE DEF V
  <2>1. S \in Seq(Steps(V)) /\ Len(S) = Len(del) + Len(fetches)
    BY <1>2, <1>6, Joined
  <2>2. \A i \in 1..Len(del) : S[i] = del[i]
    BY <1>2, <1>6, Joined
  <2> QED BY <1>2, <1>6, <2>1, <2>2
<1>9. \A i \in 1..3 : S[3 + i] = fetch(i)
  <2> HIDE DEF V
  <2>1. del \in Seq(Steps(V)) /\ fetches \in Seq(Steps(V))
    BY <1>2, <1>6
  <2>2. \A i \in 1..Len(fetches) : S[Len(del) + i] = fetches[i]
    BY <2>1, Joined
  <2> QED BY <1>2, <1>6, <2>2
<1> HIDE DEF S
<1>10. \A i \in 1..6 : i \in 1..3 \/ (i - 3 \in 1..3 /\ 3 + (i - 3) = i)
  OBVIOUS
<1>11. \A i \in 1..6 : IsQuiet(S[i])
  BY <1>2, <1>5, <1>8, <1>9, <1>10
<1>12. S[1] = d1 /\ S[2] = d2 /\ S[3] = d3
  BY <1>7, <1>8
<1>13. \A i \in 1..6 : i = 1 \/ i = 2 \/ i = 3 \/ (i - 3 \in 1..3 /\ 3 + (i - 3) = i)
  OBVIOUS
<1>14. \A i \in 1..6 : i = 1 \/ S[i] = d2 \/ S[i] = d3 \/ \E j \in 1..3 : S[i] = fetch(j)
  BY <1>9, <1>12, <1>13
<1>15. \A i \in 2..6 : \A w : ~Writes(S[i], w)
  <2>1. \A i \in 2..6 : i \in 1..6 /\ i # 1
    OBVIOUS
  <2> QED BY <1>4, <1>5, <1>14, <2>1
<1>16. \A i \in 1..6 : \A w : Denies(S[i], w) => w = PersistanceTestFlag
  BY <1>4, <1>5, <1>12, <1>14
<1> QED BY <1>1, <1>8, <1>11, <1>12, <1>15, <1>16 DEF d1

(* One sequence after another, by the places in both. *)
LEMMA JoinedLengths ==
  ASSUME NEW T, NEW s \in Seq(T), NEW t \in Seq(T)
  PROVE  /\ s \o t \in Seq(T)
         /\ Len(s \o t) = Len(s) + Len(t)
         /\ \A i \in 1..Len(s) : (s \o t)[i] = s[i]
         /\ \A i \in (Len(s) + 1)..(Len(s) + Len(t)) : (s \o t)[i] = t[i - Len(s)]
<1>1. s \o t \in Seq(T) /\ Len(s \o t) = Len(s) + Len(t)
  BY Joined
<1>2. \A i \in 1..Len(s) : (s \o t)[i] = s[i]
  BY Joined
<1>3. \A i \in 1..Len(t) : (s \o t)[Len(s) + i] = t[i]
  BY Joined
<1>4. \A i \in (Len(s) + 1)..(Len(s) + Len(t)) : i - Len(s) \in 1..Len(t) /\ Len(s) + (i - Len(s)) = i
  OBVIOUS
<1>5. \A i \in (Len(s) + 1)..(Len(s) + Len(t)) : (s \o t)[i] = t[i - Len(s)]
  BY <1>3, <1>4
<1> QED BY <1>1, <1>2, <1>5

(* AppendAndShrink writes the three variables, and has read each of them back as
   the flag vouches for since it wrote it last. *)
LEMMA AppendAndShrinkSteps ==
  LET S == AppendAndShrink IN
  /\ S \in Seq(Steps({TestVariableName1, TestVariableName2, TestVariableName3}))
  /\ Len(S) = 35
  /\ \A b : Spares(S, b)
  /\ \A k \in 1..3 : \A e : e.attrs = BaseAttributes /\ e.data = Persisted[k].data =>
       EndsWith(S, Persisted[k].var, e)
<1> DEFINE n1 == TestVariableName1
           n2 == TestVariableName2
           n3 == TestVariableName3
           V == {n1, n2, n3}
           T == Steps(V)
           write(v, extra, add, check) ==
             SetAndCheckVariable(v, BaseAttributes, extra, add, check, Compared)
           del == DeleteAndCheckVariable(n2, BaseAttributes)
           t1 == write(n1, {}, Buffer(1, 0, 0), Buffer(1, 0, 0))
           t2 == t1 \o write(n1, {"AP"}, Buffer(1, 1, 1), Buffer(1, 0, 1))
           t3 == t2 \o write(n2, {}, Buffer(2, 0, 0), Buffer(2, 0, 0))
           t4 == t3 \o write(n1, {"AP"}, Buffer(1, 2, 3), Buffer(1, 0, 3))
           t5 == t4 \o write(n1, {}, Buffer(1, 0, 2), Buffer(1, 0, 2))
           t6 == t5 \o del
           t7 == t6 \o write(n3, {}, Buffer(3, 0, 0), Buffer(3, 0, 0))
           t8 == t7 \o write(n1, {"AP"}, Buffer(1, 3, 3), Buffer(1, 0, 3))
           t9 == t8 \o write(n2, {}, Buffer(2, 0, 0), Buffer(2, 0, 0))
           Chunks(d) == d \in Seq(Tag)
           Kind(S, n) == S \in Seq(T) /\ Len(S) = n /\ \A b : Spares(S, b)
           Ends(S, v, d) == \A e : e.attrs = BaseAttributes /\ e.data = d => EndsWith(S, v, e)
<1>1. AppendAndShrink = t9
  BY DEF AppendAndShrink, Compared
<1>2. V \subseteq Var /\ n1 # n2 /\ n1 # n3 /\ n2 # n3
  <2> DEFINE names == <<PersistanceTestFlag, n1, n2, n3>>
  <2>1. IsInjective(names) /\ DOMAIN names = 1..4
    BY TestVariableAssumption
  <2>2. names[2] # names[3] /\ names[2] # names[4] /\ names[3] # names[4]
    BY <2>1 DEF IsInjective
  <2>3. V \subseteq Var
    BY TestVariableAssumption DEF Persistent
  <2> QED BY <2>2, <2>3
<1>3. ASSUME NEW v \in V, NEW extra \in {{}, {"AP"}}, NEW add \in Seq(Tag), NEW check \in Seq(Tag)
      PROVE  /\ Kind(write(v, extra, add, check), 4)
             /\ Ends(write(v, extra, add, check), v, check)
             /\ \A w : w # v => Untouched(write(v, extra, add, check), w)
  <2> DEFINE S == write(v, extra, add, check)
  <2>1. v \in V \intersect Var
    BY <1>2
  <2>2. S \in Seq(T)
    BY <2>1, WriteSteps
  <2>3. Len(S) = 4
    BY SetAndCheckShape
  <2>4. \A i \in 1..Len(S) : IsQuiet(S[i])
    BY <2>1, WriteSteps
  <2>5. \A w : w # v => Untouched(S, w)
    BY <2>1, WriteSteps
  <2>6. Ends(S, v, check)
    BY <2>1, WriteSteps
  <2> HIDE DEF S, T
  <2>7. Kind(S, 4)
    BY <2>2, <2>3, <2>4, QuietSpares
  <2> QED BY <2>5, <2>6, <2>7 DEF S
<1>4. Kind(del, 3)
  <2>1. n2 \in V \intersect Var /\ BaseAttributes \in SUBSET Attribute
    BY <1>2, Attributes
  <2>2. del \in Seq(T) /\ Len(del) = 3 /\ \A i \in 1..3 : IsQuiet(del[i])
    BY <2>1, DeleteAndCheckSteps
  <2> HIDE DEF del, T
  <2> QED BY <2>2, QuietSpares
<1>5. /\ Chunks(Buffer(1, 0, 0)) /\ Chunks(Buffer(1, 1, 1)) /\ Chunks(Buffer(1, 0, 1))
      /\ Chunks(Buffer(1, 2, 3)) /\ Chunks(Buffer(1, 0, 3)) /\ Chunks(Buffer(1, 0, 2))
      /\ Chunks(Buffer(1, 3, 3)) /\ Chunks(Buffer(2, 0, 0)) /\ Chunks(Buffer(3, 0, 0))
  <2>1. \A k \in 1..3 : \A from \in Nat : \A to \in Nat : from <= to => Chunks(Buffer(k, from, to))
    BY BufferType
  <2> HIDE DEF Chunks
  <2> QED BY <2>1
<1>6. {} \in {{}, {"AP"}} /\ {"AP"} \in {{}, {"AP"}} /\ n1 \in V /\ n2 \in V /\ n3 \in V
  OBVIOUS
<1> DEFINE x1 == {}
           x2 == {"AP"}
<1>7. x1 \in {{}, {"AP"}} /\ x2 \in {{}, {"AP"}}
  BY <1>6
<1> HIDE DEF T, write, del, V
<1>8. ASSUME NEW s, NEW t, NEW n \in Nat, NEW m \in Nat, Kind(s, n), Kind(t, m)
      PROVE  /\ Kind(s \o t, n + m)
             /\ \A v, d : Ends(t, v, d) => Ends(s \o t, v, d)
             /\ \A v, d : Ends(s, v, d) /\ Untouched(t, v) => Ends(s \o t, v, d)
  <2>1. s \o t \in Seq(T) /\ Len(s \o t) = n + m
    BY <1>8, Joined
  <2>2. \A b : Spares(s \o t, b)
    BY <1>8, JoinSpares
  <2>3. \A v, e : EndsWith(t, v, e) \/ (EndsWith(s, v, e) /\ Untouched(t, v)) => EndsWith(s \o t, v, e)
    BY <1>8, JoinEnds
  <2> QED BY <2>1, <2>2, <2>3
<1>9. /\ Kind(write(n1, {}, Buffer(1, 0, 0), Buffer(1, 0, 0)), 4)
       /\ Kind(write(n1, {"AP"}, Buffer(1, 1, 1), Buffer(1, 0, 1)), 4)
       /\ Kind(write(n2, {}, Buffer(2, 0, 0), Buffer(2, 0, 0)), 4)
       /\ Kind(write(n1, {"AP"}, Buffer(1, 2, 3), Buffer(1, 0, 3)), 4)
       /\ Kind(write(n1, {}, Buffer(1, 0, 2), Buffer(1, 0, 2)), 4)
       /\ Kind(write(n3, {}, Buffer(3, 0, 0), Buffer(3, 0, 0)), 4)
       /\ Kind(write(n1, {"AP"}, Buffer(1, 3, 3), Buffer(1, 0, 3)), 4)
  <2> HIDE DEF Kind, Ends, x1, x2
  <2>1. \A add \in Seq(Tag) : \A check \in Seq(Tag) : \A v \in V :
          Kind(write(v, x1, add, check), 4) /\ Kind(write(v, x2, add, check), 4)
    BY <1>3, <1>7
  <2> QED BY <1>5, <1>6, <2>1 DEF x1, x2
<1>10. /\ Ends(write(n3, {}, Buffer(3, 0, 0), Buffer(3, 0, 0)), n3, Buffer(3, 0, 0))
       /\ Ends(write(n1, {"AP"}, Buffer(1, 3, 3), Buffer(1, 0, 3)), n1, Buffer(1, 0, 3))
       /\ Ends(write(n2, {}, Buffer(2, 0, 0), Buffer(2, 0, 0)), n2, Buffer(2, 0, 0))
       /\ Untouched(write(n1, {"AP"}, Buffer(1, 3, 3), Buffer(1, 0, 3)), n3)
       /\ Untouched(write(n2, {}, Buffer(2, 0, 0), Buffer(2, 0, 0)), n3)
       /\ Untouched(write(n2, {}, Buffer(2, 0, 0), Buffer(2, 0, 0)), n1)
  <2> HIDE DEF Kind, Ends, x1, x2
  <2>1. \A add \in Seq(Tag) : \A check \in Seq(Tag) : \A v \in V :
          /\ Ends(write(v, x1, add, check), v, check) /\ Ends(write(v, x2, add, check), v, check)
          /\ \A w : w # v => Untouched(write(v, x1, add, check), w) /\ Untouched(write(v, x2, add, check), w)
    BY <1>3, <1>7
  <2> QED BY <1>2, <1>5, <1>6, <2>1 DEF x1, x2
<1> HIDE DEF Kind, Ends
<1>11. Kind(t1, 4)
  BY <1>9
<1> HIDE DEF t1
<1>12. Kind(t2, 8)
  BY <1>8, <1>9, <1>11
<1> HIDE DEF t2
<1>13. Kind(t3, 12)
  BY <1>8, <1>9, <1>12
<1> HIDE DEF t3
<1>14. Kind(t4, 16)
  BY <1>8, <1>9, <1>13
<1> HIDE DEF t4
<1>15. Kind(t5, 20)
  BY <1>8, <1>9, <1>14
<1> HIDE DEF t5
<1>16. Kind(t6, 23)
  BY <1>4, <1>8, <1>15
<1> HIDE DEF t6
<1>17. Kind(t7, 27) /\ Ends(t7, n3, Buffer(3, 0, 0))
  BY <1>8, <1>9, <1>10, <1>16
<1> HIDE DEF t7
<1>18. Kind(t8, 31) /\ Ends(t8, n3, Buffer(3, 0, 0)) /\ Ends(t8, n1, Buffer(1, 0, 3))
  BY <1>8, <1>9, <1>10, <1>17
<1> HIDE DEF t8
<1>19. /\ Kind(t9, 35) /\ Ends(t9, n3, Buffer(3, 0, 0)) /\ Ends(t9, n1, Buffer(1, 0, 3))
       /\ Ends(t9, n2, Buffer(2, 0, 0))
  BY <1>8, <1>9, <1>10, <1>18
<1> HIDE DEF t9
<1>20. \A k \in 1..3 : Ends(t9, Persisted[k].var, Persisted[k].data)
  <2>1. \A k \in 1..3 : k = 1 \/ k = 2 \/ k = 3
    OBVIOUS
  <2>2. /\ Ends(t9, Persisted[1].var, Persisted[1].data)
        /\ Ends(t9, Persisted[2].var, Persisted[2].data)
        /\ Ends(t9, Persisted[3].var, Persisted[3].data)
    BY <1>19, PersistedParts
  <2> QED BY <2>1, <2>2
<1> QED BY <1>1, <1>19, <1>20 DEF Kind, Ends, T, V

(* The steps of the persistence test, by their places. *)
LEMMA PersistScript ==
  LET S == VerifyAppendShrinkReplacePersist IN
  /\ S \in Seq(Steps(Persistent) \union SkipSteps)
  /\ Len(S) = 46
  /\ Careful(S)
  /\ S[3] = SkipIfAbsent(PersistanceTestFlag, 6)
  /\ \A p \in 1..46 : S[p].op = "SkipIfAbsent" => p = 3
  /\ S[4] = Set(PersistanceTestFlag, BaseAttributes, <<>>, "SUCCESS")
  /\ S[45] = Set(PersistanceTestFlag, BaseAttributes, Bytes(1, 1), "SUCCESS")
  /\ \A p \in 1..46 : Writes(S[p], PersistanceTestFlag) => p = 4 \/ p = 45
  /\ \A p \in {1, 2, 3, 46} : \A w : ~Writes(S[p], w)
  /\ \A p \in 4..9 : /\ IsQuiet(S[p])
                     /\ \A w : Denies(S[p], w) \/ Writes(S[p], w) => w = PersistanceTestFlag
  /\ \A k \in 1..3 : \A e : e.attrs = BaseAttributes /\ e.data = Persisted[k].data =>
       \E p \in 10..44 : /\ Confirms(S[p], Persisted[k].var, e)
                         /\ \A q \in (p + 1)..46 : ~Writes(S[q], Persisted[k].var)
<1> DEFINE flag == PersistanceTestFlag
           V == {TestVariableName1, TestVariableName2, TestVariableName3}
           T == Steps(Persistent) \union SkipSteps
           a1 == Allocate("mImageData")
           a2 == Allocate("mActualImageData")
           skip == SkipIfAbsent(flag, 6)
           start == <<a1, a2, skip>>
           check == PersistanceCheck
           body == AppendAndShrink
           set == Set(flag, BaseAttributes, Bytes(1, 1), "SUCCESS")
           free == Release("mImageData")
           end == <<set, free>>
           t1 == start \o check
           t2 == t1 \o body
           S == t2 \o end
<1>1. Len(check) = 6
  BY PersistanceCheckSteps
<1>2. VerifyAppendShrinkReplacePersist = S
  BY <1>1 DEF VerifyAppendShrinkReplacePersist
<1>3. Persistent = V \union {flag} /\ Persistent \subseteq Var /\ flag \notin V
  <2>1. \A k \in 1..3 : Persisted[k].var # flag
    BY PersistedParts
  <2>2. flag \notin V
    BY <2>1, PersistedParts
  <2> QED BY <2>2, TestVariableAssumption DEF Persistent
<1>4. /\ Seq(Steps(V)) \subseteq Seq(T) /\ Seq(Steps({flag})) \subseteq Seq(T)
      /\ Steps({flag}) \subseteq T
  <2>1. Steps(V) \subseteq T /\ Steps({flag}) \subseteq T
    BY <1>3 DEF Steps, SetSteps
  <2> HIDE DEF T, V
  <2> QED BY <2>1
<1>5. a1 \in T /\ a2 \in T /\ free \in T /\ set \in T /\ skip \in T
  <2>1. a1 \in Steps({flag}) /\ a2 \in Steps({flag}) /\ free \in Steps({flag})
    BY BufferStep DEF Buffers
  <2>2. set \in Steps({flag})
    <3>1. Bytes(1, 1) \in Seq(Tag) /\ "SUCCESS" \in Statuses /\ flag \in {flag}
      BY BytesType DEF Garbage, Statuses
    <3> QED BY <3>1, Attributes, SetStep
  <2>3. skip \in SkipSteps
    BY <1>3 DEF SkipSteps, SkipIfAbsent
  <2> QED BY <1>4, <2>1, <2>2, <2>3
<1>6. /\ \A b : Allocates(a1, b) => b = "mImageData"
      /\ \A b : Allocates(a2, b) => b = "mActualImageData"
      /\ \A b : ~Allocates(skip, b) /\ ~Allocates(set, b) /\ ~Allocates(free, b)
      /\ \A w : ~Writes(a1, w) /\ ~Writes(a2, w) /\ ~Writes(skip, w) /\ ~Writes(free, w)
      /\ \A w : Writes(set, w) => w = flag
      /\ a1.op # "SkipIfAbsent" /\ a2.op # "SkipIfAbsent"
      /\ set.op # "SkipIfAbsent" /\ free.op # "SkipIfAbsent"
  BY DEF Allocates, Writes, Allocate, Release, SkipIfAbsent, Set
<1>7. \A x : \A s \in Steps(x) : s.op # "SkipIfAbsent"
  BY DEF Steps, BufferSteps, SetSteps, AskSteps
<1>8. /\ check \in Seq(T) /\ \A i \in 1..6 : IsQuiet(check[i]) /\ check[i].op # "SkipIfAbsent"
      /\ \A i \in 1..6 : \A w : Denies(check[i], w) \/ Writes(check[i], w) => w = flag
      /\ \A i \in 2..6 : \A w : ~Writes(check[i], w)
  <2>1. check \in Seq(Steps({flag})) /\ \A i \in 1..6 : IsQuiet(check[i])
    BY PersistanceCheckSteps
  <2>2. \A i \in 1..6 : check[i] \in Steps({flag})
    <3> DEFINE W == Steps({flag})
    <3>1. check \in Seq(W) /\ Len(check) = 6
      BY <1>1, <2>1
    <3> HIDE DEF check, W
    <3>2. \A i \in 1..Len(check) : check[i] \in W
      BY <3>1, ElementOfSeq
    <3>3. \A i \in 1..6 : check[i] \in W
      BY <3>1, <3>2
    <3> QED BY <3>3 DEF W
  <2>3. \A i \in 1..6 : \A w : Writes(check[i], w) => w = flag
    BY <2>2 DEF Steps, BufferSteps, SetSteps, AskSteps, Writes
  <2>4. \A i \in 1..6 : \A w : Denies(check[i], w) => w = flag
    BY PersistanceCheckSteps
  <2>5. \A i \in 2..6 : \A w : ~Writes(check[i], w)
    BY PersistanceCheckSteps
  <2>6. \A i \in 1..6 : check[i].op # "SkipIfAbsent"
    BY <1>7, <2>2
  <2> QED BY <1>4, <2>1, <2>3, <2>4, <2>5, <2>6
<1>9. /\ body \in Seq(T) /\ Len(body) = 35 /\ \A b : Spares(body, b)
      /\ \A i \in 1..35 : body[i].op # "SkipIfAbsent" /\ ~Writes(body[i], flag)
  <2>1. body \in Seq(Steps(V)) /\ Len(body) = 35 /\ \A b : Spares(body, b)
    BY AppendAndShrinkSteps
  <2>2. \A i \in 1..35 : body[i] \in Steps(V)
    <3> DEFINE W == Steps(V)
    <3>1. body \in Seq(W) /\ Len(body) = 35
      BY <2>1
    <3> HIDE DEF body, W
    <3>2. \A i \in 1..Len(body) : body[i] \in W
      BY <3>1, ElementOfSeq
    <3>3. \A i \in 1..35 : body[i] \in W
      BY <3>1, <3>2
    <3> QED BY <3>3 DEF W
  <2>3. \A i \in 1..35 : ~Writes(body[i], flag)
    BY <1>3, <2>2 DEF Steps, BufferSteps, SetSteps, AskSteps, Writes
  <2> QED BY <1>4, <1>7, <2>1, <2>2, <2>3
<1> HIDE DEF T, a1, a2, skip, set, free, check, body
<1>10. start \in Seq(T) /\ Len(start) = 3 /\ start[1] = a1 /\ start[2] = a2 /\ start[3] = skip
  BY <1>5
<1>11. end \in Seq(T) /\ Len(end) = 2 /\ end[1] = set /\ end[2] = free
  BY <1>5
<1> HIDE DEF start, end
<1>12. Careful(start)
  BY <1>6, <1>10 DEF Careful, Exclusive
<1>13. \A b : Spares(end, b)
  BY <1>6, <1>11 DEF Spares
<1>14. t1 \in Seq(T) /\ Len(t1) = 9 /\ Careful(t1)
         /\ (\A i \in 1..3 : t1[i] = start[i]) /\ \A i \in 4..9 : t1[i] = check[i - 3]
  <2>1. start \in Seq(T) /\ check \in Seq(T) /\ Len(start) = 3 /\ Len(check) = 6
    BY <1>1, <1>8, <1>10
  <2>2. /\ start \o check \in Seq(T)
        /\ Len(start \o check) = Len(start) + Len(check)
        /\ \A i \in 1..Len(start) : (start \o check)[i] = start[i]
        /\ \A i \in (Len(start) + 1)..(Len(start) + Len(check)) : (start \o check)[i] = check[i - Len(start)]
    BY <2>1, JoinedLengths, Zenon
  <2>3. \A i \in 1..Len(check) : IsQuiet(check[i])
    BY <1>1, <1>8
  <2>4. Careful(start \o check)
    BY <1>12, <2>1, <2>3, CarefulOn
  <2> HIDE DEF t1
  <2>5. \A i \in 4..9 : i \in (Len(start) + 1)..(Len(start) + Len(check)) /\ i - Len(start) = i - 3
    BY <2>1
  <2>6. \A i \in 4..9 : (start \o check)[i] = check[i - 3]
    BY <2>2, <2>5
  <2>7. \A i \in 1..3 : (start \o check)[i] = start[i]
    BY <2>1, <2>2
  <2>8. Len(start \o check) = 9
    BY <2>1, <2>2
  <2> QED BY <2>2, <2>4, <2>6, <2>7, <2>8 DEF t1
<1> HIDE DEF t1
<1>15. t2 \in Seq(T) /\ Len(t2) = 44 /\ Careful(t2)
         /\ (\A i \in 1..9 : t2[i] = t1[i]) /\ \A i \in 10..44 : t2[i] = body[i - 9]
  <2>1. t1 \in Seq(T) /\ body \in Seq(T) /\ Len(t1) = 9 /\ Len(body) = 35
    BY <1>9, <1>14
  <2>2. /\ t1 \o body \in Seq(T)
        /\ Len(t1 \o body) = Len(t1) + Len(body)
        /\ \A i \in 1..Len(t1) : (t1 \o body)[i] = t1[i]
        /\ \A i \in (Len(t1) + 1)..(Len(t1) + Len(body)) : (t1 \o body)[i] = body[i - Len(t1)]
    BY <2>1, JoinedLengths, Zenon
  <2>3. \A b \in Buffers : Exclusive(body, b) /\ TakesOver(body, b)
    BY <1>9, Sparing
  <2>4. Careful(t1 \o body)
    BY <1>14, <2>1, <2>3, CarefulOn
  <2> HIDE DEF t2
  <2>5. \A i \in 10..44 : i \in (Len(t1) + 1)..(Len(t1) + Len(body)) /\ i - Len(t1) = i - 9
    BY <2>1
  <2>6. \A i \in 10..44 : (t1 \o body)[i] = body[i - 9]
    BY <2>2, <2>5
  <2>7. \A i \in 1..9 : (t1 \o body)[i] = t1[i]
    BY <2>1, <2>2
  <2>8. Len(t1 \o body) = 44
    BY <2>1, <2>2
  <2> QED BY <2>2, <2>4, <2>6, <2>7, <2>8 DEF t2
<1> HIDE DEF t2
<1>16. S \in Seq(T) /\ Len(S) = 46 /\ Careful(S)
         /\ (\A i \in 1..44 : S[i] = t2[i]) /\ \A i \in 45..46 : S[i] = end[i - 44]
  <2>1. t2 \in Seq(T) /\ end \in Seq(T) /\ Len(t2) = 44 /\ Len(end) = 2
    BY <1>11, <1>15
  <2>2. /\ t2 \o end \in Seq(T)
        /\ Len(t2 \o end) = Len(t2) + Len(end)
        /\ \A i \in 1..Len(t2) : (t2 \o end)[i] = t2[i]
        /\ \A i \in (Len(t2) + 1)..(Len(t2) + Len(end)) : (t2 \o end)[i] = end[i - Len(t2)]
    BY <2>1, JoinedLengths, Zenon
  <2>3. \A b \in Buffers : Exclusive(end, b) /\ TakesOver(end, b)
    BY <1>13, Sparing
  <2>4. Careful(t2 \o end)
    BY <1>15, <2>1, <2>3, CarefulOn
  <2> HIDE DEF S
  <2>5. \A i \in 45..46 : i \in (Len(t2) + 1)..(Len(t2) + Len(end)) /\ i - Len(t2) = i - 44
    BY <2>1
  <2>6. \A i \in 45..46 : (t2 \o end)[i] = end[i - 44]
    BY <2>2, <2>5
  <2>7. \A i \in 1..44 : (t2 \o end)[i] = t2[i]
    BY <2>1, <2>2
  <2>8. Len(t2 \o end) = 46
    BY <2>1, <2>2
  <2> QED BY <2>2, <2>4, <2>6, <2>7, <2>8 DEF S
<1> HIDE DEF S
<1>17. S[1] = a1 /\ S[2] = a2 /\ S[3] = skip /\ S[45] = set /\ S[46] = free
  <2>1. 45 - 44 = 1 /\ 46 - 44 = 2 /\ 45 \in 45..46 /\ 46 \in 45..46
    OBVIOUS
  <2>2. S[45] = end[45 - 44] /\ S[46] = end[46 - 44]
    BY <1>16, <2>1
  <2>3. \A i \in 1..3 : i \in 1..9 /\ i \in 1..44
    OBVIOUS
  <2>4. \A i \in 1..3 : S[i] = t1[i]
    BY <1>15, <1>16, <2>3
  <2>5. \A i \in 1..3 : S[i] = start[i]
    BY <1>14, <2>4
  <2> QED BY <1>10, <1>11, <2>1, <2>2, <2>5
<1>18. \A i \in 4..9 : S[i] = check[i - 3] /\ i - 3 \in 1..6
  <2>1. \A i \in 4..9 : i \in 1..9 /\ i \in 1..44 /\ i - 3 \in 1..6
    OBVIOUS
  <2>2. \A i \in 4..9 : S[i] = t1[i]
    BY <1>15, <1>16, <2>1
  <2> QED BY <1>14, <2>1, <2>2
<1>19. \A i \in 10..44 : S[i] = body[i - 9] /\ i - 9 \in 1..35
  <2>1. \A i \in 10..44 : i \in 1..44 /\ i - 9 \in 1..35
    OBVIOUS
  <2>2. \A i \in 10..44 : S[i] = t2[i]
    BY <1>16, <2>1
  <2> QED BY <1>15, <2>1, <2>2
<1>20. \A p \in 1..46 : \/ p = 1 \/ p = 2 \/ p = 3 \/ p = 45 \/ p = 46
                        \/ p \in 4..9 \/ p \in 10..44
  OBVIOUS
<1>21. \A p \in 1..46 : S[p].op = "SkipIfAbsent" => p = 3
  <2>1. \A p \in 4..9 : S[p].op # "SkipIfAbsent"
    BY <1>8, <1>18
  <2>2. \A p \in 10..44 : S[p].op # "SkipIfAbsent"
    BY <1>9, <1>19
  <2> QED BY <1>6, <1>17, <1>20, <2>1, <2>2
<1>22. S[4] = Set(flag, BaseAttributes, <<>>, "SUCCESS")
  <2>1. check[1] = Set(flag, BaseAttributes, <<>>, "SUCCESS")
    BY PersistanceCheckSteps DEF check
  <2>2. 4 \in 4..9 /\ 4 - 3 = 1
    OBVIOUS
  <2> QED BY <1>18, <2>1, <2>2
<1>23. \A p \in 1..46 : Writes(S[p], flag) => p = 4 \/ p = 45
  <2>1. \A p \in 4..9 : p # 4 => p - 3 \in 2..6
    OBVIOUS
  <2>2. \A p \in 4..9 : p # 4 => ~Writes(S[p], flag)
    BY <1>8, <1>18, <2>1
  <2>3. \A p \in 10..44 : ~Writes(S[p], flag)
    BY <1>9, <1>19
  <2> QED BY <1>6, <1>17, <1>20, <2>2, <2>3
<1>24. \A p \in 4..9 : /\ IsQuiet(S[p])
                       /\ \A w : Denies(S[p], w) \/ Writes(S[p], w) => w = flag
  BY <1>8, <1>18
<1>25. ASSUME NEW k \in 1..3, NEW e, e.attrs = BaseAttributes, e.data = Persisted[k].data
       PROVE  \E p \in 10..44 : /\ Confirms(S[p], Persisted[k].var, e)
                                /\ \A q \in (p + 1)..46 : ~Writes(S[q], Persisted[k].var)
  <2> DEFINE v == Persisted[k].var
  <2>1. v # flag
    BY PersistedParts
  <2>2. EndsWith(body, v, e)
    BY <1>25, AppendAndShrinkSteps DEF body
  <2>3. PICK i \in 1..35 : Confirms(body[i], v, e) /\ \A q \in (i + 1)..35 : ~Writes(body[q], v)
    BY <1>9, <2>2 DEF EndsWith
  <2>4. 9 + i \in 10..44 /\ S[9 + i] = body[i]
    <3>1. 9 + i \in 10..44 /\ (9 + i) - 9 = i
      OBVIOUS
    <3> QED BY <1>19, <3>1
  <2>5. \A q \in (9 + i + 1)..46 : q = 45 \/ q = 46 \/ (q \in 10..44 /\ q - 9 \in (i + 1)..35)
    OBVIOUS
  <2>6. \A q \in (9 + i + 1)..46 : ~Writes(S[q], v)
    <3> HIDE DEF v
    <3> QED BY <1>6, <1>17, <1>19, <2>1, <2>3, <2>5
  <2> QED BY <2>3, <2>4, <2>6
<1>26. \A p \in {1, 2, 3, 46} : \A w : ~Writes(S[p], w)
  BY <1>6, <1>17
<1> QED BY <1>2, <1>16, <1>17, <1>21, <1>22, <1>23, <1>24, <1>25, <1>26 DEF T, skip, set

----------------------------------------------------------------------------
(* All of the tests. *)

(* The tests in the order of their registration. *)
LEMMA Tests ==
  /\ TestFunc[1] = "TestValidNonVolatileVars" /\ TestFunc[2] = "VerifyAppendShrinkReplacePersist"
  /\ TestFunc[3] = "VerifyNameHandling" /\ TestFunc[4] = "VerifyQuery"
  /\ TestFunc[5] = "TestValidAuthVars" /\ TestFunc[6] = "TestInvalidAuthVars"
  /\ TestFunc[7] = "VerifyOverflow"
  /\ Len(TestFunc) = 7
BY DEF TestFunc

(* The script of each test, and what it may write. *)
LEMMA ScriptOf ==
  ASSUME NEW l
  PROVE  /\ Script("TestValidNonVolatileVars", l) = TestValidNonVolatileVars
         /\ Script("VerifyAppendShrinkReplacePersist", l) = VerifyAppendShrinkReplacePersist
         /\ Script("VerifyNameHandling", l) = VerifyNameHandling
         /\ Script("VerifyQuery", l) = VerifyQuery(l)
         /\ Script("TestValidAuthVars", l) = TestValidAuthVars
         /\ Script("TestInvalidAuthVars", l) = TestInvalidAuthVars
         /\ Script("VerifyOverflow", l) = VerifyOverflow(l)
<1>1. Script("TestValidNonVolatileVars", l) = TestValidNonVolatileVars
  BY DEF Script
<1>2. Script("VerifyAppendShrinkReplacePersist", l) = VerifyAppendShrinkReplacePersist
  BY DEF Script
<1>3. Script("VerifyNameHandling", l) = VerifyNameHandling
  BY DEF Script
<1>4. Script("VerifyQuery", l) = VerifyQuery(l)
  BY DEF Script
<1>5. Script("TestValidAuthVars", l) = TestValidAuthVars
  BY DEF Script
<1>6. Script("TestInvalidAuthVars", l) = TestInvalidAuthVars
  BY DEF Script
<1>7. Script("VerifyOverflow", l) = VerifyOverflow(l)
  BY DEF Script
<1> QED BY <1>1, <1>2, <1>3, <1>4, <1>5, <1>6, <1>7

(* What the persistence test keeps, and no other. *)
LEMMA KeptVars ==
  /\ Kept("VerifyAppendShrinkReplacePersist") = Persistent
  /\ Deleted("VerifyAppendShrinkReplacePersist") = {}
  /\ \A i \in 1..7 : i # 2 => Kept(TestFunc[i]) = {}
<1>1. Kept("VerifyAppendShrinkReplacePersist") = Persistent
  <2>1. \A v : v \in {Persisted[i].var : i \in 1..3} <=>
                 v = Persisted[1].var \/ v = Persisted[2].var \/ v = Persisted[3].var
    <3>1. \A i \in 1..3 : i = 1 \/ i = 2 \/ i = 3
      OBVIOUS
    <3> QED BY <3>1
  <2>2. {Persisted[i].var : i \in 1..3} = {TestVariableName1, TestVariableName2, TestVariableName3}
    <3>1. \A v : v \in {Persisted[i].var : i \in 1..3} <=>
                   v = TestVariableName1 \/ v = TestVariableName2 \/ v = TestVariableName3
      BY <2>1, PersistedParts
    <3> QED BY <3>1
  <2>3. Kept("VerifyAppendShrinkReplacePersist") =
          {PersistanceTestFlag} \union {Persisted[i].var : i \in 1..3}
    BY DEF Kept
  <2> HIDE DEF Kept
  <2> QED BY <2>2, <2>3 DEF Persistent
<1>2. Deleted("VerifyAppendShrinkReplacePersist") = {}
  BY DEF Deleted, Residue
<1>3. \A i \in 1..7 : i # 2 => Kept(TestFunc[i]) = {}
  <2>1. \A i \in 1..7 : i = 1 \/ i = 2 \/ i = 3 \/ i = 4 \/ i = 5 \/ i = 6 \/ i = 7
    OBVIOUS
  <2>2. \A i \in 1..7 : i # 2 => TestFunc[i] # "VerifyAppendShrinkReplacePersist"
    BY <2>1, Tests
  <2> QED BY <2>2 DEF Kept
<1> QED BY <1>1, <1>2, <1>3

(* What each of the tests deletes. *)
LEMMA DeletedVars ==
  /\ Deleted("TestValidNonVolatileVars") = ToSet(SizedVariable)
  /\ Deleted("VerifyNameHandling") = ToSet(TestVariableNameList) \union {NameTestVariable, LongString}
  /\ Deleted("VerifyQuery") = {QueryVariableName}
  /\ Deleted("TestValidAuthVars") = ToSet(mSecureBootVariables)
  /\ Deleted("TestInvalidAuthVars") = {}
  /\ Deleted("VerifyOverflow") = {QueryOverflowVariableName1, QueryOverflowVariableName2}
<1>1. Deleted("TestValidNonVolatileVars") = ToSet(SizedVariable)
  BY DEF Deleted, Residue
<1>2. Deleted("VerifyNameHandling") = ToSet(TestVariableNameList) \union {NameTestVariable, LongString}
  BY DEF Deleted, Residue
<1>3. Deleted("VerifyQuery") = {QueryVariableName}
  BY DEF Deleted, Residue
<1>4. Deleted("TestValidAuthVars") = ToSet(mSecureBootVariables)
  BY DEF Deleted, Residue
<1>5. Deleted("TestInvalidAuthVars") = {}
  BY DEF Deleted, Residue
<1>6. Deleted("VerifyOverflow") = {QueryOverflowVariableName1, QueryOverflowVariableName2}
  BY DEF Deleted, Residue
<1> QED BY <1>1, <1>2, <1>3, <1>4, <1>5, <1>6

(* What is known of every script. *)
Sound(func, S) ==
  /\ S \in Seq(QueriesToo(MayWrite(func)) \union SkipSteps)
  /\ Careful(S)
  /\ \A v \in Deleted(func) : EndsWithout(S, v)
  /\ \A p \in 1..Len(S) : \A v :
       Writes(S[p], v) => v \in Kept(func) \union Deleted(func) \/ S[p].status # "SUCCESS"

(* The steps up to one that measures stay what they were. *)
Steady(S, T) ==
  \A p \in 1..Len(S) : S[p].op = "Query" /\ S[p].verified = "measured" =>
    p <= Len(T) /\ \A q \in 1..p : Alike(S[q], T[q])

Straight(S) == \A p \in 1..Len(S) : S[p].op # "SkipIfAbsent"

(* A script writes what it may, and skips nothing unless it says so. *)
LEMMA QueryingWrites ==
  ASSUME NEW V, NEW S \in Seq(QueriesToo(V))
  PROVE  /\ \A p \in 1..Len(S) : \A v : Writes(S[p], v) => v \in V
         /\ Straight(S)
<1>1. \A s \in QueriesToo(V) : s.op # "SkipIfAbsent" /\ \A v : Writes(s, v) => v \in V
  BY DEF QueriesToo, QuerySteps, Steps, BufferSteps, SetSteps, AskSteps, Writes
<1>2. \A p \in 1..Len(S) : S[p] \in QueriesToo(V)
  BY ElementOfSeq
<1> QED BY <1>1, <1>2 DEF Straight

(* Scripts that are alike all along are alike up to what is measured. *)
LEMMA AlikeSteady ==
  ASSUME NEW X, NEW S \in Seq(X), NEW T, AllAlike(S, T)
  PROVE  Steady(S, T)
<1> SUFFICES ASSUME NEW p \in 1..Len(S)
             PROVE  p <= Len(T) /\ \A q \in 1..p : Alike(S[q], T[q])
  BY DEF Steady
<1>1. Len(S) \in Nat /\ Len(S) = Len(T) /\ \A i \in 1..Len(S) : Alike(S[i], T[i])
  BY DEF AllAlike
<1>2. \A q \in 1..p : q \in 1..Len(S)
  BY <1>1
<1> QED BY <1>1, <1>2

(* Every script of every test is sound, and does not depend on what is still to be
   measured. *)
LEMMA Scripts ==
  ASSUME NEW i \in 1..7, NEW l \in Measures
  PROVE  LET S == Script(TestFunc[i], l) IN
         /\ Sound(TestFunc[i], S)
         /\ \A l2 \in Measures : Steady(S, Script(TestFunc[i], l2))
         /\ i # 2 => Straight(S)
<1> DEFINE func == TestFunc[i]
           S == Script(func, l)
<1>1. ASSUME NEW V, NEW s, s \in Seq(QueriesToo(V)), V \subseteq MayWrite(func)
      PROVE  s \in Seq(QueriesToo(MayWrite(func)) \union SkipSteps)
  <2>1. QueriesToo(V) \subseteq QueriesToo(MayWrite(func)) \union SkipSteps
    BY <1>1 DEF QueriesToo, Steps, SetSteps
  <2> HIDE DEF func
  <2> QED BY <1>1, <2>1
<1>2. \A V : Seq(Steps(V)) \subseteq Seq(QueriesToo(V))
  BY StepsAreQueriesToo
(* A script that writes only what it deletes again, and depends on nothing but
   the values it writes. *)
<1>3. ASSUME NEW s, s \in Seq(QueriesToo(Deleted(func))), Careful(s),
             \A v \in Deleted(func) : EndsWithout(s, v),
             func # "TestInvalidAuthVars"
      PROVE  Sound(func, s) /\ Straight(s)
  <2> HIDE DEF func
  <2>1. s \in Seq(QueriesToo(MayWrite(func)) \union SkipSteps)
    <3>1. Deleted(func) \subseteq MayWrite(func)
      BY <1>3 DEF MayWrite
    <3> QED BY <1>1, <1>3, <3>1
  <2>2. (\A p \in 1..Len(s) : \A v : Writes(s[p], v) => v \in Deleted(func)) /\ Straight(s)
    BY <1>3, QueryingWrites
  <2> QED BY <1>3, <2>1, <2>2 DEF Sound
<1>4. ASSUME \A l2 : Script(func, l2) = S, NEW X, S \in Seq(X)
      PROVE  \A l2 \in Measures : Steady(S, Script(func, l2))
  BY <1>4, AlikeItself, AlikeSteady
<1>5. CASE i = 1
  <2>1. func = "TestValidNonVolatileVars"
    BY <1>5, Tests
  <2> HIDE DEF func
  <2>2. S = TestValidNonVolatileVars /\ \A l2 : Script(func, l2) = S
    BY <2>1, ScriptOf
  <2>3. Deleted(func) = ToSet(SizedVariable)
    BY <2>1, DeletedVars
  <2> HIDE DEF S
  <2>4. /\ S \in Seq(Steps(Deleted(func))) /\ Careful(S)
        /\ \A v \in Deleted(func) : EndsWithout(S, v)
    BY <2>2, <2>3, ValidNonVolatileScript
  <2>5. S \in Seq(QueriesToo(Deleted(func)))
    BY <1>2, <2>4
  <2>6. Sound(func, S) /\ Straight(S)
    BY <1>3, <2>1, <2>4, <2>5
  <2>7. \A l2 \in Measures : Steady(S, Script(func, l2))
    BY <1>4, <2>2, <2>5
  <2> QED BY <2>6, <2>7 DEF S, func
<1>6. CASE i = 3
  <2>1. func = "VerifyNameHandling"
    BY <1>6, Tests
  <2> HIDE DEF func
  <2>2. S = VerifyNameHandling /\ \A l2 : Script(func, l2) = S
    BY <2>1, ScriptOf
  <2>3. Deleted(func) = ToSet(TestVariableNameList) \union {NameTestVariable, LongString}
    BY <2>1, DeletedVars
  <2> HIDE DEF S
  <2>4. /\ S \in Seq(Steps(Deleted(func))) /\ Careful(S)
        /\ \A v \in Deleted(func) : EndsWithout(S, v)
    BY <2>2, <2>3, NameScript
  <2>5. S \in Seq(QueriesToo(Deleted(func)))
    BY <1>2, <2>4
  <2>6. Sound(func, S) /\ Straight(S)
    BY <1>3, <2>1, <2>4, <2>5
  <2>7. \A l2 \in Measures : Steady(S, Script(func, l2))
    BY <1>4, <2>2, <2>5
  <2> QED BY <2>6, <2>7 DEF S, func
<1>7. CASE i = 5
  <2>1. func = "TestValidAuthVars"
    BY <1>7, Tests
  <2> HIDE DEF func
  <2>2. S = TestValidAuthVars /\ \A l2 : Script(func, l2) = S
    BY <2>1, ScriptOf
  <2>3. Deleted(func) = ToSet(mSecureBootVariables)
    BY <2>1, DeletedVars
  <2> HIDE DEF S
  <2>4. /\ S \in Seq(Steps(Deleted(func))) /\ Careful(S)
        /\ \A v \in Deleted(func) : EndsWithout(S, v)
    BY <2>2, <2>3, ValidAuthScript
  <2>5. S \in Seq(QueriesToo(Deleted(func)))
    BY <1>2, <2>4
  <2>6. Sound(func, S) /\ Straight(S)
    BY <1>3, <2>1, <2>4, <2>5
  <2>7. \A l2 \in Measures : Steady(S, Script(func, l2))
    BY <1>4, <2>2, <2>5
  <2> QED BY <2>6, <2>7 DEF S, func
<1>8. CASE i = 4
  <2>1. func = "VerifyQuery"
    BY <1>8, Tests
  <2> HIDE DEF func
  <2>2. \A l2 : Script(func, l2) = VerifyQuery(l2)
    BY <2>1, ScriptOf
  <2>3. Deleted(func) = {QueryVariableName}
    BY <2>1, DeletedVars
  <2>4. /\ S \in Seq(QueriesToo(Deleted(func))) /\ Careful(S)
        /\ \A v \in Deleted(func) : EndsWithout(S, v)
    BY <2>2, <2>3, QueryScript
  <2>5. \A l2 \in Measures : AllAlike(S, Script(func, l2))
    BY <2>2, QueryScript
  <2> HIDE DEF S
  <2>6. Sound(func, S) /\ Straight(S)
    BY <1>3, <2>1, <2>4
  <2>7. \A l2 \in Measures : Steady(S, Script(func, l2))
    BY <2>4, <2>5, AlikeSteady
  <2> QED BY <2>6, <2>7 DEF S, func
<1>9. CASE i = 7
  <2>1. func = "VerifyOverflow"
    BY <1>9, Tests
  <2> HIDE DEF func
  <2>2. \A l2 : Script(func, l2) = VerifyOverflow(l2)
    BY <2>1, ScriptOf
  <2>3. Deleted(func) = {QueryOverflowVariableName1, QueryOverflowVariableName2}
    BY <2>1, DeletedVars
  <2>4. /\ S \in Seq(QueriesToo(Deleted(func))) /\ Careful(S)
        /\ \A v \in Deleted(func) : EndsWithout(S, v)
    BY <2>2, <2>3, OverflowScript
  <2>5. /\ \A p \in 1..Len(S) : S[p].op = "Query" /\ S[p].verified = "measured" => p = 1
        /\ S[1] = Query(BaseAttributes, "measured")
    BY <2>2, OverflowScript
  <2>6. \A l2 \in Measures : /\ Len(Script(func, l2)) >= 1
                              /\ Script(func, l2)[1] = Query(BaseAttributes, "measured")
    BY <2>2, OverflowScript
  <2>7. ASSUME NEW l2 \in Measures
        PROVE  Steady(S, Script(func, l2))
    <3> SUFFICES ASSUME NEW p \in 1..Len(S), S[p].op = "Query", S[p].verified = "measured"
                 PROVE  /\ p <= Len(Script(func, l2))
                        /\ \A q \in 1..p : Alike(S[q], Script(func, l2)[q])
      BY DEF Steady
    <3>1. p = 1 /\ Len(Script(func, l2)) >= 1 /\ S[1] = Script(func, l2)[1]
      BY <2>5, <2>6
    <3>2. \A q \in 1..1 : q = 1
      OBVIOUS
    <3>3. Len(Script(func, l2)) \in Nat
      BY <2>2, OverflowScript
    <3>4. p <= Len(Script(func, l2))
      BY <3>1, <3>3
    <3> QED BY <3>1, <3>2, <3>4 DEF Alike
  <2> HIDE DEF S
  <2>8. Sound(func, S) /\ Straight(S)
    BY <1>3, <2>1, <2>4
  <2> QED BY <2>7, <2>8 DEF S, func
<1>10. CASE i = 6
  <2>1. func = "TestInvalidAuthVars"
    BY <1>10, Tests
  <2> HIDE DEF func
  <2>2. S = TestInvalidAuthVars /\ \A l2 : Script(func, l2) = S
    BY <2>1, ScriptOf
  <2>3. Deleted(func) = {} /\ MayWrite(func) = {mSecureBootVariables[1]}
    BY <2>1, DeletedVars DEF MayWrite
  <2> HIDE DEF S
  <2>4. /\ S \in Seq(Steps(MayWrite(func))) /\ Careful(S)
        /\ \A p \in 1..Len(S) : Writes(S[p], mSecureBootVariables[1]) => S[p].status = "SECURITY_VIOLATION"
    BY <2>2, <2>3, InvalidAuthScript
  <2>5. S \in Seq(QueriesToo(MayWrite(func)))
    BY <1>2, <2>4
  <2>6. (\A p \in 1..Len(S) : \A v : Writes(S[p], v) => v \in MayWrite(func)) /\ Straight(S)
    BY <2>5, QueryingWrites
  <2>7. S \in Seq(QueriesToo(MayWrite(func)) \union SkipSteps)
    BY <1>1, <2>5
  <2>8. Sound(func, S)
    BY <2>3, <2>4, <2>6, <2>7 DEF Sound
  <2>9. \A l2 \in Measures : Steady(S, Script(func, l2))
    BY <1>4, <2>2, <2>5
  <2> QED BY <2>6, <2>8, <2>9 DEF S, func
<1>11. CASE i = 2
  <2>1. func = "VerifyAppendShrinkReplacePersist"
    BY <1>11, Tests
  <2> HIDE DEF func
  <2>2. S = VerifyAppendShrinkReplacePersist /\ \A l2 : Script(func, l2) = S
    BY <2>1, ScriptOf
  <2>3. Deleted(func) = {} /\ Kept(func) = Persistent /\ MayWrite(func) = Persistent
    BY <2>1, KeptVars DEF MayWrite
  <2> HIDE DEF S
  <2>4. S \in Seq(Steps(Persistent) \union SkipSteps) /\ Careful(S)
    BY <2>2, PersistScript
  <2>5. S \in Seq(QueriesToo(MayWrite(func)) \union SkipSteps)
    <3>1. Steps(Persistent) \union SkipSteps \subseteq QueriesToo(MayWrite(func)) \union SkipSteps
      BY <2>3 DEF QueriesToo
    <3> QED BY <2>4, <3>1
  <2>6. \A p \in 1..Len(S) : \A v : Writes(S[p], v) => v \in Persistent
    <3>1. \A s \in Steps(Persistent) \union SkipSteps : \A v : Writes(s, v) => v \in Persistent
      BY DEF SkipSteps, Steps, BufferSteps, SetSteps, AskSteps, Writes
    <3>2. \A p \in 1..Len(S) : S[p] \in Steps(Persistent) \union SkipSteps
      BY <2>4, ElementOfSeq
    <3> QED BY <3>1, <3>2
  <2>7. Sound(func, S)
    BY <2>3, <2>4, <2>5, <2>6 DEF Sound
  <2>8. \A l2 \in Measures : Steady(S, Script(func, l2))
    BY <1>4, <2>2, <2>5
  <2> QED BY <1>11, <2>7, <2>8 DEF S, func
<1> QED BY <1>5, <1>6, <1>7, <1>8, <1>9, <1>10, <1>11

(* No test writes the platform key; only the persistence test writes what the
   flag vouches for. *)
LEMMA WhoWritesWhat ==
  ASSUME NEW i \in 1..7
  PROVE  /\ MayWrite(TestFunc[i]) \subseteq Var /\ PK \notin MayWrite(TestFunc[i])
         /\ i # 2 => MayWrite(TestFunc[i]) \intersect Persistent = {}
         /\ QueryOverflowVariableName1 \in Var \ (Persistent \union {PK})
<1>1. i # 2 => MayWrite(TestFunc[i]) \subseteq Transient
  <2>1. i = 1 \/ i = 2 \/ i = 3 \/ i = 4 \/ i = 5 \/ i = 6 \/ i = 7
    OBVIOUS
  <2>2. i = 6 => MayWrite(TestFunc[i]) = {mSecureBootVariables[1]}
    BY Tests DEF MayWrite
  <2>3. mSecureBootVariables[1] \in ToSet(mSecureBootVariables)
    BY InvalidAuthScript
  <2>4. i # 2 /\ i # 6 => MayWrite(TestFunc[i]) = Deleted(TestFunc[i])
    <3>1. i # 6 => TestFunc[i] # "TestInvalidAuthVars"
      BY <2>1, Tests
    <3> QED BY <3>1, KeptVars DEF MayWrite
  <2>5. i # 2 /\ i # 6 => Deleted(TestFunc[i]) \subseteq Transient
    BY <2>1, Tests, DeletedVars DEF Transient
  <2> QED BY <2>2, <2>3, <2>4, <2>5 DEF Transient
<1>2. i = 2 => MayWrite(TestFunc[i]) = Persistent
  BY Tests, KeptVars DEF MayWrite
<1>3. /\ Persistent \union Transient \subseteq Var /\ Persistent \intersect Transient = {}
      /\ PK \in Var /\ PK \notin Persistent /\ PK \notin Transient
  BY TestVariableAssumption, SelfTestAssumption
<1>4. QueryOverflowVariableName1 \in Transient
  BY DEF Transient
<1> QED BY <1>1, <1>2, <1>3, <1>4
=============================================================================
