-------------------------- MODULE WideNames_proofs --------------------------
(***************************************************************************)
(* The conversions of linux_fixup.c keep within the name, and what they do  *)
(* to it is settled by its first trip, for names of any characters in       *)
(* buffers of any size and content.                                         *)
(***************************************************************************)
EXTENDS WideNames, TLAPS

----------------------------------------------------------------------------
(* The characters. *)

(* A character is shortened to one of an INT16 ... *)
LEMMA NarrowRange ==
  ASSUME NEW c \in 0 .. Long - 1
  PROVE  Narrow(c) \in 0 .. Short - 1
BY WidthAssumption DEF Narrow, Long

(* How the widths compare. *)
LEMMA LongType == Long \in Nat /\ Long >= Short /\ Half \in Nat /\ Half < Short
BY WidthAssumption DEF Long, Half

(* ... and widened to one of a wchar_t. *)
LEMMA WidenRange ==
  ASSUME NEW c \in 0 .. Short - 1
  PROVE  Widen(c) \in 0 .. Long - 1
BY WidthAssumption, LongType DEF Widen

(* A character that fits is not changed by shortening, *)
LEMMA NarrowSmall ==
  ASSUME NEW c \in 0 .. Short - 1
  PROVE  Narrow(c) = c
BY WidthAssumption DEF Narrow

(* A multiple of a number that is nearer to 0 than that number is 0. *)
LEMMA Multiple ==
  ASSUME NEW S \in Nat \ {0}, NEW q \in Int, NEW r \in Int,
         -S < r, r < S, S * q = r
  PROVE  q = 0
<1>1. CASE q >= 1
  <2>1. S * q >= S * 1
    BY <1>1
  <2> QED
    BY <2>1
<1>2. CASE q <= -1
  <2>1. S * q <= S * (-1)
    BY <1>2
  <2> QED
    BY <2>1
<1> QED
  BY <1>1, <1>2

(* and the sign that widening adds is dropped. *)
LEMMA NarrowShifted ==
  ASSUME NEW c \in 0 .. Short - 1
  PROVE  Narrow(c + (Long - Short)) = c
<1> DEFINE m == Short - 1
           x == c + Short * m
           q == x \div Short
           r == x % Short
<1>1. m \in Nat /\ x \in Nat /\ c + (Long - Short) = x
  BY WidthAssumption DEF Long
<1>2. q \in Int /\ r \in 0 .. Short - 1 /\ x = Short * q + r
  BY WidthAssumption, <1>1
<1>3. Short * (q - m) = c - r
  <2> HIDE DEF q, r, m
  <2>1. Short * q + r = c + Short * m
    BY <1>1, <1>2
  <2>2. Short * (q - m) = Short * q - Short * m
    BY <1>1, <1>2, WidthAssumption
  <2> QED
    BY <1>1, <1>2, <2>1, <2>2, WidthAssumption
<1>4. q - m = 0
  <2> HIDE DEF q, r, m, x
  <2> QED
    BY Multiple, <1>1, <1>2, <1>3, WidthAssumption
<1>5. c = r
  <2> HIDE DEF q, r, m, x
  <2> QED
    BY <1>1, <1>2, <1>3, <1>4, WidthAssumption
<1> QED
  BY <1>1, <1>5 DEF Narrow

(* Widening is undone by shortening: the heart of SameNameAsked. *)
LEMMA NarrowWiden ==
  ASSUME NEW c \in 0 .. Short - 1
  PROVE  Narrow(Widen(c)) = c
BY NarrowSmall, NarrowShifted DEF Widen

(* Characters that have been through it survive, *)
LEMMA WidenSurvives ==
  ASSUME NEW c \in 0 .. Short - 1
  PROVE  Survives(Widen(c))
BY LongType, WidthAssumption DEF Widen, Survives, Half

(* and survivors come back as they were. *)
LEMMA SurvivorReturns ==
  ASSUME NEW c \in 0 .. Long - 1, Survives(c)
  PROVE  Widen(Narrow(c)) = c /\ (c # 0 => Narrow(c) # 0)
<1>1. CASE c < Half
  BY <1>1, NarrowSmall, LongType, WidthAssumption DEF Widen
<1>2. CASE c >= Long - Half
  <2> DEFINE d == c - (Long - Short)
  <2>1. d \in 0 .. Short - 1 /\ d >= Half /\ c = d + (Long - Short) /\ Half > 0
    BY <1>2, LongType, WidthAssumption DEF Half
  <2>2. Narrow(c) = d
    <3> HIDE DEF d
    <3> QED
      BY <2>1, NarrowShifted
  <2> QED
    BY <2>1, <2>2, LongType, WidthAssumption DEF Widen
<1> QED
  BY <1>1, <1>2, LongType DEF Survives

(* NUL is NUL in both. *)
LEMMA NarrowZero == Narrow(0) = 0 /\ Widen(0) = 0
BY NarrowSmall, LongType, WidthAssumption DEF Widen, Half

----------------------------------------------------------------------------
(* The inductive invariant: what each loop has done so far, and that the name
   at hand is, to the TA, the name given. *)

GivenShort == [k \in Places |-> Narrow(given[k])]

Fixing ==
  pc = "fix" =>
    /\ i \in Places
    /\ \A k \in 1 .. i - 1 : name[k] # 0 /\ short[k] = Narrow(name[k])
    /\ \E k \in Places : name[k] = 0

Fixed ==
  pc # "fix" =>
    /\ length \in Places
    /\ name[length] = 0
    /\ \A k \in 1 .. length : short[k] = Narrow(name[k])

Scanning == pc = "scan" => i \in 1 .. length /\ \A k \in 1 .. i - 1 : short[k] # 0

Widening ==
  pc \in {"widen", "done"} =>
    /\ i <= length
    /\ \E z \in Places : EndsAt(short, z)
    /\ \A z \in Places : EndsAt(short, z) =>
         i <= z /\ \A k \in i + 1 .. z : out[k] = Widen(short[k])

Widened == pc = "done" => i = 0

Same ==
  \A z \in Places : EndsAt(GivenShort, z) =>
    \A k \in 1 .. z : Narrow(name[k]) = Narrow(given[k])

IInv == TypeOKW /\ Fixing /\ Fixed /\ Scanning /\ Widening /\ Widened /\ Same

(* What is left in a buffer is characters. *)
LEMMA StaleFits ==
  ASSUME NEW f \in [Places -> Stale]
  PROVE  f \in [Places -> 0 .. Short - 1] /\ f \in [Places -> 0 .. Long - 1]
<1>1. Stale \subseteq 0 .. Short - 1 /\ Stale \subseteq 0 .. Long - 1
  BY WidthAssumption, LongType
<1> QED
  BY <1>1

(* The places of a name. *)
LEMMA GivenEnds ==
  ASSUME NEW z \in Places, EndsAt(GivenShort, z)
  PROVE  Narrow(given[z]) = 0 /\ \A k \in 1 .. z - 1 : Narrow(given[k]) # 0
<1>1. \A k \in Places : GivenShort[k] = Narrow(given[k])
  BY DEF GivenShort
<1>2. \A k \in 1 .. z - 1 : k \in Places
  BY WidthAssumption DEF Places
<1> QED
  BY <1>1, <1>2 DEF EndsAt

(* The initial states satisfy it. *)
LEMMA InitInv == InitW => IInv
<1> SUFFICES ASSUME InitW PROVE IInv
  OBVIOUS
<1>1. out \in [Places -> 0 .. Long - 1] /\ short \in [Places -> 0 .. Short - 1]
  BY StaleFits DEF InitW
<1>2. TypeOKW
  <2>1. name \in [Places -> 0 .. Long - 1] /\ given \in [Places -> Wide]
    BY WidthAssumption DEF InitW
  <2>2. length \in 0 .. N /\ i \in 0 .. N
    BY WidthAssumption DEF InitW
  <2> QED
    BY <1>1, <2>1, <2>2 DEF InitW, TypeOKW
<1>3. Fixing
  BY WidthAssumption DEF InitW, Fixing, Places
<1>4. Same
  BY DEF InitW, Same
<1> QED
  BY <1>2, <1>3, <1>4 DEF InitW, IInv, Fixed, Scanning, Widening, Widened

(* The loop of FixWideString keeps it: the NUL that is left in the name keeps
   the next place within the buffer. *)
LEMMA FixInv == IInv /\ FixWideString => IInv'
<1> SUFFICES ASSUME IInv, FixWideString PROVE IInv'
  OBVIOUS
<1> USE DEF IInv
<1>1. /\ i \in Places /\ pc = "fix" /\ N \in Nat /\ Places = 1 .. N
      /\ \A k \in 1 .. i - 1 : name[k] # 0 /\ short[k] = Narrow(name[k])
      /\ \E k \in Places : name[k] = 0
      /\ short \in [Places -> 0 .. Short - 1] /\ name \in [Places -> 0 .. Long - 1]
      /\ length \in 0 .. N
  BY WidthAssumption DEF FixWideString, Fixing, TypeOKW, Places
<1>2. Narrow(name[i]) \in 0 .. Short - 1
  BY <1>1, NarrowRange
<1>3. /\ short' = [short EXCEPT ![i] = Narrow(name[i])]
      /\ short' \in [Places -> 0 .. Short - 1]
      /\ \A k \in 1 .. i : short'[k] = Narrow(name[k])
      /\ UNCHANGED <<given, name, out>>
  BY <1>1, <1>2 DEF FixWideString
<1>4. Same'
  BY <1>3 DEF Same, GivenShort, EndsAt, Places, Narrow
<1>5. CASE name[i] # 0
  <2>1. pc' = "fix" /\ i' = i + 1 /\ length' = length
    BY <1>1, <1>5 DEF FixWideString
  <2>2. \A k \in 1 .. i : name[k] # 0
    BY <1>1, <1>5
  <2>3. i + 1 \in Places
    BY <1>1, <2>2
  <2>4. TypeOKW'
    <3>1. length' \in 0 .. N /\ i' \in 0 .. N
      BY <1>1, <2>1, <2>3
    <3> QED
      BY <1>3, <2>1, <3>1 DEF TypeOKW
  <2>5. Fixing'
    BY <1>1, <1>3, <2>1, <2>2, <2>3 DEF Fixing
  <2> QED
    BY <1>4, <2>1, <2>4, <2>5 DEF Fixed, Scanning, Widening, Widened
<1>6. CASE name[i] = 0
  <2>1. pc' = "scan" /\ i' = 1 /\ length' = i
    BY <1>6 DEF FixWideString
  <2>2. TypeOKW'
    <3>1. length' \in 0 .. N /\ i' \in 0 .. N
      BY <1>1, <2>1
    <3> QED
      BY <1>3, <2>1, <3>1 DEF TypeOKW
  <2>3. Fixed'
    BY <1>1, <1>3, <1>6, <2>1 DEF Fixed, Places
  <2>4. Scanning'
    BY <1>1, <2>1 DEF Scanning
  <2> QED
    BY <1>4, <2>1, <2>2, <2>3, <2>4 DEF Fixing, Widening, Widened
<1> QED
  BY <1>5, <1>6

(* So does the search for the NUL, which the name FixWideString wrote ends. *)
LEMMA ScanInv == IInv /\ RestoreScan => IInv'
<1> SUFFICES ASSUME IInv, RestoreScan PROVE IInv'
  OBVIOUS
<1> USE DEF IInv
<1>1. /\ pc = "scan" /\ N \in Nat /\ Places = 1 .. N
      /\ length \in Places /\ name[length] = 0
      /\ \A k \in 1 .. length : short[k] = Narrow(name[k])
      /\ i \in 1 .. length /\ \A k \in 1 .. i - 1 : short[k] # 0
      /\ UNCHANGED <<given, name, short, length, out>>
  BY WidthAssumption DEF RestoreScan, Fixed, Scanning, Places
<1>2. short[length] = 0
  BY <1>1, NarrowZero
<1>3. Same' /\ Fixed'
  <2>1. Same'
    <3>1. UNCHANGED <<given, name>>
      BY <1>1
    <3> QED
      BY <3>1 DEF Same, GivenShort, EndsAt
  <2>2. Fixed'
    BY <1>1 DEF Fixed, Places, Narrow
  <2> QED
    BY <2>1, <2>2
<1>4. CASE short[i] # 0
  <2>1. pc' = "scan" /\ i' = i + 1 /\ i # length
    BY <1>1, <1>2, <1>4 DEF RestoreScan
  <2>2. TypeOKW'
    BY <1>1, <2>1 DEF TypeOKW
  <2>3. Scanning'
    BY <1>1, <1>4, <2>1 DEF Scanning
  <2> QED
    BY <1>3, <2>1, <2>2, <2>3 DEF Fixing, Widening, Widened
<1>5. CASE short[i] = 0
  <2>1. pc' = "widen" /\ i' = i
    BY <1>5 DEF RestoreScan
  <2>2. TypeOKW'
    BY <1>1, <2>1 DEF TypeOKW
  <2>3. EndsAt(short, i) /\ i \in Places
    BY <1>1, <1>5 DEF EndsAt
  <2>4. \A z \in Places : EndsAt(short, z) => z = i
    BY <1>1, <2>3 DEF EndsAt
  <2>5. Widening'
    BY <1>1, <2>1, <2>3, <2>4 DEF Widening, EndsAt
  <2> QED
    BY <1>3, <2>1, <2>2, <2>5 DEF Fixing, Scanning, Widened
<1> QED
  BY <1>4, <1>5

(* And the way back from it. *)
LEMMA WidenInv == IInv /\ RestoreWiden => IInv'
<1> SUFFICES ASSUME IInv, RestoreWiden PROVE IInv'
  OBVIOUS
<1> USE DEF IInv
<1>1. /\ pc = "widen" /\ N \in Nat /\ Places = 1 .. N /\ i \in 0 .. N
      /\ i <= length /\ length \in Places
      /\ \E z \in Places : EndsAt(short, z)
      /\ \A z \in Places : EndsAt(short, z) =>
           i <= z /\ \A k \in i + 1 .. z : out[k] = Widen(short[k])
      /\ out \in [Places -> 0 .. Long - 1] /\ short \in [Places -> 0 .. Short - 1]
      /\ UNCHANGED <<given, name, short, length>>
  BY WidthAssumption DEF RestoreWiden, Widening, Fixed, TypeOKW, Places
<1>2. Same' /\ Fixed'
  <2>1. Same'
    <3>1. UNCHANGED <<given, name>>
      BY <1>1
    <3> QED
      BY <3>1 DEF Same, GivenShort, EndsAt
  <2>2. Fixed'
    BY <1>1 DEF Fixed, Narrow
  <2> QED
    BY <2>1, <2>2
<1>3. CASE i >= 1
  <2>1. /\ pc' = "widen" /\ i' = i - 1
        /\ out' = [out EXCEPT ![i] = Widen(short[i])]
    BY <1>3 DEF RestoreWiden
  <2>2. i \in Places /\ Widen(short[i]) \in 0 .. Long - 1
    BY <1>1, <1>3, WidenRange
  <2>3. TypeOKW'
    BY <1>1, <2>1, <2>2 DEF TypeOKW
  <2>4. \A z \in Places : EndsAt(short, z) =>
          i - 1 <= z /\ \A k \in (i - 1) + 1 .. z : out'[k] = Widen(short[k])
    BY <1>1, <2>1, <2>2
  <2>5. Widening'
    BY <1>1, <2>1, <2>2, <2>4 DEF Widening, EndsAt
  <2> QED
    BY <1>2, <2>1, <2>3, <2>5 DEF Fixing, Scanning, Widened
<1>4. CASE ~(i >= 1)
  <2>1. pc' = "done" /\ i' = i /\ out' = out /\ i = 0
    BY <1>1, <1>4 DEF RestoreWiden
  <2>2. TypeOKW'
    BY <1>1, <2>1 DEF TypeOKW
  <2>3. Widening'
    BY <1>1, <2>1 DEF Widening, EndsAt
  <2> QED
    BY <1>2, <2>1, <2>2, <2>3 DEF Fixing, Scanning, Widened
<1> QED
  BY <1>3, <1>4

(* When a trip is over, what was widened shortens to the name given. *)
LEMMA TripSame ==
  ASSUME IInv, pc = "done", NEW z \in Places, EndsAt(GivenShort, z)
  PROVE  /\ z <= length /\ EndsAt(short, z)
         /\ \A k \in 1 .. z : /\ short[k] = Narrow(given[k])
                               /\ out[k] = Widen(short[k])
                               /\ Narrow(out[k]) = Narrow(given[k])
<1>1. /\ N \in Nat /\ Places = 1 .. N /\ i = 0
      /\ length \in Places /\ name[length] = 0
      /\ \A k \in 1 .. length : short[k] = Narrow(name[k])
      /\ \A k \in 1 .. z : Narrow(name[k]) = Narrow(given[k])
      /\ short \in [Places -> 0 .. Short - 1]
  BY WidthAssumption DEF IInv, Fixed, Widened, Same, TypeOKW, Places
<1>2. /\ Narrow(given[z]) = 0
      /\ \A k \in 1 .. z - 1 : Narrow(given[k]) # 0
  BY GivenEnds
<1>3. z <= length
  <2> SUFFICES ASSUME length < z PROVE FALSE
    BY <1>1
  <2> QED
    BY <1>1, <1>2, NarrowZero
<1>4. \A k \in 1 .. z : short[k] = Narrow(given[k])
  BY <1>1, <1>3
<1>5. EndsAt(short, z)
  BY <1>1, <1>2, <1>4 DEF EndsAt
<1>6. \A k \in 1 .. z : out[k] = Widen(short[k])
  BY <1>1, <1>5 DEF IInv, Widening
<1>7. \A k \in 1 .. z : Narrow(out[k]) = Narrow(given[k])
  BY <1>1, <1>4, <1>6, NarrowWiden
<1> QED
  BY <1>3, <1>4, <1>5, <1>6, <1>7

(* So the next trip starts with the same name. *)
LEMMA AgainInv == IInv /\ Again => IInv'
<1> SUFFICES ASSUME IInv, Again PROVE IInv'
  OBVIOUS
<1>1. /\ pc = "done" /\ pc' = "fix" /\ name' = out /\ i' = 1
      /\ short' \in [Places -> Stale]
      /\ UNCHANGED <<given, length, out>>
      /\ N \in Nat \ {0} /\ Places = 1 .. N
      /\ short \in [Places -> 0 .. Short - 1]
  BY WidthAssumption DEF Again, Places, IInv, TypeOKW
<1>2. TypeOKW'
  <2>1. short' \in [Places -> 0 .. Short - 1]
    BY <1>1, StaleFits
  <2> QED
    BY <1>1, <2>1 DEF IInv, TypeOKW
<1>3. PICK z \in Places : EndsAt(short, z)
  BY <1>1 DEF IInv, Widening
<1>4. out[z] = 0
  <2>1. i = 0 /\ out[z] = Widen(short[z])
    BY <1>1, <1>3 DEF IInv, Widening, Widened
  <2> QED
    BY <2>1, <1>3, NarrowZero DEF EndsAt
<1>5. Fixing'
  BY <1>1, <1>4 DEF Fixing
<1>6. Same'
  <2> SUFFICES ASSUME NEW y \in Places, EndsAt(GivenShort', y), NEW k \in 1 .. y
               PROVE  Narrow(out[k]) = Narrow(given[k])
    BY <1>1 DEF Same, Narrow, EndsAt, Places
  <2>1. EndsAt(GivenShort, y)
    BY <1>1 DEF GivenShort, Places, Narrow, EndsAt
  <2> QED
    BY <1>1, <2>1, TripSame
<1> QED
  BY <1>1, <1>2, <1>5, <1>6 DEF IInv, Fixed, Scanning, Widening, Widened

(* The invariant holds in every state. *)
LEMMA Invariant == SpecW => []IInv
<1>1. IInv /\ [NextW]_wvars => IInv'
  <2> SUFFICES ASSUME IInv, [NextW]_wvars PROVE IInv'
    OBVIOUS
  <2>1. CASE UNCHANGED wvars
    <3> USE <2>1 DEF wvars, IInv
    <3>1. TypeOKW'
      BY DEF TypeOKW
    <3>2. Fixing' /\ Fixed' /\ Scanning' /\ Widened'
      BY DEF Fixing, Fixed, Scanning, Widened
    <3>3. Widening'
      BY DEF Widening, EndsAt
    <3>4. Same'
      BY DEF Same, GivenShort, EndsAt
    <3> QED
      BY <3>1, <3>2, <3>3, <3>4
  <2> QED
    BY <2>1, FixInv, ScanInv, WidenInv, AgainInv DEF NextW
<1> QED
  BY <1>1, InitInv, PTL DEF SpecW

----------------------------------------------------------------------------
(* The properties. *)

(* linux_fixup.c keeps its pointers in the buffers and its characters in their
   types. *)
THEOREM TypeCorrect == SpecW => []TypeOKW
<1>1. IInv => TypeOKW
  BY DEF IInv
<1> QED
  BY <1>1, Invariant, PTL

(* Neither loop leaves the name, whatever follows it in its buffer. *)
THEOREM StaysWithinName == SpecW => []WithinName
<1>1. IInv => WithinName
  <2> SUFFICES ASSUME IInv PROVE WithinName
    OBVIOUS
  <2> QED
    BY WidthAssumption DEF IInv, WithinName, Fixing, Fixed, Scanning, Widening, Places
<1> QED
  BY <1>1, Invariant, PTL

(* Whatever characters a name has, it names the same variable on every trip. *)
THEOREM AsksForTheSame == SpecW => []SameNameAsked
<1>1. IInv => SameNameAsked
  <2> SUFFICES ASSUME IInv, pc = "scan", NEW z \in Places,
                      EndsAt(GivenShort, z), NEW k \in 1 .. z
               PROVE  short[k] = Narrow(given[k])
    BY DEF SameNameAsked, GivenShort
  <2>1. /\ N \in Nat /\ Places = 1 .. N
        /\ length \in Places /\ name[length] = 0
        /\ \A j \in 1 .. length : short[j] = Narrow(name[j])
        /\ \A j \in 1 .. z : Narrow(name[j]) = Narrow(given[j])
    BY WidthAssumption DEF IInv, Fixed, Same, Places
  <2>2. \A j \in 1 .. z - 1 : Narrow(given[j]) # 0
    BY GivenEnds
  <2>3. z <= length
    <3> SUFFICES ASSUME length < z PROVE FALSE
      BY <2>1
    <3> QED
      BY <2>1, <2>2, NarrowZero
  <2> QED
    BY <2>1, <2>3
<1> QED
  BY <1>1, Invariant, PTL

(* A name comes back as it was given exactly when its characters survive. *)
THEOREM KeepsNames == SpecW => []NameKept
<1>1. IInv => NameKept
  <2> SUFFICES ASSUME IInv, pc = "done", NEW z \in Places, EndsAt(given, z)
               PROVE  (\A k \in 1 .. z : out[k] = given[k])
                        <=> (\A k \in 1 .. z : Survives(given[k]))
    BY DEF NameKept
  <2>1. /\ N \in Nat /\ Places = 1 .. N /\ i = 0
        /\ given \in [Places -> 0 .. Long - 1]
        /\ short \in [Places -> 0 .. Short - 1]
    BY WidthAssumption DEF IInv, TypeOKW, Widened, Places
  <2>2. ASSUME \A k \in 1 .. z : Survives(given[k])
        PROVE  \A k \in 1 .. z : out[k] = given[k]
    <3>1. \A k \in 1 .. z : /\ Widen(Narrow(given[k])) = given[k]
                            /\ given[k] # 0 => Narrow(given[k]) # 0
      BY <2>1, <2>2, SurvivorReturns
    <3>2. EndsAt(GivenShort, z)
      BY <2>1, <3>1, NarrowZero DEF EndsAt, GivenShort
    <3> QED
      BY <3>1, <3>2, TripSame
  <2>3. ASSUME \A k \in 1 .. z : out[k] = given[k]
        PROVE  \A k \in 1 .. z : Survives(given[k])
    <3>1. PICK y \in Places : EndsAt(short, y)
      BY DEF IInv, Widening
    <3>2. \A k \in 1 .. y : out[k] = Widen(short[k])
      BY <2>1, <3>1 DEF IInv, Widening
    <3>3. ~(y < z)
      <4> SUFFICES ASSUME y < z PROVE FALSE
        OBVIOUS
      <4>1. out[y] = 0
        BY <2>1, <3>1, <3>2, NarrowZero DEF EndsAt
      <4>2. given[y] # 0 /\ y \in 1 .. z
        BY <2>1 DEF EndsAt
      <4> QED
        BY <2>3, <4>1, <4>2
    <3>4. \A k \in 1 .. z : Survives(out[k])
      BY <2>1, <3>2, <3>3, WidenSurvives
    <3> QED
      BY <2>3, <3>4
  <2> QED
    BY <2>2, <2>3
<1> QED
  BY <1>1, Invariant, PTL
=============================================================================
