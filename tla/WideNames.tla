------------------------------ MODULE WideNames ------------------------------
(***************************************************************************)
(* The names on their way to the TA and back, edk2/linux_fixup.c: a name in *)
(* the 4-byte characters of wchar_t is shortened to INT16 characters on its *)
(* way out (FixWideString) and widened again, from its end, on its way back *)
(* (RestoreWideString), into the buffer the next call is made with.  One    *)
(* step is one turn of one of the loops.  What lies behind a name in a      *)
(* buffer is whatever earlier calls have left there.                        *)
(***************************************************************************)
EXTENDS Integers

CONSTANTS
  Short,   \* 2^16: an INT16 is a member of 0 .. Short - 1, as its bits read
  Wide,    \* the wchar_t characters names are made of, as their bits read
  Stale,   \* the INT16 characters that may be left in a transport buffer
  N        \* characters a buffer holds

(* Half the values of INT16 are negative; a wchar_t is two of them. *)
Half == Short \div 2
Long == Short * Short

ASSUME WidthAssumption ==
  /\ Short \in Nat \ {0}
  /\ Half + Half = Short
  /\ Wide \subseteq 0 .. Long - 1 /\ 0 \in Wide
  /\ Stale \subseteq 0 .. Short - 1
  /\ N \in Nat \ {0}

VARIABLES
  pc,      \* the loop that runs
  given,   \* the name the enumeration is to hand back
  name,    \* In of FixWideString
  short,   \* its Out, and the In of RestoreWideString once the TA has answered
  length,  \* the characters FixWideString has written
  out,     \* Out of RestoreWideString
  i        \* where sc and wc point, from 1

wvars == <<pc, given, name, short, length, out, i>>

Places == 1 .. N

(* The conversions of one character.  Mutant: a character that does not fit
   becomes the greatest that does. *)
NarrowToGreatest(c) == IF c < Short THEN c ELSE Short - 1
Narrow(c) == c % Short
Widen(c) == IF c < Half THEN c ELSE c + (Long - Short)

(* f holds a name that ends at z. *)
EndsAt(f, z) == f[z] = 0 /\ \A k \in 1 .. z - 1 : f[k] # 0

(* Any name with its NUL, in buffers as they were left. *)
InitW ==
  /\ pc = "fix"
  /\ given \in [Places -> Wide] /\ \E z \in Places : given[z] = 0
  /\ name = given
  /\ short \in [Places -> Stale]
  /\ length = 0
  /\ out \in [Places -> Stale]
  /\ i = 1

(* Mutant: the test comes ahead of the copy, and the NUL is not written. *)
FixWideStringWhile ==
  /\ pc = "fix"
  /\ IF name[i] # 0
     THEN /\ short' = [short EXCEPT ![i] = Narrow(name[i])]
          /\ i' = i + 1
          /\ UNCHANGED <<pc, length>>
     ELSE /\ pc' = "scan"
          /\ length' = i - 1
          /\ i' = 1
          /\ UNCHANGED short
  /\ UNCHANGED <<given, name, out>>

(* The loop ends behind the NUL of the wide name, so that a character whose
   lower half is 0 does not end it, but ends the short name it writes. *)
FixWideString ==
  /\ pc = "fix"
  /\ short' = [short EXCEPT ![i] = Narrow(name[i])]
  /\ IF name[i] # 0
     THEN /\ i' = i + 1
          /\ UNCHANGED <<pc, length>>
     ELSE /\ pc' = "scan"
          /\ length' = i
          /\ i' = 1
  /\ UNCHANGED <<given, name, out>>

(* Mutant: the loop is a do-while, as that of FixWideString is, and passes over
   the NUL of an empty name. *)
RestoreScanDo ==
  /\ pc = "scan"
  /\ IF i = 1 \/ short[i] # 0
     THEN i' = i + 1 /\ UNCHANGED pc
     ELSE pc' = "widen" /\ UNCHANGED i
  /\ UNCHANGED <<given, name, short, length, out>>

(* RestoreWideString looks for the NUL ... *)
RestoreScan ==
  /\ pc = "scan"
  /\ IF short[i] # 0
     THEN i' = i + 1 /\ UNCHANGED pc
     ELSE pc' = "widen" /\ UNCHANGED i
  /\ UNCHANGED <<given, name, short, length, out>>

(* Mutant: the loop stops ahead of the first character. *)
RestoreWidenButFirst ==
  /\ pc = "widen"
  /\ IF i > 1
     THEN /\ out' = [out EXCEPT ![i] = Widen(short[i])]
          /\ i' = i - 1
          /\ UNCHANGED pc
     ELSE pc' = "done" /\ i' = 0 /\ UNCHANGED out
  /\ UNCHANGED <<given, name, short, length>>

(* ... and comes back from it. *)
RestoreWiden ==
  /\ pc = "widen"
  /\ IF i >= 1
     THEN /\ out' = [out EXCEPT ![i] = Widen(short[i])]
          /\ i' = i - 1
          /\ UNCHANGED pc
     ELSE pc' = "done" /\ UNCHANGED <<out, i>>
  /\ UNCHANGED <<given, name, short, length>>

(* The enumeration goes on with the name it was handed, and meets the buffers
   as other calls have left them. *)
Again ==
  /\ pc = "done"
  /\ name' = out
  /\ short' \in [Places -> Stale]
  /\ i' = 1
  /\ pc' = "fix"
  /\ UNCHANGED <<given, length, out>>

NextW == FixWideString \/ RestoreScan \/ RestoreWiden \/ Again

SpecW == InitW /\ [][NextW]_wvars

----------------------------------------------------------------------------
(* Properties. *)

(* Every variable of the conversions holds what its type allows. *)
TypeOKW ==
  /\ pc \in {"fix", "scan", "widen", "done"}
  /\ given \in [Places -> Wide]
  /\ name \in [Places -> 0 .. Long - 1]
  /\ short \in [Places -> 0 .. Short - 1]
  /\ length \in 0 .. N
  /\ out \in [Places -> 0 .. Long - 1]
  /\ i \in 0 .. N

(* No loop leaves the name: FixWideString stays in the buffer of the name, and
   RestoreWideString reads nothing that FixWideString has not just written,
   whatever lies behind it, and so widens no more characters than it shortened. *)
WithinName ==
  /\ pc = "fix" => i \in Places
  /\ pc \in {"scan", "widen"} => i <= length

(* The characters that survive the way: the INT16 that are not negative, and
   the wchar_t those that are become. *)
Survives(c) == c < Half \/ c >= Long - Half

(* A name comes back as it was given if, and only if, every character of it
   survives.  Up to 0x7FFF all do; for one above it the enumeration hands out a
   name the caller never wrote. *)
NameKept ==
  pc = "done" =>
    \A z \in Places : EndsAt(given, z) =>
      ((\A k \in 1 .. z : out[k] = given[k]) <=> (\A k \in 1 .. z : Survives(given[k])))

(* Whatever a name is made of, an enumeration that goes on with the name it was
   handed asks the TA for the same name it has been asked for before. *)
SameNameAsked ==
  pc = "scan" =>
    \A z \in Places : EndsAt([k \in Places |-> Narrow(given[k])], z) =>
      \A k \in 1 .. z : short[k] = Narrow(given[k])
=============================================================================
