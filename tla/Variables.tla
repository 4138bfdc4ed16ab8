------------------------------ MODULE Variables ------------------------------
(***************************************************************************)
(* UEFI variables: their names and the bytes names take on either side of   *)
(* the driver, a store of them and what a write, an enumeration step and a  *)
(* reboot do to it, and the reply a caller of the variable services gets.   *)
(* Operators only.  The trusted application that keeps the store is not in  *)
(* this repository; its behaviour is the one the driver and the tests in    *)
(* authvars_test/host rely on.                                              *)
(***************************************************************************)
EXTENDS Integers, Sequences

CONSTANTS
  Var,          \* the variables: a name together with its vendor GUID
  NoVar,        \* the empty name, which starts an enumeration
  NameLen,      \* [Var -> Nat \ {0}], characters of the name without its NUL
  NameRank,     \* [Var -> Nat], the order in which names are enumerated
  TaNameSize,   \* [Var -> Nat], bytes the TA keeps for a name
  Tag           \* the bytes variables are made of

(* The attribute bits used: non volatile, boot service access, runtime access
   and append write. *)
Attribute == {"NV", "BS", "RT", "AP"}

(* StrSize: a name in the driver's memory is made of 4-byte CHAR16. *)
StrSize(v) == 4 * (NameLen[v] + 1)

(* The same name as FixWideString writes it, in 2-byte characters. *)
ShortSize(v) == 2 * (NameLen[v] + 1)

ASSUME VarAssumption ==
  /\ NoVar \notin Var
  /\ NameLen \in [Var -> Nat \ {0}]
  /\ NameRank \in [Var -> Nat]
  /\ \A v, w \in Var : NameRank[v] = NameRank[w] => v = w

(* The driver declares a name of StrSize bytes and writes its characters in
   the first half of them; the TA keeps the characters and at most what was
   declared. *)
ASSUME TaNameSizeAssumption ==
  /\ TaNameSize \in [Var -> Nat]
  /\ \A v \in Var : ShortSize(v) <= TaNameSize[v] /\ TaNameSize[v] <= StrSize(v)

----------------------------------------------------------------------------
(* The store. *)

Entry == [attrs : SUBSET Attribute, data : Seq(Tag)]
Absent == [attrs |-> {}, data |-> <<>>]

Stored(store, v) == store[v].data # <<>>
IsDelete(attrs, data) == "AP" \notin attrs /\ (attrs = {} \/ data = <<>>)

(* What one variable becomes when a write is carried out. *)
Written(old, attrs, data) ==
  IF "AP" \in attrs
  THEN IF data = <<>> THEN old
       ELSE [attrs |-> IF old.data = <<>> THEN attrs \ {"AP"} ELSE old.attrs,
             data  |-> old.data \o data]
  ELSE IF IsDelete(attrs, data) THEN Absent
  ELSE [attrs |-> attrs, data |-> data]

(* The variables the TA lists after a given one. *)
After(store, from) ==
  {w \in Var : Stored(store, w) /\ (from = NoVar \/ NameRank[from] < NameRank[w])}
IsNext(store, from, w) ==
  /\ w \in After(store, from)
  /\ \A x \in After(store, from) : NameRank[w] <= NameRank[x]

(* What a reboot leaves: the non-volatile variables. *)
Rebooted(store) ==
  [v \in Var |-> IF "NV" \in store[v].attrs THEN store[v] ELSE Absent]

----------------------------------------------------------------------------
(* A reply of the variable services.  "room" is the size the caller passed,
   "size" the one handed back to it. *)
Answer(op, v, status, room, size, attrs, data, next) ==
  [op |-> op, var |-> v, status |-> status, room |-> room, size |-> size,
   attrs |-> attrs, data |-> data, next |-> next]
NoAnswer == Answer("None", NoVar, "SUCCESS", 0, 0, {}, <<>>, NoVar)
=============================================================================
