----------------------------- MODULE TestScripts -----------------------------
(***************************************************************************)
(* The functional tests of edk2_variable_test/AuthVarTest.c, each as the    *)
(* sequence of its calls and of what it verifies about them.  A size of     *)
(* data is counted in units, of which every interleaved chunk, every random *)
(* buffer of the tests and every signed or garbage blob has a fixed number. *)
(* Operators only: SelfTest runs the sequences.                             *)
(***************************************************************************)
EXTENDS Variables, SequencesExt

CONSTANTS
  PersistanceTestFlag, TestVariableName1, TestVariableName2, TestVariableName3,
  SizedVariable,        \* the variables "TestVariable#<size>"
  BufferSizes,          \* their sizes
  NameTestVariable, LongString, Reference,
  TestVariableNameList, \* names that differ from Reference in one character
  QueryVariableName, QueryOverflowVariableName1, QueryOverflowVariableName2,
  mSecureBootVariables, \* the authenticated variables a blob is baked in for
  Word                  \* one more than the largest UINT64

(* The variables the persistence test keeps, and those the tests delete again
   (no other test uses the names of one). *)
Persistent == {PersistanceTestFlag, TestVariableName1, TestVariableName2, TestVariableName3}
Transient ==
  ToSet(SizedVariable) \union ToSet(TestVariableNameList) \union ToSet(mSecureBootVariables)
  \union {NameTestVariable, LongString, QueryVariableName,
          QueryOverflowVariableName1, QueryOverflowVariableName2}

ASSUME TestVariableAssumption ==
  /\ {SizedVariable, TestVariableNameList, mSecureBootVariables} \subseteq Seq(Var)
  /\ mSecureBootVariables # <<>>
  /\ BufferSizes \in Seq(Nat \ {0}) /\ Len(BufferSizes) = Len(SizedVariable)
  /\ Persistent \union Transient \union {Reference} \subseteq Var
  /\ Persistent \intersect Transient = {}
  /\ IsInjective(<<PersistanceTestFlag, TestVariableName1, TestVariableName2, TestVariableName3>>)
  /\ IsInjective(SizedVariable) /\ IsInjective(TestVariableNameList)
  /\ IsInjective(mSecureBootVariables)
  /\ NameTestVariable # LongString
  /\ {NameTestVariable, LongString} \intersect ToSet(TestVariableNameList) = {}

(* The bytes random buffers, baked blobs and garbage blobs are made of; those
   of the interleaved variables are smaller. *)
Random == 16
Baked == 17
Garbage == 18

ASSUME TestByteAssumption == 0..Garbage \subseteq Tag

BaseAttributes == {"NV", "RT", "BS"}
AttributesVolatile == {"RT", "BS"}

Bytes(tag, n) == [i \in 1..n |-> tag]

(* The difference of two UINT64. *)
Minus(a, b) == (a - b) % Word

----------------------------------------------------------------------------
(* The steps of a test: buffers, calls of the services, enumerations. *)

Allocate(b) == [op |-> "Allocate", buffer |-> b]
Release(b) == [op |-> "Release", buffer |-> b]
VerifyBuffer(b, there) == [op |-> "VerifyBuffer", buffer |-> b, there |-> there]

Set(v, attrs, data, status) ==
  [op |-> "Set", var |-> v, attrs |-> attrs, data |-> data, status |-> status]
SetNameless(status) == [op |-> "SetNameless", status |-> status]

(* "verified" names what is compared besides the status. *)
Get(v, room, status, verified, attrs, data) ==
  [op |-> "Get", var |-> v, room |-> room, status |-> status,
   verified |-> verified, attrs |-> attrs, data |-> data]
Probe(v, status) == Get(v, 0, status, {}, {}, <<>>)
Fetch(v, room, attrs, data) == Get(v, room, "SUCCESS", {"attrs", "size", "data"}, attrs, data)

(* The probe that decides whether the following steps are for this run. *)
SkipIfAbsent(v, steps) == [op |-> "SkipIfAbsent", var |-> v, skip |-> steps]

(* What the first query of a test tells is kept in its locals. *)
Query(attrs, verified) == [op |-> "Query", attrs |-> attrs, verified |-> verified]

VerifyVariableEnumerable(v, expectedFound) ==
  [op |-> "Enumerate", var |-> v, found |-> expectedFound]

SetAndCheckVariable(v, base, extra, add, check, verified) ==
  << VerifyBuffer("mActualImageData", TRUE),
     Set(v, base \union extra, add, "SUCCESS"),
     Get(v, Len(check), "SUCCESS", verified, base, check),
     VerifyVariableEnumerable(v, TRUE) >>

DeleteAndCheckVariable(v, base) ==
  << Set(v, base, <<>>, "SUCCESS"),
     Probe(v, "NOT_FOUND"),
     VerifyVariableEnumerable(v, FALSE) >>

(* Nothing of an authenticated variable but its presence is verified: the blob
   holds more than what is stored of it. *)
VerifyValidVarWriteReadEnumDel(v, attrs, data, verifyData) ==
  LET verified(what) == IF verifyData THEN what ELSE {} IN
  << Probe(v, "NOT_FOUND"),
     Set(v, attrs, data, "SUCCESS"),
     VerifyVariableEnumerable(v, TRUE),
     Get(v, 0, "BUFFER_TOO_SMALL", verified({"size"}), attrs, data),
     Allocate("mActualImageData"),
     Get(v, Len(data), "SUCCESS", verified({"attrs", "data"}), attrs, data),
     Release("mActualImageData"),
     Set(v, {}, data, "SUCCESS"),
     VerifyVariableEnumerable(v, FALSE),
     Probe(v, "NOT_FOUND") >>

----------------------------------------------------------------------------
(* VerifyAppendShrinkReplacePersist: a chunk is ChunkSize bytes of a buffer
   that counts up modulo 256, and is told apart by the first of them. *)

ChunkSize == 16
MaxChunksPerVar == 10

(* Mutant: the count goes on above 255. *)
WideChunk(n) == (n * ChunkSize) \div ChunkSize

Chunk(n) == ((n * ChunkSize) % 256) \div ChunkSize

(* Chunks from..to of Buffer1, Buffer2 and Buffer3, counted from 0. *)
Buffer(k, from, to) ==
  [i \in 1..(to - from + 1) |-> Chunk((k - 1) * MaxChunksPerVar + from + i - 1)]

(* What the flag vouches for. *)
Persisted == << [var |-> TestVariableName1, data |-> Buffer(1, 0, 3)],
                [var |-> TestVariableName2, data |-> Buffer(2, 0, 0)],
                [var |-> TestVariableName3, data |-> Buffer(3, 0, 0)] >>

(* Mutant: the flag is left in place while the variables are rewritten. *)
PersistanceCheckFlagged ==
  [i \in 1..3 |-> Fetch(Persisted[i].var, 3 * MaxChunksPerVar, BaseAttributes, Persisted[i].data)]

(* The flag is cleared ahead of anything that may fail. *)
PersistanceCheck ==
  DeleteAndCheckVariable(PersistanceTestFlag, BaseAttributes) \o
  [i \in 1..3 |-> Fetch(Persisted[i].var, 3 * MaxChunksPerVar, BaseAttributes, Persisted[i].data)]

AppendAndShrink ==
  LET write(v, extra, add, check) ==
        SetAndCheckVariable(v, BaseAttributes, extra, add, check, {"attrs", "size", "data"})
  IN  write(TestVariableName1, {}, Buffer(1, 0, 0), Buffer(1, 0, 0)) \o
      write(TestVariableName1, {"AP"}, Buffer(1, 1, 1), Buffer(1, 0, 1)) \o
      write(TestVariableName2, {}, Buffer(2, 0, 0), Buffer(2, 0, 0)) \o
      write(TestVariableName1, {"AP"}, Buffer(1, 2, 3), Buffer(1, 0, 3)) \o
      write(TestVariableName1, {}, Buffer(1, 0, 2), Buffer(1, 0, 2)) \o
      DeleteAndCheckVariable(TestVariableName2, BaseAttributes) \o
      write(TestVariableName3, {}, Buffer(3, 0, 0), Buffer(3, 0, 0)) \o
      write(TestVariableName1, {"AP"}, Buffer(1, 3, 3), Buffer(1, 0, 3)) \o
      write(TestVariableName2, {}, Buffer(2, 0, 0), Buffer(2, 0, 0))

VerifyAppendShrinkReplacePersist ==
  << Allocate("mImageData"), Allocate("mActualImageData"),
     SkipIfAbsent(PersistanceTestFlag, Len(PersistanceCheck)) >> \o
  PersistanceCheck \o
  AppendAndShrink \o
  << Set(PersistanceTestFlag, BaseAttributes, Bytes(1, 1), "SUCCESS"),
     Release("mImageData") >>

----------------------------------------------------------------------------

(* One round of the loop in VerifyNameHandling: what is read back is compared with itself
   (mActualImageData is passed as the data to check), so that only attributes
   and size are verified. *)
SetAndConfuse(v, data) ==
  << Release("mImageData"), Allocate("mImageData"), VerifyVariableEnumerable(v, FALSE) >> \o
  SetAndCheckVariable(v, BaseAttributes, {}, data, data, {"attrs", "size"}) \o
  << VerifyVariableEnumerable(Reference, FALSE) >>

(* Mutant: the loop ends one name early. *)
DeleteNamesButLast(names) ==
  FlattenSeq([i \in 1..(Len(names) - 1) |-> DeleteAndCheckVariable(names[i], BaseAttributes)])

DeleteNames(names) ==
  FlattenSeq([i \in 1..Len(names) |-> DeleteAndCheckVariable(names[i], BaseAttributes)])

(* A padded name and the same without padding are one variable. *)
VerifyNameHandling ==
  LET data == Bytes(Random, 1)
      names == TestVariableNameList
      check == << Fetch(NameTestVariable, 1, BaseAttributes, data),
                  VerifyVariableEnumerable(NameTestVariable, TRUE) >>
  IN  << Allocate("mImageData"), Allocate("mActualImageData"),
         Set(NameTestVariable, BaseAttributes, data, "SUCCESS") >> \o
      check \o check \o
      DeleteAndCheckVariable(NameTestVariable, BaseAttributes) \o
      [i \in 1..3 |-> SetNameless("INVALID_PARAMETER")] \o
      SetAndCheckVariable(LongString, BaseAttributes, {}, data, data, {"attrs", "size"}) \o
      DeleteAndCheckVariable(LongString, BaseAttributes) \o
      FlattenSeq([i \in 1..Len(names) |-> SetAndConfuse(names[i], data)]) \o
      DeleteNames(names)

(* The first query's answers size the variable: one unit more than the largest
   there is. *)
LargerVariableSize(local) == local.max + 1

QueryLarger(attrs, data) ==
  << Query(attrs, "measured"), Allocate("mImageData"), Allocate("mActualImageData") >> \o
  SetAndCheckVariable(QueryVariableName, attrs, {}, data, data, {"attrs", "size", "data"}) \o
  << Query(attrs, "larger") >> \o
  DeleteAndCheckVariable(QueryVariableName, attrs) \o
  << Release("mImageData"), Release("mActualImageData") >>

VerifyQuery(local) ==
  LET data == Bytes(Random, LargerVariableSize(local))
  IN  QueryLarger(BaseAttributes, data) \o QueryLarger(AttributesVolatile, data)

(* The store is filled in chunks, as many as the first query promised. *)
OverflowSize == 2

VerifyOverflow(local) ==
  LET data == Bytes(Random, OverflowSize)
      append(status) == Set(QueryOverflowVariableName1, BaseAttributes \union {"AP"}, data, status)
      OverflowGoal == local.space \div OverflowSize
  IN  << Query(BaseAttributes, "measured"), Allocate("mImageData") >> \o
      [i \in 1..OverflowGoal |-> append("SUCCESS")] \o
      << Query(BaseAttributes, "full"),
         append("OUT_OF_RESOURCES"),
         Set(QueryOverflowVariableName2, BaseAttributes, data, "OUT_OF_RESOURCES") >> \o
      DeleteAndCheckVariable(QueryOverflowVariableName1, BaseAttributes) \o
      << VerifyVariableEnumerable(QueryOverflowVariableName2, FALSE) >>

TestValidNonVolatileVars ==
  FlattenSeq([i \in 1..Len(BufferSizes) |->
    << Allocate("mImageData") >> \o
    VerifyValidVarWriteReadEnumDel(
      SizedVariable[i], BaseAttributes, Bytes(Random, BufferSizes[i]), TRUE) \o
    << Release("mImageData") >>])

TestValidAuthVars ==
  FlattenSeq([i \in 1..Len(mSecureBootVariables) |->
    << VerifyBuffer("mImageData", FALSE), Allocate("mImageData") >> \o
    VerifyValidVarWriteReadEnumDel(
      mSecureBootVariables[i], BaseAttributes, Bytes(Baked, 1), FALSE) \o
    << Release("mImageData") >>])

TestInvalidAuthVars ==
  << Allocate("mImageData"),
     Set(mSecureBootVariables[1], BaseAttributes, Bytes(Garbage, 1), "SECURITY_VIOLATION") >>

----------------------------------------------------------------------------
(* The order in which UefiMain registers the tests. *)
TestFunc ==
  << "TestValidNonVolatileVars", "VerifyAppendShrinkReplacePersist", "VerifyNameHandling",
     "VerifyQuery", "TestValidAuthVars", "TestInvalidAuthVars", "VerifyOverflow" >>

Script(func, local) ==
  CASE func = "TestValidNonVolatileVars"         -> TestValidNonVolatileVars
    [] func = "VerifyAppendShrinkReplacePersist" -> VerifyAppendShrinkReplacePersist
    [] func = "VerifyNameHandling"               -> VerifyNameHandling
    [] func = "VerifyQuery"                      -> VerifyQuery(local)
    [] func = "TestValidAuthVars"                -> TestValidAuthVars
    [] func = "TestInvalidAuthVars"              -> TestInvalidAuthVars
    [] func = "VerifyOverflow"                   -> VerifyOverflow(local)
=============================================================================
