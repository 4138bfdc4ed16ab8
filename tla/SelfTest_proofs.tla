--------------------------- MODULE SelfTest_proofs ---------------------------
(*****************************************************************************)
(* Proofs about a run of the functional tests, for every number of runs,     *)
(* failures and crashes.  The scripts of the tests are in SelfTest_scripts.  *)
(*****************************************************************************)
EXTENDS SelfTest_scripts

----------------------------------------------------------------------------
(* The accounts of the TA: sums over sets of variables. *)

(* Among the parts of a finite set that do not hold there is a smallest. *)
LEMMA SmallestPart ==
  ASSUME NEW S, IsFiniteSet(S)
  PROVE  \A U : U \subseteq SUBSET S /\ U # {} =>
                 \E T \in U : \A X \in U : X \subseteq T => X = T
<1> SUFFICES ASSUME NEW U, U \subseteq SUBSET S, U # {}
             PROVE  \E T \in U : \A X \in U : X \subseteq T => X = T
  OBVIOUS
<1>1. \A T \in U : T \subseteq S /\ IsFiniteSet(T)
  BY FS_Subset
<1>2. U # {}
  OBVIOUS
<1> QED BY ONLY <1>1, <1>2, SmallestSubset

(* The sum of the weights of a finite set, as Space takes it: one element after
   the other, in the order in which CHOOSE picks them. *)
Pick(t) == CHOOSE x \in t : TRUE
IsSum(f, w, S) ==
  f = [t \in SUBSET S |-> IF t = {} THEN 0 ELSE w[Pick(t)] + f[t \ {Pick(t)}]]
SumOf(w, S) == (CHOOSE f : IsSum(f, w, S))[S]

(* The element a sum takes next. *)
LEMMA Picked ==
  ASSUME NEW t, t # {}
  PROVE  Pick(t) \in t
BY DEF Pick

(* Two sums of the same weights agree where both are defined. *)
LEMMA SumWithin ==
  ASSUME NEW f, NEW g, NEW w, NEW S, NEW T, NEW x \in SUBSET S, x \in SUBSET T,
         IsFiniteSet(x), IsSum(f, w, S), IsSum(g, w, T)
  PROVE  f[x] = g[x]
<1> DEFINE U == {t \in SUBSET x : f[t] # g[t]}
<1> SUFFICES ASSUME U # {} PROVE FALSE
  OBVIOUS
<1>1. U \subseteq SUBSET x /\ IsFiniteSet(x)
  BY FS_Subset
<1>2. PICK t \in U : \A y \in U : y \subseteq t => y = t
  <2> HIDE DEF U
  <2> QED BY <1>1, SmallestPart
<1>3. t # {} => t \ {Pick(t)} \in SUBSET x /\ t \ {Pick(t)} \notin U
  BY <1>2, Picked
<1>4. f[t] = IF t = {} THEN 0 ELSE w[Pick(t)] + f[t \ {Pick(t)}]
  <2>1. t \in SUBSET S
    OBVIOUS
  <2> QED BY <2>1 DEF IsSum
<1>5. g[t] = IF t = {} THEN 0 ELSE w[Pick(t)] + g[t \ {Pick(t)}]
  <2>1. t \in SUBSET T
    OBVIOUS
  <2> QED BY <2>1 DEF IsSum
<1> QED BY <1>3, <1>4, <1>5

(* Every finite set has a sum. *)
LEMMA SumExists ==
  ASSUME NEW w, NEW S, IsFiniteSet(S)
  PROVE  \E f : IsSum(f, w, S)
<1> DEFINE U == {t \in SUBSET S : ~ \E f : IsSum(f, w, t)}
<1> SUFFICES ASSUME U # {} PROVE FALSE
  OBVIOUS
<1>1. U \subseteq SUBSET S /\ IsFiniteSet(S)
  BY FS_Subset
<1>2. PICK t \in U : \A y \in U : y \subseteq t => y = t
  <2> HIDE DEF U
  <2> QED BY <1>1, SmallestPart
<1> DEFINE sol(x) == CHOOSE f : IsSum(f, w, x)
           rest(x) == x \ {Pick(x)}
           F == [x \in SUBSET t |-> IF x = {} THEN 0 ELSE w[Pick(x)] + sol(rest(x))[rest(x)]]
<1>3. \A x \in SUBSET t : x # t => IsSum(sol(x), w, x)
  <2>1. \A x \in SUBSET t : x # t => \E f : IsSum(f, w, x)
    BY <1>2
  <2> QED BY <2>1
<1>4. \A x \in SUBSET t : x # {} => rest(x) \in SUBSET t /\ rest(x) # t /\ rest(x) \subseteq x /\ rest(x) # x
  BY Picked
<1> HIDE DEF sol, rest, U
<1>5. \A x \in SUBSET t : x # t => F[x] = sol(x)[x]
  <2> SUFFICES ASSUME NEW x \in SUBSET t, x # t PROVE F[x] = sol(x)[x]
    OBVIOUS
  <2>1. F[x] = IF x = {} THEN 0 ELSE w[Pick(x)] + sol(rest(x))[rest(x)]
    OBVIOUS
  <2>2. sol(x)[x] = IF x = {} THEN 0 ELSE w[Pick(x)] + sol(x)[rest(x)]
    <3>1. sol(x) = [y \in SUBSET x |-> IF y = {} THEN 0 ELSE w[Pick(y)] + sol(x)[rest(y)]]
      BY <1>3 DEF IsSum, rest
    <3>2. x \in SUBSET x
      OBVIOUS
    <3> QED BY <3>1, <3>2
  <2>3. x # {} => sol(x)[rest(x)] = sol(rest(x))[rest(x)]
    <3> SUFFICES ASSUME x # {} PROVE sol(x)[rest(x)] = sol(rest(x))[rest(x)]
      OBVIOUS
    <3>1. IsFiniteSet(rest(x))
      BY <1>1, <1>4, FS_Subset
    <3>2. IsSum(sol(x), w, x) /\ IsSum(sol(rest(x)), w, rest(x))
      BY <1>3, <1>4
    <3>3. rest(x) \in SUBSET x /\ rest(x) \in SUBSET rest(x)
      BY <1>4
    <3> QED BY <3>1, <3>2, <3>3, SumWithin
  <2> QED BY <2>1, <2>2, <2>3
<1>6. F = [x \in SUBSET t |-> IF x = {} THEN 0 ELSE w[Pick(x)] + F[rest(x)]]
  <2>1. \A x \in SUBSET t : x # {} => F[rest(x)] = sol(rest(x))[rest(x)]
    BY <1>4, <1>5
  <2>2. \A x \in SUBSET t : F[x] = IF x = {} THEN 0 ELSE w[Pick(x)] + F[rest(x)]
    BY <2>1
  <2>3. \A G : (\A x \in SUBSET t : G[x] = F[x]) =>
          F = [x \in SUBSET t |-> G[x]]
    OBVIOUS
  <2> DEFINE G == [x \in SUBSET t |-> IF x = {} THEN 0 ELSE w[Pick(x)] + F[rest(x)]]
  <2>4. \A x \in SUBSET t : G[x] = F[x]
    BY <2>2
  <2> HIDE DEF F
  <2>5. G = [x \in SUBSET t |-> G[x]]
    OBVIOUS
  <2> QED BY <2>3, <2>4, <2>5
<1>7. IsSum(F, w, t)
  <2> HIDE DEF F
  <2> QED BY <1>6 DEF IsSum, rest
<1> QED BY <1>2, <1>7 DEF U

(* A sum is that of its first element and of the rest. *)
LEMMA SumSteps ==
  ASSUME NEW w, NEW S, IsFiniteSet(S), NEW t \in SUBSET S
  PROVE  SumOf(w, t) = IF t = {} THEN 0 ELSE w[Pick(t)] + SumOf(w, t \ {Pick(t)})
<1> DEFINE sol(x) == CHOOSE f : IsSum(f, w, x)
<1>1. \A x \in SUBSET S : IsFiniteSet(x) /\ IsSum(sol(x), w, x)
  <2>1. \A x \in SUBSET S : IsFiniteSet(x) /\ \E f : IsSum(f, w, x)
    BY SumExists, FS_Subset
  <2> QED BY <2>1
<1> HIDE DEF sol
<1>2. sol(t)[t] = IF t = {} THEN 0 ELSE w[Pick(t)] + sol(t)[t \ {Pick(t)}]
  <2>1. t \in SUBSET t
    OBVIOUS
  <2> QED BY <1>1, <2>1 DEF IsSum
<1>3. sol(t)[t \ {Pick(t)}] = sol(t \ {Pick(t)})[t \ {Pick(t)}]
  <2>1. t \ {Pick(t)} \in SUBSET S /\ t \ {Pick(t)} \in SUBSET t /\ t \ {Pick(t)} \in SUBSET (t \ {Pick(t)})
    OBVIOUS
  <2> QED BY <1>1, <2>1, SumWithin
<1> QED BY <1>2, <1>3 DEF SumOf, sol

(* Sums of natural numbers are natural numbers. *)
LEMMA SumType ==
  ASSUME NEW S, IsFiniteSet(S), NEW w \in [S -> Nat], NEW t \in SUBSET S
  PROVE  SumOf(w, t) \in Nat
<1> DEFINE U == {x \in SUBSET S : SumOf(w, x) \notin Nat}
<1> SUFFICES ASSUME U # {} PROVE FALSE
  OBVIOUS
<1>1. U \subseteq SUBSET S /\ IsFiniteSet(S)
  BY FS_Subset
<1>2. PICK x \in U : \A y \in U : y \subseteq x => y = x
  <2> HIDE DEF U
  <2> QED BY <1>1, SmallestPart
<1>3. x # {} => Pick(x) \in x /\ x \ {Pick(x)} \in SUBSET S /\ x \ {Pick(x)} \notin U
  BY <1>2, Picked
<1>4. SumOf(w, x) = IF x = {} THEN 0 ELSE w[Pick(x)] + SumOf(w, x \ {Pick(x)})
  BY SumSteps
<1> QED BY <1>3, <1>4

(* The order does not matter. *)
LEMMA SumWithout ==
  ASSUME NEW S, IsFiniteSet(S), NEW w \in [S -> Nat], NEW t \in SUBSET S, NEW x \in t
  PROVE  SumOf(w, t) = w[x] + SumOf(w, t \ {x})
<1> DEFINE Holds(y) == \A z \in y : SumOf(w, y) = w[z] + SumOf(w, y \ {z})
           U == {y \in SUBSET S : ~Holds(y)}
<1> SUFFICES ASSUME U # {} PROVE FALSE
  OBVIOUS
<1>1. U \subseteq SUBSET S /\ IsFiniteSet(S)
  BY FS_Subset
<1>2. PICK y \in U : \A z \in U : z \subseteq y => z = y
  <2> HIDE DEF U
  <2> QED BY <1>1, SmallestPart
<1> DEFINE c == Pick(y)
<1>3. PICK z \in y : SumOf(w, y) # w[z] + SumOf(w, y \ {z})
  BY <1>2
<1>4. c \in y /\ SumOf(w, y) = w[c] + SumOf(w, y \ {c})
  BY <1>3, Picked, SumSteps
<1>5. z # c
  BY <1>3, <1>4
<1>6. Holds(y \ {c}) /\ Holds(y \ {z})
  <2>1. y \ {c} \notin U /\ y \ {z} \notin U
    BY <1>2, <1>4
  <2> QED BY <2>1
<1>7. SumOf(w, y \ {c}) = w[z] + SumOf(w, (y \ {c}) \ {z})
  BY <1>5, <1>6
<1>8. SumOf(w, y \ {z}) = w[c] + SumOf(w, (y \ {z}) \ {c})
  BY <1>4, <1>5, <1>6
<1>9. SumOf(w, (y \ {c}) \ {z}) = SumOf(w, (y \ {z}) \ {c})
  <2>1. (y \ {c}) \ {z} = (y \ {z}) \ {c}
    OBVIOUS
  <2> HIDE DEF c
  <2> QED BY <2>1
<1>10. w[c] \in Nat /\ w[z] \in Nat /\ SumOf(w, (y \ {c}) \ {z}) \in Nat
  BY <1>4, SumType
<1> DEFINE n == SumOf(w, (y \ {c}) \ {z})
<1>11. SumOf(w, y) = w[c] + (w[z] + n) /\ SumOf(w, y \ {z}) = w[c] + n
  BY <1>4, <1>7, <1>8, <1>9
<1>12. n \in Nat
  BY <1>10
<1> HIDE DEF c, n
<1> QED BY <1>3, <1>10, <1>11, <1>12

(* A part does not weigh more than the whole. *)
LEMMA SumOfPart ==
  ASSUME NEW S, IsFiniteSet(S), NEW w \in [S -> Nat], NEW t \in SUBSET S, NEW x \in SUBSET t
  PROVE  SumOf(w, x) <= SumOf(w, t)
<1> DEFINE U == {y \in SUBSET S : x \subseteq y /\ ~(SumOf(w, x) <= SumOf(w, y))}
<1> SUFFICES ASSUME U # {} PROVE FALSE
  OBVIOUS
<1>1. U \subseteq SUBSET S /\ IsFiniteSet(S)
  BY FS_Subset
<1>2. PICK y \in U : \A z \in U : z \subseteq y => z = y
  <2> HIDE DEF U
  <2> QED BY <1>1, SmallestPart
<1>3. SumOf(w, x) \in Nat /\ SumOf(w, y) \in Nat
  BY SumType
<1>4. PICK z \in y : z \notin x
  <2>1. x # y /\ x \subseteq y
    BY <1>2, <1>3
  <2> QED BY <2>1
<1>5. SumOf(w, y) = w[z] + SumOf(w, y \ {z})
  BY SumWithout
<1>6. w[z] \in Nat /\ SumOf(w, y \ {z}) \in Nat
  BY SumType
<1>7. y \ {z} \in SUBSET S /\ x \subseteq y \ {z} /\ y \ {z} \notin U
  BY <1>2, <1>4
<1> QED BY <1>3, <1>5, <1>6, <1>7

(* The same weights on it give the same sum. *)
LEMMA SumSame ==
  ASSUME NEW S, IsFiniteSet(S), NEW w, NEW u, NEW t \in SUBSET S, \A x \in t : w[x] = u[x]
  PROVE  SumOf(w, t) = SumOf(u, t)
<1> DEFINE U == {y \in SUBSET t : SumOf(w, y) # SumOf(u, y)}
<1> SUFFICES ASSUME U # {} PROVE FALSE
  OBVIOUS
<1>1. U \subseteq SUBSET t /\ IsFiniteSet(t)
  BY FS_Subset
<1>2. PICK y \in U : \A z \in U : z \subseteq y => z = y
  <2> HIDE DEF U
  <2> QED BY <1>1, SmallestPart
<1>3. y # {} => Pick(y) \in y /\ y \ {Pick(y)} \in SUBSET t /\ y \ {Pick(y)} \notin U
  BY <1>2, Picked
<1>4. SumOf(w, y) = IF y = {} THEN 0 ELSE w[Pick(y)] + SumOf(w, y \ {Pick(y)})
  BY SumSteps
<1>5. SumOf(u, y) = IF y = {} THEN 0 ELSE u[Pick(y)] + SumOf(u, y \ {Pick(y)})
  BY SumSteps
<1> QED BY <1>3, <1>4, <1>5

----------------------------------------------------------------------------
(* The room there is. *)

(* The accounts: a sum over the variables of an area. *)
LEMMA SpaceIs ==
  ASSUME NEW s \in [Var -> Entry], NEW at
  PROVE  Space(s, at) = Capacity - SumOf([v \in Var |-> Len(s[v].data)], InArea(s, at))
<1> DEFINE w == [v \in Var |-> Len(s[v].data)]
           A == InArea(s, at)
<1>1. A \subseteq Var
  BY DEF InArea
<1>2. Space(s, at) = Capacity -
        (CHOOSE iter : iter = [t \in SUBSET A |-> IF t = {} THEN 0
           ELSE Len(s[CHOOSE x \in t : TRUE].data) + iter[t \ {CHOOSE x \in t : TRUE}]])[A]
  BY DEF Space, MapThenSumSet, MapThenFoldSet
<1>3. \A t \in SUBSET A : t # {} => Len(s[Pick(t)].data) = w[Pick(t)]
  <2>1. \A t \in SUBSET A : t # {} => Pick(t) \in Var
    BY <1>1, Picked
  <2> QED BY <2>1
<1> HIDE DEF w, A
<1>4. \A iter :
        [t \in SUBSET A |-> IF t = {} THEN 0
           ELSE Len(s[CHOOSE x \in t : TRUE].data) + iter[t \ {CHOOSE x \in t : TRUE}]]
        = [t \in SUBSET A |-> IF t = {} THEN 0 ELSE w[Pick(t)] + iter[t \ {Pick(t)}]]
  BY <1>3 DEF Pick
<1>5. (CHOOSE iter : iter = [t \in SUBSET A |-> IF t = {} THEN 0
           ELSE Len(s[CHOOSE x \in t : TRUE].data) + iter[t \ {CHOOSE x \in t : TRUE}]])
      = (CHOOSE iter : iter = [t \in SUBSET A |-> IF t = {} THEN 0
           ELSE w[Pick(t)] + iter[t \ {Pick(t)}]])
  BY <1>4
<1> QED BY <1>2, <1>5 DEF SumOf, IsSum, A, w

(* What is summed up for an area. *)
LEMMA Weights ==
  ASSUME NEW s \in [Var -> Entry], NEW at
  PROVE  /\ [v \in Var |-> Len(s[v].data)] \in [Var -> Nat]
         /\ InArea(s, at) \in SUBSET Var
         /\ IsFiniteSet(Var) /\ Capacity \in Nat
<1>1. \A v \in Var : Len(s[v].data) \in Nat
  BY DEF Entry
<1> QED BY <1>1, SelfTestAssumption DEF InArea

(* The space left is a number; an empty area has all of it. *)
LEMMA SpaceType ==
  ASSUME NEW s \in [Var -> Entry], NEW at
  PROVE  /\ Space(s, at) \in Int
         /\ InArea(s, at) = {} => Space(s, at) >= 0
<1> DEFINE w == [v \in Var |-> Len(s[v].data)]
           A == InArea(s, at)
<1>1. w \in [Var -> Nat] /\ A \in SUBSET Var /\ IsFiniteSet(Var) /\ Capacity \in Nat
  BY Weights
<1>2. Space(s, at) = Capacity - SumOf(w, A)
  BY SpaceIs
<1> HIDE DEF w, A
<1>3. SumOf(w, A) \in Nat
  BY <1>1, SumType
<1>4. A = {} => SumOf(w, A) = 0
  BY <1>1, SumSteps
<1>5. Space(s, at) \in Int
  BY <1>1, <1>2, <1>3
<1>6. A = {} => Space(s, at) >= 0
  BY <1>1, <1>2, <1>4
<1> QED BY <1>5, <1>6 DEF A

(* What loses variables, and changes no other, does not lose space. *)
LEMMA SpaceOfFewer ==
  ASSUME NEW s \in [Var -> Entry], NEW u \in [Var -> Entry], NEW at, NEW at2,
         InArea(u, at) \subseteq InArea(s, at2),
         \A v \in InArea(u, at) : u[v] = s[v]
  PROVE  Space(s, at2) <= Space(u, at)
<1> DEFINE w == [v \in Var |-> Len(s[v].data)]
           y == [v \in Var |-> Len(u[v].data)]
           A == InArea(s, at2)
           B == InArea(u, at)
<1>1. w \in [Var -> Nat] /\ A \in SUBSET Var /\ IsFiniteSet(Var) /\ Capacity \in Nat
  BY Weights
<1>2. y \in [Var -> Nat] /\ B \in SUBSET Var
  BY Weights
<1>3. Space(s, at2) = Capacity - SumOf(w, A)
  BY SpaceIs
<1>4. Space(u, at) = Capacity - SumOf(y, B)
  BY SpaceIs
<1>5. \A x \in B : w[x] = y[x]
  BY <1>2
<1>6. B \in SUBSET A
  OBVIOUS
<1> HIDE DEF w, y, A, B
<1>7. SumOf(w, B) = SumOf(y, B)
  BY <1>1, <1>2, <1>5, SumSame
<1>8. SumOf(w, B) <= SumOf(w, A)
  BY <1>1, <1>6, SumOfPart
<1>9. SumOf(w, A) \in Nat /\ SumOf(w, B) \in Nat
  BY <1>1, <1>2, SumType
<1> QED BY <1>1, <1>3, <1>4, <1>7, <1>8, <1>9

(* The largest variable of an area has a size. *)
LEMMA LargestType ==
  ASSUME NEW s \in [Var -> Entry], NEW at
  PROVE  Largest(s, at) \in Nat
<1> DEFINE A == InArea(s, at)
           L == {Len(s[v].data) : v \in A}
           w == [v \in A |-> Len(s[v].data)]
           N == L \union {0}
<1>1. IsFiniteSet(A) /\ A \subseteq Var
  BY SelfTestAssumption, FS_Subset DEF InArea
<1>2. IsFiniteSet(L)
  <2>1. w \in [A -> L] /\ \A x \in L : \E v \in A : w[v] = x
    OBVIOUS
  <2>2. w \in Surjection(A, L)
    BY <2>1 DEF Surjection
  <2> HIDE DEF w, A, L
  <2> QED BY <1>1, <2>2, FS_Surjection
<1>3. IsFiniteSet(N) /\ N # {}
  BY <1>2, FS_AddElement
<1>4. N \subseteq Nat
  BY <1>1 DEF Entry
<1>5. Largest(s, at) = Max(N)
  BY DEF Largest
<1> HIDE DEF N
<1>6. Max(N) \in N
  BY <1>3, <1>4, GreatestNumber
<1> QED BY <1>4, <1>5, <1>6

(* Attributes and data of a write keep the store to its type. *)
LEMMA WrittenType ==
  ASSUME NEW old \in Entry, NEW attrs \in SUBSET Attribute, NEW data \in Seq(Tag)
  PROVE  Written(old, attrs, data) \in Entry
<1>1. Absent \in Entry
  BY DEF Absent, Entry
<1>2. [attrs |-> attrs, data |-> data] \in Entry
  BY DEF Entry
<1>3. old.attrs \in SUBSET Attribute /\ old.data \in Seq(Tag)
  BY DEF Entry
<1>4. old.data \o data \in Seq(Tag)
  BY <1>3
<1>5. [attrs |-> IF old.data = <<>> THEN attrs \ {"AP"} ELSE old.attrs, data |-> old.data \o data]
        \in Entry
  BY <1>3, <1>4 DEF Entry
<1> QED BY <1>1, <1>2, <1>5 DEF Written

(* There is room for what is stored, of either kind. *)
Roomy(s) == \A at : Space(s, at) >= 0

(* There is one area for each kind of storage. *)
LEMMA TwoAreas ==
  ASSUME NEW s \in [Var -> Entry], NEW at, NEW at2, "NV" \in at <=> "NV" \in at2
  PROVE  Space(s, at) = Space(s, at2)
<1>1. InArea(s, at) = InArea(s, at2)
  BY DEF InArea
<1> QED BY <1>1, SpaceIs

(* A write the accounts have room for leaves room, and so does a restart. *)
LEMMA WriteKeepsRoom ==
  ASSUME NEW s \in [Var -> Entry], Roomy(s), NEW v \in Var, NEW e \in Entry,
         Space([s EXCEPT ![v] = e], e.attrs) >= 0
  PROVE  Roomy([s EXCEPT ![v] = e])
<1> DEFINE u == [s EXCEPT ![v] = e]
<1>1. u \in [Var -> Entry] /\ u[v] = e /\ \A x \in Var : x # v => u[x] = s[x]
  OBVIOUS
<1> HIDE DEF u
<1> SUFFICES ASSUME NEW at PROVE Space(u, at) >= 0
  BY DEF Roomy, u
<1>2. CASE "NV" \in at <=> "NV" \in e.attrs
  BY <1>1, <1>2, TwoAreas DEF u
<1>3. CASE ~("NV" \in at <=> "NV" \in e.attrs)
  <2>1. v \notin InArea(u, at)
    BY <1>1, <1>3 DEF InArea
  <2>2. InArea(u, at) \subseteq InArea(s, at)
    BY <1>1, <2>1 DEF InArea, Stored
  <2>3. \A x \in InArea(u, at) : u[x] = s[x]
    BY <1>1, <2>1 DEF InArea
  <2>4. Space(s, at) <= Space(u, at)
    BY <1>1, <2>2, <2>3, SpaceOfFewer
  <2>5. Space(s, at) \in Int /\ Space(u, at) \in Int /\ Space(s, at) >= 0
    BY <1>1, SpaceType DEF Roomy
  <2> QED BY <2>4, <2>5
<1> QED BY <1>2, <1>3

(* A restart takes no room. *)
LEMMA RestartKeepsRoom ==
  ASSUME NEW s \in [Var -> Entry], Roomy(s)
  PROVE  Rebooted(s) \in [Var -> Entry] /\ Roomy(Rebooted(s))
<1> DEFINE u == Rebooted(s)
<1>1. /\ u \in [Var -> Entry]
      /\ \A v \in Var : u[v] = IF "NV" \in s[v].attrs THEN s[v] ELSE Absent
  BY DEF Rebooted, Absent, Entry
<1> HIDE DEF u
<1>2. ASSUME NEW at
      PROVE  Space(u, at) >= 0
  <2>1. \A v \in InArea(u, at) : u[v] = s[v]
    <3> SUFFICES ASSUME NEW v \in InArea(u, at) PROVE u[v] = s[v]
      OBVIOUS
    <3>1. v \in Var /\ u[v].data # <<>>
      BY DEF InArea, Stored
    <3>2. u[v] # Absent
      BY <3>1 DEF Absent
    <3> QED BY <1>1, <3>1, <3>2
  <2>2. InArea(u, at) \subseteq InArea(s, at)
    BY <2>1 DEF InArea, Stored
  <2>3. Space(s, at) <= Space(u, at)
    BY <1>1, <2>1, <2>2, SpaceOfFewer
  <2>4. Space(s, at) \in Int /\ Space(u, at) \in Int /\ Space(s, at) >= 0
    BY <1>1, SpaceType DEF Roomy
  <2> QED BY <2>3, <2>4
<1> QED BY <1>1, <1>2 DEF Roomy, u

----------------------------------------------------------------------------
(* The steps of a run, and what they do. *)

(* A module that is run has its seven tests. *)
LEMMA CountType ==
  /\ TestMetadataCount \in Nat
  /\ TestMetadataCount < TEST_METADATA_MAX => TestMetadataCount = 7
<1>1. Len(TestFunc) = 7
  BY Tests
<1> QED BY <1>1, SelfTestAssumption DEF TestMetadataCount

(* The types, with what they rest on: the room there is, and the place of a run. *)
TypeI ==
  /\ TypeOKT
  /\ Roomy(store)
  /\ phase \in {"body", "cleanup", "ended"} => test >= 1 /\ TestMetadataCount = 7
  /\ phase = "body" => pc >= 1
  /\ SummaryAddsUp
  /\ TestPassedCount + TestFailedCount <= TestMetadataCount

(* The script that is run, and its step. *)
script == Script(TestFunc[test], local)
step == script[pc]

(* Faults are counted, and their places kept. *)
LEMMA FaultType ==
  ASSUME TypeOKT, NEW wrong \in BOOLEAN, NEW place \in {"setup", "body", "cleanup"},
         Fault(wrong, place)
  PROVE  /\ troubles' \in 0..MaxTrouble
         /\ faults' \subseteq {"setup", "body", "cleanup"} /\ faults \subseteq faults'
         /\ wrong => place \in faults'
<1>1. MaxTrouble \in Nat
  BY SelfTestAssumption
<1>2. troubles' \in 0..MaxTrouble
  BY <1>1 DEF Fault, TypeOKT
<1>3. /\ faults' \subseteq {"setup", "body", "cleanup"} /\ faults \subseteq faults'
      /\ wrong => place \in faults'
  BY DEF Fault, TypeOKT
<1> QED BY <1>2, <1>3

(* What a write does to the store, and to the room there is. *)
LEMMA WriteOutcome ==
  ASSUME TypeOKT, Roomy(store), NEW v \in Var, NEW attrs \in SUBSET Attribute,
         NEW data \in Seq(Tag),
         SetVariable(v, attrs, data),
         reply'.status \in Due(v, attrs, data) \union Failure
  PROVE  /\ store' \in [Var -> Entry] /\ Roomy(store')
         /\ \/ /\ reply'.status = "SUCCESS"
               /\ store' = [store EXCEPT ![v] = Written(store[v], attrs, data)]
            \/ reply'.status # "SUCCESS" /\ store' = store
<1> DEFINE e == Written(store[v], attrs, data)
           after == [store EXCEPT ![v] = e]
<1>1. store \in [Var -> Entry]
  BY DEF TypeOKT
<1>2. e \in Entry /\ after \in [Var -> Entry] /\ after[v] = e
  <2>1. e \in Entry
    BY <1>1, WrittenType
  <2> HIDE DEF e
  <2> QED BY <1>1, <2>1
<1>3. \/ reply'.status = "SUCCESS" /\ store' = after
      \/ reply'.status # "SUCCESS" /\ store' = store
  <2> HIDE DEF e
  <2> QED BY DEF SetVariable, Answer, Failure, e
<1>4. CASE reply'.status = "SUCCESS" /\ store' = after
  <2>1. "SUCCESS" \in Due(v, attrs, data)
    BY <1>4 DEF Failure
  <2>2. ~(Space(after, after[v].attrs) < 0)
    <3>1. after = [store EXCEPT ![v] = Written(@, attrs, data)]
      OBVIOUS
    <3> HIDE DEF after
    <3> QED BY <2>1, <3>1 DEF Due
  <2>3. Space(after, e.attrs) >= 0
    <3>1. after[v].attrs = e.attrs
      BY <1>2
    <3>2. after \in [Var -> Entry]
      BY <1>2
    <3> HIDE DEF after, e
    <3>3. Space(after, e.attrs) \in Int
      BY <3>2, SpaceType
    <3>4. ~(Space(after, e.attrs) < 0)
      BY <2>2, <3>1
    <3> QED BY <3>3, <3>4
  <2>4. Roomy(after)
    <3> HIDE DEF e
    <3> QED BY <1>1, <1>2, <2>3, WriteKeepsRoom
  <2> QED BY <1>2, <1>4, <2>4
<1>5. CASE reply'.status # "SUCCESS" /\ store' = store
  BY <1>1, <1>5
<1> QED BY <1>3, <1>4, <1>5

(* What the answer to a read tells of the store. *)
LEMMA ReadOutcome ==
  ASSUME TypeOKT, NEW v \in Var, NEW room \in Nat, GetVariable(v, room)
  PROVE  /\ store' = store
         /\ reply'.status = "NOT_FOUND" => ~Stored(store, v)
         /\ reply'.status = "SUCCESS" =>
              /\ reply'.attrs = store[v].attrs /\ reply'.data = store[v].data
              /\ Len(store[v].data) <= room
         /\ ~(reply'.status = "BUFFER_TOO_SMALL") /\ Stored(store, v) =>
              Len(store[v].data) <= room \/ reply'.status \in Failure
BY DEF GetVariable, Answer, Failure

(* A restart leaves the store, or what of it is not volatile. *)
LEMMA RestartOutcome ==
  ASSUME TypeOKT, Roomy(store), Restart
  PROVE  /\ store' \in [Var -> Entry] /\ Roomy(store')
         /\ \A v \in Var : store'[v] = store[v] \/ ("NV" \notin store[v].attrs /\ store'[v] = Absent)
<1>1. store \in [Var -> Entry]
  BY DEF TypeOKT
<1>2. CASE store' = store
  BY <1>1, <1>2
<1>3. CASE store' = Rebooted(store)
  BY <1>1, <1>3, RestartKeepsRoom DEF Rebooted
<1> QED BY <1>2, <1>3 DEF Restart

(* The step a body is at. *)
LEMMA StepType ==
  ASSUME TypeI, Body
  PROVE  /\ test \in 1..7 /\ local \in Measures
         /\ pc \in 1..Len(script)
         /\ step \in QueriesToo(MayWrite(TestFunc[test])) \union SkipSteps
         /\ MayWrite(TestFunc[test]) \subseteq Var
         /\ phase = "body"
<1>1. phase = "body" /\ pc <= Len(script)
  BY DEF Body, script
<1>2. test \in 1..7 /\ local \in Measures /\ pc \in Nat /\ pc >= 1
  BY <1>1 DEF TypeI, TypeOKT, Measures
<1>3. script \in Seq(QueriesToo(MayWrite(TestFunc[test])) \union SkipSteps)
  BY <1>2, Scripts DEF Sound, script
<1>4. pc \in 1..Len(script)
  <2>1. Len(script) \in Nat
    BY <1>3
  <2> QED BY <1>1, <1>2, <2>1
<1>5. MayWrite(TestFunc[test]) \subseteq Var
  BY <1>2, WhoWritesWhat
<1>6. step \in QueriesToo(MayWrite(TestFunc[test])) \union SkipSteps
  <2> DEFINE T == QueriesToo(MayWrite(TestFunc[test])) \union SkipSteps
  <2> HIDE DEF T
  <2>1. script \in Seq(T)
    BY <1>3 DEF T
  <2>2. script[pc] \in T
    BY <1>4, <2>1, ElementOfSeq
  <2> QED BY <2>2 DEF T, step
<1> QED BY <1>1, <1>2, <1>4, <1>5, <1>6

(* What a step of a test does: it is passed or the test is left, *)
Passes == phase' = "body" /\ TestFailedCount' = TestFailedCount
Leaves == phase' = "cleanup" /\ TestFailedCount' = TestFailedCount + 1 /\ pc' = pc
Skips == step.op = "SkipIfAbsent" /\ pc' = pc + 1 + step.skip /\ ~Stored(store, step.var)
Moves ==
  \/ Leaves
  \/ Passes /\ pc' = pc + 1
  \/ Passes /\ Skips

(* it writes a variable or none, and what it has verified is true of the store, *)
Sets == store' = [store EXCEPT ![step.var] = Written(store[step.var], step.attrs, step.data)]
Keeps ==
  /\ store' \in [Var -> Entry] /\ Roomy(store')
  /\ store' # store => step.op = "Set" /\ Sets
  /\ Passes =>
       /\ step.op = "Set" => IF step.status = "SUCCESS" THEN Sets ELSE store' = store
       /\ \A v : Denies(step, v) => ~Stored(store, v)
       /\ \A v, e : Confirms(step, v, e) => store[v].attrs = e.attrs /\ store[v].data = e.data

(* it allocates and releases the buffers it names, *)
Handles ==
  /\ live' \subseteq Freed /\ lost' \subseteq Freed
  /\ \A b \in lost' : b \notin lost => b \in live /\ (b = "mEnumVariableName" \/ Allocates(step, b))
  /\ Passes => \A b \in live' : ~Allocates(step, b) => b \in live /\ ~Releases(step, b)

(* and leaves the rest. *)
Spends ==
  /\ troubles' \in 0..MaxTrouble
  /\ faults' \subseteq {"setup", "body", "cleanup"} /\ faults \subseteq faults'
Measured ==
  /\ local' \in Measures
  /\ local' # local => step.op = "Query" /\ step.verified = "measured"

(* What a step names. *)
LEMMA StepFields ==
  ASSUME NEW V, V \subseteq Var, NEW s \in QueriesToo(V) \union SkipSteps
  PROVE  /\ s.op \in {"Allocate", "Release", "VerifyBuffer"} => s.buffer \in Buffers
         /\ s.op = "Set" => /\ s.var \in V /\ s.attrs \in SUBSET Attribute
                            /\ s.data \in Seq(Tag) /\ s.status \in Statuses
         /\ s.op = "Get" => s.var \in Var /\ s.room \in Nat
         /\ s.op = "Enumerate" => s.var \in Var /\ s.found \in BOOLEAN
         /\ s.op = "SkipIfAbsent" => s.var \in Var /\ s.skip \in Nat
<1>1. CASE s \in BufferSteps
  BY <1>1 DEF BufferSteps
<1>2. CASE s \in SetSteps(V)
  BY <1>2 DEF SetSteps
<1>3. CASE s \in AskSteps
  BY <1>3 DEF AskSteps
<1>4. CASE s \in QuerySteps({"measured", "larger", "full"})
  BY <1>4 DEF QuerySteps
<1>5. CASE s \in SkipSteps
  BY <1>5 DEF SkipSteps
<1> QED BY <1>1, <1>2, <1>3, <1>4, <1>5 DEF QueriesToo, Steps

(* Verifying leaves the test or passes the step. *)
LEMMA Verified ==
  ASSUME NEW condition \in BOOLEAN, phase = "body", Verify(condition)
  PROVE  Moves /\ (Passes => condition) /\ (condition => Passes)
<1>1. CASE condition
  BY <1>1 DEF Verify, Advance, Moves, Passes
<1>2. CASE ~condition
  BY <1>2 DEF Verify, Throw, Moves, Leaves, Passes
<1> QED BY <1>1, <1>2

(* Asking nothing of the store. *)
LEMMA Indifferent ==
  ASSUME TypeI, store' = store, step.op \notin {"Set", "Get", "Enumerate"}
  PROVE  Keeps
<1>1. store' \in [Var -> Entry] /\ Roomy(store')
  BY DEF TypeI, TypeOKT
<1>2. \A v : ~Denies(step, v)
  BY DEF Denies
<1>3. \A v, e : ~Confirms(step, v, e)
  BY DEF Confirms
<1> QED BY <1>1, <1>2, <1>3 DEF Keeps

(* A step that handles no buffer. *)
LEMMA NoBuffer ==
  ASSUME TypeI, live' = live, lost' = lost, step.op \notin {"Allocate", "Release"}
  PROVE  Handles
BY DEF Handles, TypeI, TypeOKT, Releases

(* Each kind of step does no more than what was said. *)
LEMMA AllocateEffect ==
  ASSUME TypeI, Body, DoAllocate(step), local' = local
  PROVE  Moves /\ Keeps /\ Handles /\ Spends /\ Measured
<1> step.buffer \in Buffers
  BY StepType, StepFields DEF DoAllocate
<1>1. PICK allocated \in BOOLEAN :
        Assign(step.buffer, allocated) /\ Fault(~allocated, "body") /\ Verify(allocated)
  BY DEF DoAllocate
<1>2. Moves /\ (Passes => allocated)
  BY <1>1, StepType, Verified
<1>3. Keeps
  BY Indifferent DEF DoAllocate, svars
<1>4. Handles
  <2>1. live \subseteq Freed /\ lost \subseteq Freed /\ step.op = "Allocate"
    BY DEF TypeI, TypeOKT, DoAllocate
  <2>2. live' \subseteq Freed /\ lost' \subseteq Freed
    BY <1>1, <2>1 DEF Assign, Freed, Buffers
  <2>3. \A b \in lost' : b \notin lost => b \in live /\ Allocates(step, b)
    BY <1>1, <2>1 DEF Assign, Allocates
  <2>4. \A b \in live' : ~Allocates(step, b) => b \in live
    BY <1>1, <2>1 DEF Assign, Allocates
  <2> QED BY <2>1, <2>2, <2>3, <2>4 DEF Handles, Releases
<1>5. Spends
  BY <1>1, FaultType DEF TypeI, Spends
<1>6. Measured
  BY StepType DEF Measured
<1> QED BY <1>2, <1>3, <1>4, <1>5, <1>6

(* A release frees its buffer. *)
LEMMA ReleaseEffect ==
  ASSUME TypeI, Body, DoRelease(step), local' = local
  PROVE  Moves /\ Keeps /\ Handles /\ Spends /\ Measured
<1>1. Moves
  BY StepType DEF DoRelease, Advance, Moves, Passes
<1>2. Keeps
  BY Indifferent DEF DoRelease, svars
<1>3. Handles
  BY DEF DoRelease, Handles, TypeI, TypeOKT, Allocates, Releases
<1>4. Spends
  BY DEF DoRelease, Spends, TypeI, TypeOKT
<1>5. Measured
  BY StepType DEF Measured
<1> QED BY <1>1, <1>2, <1>3, <1>4, <1>5

(* A look at a pointer. *)
LEMMA VerifyBufferEffect ==
  ASSUME TypeI, Body, DoVerifyBuffer(step), local' = local
  PROVE  Moves /\ Keeps /\ Handles /\ Spends /\ Measured
<1>1. Moves
  BY StepType, Verified DEF DoVerifyBuffer
<1>2. Keeps
  BY Indifferent DEF DoVerifyBuffer, svars
<1>3. Handles
  BY NoBuffer DEF DoVerifyBuffer
<1>4. Spends
  BY DEF DoVerifyBuffer, Spends, TypeI, TypeOKT
<1>5. Measured
  BY StepType DEF Measured
<1> QED BY <1>1, <1>2, <1>3, <1>4, <1>5

(* A write, verified by its status. *)
LEMMA SetEffect ==
  ASSUME TypeI, Body, DoSet(step), local' = local
  PROVE  Moves /\ Keeps /\ Handles /\ Spends /\ Measured
<1> DEFINE attrs == step.attrs
           data == step.data
           v == step.var
<1>1. /\ step.op = "Set" /\ v \in Var /\ attrs \in SUBSET Attribute
      /\ data \in Seq(Tag)
  BY StepType, StepFields DEF DoSet
<1>2. /\ Write(v, attrs, data, "body") /\ Verify(reply'.status = step.status)
      /\ live' = live /\ lost' = lost
  BY DEF DoSet
<1>3. Moves /\ (Passes => reply'.status = step.status)
  BY <1>2, StepType, Verified
<1>4. /\ store' \in [Var -> Entry] /\ Roomy(store')
      /\ \/ reply'.status = "SUCCESS" /\ Sets
         \/ reply'.status # "SUCCESS" /\ store' = store
  <2>1. TypeOKT /\ Roomy(store)
    BY DEF TypeI
  <2>2. SetVariable(v, attrs, data) /\ reply'.status \in Due(v, attrs, data) \union Failure
    BY <1>2 DEF Write
  <2>3. /\ store' \in [Var -> Entry] /\ Roomy(store')
        /\ \/ /\ reply'.status = "SUCCESS"
              /\ store' = [store EXCEPT ![v] = Written(store[v], attrs, data)]
           \/ reply'.status # "SUCCESS" /\ store' = store
    BY <1>1, <2>1, <2>2, WriteOutcome
  <2> QED BY <2>3 DEF Sets
<1>5. Keeps
  <2>1. \A w : ~Denies(step, w)
    BY <1>1 DEF Denies
  <2>2. \A w, e : ~Confirms(step, w, e)
    BY <1>1 DEF Confirms
  <2>3. store' # store => Sets
    BY <1>4
  <2>4. Passes => IF step.status = "SUCCESS" THEN Sets ELSE store' = store
    BY <1>3, <1>4
  <2> QED BY <1>1, <1>4, <2>1, <2>2, <2>3, <2>4 DEF Keeps
<1>6. Handles
  BY <1>1, <1>2, NoBuffer
<1>7. Spends
  BY <1>2, FaultType DEF TypeI, Spends, Write
<1>8. Measured
  BY StepType DEF Measured
<1> QED BY <1>3, <1>5, <1>6, <1>7, <1>8

(* A write without a name changes nothing. *)
LEMMA SetNamelessEffect ==
  ASSUME TypeI, Body, DoSetNameless(step), local' = local
  PROVE  Moves /\ Keeps /\ Handles /\ Spends /\ Measured
<1>1. Moves
  BY StepType, Verified DEF DoSetNameless
<1>2. Keeps
  BY Indifferent DEF DoSetNameless, Refuse
<1>3. Handles
  BY NoBuffer DEF DoSetNameless
<1>4. Spends
  BY DEF DoSetNameless, Spends, TypeI, TypeOKT
<1>5. Measured
  BY StepType DEF Measured
<1> QED BY <1>1, <1>2, <1>3, <1>4, <1>5

(* A read tells the truth about the store. *)
LEMMA GetEffect ==
  ASSUME TypeI, Body, DoGet(step), local' = local
  PROVE  Moves /\ Keeps /\ Handles /\ Spends /\ Measured
<1> DEFINE v == step.var
<1>1. step.op = "Get" /\ v \in Var /\ step.room \in Nat
  BY StepType, StepFields DEF DoGet
<1>2. GetVariable(v, step.room) /\ Fault(reply'.status \in Failure, "body")
  BY DEF DoGet, Read
<1>3. /\ Moves
      /\ Passes => /\ reply'.status = step.status
                   /\ "attrs" \in step.verified => reply'.attrs = step.attrs
                   /\ "data" \in step.verified => reply'.data = step.data
  <2> DEFINE met == /\ reply'.status = step.status
                    /\ "attrs" \in step.verified => reply'.attrs = step.attrs
                    /\ "size" \in step.verified => reply'.size = Len(step.data)
                    /\ "data" \in step.verified => reply'.data = step.data
  <2>1. Verify(met)
    BY DEF DoGet
  <2>2. Moves /\ (Passes => met)
    <3>1. met \in BOOLEAN
      OBVIOUS
    <3> HIDE DEF met
    <3> QED BY <2>1, <3>1, StepType, Verified
  <2> QED BY <2>2
<1>4. /\ store' = store
      /\ reply'.status = "NOT_FOUND" => ~Stored(store, v)
      /\ reply'.status = "SUCCESS" => reply'.attrs = store[v].attrs /\ reply'.data = store[v].data
  BY <1>1, <1>2, ReadOutcome DEF TypeI
<1>5. Keeps
  <2>1. store' \in [Var -> Entry] /\ Roomy(store')
    BY <1>4 DEF TypeI, TypeOKT
  <2>2. Passes => \A w : Denies(step, w) => ~Stored(store, w)
    BY <1>1, <1>3, <1>4 DEF Denies
  <2>3. Passes => \A w, e : Confirms(step, w, e) =>
                      store[w].attrs = e.attrs /\ store[w].data = e.data
    BY <1>1, <1>3, <1>4 DEF Confirms
  <2> QED BY <1>1, <1>4, <2>1, <2>2, <2>3 DEF Keeps
<1>6. Handles
  BY <1>1, NoBuffer DEF DoGet
<1>7. Spends
  <2>1. (reply'.status \in Failure) \in BOOLEAN
    OBVIOUS
  <2> QED BY <1>2, <2>1, FaultType DEF TypeI, Spends
<1>8. Measured
  BY StepType DEF Measured
<1> QED BY <1>3, <1>5, <1>6, <1>7, <1>8

(* A probe skips steps only for want of the variable. *)
LEMMA SkipEffect ==
  ASSUME TypeI, Body, DoSkipIfAbsent(step), local' = local
  PROVE  Moves /\ Keeps /\ Handles /\ Spends /\ Measured
<1> DEFINE v == step.var
<1>1. step.op = "SkipIfAbsent" /\ v \in Var /\ 0 \in Nat
  BY StepType, StepFields DEF DoSkipIfAbsent
<1>2. GetVariable(v, 0) /\ Fault(reply'.status \in Failure, "body")
  BY DEF DoSkipIfAbsent, Read
<1>3. store' = store /\ (reply'.status = "NOT_FOUND" => ~Stored(store, v))
  BY <1>1, <1>2, ReadOutcome DEF TypeI
<1>4. Moves
  <2>1. CASE reply'.status = "NOT_FOUND"
    <3>1. pc' = pc + (1 + step.skip) /\ Passes
      BY <2>1, StepType DEF DoSkipIfAbsent, Advance, Passes
    <3>2. step.skip \in Nat /\ pc \in Nat
      BY <1>1, StepType, StepFields DEF TypeI, TypeOKT
    <3>3. Skips
      BY <1>1, <1>3, <2>1, <3>1, <3>2 DEF Skips
    <3> QED BY <3>1, <3>3 DEF Moves
  <2>2. CASE reply'.status # "NOT_FOUND"
    BY <2>2, StepType, Verified DEF DoSkipIfAbsent
  <2> QED BY <2>1, <2>2
<1>5. Keeps
  BY <1>1, <1>3, Indifferent
<1>6. Handles
  BY <1>1, NoBuffer DEF DoSkipIfAbsent
<1>7. Spends
  <2>1. (reply'.status \in Failure) \in BOOLEAN
    OBVIOUS
  <2> QED BY <1>2, <2>1, FaultType DEF TypeI, Spends
<1>8. Measured
  BY StepType DEF Measured
<1> QED BY <1>4, <1>5, <1>6, <1>7, <1>8

(* An enumeration tells whether the variable is there; what it allocates is not one
   of the buffers the tests name. *)
LEMMA EnumerateEffect ==
  ASSUME TypeI, Body, DoEnumerate(step), local' = local
  PROVE  Moves /\ Keeps /\ Handles /\ Spends /\ Measured
<1>1. step.op = "Enumerate" /\ step.var \in Var /\ step.found \in BOOLEAN /\ store' = store
  BY StepType, StepFields DEF DoEnumerate, svars
<1>2. PICK outcome \in {"told", "thrown", "nomem"} :
        LET fine == outcome = "told" /\ (Stored(store, step.var) <=> step.found) IN
        /\ Assign("mEnumVariableName", ~fine /\ outcome # "nomem")
        /\ Fault(outcome # "told", "body")
        /\ Verify(fine)
  BY DEF DoEnumerate
<1> DEFINE fine == outcome = "told" /\ (Stored(store, step.var) <=> step.found)
<1>3. Moves /\ (Passes => fine) /\ (fine => Passes)
  <2>1. fine \in BOOLEAN /\ Verify(fine)
    BY <1>2
  <2> HIDE DEF fine
  <2> QED BY <2>1, StepType, Verified
<1>4. Keeps
  <2>1. store' \in [Var -> Entry] /\ Roomy(store')
    BY <1>1 DEF TypeI, TypeOKT
  <2>2. Passes => \A w : Denies(step, w) => ~Stored(store, w)
    BY <1>1, <1>3 DEF Denies
  <2>3. \A w, e : ~Confirms(step, w, e)
    BY <1>1 DEF Confirms
  <2> QED BY <1>1, <2>1, <2>2, <2>3 DEF Keeps
<1>5. Handles
  <2>1. live \subseteq Freed /\ lost \subseteq Freed
    BY DEF TypeI, TypeOKT
  <2>2. live' \subseteq Freed /\ lost' \subseteq Freed
    BY <1>2, <2>1 DEF Assign, Freed
  <2>3. \A b \in lost' : b \notin lost => b \in live /\ b = "mEnumVariableName"
    BY <1>2 DEF Assign
  <2>4. Passes => live' \subseteq live
    BY <1>2, <1>3 DEF Assign
  <2>5. \A b : ~Releases(step, b)
    BY <1>1 DEF Releases
  <2> QED BY <2>2, <2>3, <2>4, <2>5 DEF Handles
<1>6. Spends
  <2>1. (outcome # "told") \in BOOLEAN
    OBVIOUS
  <2> QED BY <1>2, <2>1, FaultType DEF TypeI, Spends
<1>7. Measured
  BY StepType DEF Measured
<1> QED BY <1>3, <1>4, <1>5, <1>6, <1>7

(* A query keeps what it measures, if anything. *)
LEMMA QueryEffect ==
  ASSUME TypeI, Body, DoQuery(step)
  PROVE  Moves /\ Keeps /\ Handles /\ Spends /\ Measured
<1> DEFINE now == [space |-> Space(store, step.attrs), max |-> Largest(store, step.attrs)]
           met == /\ reply'.status = "SUCCESS"
                  /\ step.verified = "larger" =>
                       /\ now.space <= Minus(local.space, LargerVariableSize(local))
                       /\ now.max > local.max
                  /\ step.verified = "full" => now.space < OverflowSize
<1>1. step.op = "Query" /\ store' = store /\ live' = live /\ lost' = lost
  BY DEF DoQuery, QueryVariableInfo
<1>2. Moves
  <2>1. met \in BOOLEAN /\ Verify(met)
    BY DEF DoQuery
  <2> HIDE DEF met
  <2> QED BY <2>1, StepType, Verified
<1>3. Keeps
  BY <1>1, Indifferent
<1>4. Handles
  BY <1>1, NoBuffer
<1>5. Spends
  <2>1. (reply'.status # "SUCCESS") \in BOOLEAN /\ Fault(reply'.status # "SUCCESS", "body")
    BY DEF DoQuery
  <2> QED BY <2>1, FaultType DEF TypeI, Spends
<1>6. Measured
  <2>1. now \in Measures
    <3>1. store \in [Var -> Entry] /\ Space(store, step.attrs) >= 0
      BY DEF TypeI, TypeOKT, Roomy
    <3>2. Space(store, step.attrs) \in Nat
      BY <3>1, SpaceType
    <3>3. Largest(store, step.attrs) \in Nat
      BY <3>1, LargestType
    <3> QED BY <3>2, <3>3 DEF Measures
  <2>2. local' = IF step.verified = "measured" /\ reply'.status = "SUCCESS" THEN now ELSE local
    BY DEF DoQuery
  <2>3. local \in Measures
    BY StepType
  <2> HIDE DEF now
  <2> QED BY <1>1, <2>1, <2>2, <2>3 DEF Measured
<1> QED BY <1>2, <1>3, <1>4, <1>5, <1>6

(* One step of a test, whichever. *)
LEMMA BodyEffect ==
  ASSUME TypeI, Body
  PROVE  /\ Moves /\ Keeps /\ Handles /\ Spends /\ Measured
         /\ UNCHANGED <<test, TestPassedCount, before, runs>>
<1>1. \/ DoAllocate(step) \/ DoRelease(step) \/ DoVerifyBuffer(step)
      \/ DoSet(step) \/ DoSetNameless(step)
      \/ DoGet(step) \/ DoSkipIfAbsent(step)
      \/ DoEnumerate(step)
      \/ DoQuery(step)
  BY DEF Body, step, script
<1>2. step.op # "Query" => local' = local
  BY DEF Body, step, script
<1>3. UNCHANGED <<test, TestPassedCount, before, runs>>
  BY DEF Body
<1>4. Moves /\ Keeps /\ Handles /\ Spends /\ Measured
  <2>1. CASE DoAllocate(step)
    BY <1>2, <2>1, AllocateEffect DEF DoAllocate
  <2>2. CASE DoRelease(step)
    BY <1>2, <2>2, ReleaseEffect DEF DoRelease
  <2>3. CASE DoVerifyBuffer(step)
    BY <1>2, <2>3, VerifyBufferEffect DEF DoVerifyBuffer
  <2>4. CASE DoSet(step)
    BY <1>2, <2>4, SetEffect DEF DoSet
  <2>5. CASE DoSetNameless(step)
    BY <1>2, <2>5, SetNamelessEffect DEF DoSetNameless
  <2>6. CASE DoGet(step)
    BY <1>2, <2>6, GetEffect DEF DoGet
  <2>7. CASE DoSkipIfAbsent(step)
    BY <1>2, <2>7, SkipEffect DEF DoSkipIfAbsent
  <2>8. CASE DoEnumerate(step)
    BY <1>2, <2>8, EnumerateEffect DEF DoEnumerate
  <2>9. CASE DoQuery(step)
    BY <2>9, QueryEffect
  <2> QED BY <1>1, <2>1, <2>2, <2>3, <2>4, <2>5, <2>6, <2>7, <2>8, <2>9
<1> QED BY <1>3, <1>4

----------------------------------------------------------------------------
(* The types, the room and the counts. *)

(* The room in a store that holds the platform key at most. *)
LEMMA InitialRoom ==
  ASSUME InitT
  PROVE  store \in [Var -> Entry] /\ Roomy(store)
<1>1. Bytes(Baked, 1) \in Seq(Tag) /\ Len(Bytes(Baked, 1)) = 1
  <2>1. Baked \in 0..Garbage
    BY DEF Baked, Garbage
  <2> QED BY <2>1, BytesType
<1>2. PK \in Var /\ Capacity \in Nat /\ Capacity >= 1
  BY SelfTestAssumption
<1>3. store \in [Var -> Entry] /\ \A v \in Var : v # PK => store[v] = Absent
  <2>1. Absent \in Entry /\ [attrs |-> BaseAttributes, data |-> Bytes(Baked, 1)] \in Entry
    BY <1>1 DEF Absent, Entry, BaseAttributes, Attribute
  <2> QED BY <2>1 DEF InitT
<1>4. store[PK].data = <<>> \/ Len(store[PK].data) = 1
  BY <1>1, <1>2 DEF InitT, Absent
<1>5. ASSUME NEW at
      PROVE  Space(store, at) >= 0
  <2> DEFINE w == [v \in Var |-> Len(store[v].data)]
             A == InArea(store, at)
  <2>1. w \in [Var -> Nat] /\ A \in SUBSET Var /\ IsFiniteSet(Var)
    BY <1>3, Weights
  <2>2. Space(store, at) = Capacity - SumOf(w, A)
    BY <1>3, SpaceIs
  <2>3. A \subseteq {PK}
    BY <1>3 DEF InArea, Stored, Absent
  <2>4. CASE A = {}
    BY <1>3, <2>4, SpaceType
  <2>5. CASE A = {PK}
    <3>1. w[PK] = 1
      <4>1. store[PK].data # <<>>
        BY <2>5 DEF InArea, Stored
      <4> QED BY <1>2, <1>4, <4>1
    <3> HIDE DEF w, A
    <3>2. SumOf(w, A) = w[PK] + SumOf(w, A \ {PK})
      BY <2>1, <2>5, SumWithout
    <3>3. A \ {PK} = {}
      BY <2>5
    <3>4. SumOf(w, {}) = 0
      BY <2>1, SumSteps
    <3> QED BY <1>2, <2>2, <3>1, <3>2, <3>3, <3>4
  <2> QED BY <2>3, <2>4, <2>5
<1> QED BY <1>3, <1>5 DEF Roomy

(* The machine before the first run. *)
LEMMA InitType == InitT => TypeI
<1> SUFFICES ASSUME InitT PROVE TypeI
  OBVIOUS
<1>1. store \in [Var -> Entry] /\ Roomy(store)
  BY InitialRoom
<1>2. TestMetadataCount \in Nat /\ MaxRun \in Nat /\ MaxTrouble \in Nat
  BY CountType, SelfTestAssumption
<1>3. TypeOKT
  BY <1>1, <1>2 DEF InitT, TypeOKT, NoMeasure, Freed
<1>4. SummaryAddsUp
  BY DEF InitT, SummaryAddsUp
<1>5. TestPassedCount + TestFailedCount <= TestMetadataCount
  BY <1>2 DEF InitT
<1>6. phase = "off"
  BY DEF InitT
<1> QED BY <1>1, <1>3, <1>4, <1>5, <1>6 DEF TypeI

(* A process is started. *)
LEMMA UefiMainType == TypeI /\ UefiMain => TypeI'
<1> SUFFICES ASSUME TypeI, UefiMain PROVE TypeI'
  OBVIOUS
<1>1. store' \in [Var -> Entry] /\ Roomy(store')
  BY RestartOutcome DEF TypeI, UefiMain
<1>2. TestMetadataCount \in Nat /\ MaxRun \in Nat /\ TestMetadataCount' = TestMetadataCount
  BY CountType, SelfTestAssumption DEF TestMetadataCount
<1>3. runs' \in 0..MaxRun
  BY <1>2 DEF UefiMain, TypeI, TypeOKT
<1>4. TypeOKT'
  BY <1>1, <1>2, <1>3 DEF UefiMain, TypeI, TypeOKT, NoMeasure, Freed
<1>5. SummaryAddsUp'
  BY DEF UefiMain, SummaryAddsUp
<1>6. (TestPassedCount + TestFailedCount <= TestMetadataCount)'
  BY <1>2 DEF UefiMain
<1>7. phase' = "module"
  BY DEF UefiMain
<1> QED BY <1>1, <1>4, <1>5, <1>6, <1>7 DEF TypeI

(* The counts, by the place the run is at. *)
LEMMA SummaryIs ==
  SummaryAddsUp <=>
    /\ phase \in {"cleanup", "ended"} => TestPassedCount + TestFailedCount = test
    /\ phase = "body" => TestPassedCount + TestFailedCount = test - 1
    /\ phase \notin {"cleanup", "ended", "body", "off"} => TestPassedCount + TestFailedCount = 0
<1>1. CASE phase \in {"cleanup", "ended"}
  BY <1>1 DEF SummaryAddsUp
<1>2. CASE phase = "body"
  BY <1>2 DEF SummaryAddsUp
<1>3. CASE phase = "off"
  BY <1>3 DEF SummaryAddsUp
<1>4. CASE phase \notin {"cleanup", "ended", "body", "off"}
  BY <1>4 DEF SummaryAddsUp
<1> QED BY <1>1, <1>2, <1>3, <1>4

(* A test is begun. *)
LEMMA EnterType ==
  ASSUME TypeOKT, TestMetadataCount = 7, NEW i \in 1..7, Enter(i),
         TestPassedCount + TestFailedCount = i - 1,
         store' \in [Var -> Entry], Roomy(store'),
         live' \subseteq Freed, lost' \subseteq Freed,
         UNCHANGED <<TestPassedCount, TestFailedCount, runs>>,
         faults' \subseteq {"setup", "body", "cleanup"}, troubles' \in 0..MaxTrouble
  PROVE  TypeI'
<1>1. TestMetadataCount' = TestMetadataCount
  BY DEF TestMetadataCount
<1>2. TypeOKT'
  BY <1>1 DEF TypeOKT, Enter, NoMeasure
<1>3. phase' = "body" /\ test' = i /\ pc' = 1
  BY DEF Enter
<1>4. SummaryAddsUp'
  BY <1>3 DEF SummaryAddsUp
<1>5. (TestPassedCount + TestFailedCount <= TestMetadataCount)'
  BY <1>1
<1> QED BY <1>1, <1>2, <1>3, <1>4, <1>5 DEF TypeI

(* The constants of a run. *)
LEMMA Constants ==
  /\ TestMetadataCount' = TestMetadataCount
  /\ TestMetadataCount \in Nat
  /\ TestMetadataCount < TEST_METADATA_MAX => TestMetadataCount = 7
  /\ MaxRun \in Nat /\ MaxTrouble \in Nat
BY CountType, SelfTestAssumption DEF TestMetadataCount

(* The module is set up, or refused. *)
LEMMA RunModuleType == TypeI /\ RunModule => TypeI'
<1> SUFFICES ASSUME TypeI, RunModule PROVE TypeI'
  OBVIOUS
<1>1. /\ phase = "module" /\ TestPassedCount + TestFailedCount = 0
      /\ TypeOKT /\ Roomy(store)
      /\ {TestPassedCount, TestFailedCount} \subseteq 0..TestMetadataCount
  <2>1. phase = "module"
    BY DEF RunModule
  <2> QED BY <2>1, SummaryIs DEF TypeI, TypeOKT
<1>2. UNCHANGED <<live, lost, TestPassedCount, TestFailedCount, runs>>
  BY DEF RunModule, context
<1>3. CASE phase' = "refused" /\ UNCHANGED <<store, test, pc, local, faults, troubles>>
  <2>1. TypeOKT'
    BY <1>1, <1>2, <1>3, Constants DEF TypeOKT
  <2>2. SummaryAddsUp'
    BY <1>1, <1>2, <1>3 DEF SummaryAddsUp
  <2>3. (TestPassedCount + TestFailedCount <= TestMetadataCount)'
    BY <1>1, <1>2, Constants
  <2>4. Roomy(store)'
    BY <1>1, <1>3
  <2> QED BY <1>3, <2>1, <2>2, <2>3, <2>4 DEF TypeI
<1>4. ASSUME Read(PK, 0, "setup"), TestMetadataCount < TEST_METADATA_MAX
      PROVE  TypeI'
  <2>1. store' = store /\ Fault(reply'.status \in Failure, "setup")
    BY <1>4 DEF Read, GetVariable
  <2>2. troubles' \in 0..MaxTrouble /\ faults' \subseteq {"setup", "body", "cleanup"}
    <3>1. (reply'.status \in Failure) \in BOOLEAN
      OBVIOUS
    <3> QED BY <1>1, <2>1, <3>1, FaultType
  <2>3. TestMetadataCount = 7
    BY <1>4, Constants
  <2>4. CASE Enter(1)
    <3>1. TestPassedCount + TestFailedCount = 1 - 1 /\ 1 \in 1..7
      BY <1>1
    <3>2. store' \in [Var -> Entry] /\ Roomy(store') /\ live' \subseteq Freed /\ lost' \subseteq Freed
      BY <1>1, <1>2, <2>1 DEF TypeOKT
    <3> QED BY <1>1, <1>2, <2>2, <2>3, <2>4, <3>1, <3>2, EnterType
  <2>5. CASE phase' = "refused" /\ UNCHANGED <<test, pc, local>>
    <3>1. TypeOKT'
      BY <1>1, <1>2, <2>1, <2>2, <2>5, Constants DEF TypeOKT
    <3>2. SummaryAddsUp'
      BY <1>1, <1>2, <2>5 DEF SummaryAddsUp
    <3>3. (TestPassedCount + TestFailedCount <= TestMetadataCount)'
      BY <1>1, <1>2, Constants
    <3>4. Roomy(store)'
      BY <1>1, <2>1
    <3> QED BY <2>5, <3>1, <3>2, <3>3, <3>4 DEF TypeI
  <2>6. Enter(1) \/ (phase' = "refused" /\ UNCHANGED <<test, pc, local>>)
    <3>1. ~(TestMetadataCount >= TEST_METADATA_MAX)
      BY <1>4, Constants, SelfTestAssumption
    <3> QED BY <3>1 DEF RunModule
  <2> QED BY <2>4, <2>5, <2>6
<1>5. CASE TestMetadataCount >= TEST_METADATA_MAX
  BY <1>3, <1>5 DEF RunModule, svars
<1>6. CASE ~(TestMetadataCount >= TEST_METADATA_MAX)
  <2>1. TestMetadataCount < TEST_METADATA_MAX
    BY <1>6, Constants, SelfTestAssumption
  <2> QED BY <1>4, <1>6, <2>1 DEF RunModule
<1> QED BY <1>5, <1>6

(* A step of a test. *)
LEMMA BodyType == TypeI /\ Body => TypeI'
<1> SUFFICES ASSUME TypeI, Body PROVE TypeI'
  OBVIOUS
<1>1. /\ Moves /\ Keeps /\ Handles /\ Spends /\ Measured
      /\ UNCHANGED <<test, TestPassedCount, before, runs>>
  BY BodyEffect
<1>2. /\ TypeOKT /\ phase = "body" /\ pc \in Nat /\ pc >= 1 /\ test \in 1..7 /\ TestMetadataCount = 7
      /\ TestPassedCount \in Nat /\ TestFailedCount \in Nat
      /\ TestPassedCount + TestFailedCount = test - 1
  <2>1. phase = "body" /\ test \in 1..7
    BY StepType
  <2>2. TestPassedCount + TestFailedCount = test - 1
    BY <2>1, SummaryIs DEF TypeI
  <2> QED BY <2>1, <2>2 DEF TypeI, TypeOKT
<1>3. /\ phase' \in {"body", "cleanup"} /\ pc' \in Nat /\ pc' >= 1
      /\ phase' = "body" => TestFailedCount' = TestFailedCount
      /\ phase' = "cleanup" => TestFailedCount' = TestFailedCount + 1
  <2>1. CASE Leaves
    BY <1>2, <2>1 DEF Leaves
  <2>2. CASE Passes /\ pc' = pc + 1
    BY <1>2, <2>2 DEF Passes
  <2>3. CASE Passes /\ Skips
    <3>1. step.skip \in Nat
      BY <2>3, StepType, StepFields DEF Skips
    <3> QED BY <1>2, <2>3, <3>1 DEF Passes, Skips
  <2> QED BY <1>1, <2>1, <2>2, <2>3 DEF Moves
<1>4. TypeOKT'
  <2>1. store' \in [Var -> Entry]
    BY <1>1 DEF Keeps
  <2>2. {TestPassedCount, TestFailedCount}' \subseteq (0..TestMetadataCount)'
    BY <1>1, <1>2, <1>3, Constants
  <2>3. live' \subseteq Freed /\ lost' \subseteq Freed
    BY <1>1 DEF Handles
  <2>4. troubles' \in 0..MaxTrouble /\ faults' \subseteq {"setup", "body", "cleanup"}
    BY <1>1 DEF Spends
  <2>5. local' \in [space : Nat, max : Nat]
    BY <1>1 DEF Measured, Measures
  <2> QED BY <1>1, <1>2, <1>3, <2>1, <2>2, <2>3, <2>4, <2>5, Constants DEF TypeOKT
<1>5. SummaryAddsUp'
  BY <1>1, <1>2, <1>3 DEF SummaryAddsUp
<1>6. (TestPassedCount + TestFailedCount <= TestMetadataCount)'
  BY <1>1, <1>2, <1>3, Constants
<1>7. Roomy(store)'
  BY <1>1 DEF Keeps
<1> QED BY <1>1, <1>2, <1>3, <1>4, <1>5, <1>6, <1>7, Constants DEF TypeI

(* A test is over. *)
LEMMA ReturnType == TypeI /\ Return => TypeI'
<1> SUFFICES ASSUME TypeI, Return PROVE TypeI'
  OBVIOUS
<1>1. /\ TypeOKT /\ Roomy(store) /\ test >= 1 /\ test \in Nat /\ TestMetadataCount = 7 /\ test <= 7
      /\ TestPassedCount \in Nat /\ TestFailedCount \in Nat
      /\ TestPassedCount + TestFailedCount = test - 1
  BY SummaryIs DEF TypeI, TypeOKT, Return
<1>2. /\ UNCHANGED <<store, test, pc, local, live, lost, TestFailedCount, faults, runs, troubles>>
      /\ phase' = "cleanup" /\ TestPassedCount' = TestPassedCount + 1
  BY DEF Return, svars, ghosts
<1>3. TypeOKT'
  <2>1. {TestPassedCount, TestFailedCount}' \subseteq (0..TestMetadataCount)'
    BY <1>1, <1>2, Constants
  <2> QED BY <1>1, <1>2, <2>1, Constants DEF TypeOKT
<1>4. SummaryAddsUp'
  BY <1>1, <1>2 DEF SummaryAddsUp
<1>5. (TestPassedCount + TestFailedCount <= TestMetadataCount)'
  BY <1>1, <1>2, Constants
<1>6. Roomy(store)'
  BY <1>1, <1>2
<1> QED BY <1>1, <1>2, <1>3, <1>4, <1>5, <1>6, Constants DEF TypeI

(* The write of the cleanup, which nobody verifies. *)
LEMMA CleanupOutcome ==
  ASSUME TypeI, TestCleanup
  PROVE  LET v == QueryOverflowVariableName1 IN
         /\ store' \in [Var -> Entry] /\ Roomy(store')
         /\ store' = store \/ store' = [store EXCEPT ![v] = Absent]
         /\ UNCHANGED <<lost, TestPassedCount, TestFailedCount, runs>>
         /\ live' = {}
         /\ troubles' \in 0..MaxTrouble /\ faults' \subseteq {"setup", "body", "cleanup"}
         /\ "setup" \in faults => "setup" \in faults'
<1> DEFINE v == QueryOverflowVariableName1
<1>1. v \in Var /\ {} \in SUBSET Attribute /\ <<>> \in Seq(Tag)
  <2>1. 1 \in 1..7
    OBVIOUS
  <2> QED BY <2>1, WhoWritesWhat
<1>2. PICK status \in Due(v, {}, <<>>) \union Failure :
        LET wrong == status \notin Due(v, {}, <<>>) IN
        /\ SetVariable(v, {}, <<>>) /\ reply'.status = status
        /\ wrong => troubles < MaxTrouble
        /\ troubles' = IF wrong THEN troubles + 1 ELSE troubles
        /\ faults' = (faults \ {"body", "cleanup"}) \union IF wrong THEN {"cleanup"} ELSE {}
  BY DEF TestCleanup
<1>3. /\ store' \in [Var -> Entry] /\ Roomy(store')
      /\ \/ store' = [store EXCEPT ![v] = Written(store[v], {}, <<>>)]
         \/ store' = store
  <2>1. SetVariable(v, {}, <<>>) /\ reply'.status \in Due(v, {}, <<>>) \union Failure
    BY <1>2
  <2>2. TypeOKT /\ Roomy(store)
    BY DEF TypeI
  <2> HIDE DEF v
  <2> QED BY <1>1, <2>1, <2>2, WriteOutcome
<1>4. Written(store[v], {}, <<>>) = Absent
  BY DEF Written, IsDelete
<1>5. live' = {} /\ UNCHANGED <<lost, TestPassedCount, TestFailedCount, runs>>
  BY DEF TestCleanup, context, TypeI, TypeOKT
<1>6. /\ troubles' \in 0..MaxTrouble /\ faults' \subseteq {"setup", "body", "cleanup"}
      /\ "setup" \in faults => "setup" \in faults'
  <2>1. troubles \in 0..MaxTrouble /\ faults \subseteq {"setup", "body", "cleanup"}
    BY DEF TypeI, TypeOKT
  <2>2. troubles' \in 0..MaxTrouble
    BY <1>2, <2>1, Constants
  <2>3. /\ faults' \subseteq {"setup", "body", "cleanup"}
        /\ "setup" \in faults => "setup" \in faults'
    BY <1>2, <2>1
  <2> QED BY <2>2, <2>3
<1> QED BY <1>3, <1>4, <1>5, <1>6

(* A test is cleaned up after, and the next begins or none. *)
LEMMA TestCleanupType == TypeI /\ TestCleanup => TypeI'
<1> SUFFICES ASSUME TypeI, TestCleanup PROVE TypeI'
  OBVIOUS
<1>1. /\ TypeOKT /\ test \in 1..7 /\ TestMetadataCount = 7
      /\ TestPassedCount \in Nat /\ TestFailedCount \in Nat
      /\ TestPassedCount + TestFailedCount = test
  BY SummaryIs DEF TypeI, TypeOKT, TestCleanup
<1>2. /\ store' \in [Var -> Entry] /\ Roomy(store')
      /\ UNCHANGED <<lost, TestPassedCount, TestFailedCount, runs>>
      /\ live' = {}
      /\ troubles' \in 0..MaxTrouble /\ faults' \subseteq {"setup", "body", "cleanup"}
  BY CleanupOutcome
<1>3. CASE test < TestMetadataCount
  <2>1. Enter(test + 1) /\ test + 1 \in 1..7 /\ test + 1 - 1 = test
    BY <1>1, <1>3 DEF TestCleanup, NextTest
  <2>2. lost' \subseteq Freed /\ live' \subseteq Freed
    BY <1>1, <1>2 DEF TypeOKT
  <2>3. TestPassedCount + TestFailedCount = (test + 1) - 1
    BY <1>1
  <2> QED BY <1>1, <1>2, <2>1, <2>2, <2>3, EnterType
<1>4. CASE ~(test < TestMetadataCount)
  <2>1. phase' = "ended" /\ UNCHANGED <<test, pc, local>>
    BY <1>4 DEF TestCleanup, NextTest
  <2>2. TypeOKT'
    BY <1>1, <1>2, <2>1, Constants DEF TypeOKT
  <2>3. SummaryAddsUp'
    BY <1>1, <1>2, <2>1 DEF SummaryAddsUp
  <2>4. (TestPassedCount + TestFailedCount <= TestMetadataCount)'
    BY <1>1, <1>2, Constants
  <2>5. Roomy(store)'
    BY <1>2
  <2> QED BY <1>1, <2>1, <2>2, <2>3, <2>4, <2>5, Constants DEF TypeI
<1> QED BY <1>3, <1>4

(* A process dies. *)
LEMMA CrashType == TypeI /\ Crash => TypeI'
<1> SUFFICES ASSUME TypeI, Crash PROVE TypeI'
  OBVIOUS
<1>1. store' \in [Var -> Entry] /\ Roomy(store')
  BY RestartOutcome DEF TypeI, Crash
<1>2. troubles' \in 0..MaxTrouble
  BY Constants DEF Crash, TypeI, TypeOKT
<1>3. TypeOKT'
  BY <1>1, <1>2, Constants DEF Crash, TypeI, TypeOKT, context, Freed
<1>4. SummaryAddsUp'
  BY DEF Crash, SummaryAddsUp
<1>5. (TestPassedCount + TestFailedCount <= TestMetadataCount)'
  BY Constants DEF Crash, TypeI, context
<1>6. phase' = "off"
  BY DEF Crash
<1> QED BY <1>1, <1>3, <1>4, <1>5, <1>6 DEF TypeI

(* Nothing happens. *)
LEMMA StutterType == TypeI /\ UNCHANGED tvars => TypeI'
<1> SUFFICES ASSUME TypeI, UNCHANGED tvars PROVE TypeI'
  OBVIOUS
<1>1. UNCHANGED <<store, phase, test, pc, local, live, lost, TestPassedCount, TestFailedCount,
                  faults, before, runs, troubles>>
  BY DEF tvars, svars, context, ghosts
<1>2. TypeOKT'
  BY <1>1, Constants DEF TypeI, TypeOKT
<1>3. SummaryAddsUp'
  BY <1>1 DEF TypeI, SummaryAddsUp
<1>4. Roomy(store)'
  BY <1>1 DEF TypeI
<1> QED BY <1>1, <1>2, <1>3, <1>4, Constants DEF TypeI

(* The types, the room and the counts. *)
LEMMA TypeInvariance == SpecT => []TypeI
<1>1. InitT => TypeI
  BY InitType
<1>2. TypeI /\ [NextT]_tvars => TypeI'
  BY UefiMainType, RunModuleType, BodyType, ReturnType, TestCleanupType, CrashType, StutterType
     DEF NextT
<1> QED BY <1>1, <1>2, PTL DEF SpecT

(* The variables keep to their types; every byte a test writes is one of the
   known ones, and the counts do not outgrow the table. *)
THEOREM TypeCorrectT == SpecT => []TypeOKT
<1>1. TypeI => TypeOKT
  BY DEF TypeI
<1> QED BY <1>1, TypeInvariance, PTL

(* The summary of a run accounts for every test that was begun, whatever failed
   in it and whether or not a test was thrown out of (RunModule_ in EdkTest.h). *)
THEOREM SummaryIsComplete == SpecT => []SummaryAddsUp
<1>1. TypeI => SummaryAddsUp
  BY DEF TypeI
<1> QED BY <1>1, TypeInvariance, PTL

----------------------------------------------------------------------------
(* The buffers. *)

(* The only skip there is: the persistence test is not run for the first time. *)
LEMMA SkipFacts ==
  ASSUME TypeI, Body, Skips
  PROVE  /\ test = 2 /\ pc = 3 /\ pc' = 10
         /\ script = VerifyAppendShrinkReplacePersist
         /\ step = SkipIfAbsent(PersistanceTestFlag, 6)
         /\ ~Stored(store, PersistanceTestFlag)
<1>1. test \in 1..7 /\ local \in Measures /\ pc \in 1..Len(script)
  BY StepType
<1>2. step.op = "SkipIfAbsent"
  BY DEF Skips
<1>3. test = 2
  <2>1. test # 2 => Straight(script)
    BY <1>1, Scripts DEF script
  <2> QED BY <1>1, <1>2, <2>1 DEF Straight, step
<1>4. script = VerifyAppendShrinkReplacePersist
  BY <1>3, Tests, ScriptOf DEF script
<1>5. pc = 3 /\ step = SkipIfAbsent(PersistanceTestFlag, 6)
  BY <1>1, <1>2, <1>4, PersistScript DEF step
<1>6. step.skip = 6 /\ step.var = PersistanceTestFlag
  BY <1>5 DEF SkipIfAbsent
<1> QED BY <1>3, <1>4, <1>5, <1>6 DEF Skips

(* The script may change with what is measured, but not up to the next step. *)
LEMMA ScriptSteady ==
  ASSUME TypeI, Body
  PROVE  \/ script' = script
         \/ /\ step.op = "Query" /\ pc <= Len(script')
            /\ \A q \in 1..pc : Alike(script[q], script'[q])
<1>1. Measured /\ test' = test
  BY BodyEffect
<1>2. CASE local' = local
  BY <1>1, <1>2 DEF script
<1>3. CASE local' # local
  <2>1. step.op = "Query" /\ step.verified = "measured" /\ local' \in Measures
    BY <1>1, <1>3 DEF Measured
  <2>2. test \in 1..7 /\ local \in Measures /\ pc \in 1..Len(script)
    BY StepType
  <2>3. Steady(script, Script(TestFunc[test], local'))
    BY <2>1, <2>2, Scripts DEF script
  <2>4. script' = Script(TestFunc[test], local')
    BY <1>1 DEF script
  <2> QED BY <2>1, <2>2, <2>3, <2>4 DEF Steady, step
<1> QED BY <1>2, <1>3

(* A buffer is held at a step: it was allocated ahead of it, and not released since. *)
Held(S, n, b) ==
  \E i \in 1..Len(S) : /\ i < n /\ Allocates(S[i], b)
                       /\ \A j \in (i + 1)..Len(S) : j < n => ~Releases(S[j], b)

BufferI ==
  /\ lost = {}
  /\ phase = "module" => live = {}
  /\ phase = "body" => live \subseteq Buffers /\ \A b \in live : Held(script, pc, b)

(* No step overwrites a pointer that holds a buffer. *)
LEMMA NothingLost ==
  ASSUME TypeI, BufferI, Body
  PROVE  lost' = {}
<1> SUFFICES ASSUME NEW b \in lost' PROVE FALSE
  OBVIOUS
<1>1. phase = "body" /\ lost = {} /\ live \subseteq Buffers
  BY StepType DEF BufferI
<1>2. b \in live /\ (b = "mEnumVariableName" \/ Allocates(step, b))
  BY <1>1, BodyEffect DEF Handles
<1>3. b \in Buffers /\ Allocates(script[pc], b)
  BY <1>1, <1>2 DEF Buffers, step
<1>4. PICK i \in 1..Len(script) :
        /\ i < pc /\ Allocates(script[i], b)
        /\ \A j \in (i + 1)..Len(script) : j < pc => ~Releases(script[j], b)
  BY <1>1, <1>2 DEF BufferI, Held
<1>5. /\ pc \in 1..Len(script) /\ Len(script) \in Nat /\ i \in 1..(pc - 1)
      /\ Exclusive(script, b)
  <2>1. test \in 1..7 /\ local \in Measures /\ pc \in 1..Len(script)
    BY StepType
  <2>2. Sound(TestFunc[test], script)
    BY <2>1, Scripts DEF script
  <2>3. Exclusive(script, b)
    BY <1>3, <2>2 DEF Sound, Careful
  <2>4. Len(script) \in Nat
    BY <2>2 DEF Sound
  <2> QED BY <1>4, <2>1, <2>3, <2>4
<1>6. PICK j \in (i + 1)..(pc - 1) : Releases(script[j], b)
  BY <1>3, <1>4, <1>5 DEF Exclusive
<1>7. j \in (i + 1)..Len(script) /\ j < pc
  BY <1>5
<1> QED BY <1>4, <1>6, <1>7

(* What is held after a step was allocated by the script and not released. *)
LEMMA StillHeld ==
  ASSUME TypeI, BufferI, Body, Passes, NEW b \in live'
  PROVE  b \in Buffers /\ Held(script, pc, b)'
<1>1. phase = "body" /\ live \subseteq Buffers /\ \A c \in live : Held(script, pc, c)
  BY StepType DEF BufferI
<1>2. pc \in 1..Len(script) /\ Len(script) \in Nat
  <2>1. test \in 1..7 /\ local \in Measures /\ pc \in 1..Len(script)
    BY StepType
  <2>2. Sound(TestFunc[test], script)
    BY <2>1, Scripts DEF script
  <2> QED BY <2>1, <2>2 DEF Sound
<1>3. CASE Allocates(step, b)
  <2>1. b \in Buffers
    BY <1>3, StepType, StepFields DEF Allocates
  <2>2. pc' = pc + 1 /\ script' = script
    <3>1. step.op = "Allocate"
      BY <1>3 DEF Allocates
    <3> QED BY <3>1, BodyEffect, ScriptSteady DEF Moves, Leaves, Passes, Skips
  <2>3. \A j \in (pc + 1)..Len(script) : ~(j < pc + 1)
    BY <1>2
  <2>4. Held(script, pc + 1, b)
    BY <1>2, <1>3, <2>3 DEF Held, step
  <2> QED BY <2>1, <2>2, <2>4
<1>4. CASE ~Allocates(step, b)
  <2>1. b \in live /\ ~Releases(script[pc], b)
    BY <1>4, BodyEffect DEF Handles, step
  <2>2. PICK i \in 1..Len(script) :
          /\ i < pc /\ Allocates(script[i], b)
          /\ \A j \in (i + 1)..Len(script) : j < pc => ~Releases(script[j], b)
    BY <1>1, <2>1 DEF Held
  <2>3. CASE script' = script /\ pc' = pc + 1
    <3>1. \A j \in (i + 1)..Len(script) : j < pc + 1 => ~Releases(script[j], b)
      <4>1. \A j \in (i + 1)..Len(script) : j < pc + 1 => j < pc \/ j = pc
        BY <1>2
      <4> QED BY <2>1, <2>2, <4>1
    <3>2. i < pc + 1
      BY <1>2, <2>2
    <3>3. Held(script, pc + 1, b)
      BY <2>2, <3>1, <3>2 DEF Held
    <3> QED BY <1>1, <2>1, <2>3, <3>3
  <2>4. CASE Skips
    <3>1. /\ pc = 3 /\ pc' = 10 /\ script = VerifyAppendShrinkReplacePersist
          /\ step.op = "SkipIfAbsent"
      BY <2>4, SkipFacts DEF Skips
    <3>2. script' = script
      BY <3>1, ScriptSteady
    <3>3. \A j \in 4..9 : ~Releases(script[j], b)
      BY <3>1, PersistScript DEF IsQuiet
    <3>4. \A j \in (i + 1)..Len(script) : j < 10 => j < 3 \/ j = 3 \/ j \in 4..9
      BY <1>2
    <3>5. \A j \in (i + 1)..Len(script) : j < 10 => ~Releases(script[j], b)
      BY <2>1, <2>2, <3>1, <3>3, <3>4
    <3>6. i < 10
      BY <1>2, <2>2, <3>1
    <3>7. Held(script, 10, b)
      BY <2>2, <3>5, <3>6 DEF Held
    <3> QED BY <1>1, <2>1, <3>1, <3>2, <3>7
  <2>5. CASE pc' = pc + 1 /\ pc <= Len(script') /\ \A q \in 1..pc : Alike(script[q], script'[q])
    <3> DEFINE T == script'
    <3>1. T \in Seq(QueriesToo(MayWrite(TestFunc[test])) \union SkipSteps)
      <4>1. test \in 1..7 /\ test' = test /\ local' \in Measures
        BY StepType, BodyEffect DEF Measured
      <4>2. T = Script(TestFunc[test], local')
        BY <4>1 DEF script
      <4>3. Sound(TestFunc[test], Script(TestFunc[test], local'))
        BY <4>1, Scripts
      <4> QED BY <4>2, <4>3 DEF Sound
    <3>2. Len(T) \in Nat
      BY <3>1
    <3> HIDE DEF T
    <3>3. i \in 1..pc /\ i \in 1..Len(T) /\ i < pc + 1
      BY <1>2, <2>2, <2>5, <3>2 DEF T
    <3>4. \A q \in 1..pc : Alike(script[q], T[q])
      BY <2>5 DEF T
    <3>5. Allocates(T[i], b)
      BY <2>2, <3>3, <3>4 DEF Alike
    <3>6. \A j \in (i + 1)..Len(T) : j < pc + 1 =>
            j \in 1..pc /\ (j # pc => j \in (i + 1)..Len(script) /\ j < pc)
      BY <1>2, <2>2, <3>2, <3>3
    <3>7. \A j \in (i + 1)..Len(T) : j < pc + 1 => ~Releases(T[j], b)
      BY <2>1, <2>2, <3>4, <3>6 DEF Alike
    <3>8. Held(T, pc + 1, b)
      BY <3>3, <3>5, <3>7 DEF Held
    <3> QED BY <1>1, <2>1, <2>5, <3>8 DEF T
  <2>6. pc' = pc + 1 \/ Skips
    BY BodyEffect DEF Moves, Leaves, Passes
  <2>7. script' = script \/ (pc <= Len(script') /\ \A q \in 1..pc : Alike(script[q], script'[q]))
    BY ScriptSteady
  <2> QED BY <2>3, <2>4, <2>5, <2>6, <2>7
<1> QED BY <1>3, <1>4

(* Every step keeps the buffers accounted for. *)
LEMMA BufferStepInvariance == TypeI /\ BufferI /\ [NextT]_tvars => BufferI'
<1> SUFFICES ASSUME TypeI, BufferI, [NextT]_tvars PROVE BufferI'
  OBVIOUS
<1>1. CASE UefiMain
  BY <1>1 DEF UefiMain, BufferI
<1>2. CASE RunModule
  BY <1>2 DEF RunModule, BufferI, Enter
<1>3. CASE Body
  <2>1. lost' = {}
    BY <1>3, NothingLost
  <2>2. phase' = "cleanup" \/ Passes
    BY <1>3, BodyEffect DEF Moves, Leaves
  <2>3. CASE Passes
    BY <1>3, <2>1, <2>3, StillHeld DEF BufferI, Passes
  <2> QED BY <2>1, <2>2, <2>3 DEF BufferI
<1>4. CASE Return
  BY <1>4 DEF Return, BufferI
<1>5. CASE TestCleanup
  BY <1>5, CleanupOutcome DEF BufferI
<1>6. CASE Crash
  BY <1>6 DEF Crash, BufferI
<1>7. CASE UNCHANGED tvars
  BY <1>7 DEF tvars, BufferI, script
<1> QED BY <1>1, <1>2, <1>3, <1>4, <1>5, <1>6, <1>7 DEF NextT

(* No jump out of a test loses one of the global buffers: none is overwritten
   while it holds one, and every test begins with all of them NULL (TestCleanup
   and the bodies in AuthVarTest.c). *)
THEOREM NoBufferLost == SpecT => []BuffersReleased
<1>1. InitT => BufferI
  BY DEF InitT, BufferI
<1>2. TypeI /\ BufferI /\ [NextT]_tvars => BufferI'
  BY BufferStepInvariance
<1>3. TypeI /\ BufferI => BuffersReleased
  <2> SUFFICES ASSUME TypeI, BufferI PROVE BuffersReleased
    OBVIOUS
  <2>1. phase = "body" /\ pc = 1 => live = {}
    <3> SUFFICES ASSUME phase = "body", pc = 1, NEW b \in live PROVE FALSE
      OBVIOUS
    <3>1. PICK i \in 1..Len(script) : i < 1
      BY DEF BufferI, Held
    <3> QED BY <3>1
  <2> QED BY <2>1 DEF BuffersReleased, BufferI
<1> QED BY <1>1, <1>2, <1>3, TypeInvariance, PTL DEF SpecT

----------------------------------------------------------------------------
(* The store. *)

(* What a step leaves of a variable: only a write the test may do changes it. *)
LEMMA OneWrite ==
  ASSUME TypeI, Body, NEW v \in Var, store'[v] # store[v]
  PROVE  /\ Writes(step, v) /\ v \in MayWrite(TestFunc[test])
         /\ store'[v] = Written(store[v], step.attrs, step.data)
         /\ Passes => step.status = "SUCCESS"
<1>1. store \in [Var -> Entry]
  BY DEF TypeI, TypeOKT
<1>2. /\ step.op = "Set"
      /\ store' = [store EXCEPT ![step.var] = Written(store[step.var], step.attrs, step.data)]
      /\ Passes => step.status = "SUCCESS"
  BY BodyEffect DEF Keeps, Sets
<1>3. v = step.var
  BY <1>1, <1>2
<1>4. step.var \in MayWrite(TestFunc[test])
  BY <1>2, StepType, StepFields
<1> QED BY <1>1, <1>2, <1>3, <1>4 DEF Writes

(* The persistence test goes through its script, or skips to the writes. *)
LEMMA PersistStep ==
  ASSUME TypeI, Body, test = 2
  PROVE  /\ script = VerifyAppendShrinkReplacePersist /\ script' = script
         /\ pc \in 1..46
         /\ Passes => pc' = pc + 1 \/ (pc = 3 /\ pc' = 10)
<1>1. script = VerifyAppendShrinkReplacePersist
  BY Tests, ScriptOf DEF script
<1>2. script' = VerifyAppendShrinkReplacePersist
  <2>1. test' = test
    BY BodyEffect
  <2> QED BY <2>1, Tests, ScriptOf DEF script
<1>3. pc \in 1..46
  BY <1>1, StepType, PersistScript
<1>4. Passes => pc' = pc + 1 \/ (pc = 3 /\ pc' = 10)
  BY BodyEffect, SkipFacts DEF Moves, Leaves, Passes
<1> QED BY <1>1, <1>2, <1>3, <1>4

(* A variable is known to be absent, or to be as given, at a step: this has been
   seen, and it was not written since. *)
Gone(S, n, v) ==
  \E p \in 1..Len(S) : /\ p < n /\ Denies(S[p], v)
                       /\ \A q \in (p + 1)..Len(S) : q < n => ~Writes(S[q], v)
Checked(S, n, v, e) ==
  \E p \in 10..Len(S) : /\ p < n /\ Confirms(S[p], v, e)
                        /\ \A q \in (p + 1)..Len(S) : q < n => ~Writes(S[q], v)

GoneI == phase = "body" => \A v \in Var : Gone(script, pc, v) => ~Stored(store, v)

(* What was seen to be absent is absent until it is written. *)
LEMMA StillGone ==
  ASSUME TypeI, GoneI, Body, Passes, NEW v \in Var, Gone(script, pc, v)'
  PROVE  ~Stored(store', v)
<1>1. phase = "body" /\ pc \in 1..Len(script) /\ Len(script) \in Nat
  <2>1. test \in 1..7 /\ local \in Measures /\ pc \in 1..Len(script) /\ phase = "body"
    BY StepType
  <2>2. Sound(TestFunc[test], script)
    BY <2>1, Scripts DEF script
  <2> QED BY <2>1, <2>2 DEF Sound
<1>2. Gone(script, pc, v) => ~Stored(store, v)
  BY <1>1 DEF GoneI
<1>3. ~Writes(step, v) => store'[v] = store[v]
  BY OneWrite
<1>4. Denies(step, v) => ~Stored(store, v) /\ store'[v] = store[v]
  <2>1. Denies(step, v) => ~Writes(step, v)
    BY DEF Denies, Writes
  <2>2. Denies(step, v) => ~Stored(store, v)
    BY BodyEffect DEF Keeps
  <2> QED BY <1>3, <2>1, <2>2
<1>5. CASE script' = script /\ pc' = pc + 1
  <2>1. PICK p \in 1..Len(script) :
          /\ p < pc + 1 /\ Denies(script[p], v)
          /\ \A q \in (p + 1)..Len(script) : q < pc + 1 => ~Writes(script[q], v)
    BY <1>5 DEF Gone
  <2>2. CASE p = pc
    BY <1>4, <2>1, <2>2 DEF Stored, step
  <2>3. CASE p # pc
    <3>1. p < pc /\ pc \in (p + 1)..Len(script) /\ pc < pc + 1
      BY <1>1, <2>1, <2>3
    <3>2. ~Writes(step, v)
      BY <2>1, <3>1 DEF step
    <3>3. \A q \in (p + 1)..Len(script) : q < pc => q < pc + 1
      BY <1>1
    <3>4. Gone(script, pc, v)
      BY <2>1, <3>1, <3>3 DEF Gone
    <3> QED BY <1>2, <1>3, <3>2, <3>4 DEF Stored
  <2> QED BY <2>2, <2>3
<1>6. CASE Skips
  <2>1. /\ pc = 3 /\ pc' = 10 /\ script = VerifyAppendShrinkReplacePersist /\ script' = script
        /\ step = SkipIfAbsent(PersistanceTestFlag, 6) /\ ~Stored(store, PersistanceTestFlag)
        /\ step.op = "SkipIfAbsent"
    BY <1>6, SkipFacts, PersistStep DEF Skips
  <2>2. store'[v] = store[v]
    BY <1>3, <2>1 DEF Writes
  <2>3. PICK p \in 1..Len(script) :
          /\ p < 10 /\ Denies(script[p], v)
          /\ \A q \in (p + 1)..Len(script) : q < 10 => ~Writes(script[q], v)
    BY <2>1 DEF Gone
  <2>4. p \in 4..9 \/ p = 3 \/ p < 3
    BY <2>3
  <2>5. CASE p \in 4..9
    <3>1. v = PersistanceTestFlag
      BY <2>1, <2>3, <2>5, PersistScript
    <3> QED BY <2>1, <2>2, <3>1 DEF Stored
  <2>6. CASE p = 3
    BY <2>1, <2>3, <2>6 DEF Denies, step
  <2>7. CASE p < 3
    <3>1. \A q \in (p + 1)..Len(script) : q < 3 => q < 10
      BY <1>1
    <3>2. Gone(script, 3, v)
      BY <2>3, <2>7, <3>1 DEF Gone
    <3> QED BY <1>2, <2>1, <2>2, <3>2 DEF Stored
  <2> QED BY <2>4, <2>5, <2>6, <2>7
<1>7. CASE /\ pc' = pc + 1 /\ step.op = "Query" /\ pc <= Len(script')
           /\ \A q \in 1..pc : Alike(script[q], script'[q])
  <2> DEFINE T == script'
  <2>1. PICK p \in 1..Len(T) :
          /\ p < pc + 1 /\ Denies(T[p], v)
          /\ \A q \in (p + 1)..Len(T) : q < pc + 1 => ~Writes(T[q], v)
    BY <1>7 DEF Gone
  <2>2. Len(T) \in Nat
    <3>1. test \in 1..7 /\ test' = test /\ local' \in Measures
      BY StepType, BodyEffect DEF Measured
    <3>2. T = Script(TestFunc[test], local')
      BY <3>1 DEF script
    <3>3. Sound(TestFunc[test], Script(TestFunc[test], local'))
      BY <3>1, Scripts
    <3> QED BY <3>2, <3>3 DEF Sound
  <2>3. pc <= Len(T) /\ \A q \in 1..pc : Alike(script[q], T[q])
    BY <1>7
  <2> HIDE DEF T
  <2>4. p \in 1..pc /\ Denies(script[p], v)
    <3>1. p \in 1..pc
      BY <1>1, <2>1, <2>2
    <3> QED BY <2>1, <2>3, <3>1 DEF Alike
  <2>5. p < pc
    <3>1. ~Denies(step, v)
      BY <1>7 DEF Denies
    <3> QED BY <1>1, <2>4, <3>1 DEF step
  <2>6. \A q \in (p + 1)..Len(script) : q < pc => q \in 1..pc /\ q \in (p + 1)..Len(T) /\ q < pc + 1
    BY <1>1, <2>2, <2>3, <2>4
  <2>7. \A q \in (p + 1)..Len(script) : q < pc => ~Writes(script[q], v)
    BY <2>1, <2>3, <2>6 DEF Alike
  <2>8. Gone(script, pc, v)
    <3>1. p \in 1..Len(script)
      BY <1>1, <2>4
    <3> QED BY <2>4, <2>5, <2>7, <3>1 DEF Gone
  <2>9. ~Writes(step, v)
    BY <1>7 DEF Writes
  <2> QED BY <1>2, <1>3, <2>8, <2>9 DEF Stored
<1>8. pc' = pc + 1 \/ Skips
  BY BodyEffect DEF Moves, Leaves, Passes
<1>9. script' = script \/ (/\ step.op = "Query" /\ pc <= Len(script')
                           /\ \A q \in 1..pc : Alike(script[q], script'[q]))
  BY ScriptSteady
<1> QED BY <1>5, <1>6, <1>7, <1>8, <1>9

(* The flag and what it vouches for, in the test that writes them. *)
FlagI ==
  phase = "body" /\ test = 2 =>
    /\ pc \in 5..45 => ~Stored(store, PersistanceTestFlag)
    /\ pc = 46 \/ pc > 46 => Stored(store, PersistanceTestFlag)
    /\ \A k \in 1..3 : \A e :
         /\ e.attrs = BaseAttributes /\ e.data = Persisted[k].data
         /\ Checked(script, pc, Persisted[k].var, e)
         => store[Persisted[k].var].attrs = e.attrs /\ store[Persisted[k].var].data = e.data
FrameI ==
  phase = "body" =>
    \A v \in Var : v \notin Kept(TestFunc[test]) \union Deleted(TestFunc[test]) => store[v] = before[v]

StoreI == FlagMeansWritten /\ ProvisionedKept /\ GoneI /\ FlagI /\ FrameI

(* The flag is gone while a test writes what it vouches for, and is written when
   all of it has been read back. *)
LEMMA FlagStep ==
  ASSUME TypeI, StoreI, Body, test = 2
  PROVE  /\ Passes /\ pc' \in 5..45 => ~Stored(store', PersistanceTestFlag)
         /\ Passes /\ (pc' = 46 \/ pc' > 46) => Stored(store', PersistanceTestFlag)
<1> DEFINE flag == PersistanceTestFlag
<1>1. /\ script = VerifyAppendShrinkReplacePersist /\ pc \in 1..46
      /\ Passes => pc' = pc + 1 \/ (pc = 3 /\ pc' = 10)
  BY PersistStep
<1>2. flag \in Var /\ store \in [Var -> Entry] /\ phase = "body"
  <2>1. flag \in Var
    BY TestVariableAssumption DEF Persistent
  <2> QED BY <2>1, StepType DEF TypeI, TypeOKT
<1>3. store'[flag] # store[flag] => pc = 4 \/ pc = 45
  BY <1>1, <1>2, OneWrite, PersistScript DEF step
<1>4. Passes /\ pc = 4 => ~Stored(store', flag)
  <2> SUFFICES ASSUME Passes, pc = 4 PROVE ~Stored(store', flag)
    OBVIOUS
  <2>1. step = Set(flag, BaseAttributes, <<>>, "SUCCESS")
    BY <1>1, PersistScript DEF step
  <2>2. Sets /\ step.var = flag /\ step.attrs = BaseAttributes /\ step.data = <<>>
    BY <2>1, BodyEffect DEF Keeps, Set
  <2>3. store'[flag] = Written(store[flag], BaseAttributes, <<>>)
    BY <1>2, <2>2 DEF Sets
  <2>4. Written(store[flag], BaseAttributes, <<>>) = Absent
    BY DEF Written, IsDelete, BaseAttributes
  <2> QED BY <2>3, <2>4 DEF Stored, Absent
<1>5. Passes /\ pc = 45 => Stored(store', flag)
  <2> SUFFICES ASSUME Passes, pc = 45 PROVE Stored(store', flag)
    OBVIOUS
  <2>1. step = Set(flag, BaseAttributes, Bytes(1, 1), "SUCCESS")
    BY <1>1, PersistScript DEF step
  <2>2. Sets /\ step.var = flag /\ step.attrs = BaseAttributes /\ step.data = Bytes(1, 1)
    BY <2>1, BodyEffect DEF Keeps, Set
  <2>3. store'[flag] = Written(store[flag], BaseAttributes, Bytes(1, 1))
    BY <1>2, <2>2 DEF Sets
  <2>4. Bytes(1, 1) # <<>>
    BY BytesType DEF Garbage
  <2>5. Written(store[flag], BaseAttributes, Bytes(1, 1)).data = Bytes(1, 1)
    BY <2>4 DEF Written, IsDelete, BaseAttributes
  <2> QED BY <2>3, <2>4, <2>5 DEF Stored
<1>6. pc \in 5..45 => ~Stored(store, flag)
  BY <1>2 DEF StoreI, FlagI
<1>7. pc = 46 => Stored(store, flag)
  BY <1>2 DEF StoreI, FlagI
<1>8. ASSUME Passes, pc' \in 5..45 PROVE ~Stored(store', flag)
  <2>1. CASE pc = 3 /\ pc' = 10
    <3>1. pc' # pc + 1
      BY <2>1
    <3>2. Skips
      BY <1>8, <3>1, BodyEffect DEF Moves, Leaves, Passes
    <3>3. ~Stored(store, flag)
      BY <3>2, SkipFacts
    <3> QED BY <1>3, <2>1, <3>3 DEF Stored
  <2>2. CASE pc = 4
    BY <1>4, <1>8, <2>2
  <2>3. CASE pc \in 5..44
    <3>1. pc \in 5..45 /\ pc # 4 /\ pc # 45
      BY <2>3
    <3> QED BY <1>3, <1>6, <3>1 DEF Stored
  <2>4. (pc = 3 /\ pc' = 10) \/ pc = 4 \/ pc \in 5..44
    BY <1>1, <1>8
  <2> QED BY <2>1, <2>2, <2>3, <2>4
<1>9. ASSUME Passes, pc' = 46 \/ pc' > 46 PROVE Stored(store', flag)
  <2>1. pc = 45 \/ pc = 46
    BY <1>1, <1>9
  <2>2. CASE pc = 46
    BY <1>3, <1>7, <2>2 DEF Stored
  <2> QED BY <1>5, <1>9, <2>1, <2>2
<1> QED BY <1>8, <1>9

(* What was read back as the flag vouches for stays so until it is written. *)
LEMMA CheckedStep ==
  ASSUME TypeI, StoreI, Body, test = 2, Passes, NEW k \in 1..3, NEW e,
         e.attrs = BaseAttributes, e.data = Persisted[k].data,
         Checked(script, pc, Persisted[k].var, e)'
  PROVE  store'[Persisted[k].var].attrs = e.attrs /\ store'[Persisted[k].var].data = e.data
<1> DEFINE v == Persisted[k].var
<1>1. /\ script = VerifyAppendShrinkReplacePersist /\ script' = script /\ pc \in 1..46
      /\ (pc' = pc + 1 \/ (pc = 3 /\ pc' = 10)) /\ Len(script) = 46
  BY PersistStep, PersistScript
<1>2. v \in Var /\ phase = "body"
  BY PersistedParts, StepType
<1>3. ~Writes(step, v) => store'[v] = store[v]
  BY <1>2, OneWrite
<1>4. PICK p \in 10..46 :
        /\ p < pc' /\ Confirms(script[p], v, e)
        /\ \A q \in (p + 1)..46 : q < pc' => ~Writes(script[q], v)
  BY <1>1 DEF Checked
<1>5. pc' = pc + 1
  BY <1>1, <1>4
<1>6. CASE p = pc
  <2>1. Confirms(step, v, e) /\ ~Writes(step, v)
    BY <1>4, <1>6 DEF step, Confirms, Writes
  <2>2. store[v].attrs = e.attrs /\ store[v].data = e.data
    BY <2>1, BodyEffect DEF Keeps
  <2> QED BY <1>3, <2>1, <2>2
<1>7. CASE p # pc
  <2>1. p < pc /\ pc \in (p + 1)..46 /\ pc < pc'
    BY <1>1, <1>4, <1>5, <1>7
  <2>2. ~Writes(step, v)
    BY <1>4, <2>1 DEF step
  <2>3. \A q \in (p + 1)..46 : q < pc => q < pc'
    BY <1>1, <1>5
  <2>4. Checked(script, pc, v, e)
    BY <1>1, <1>4, <2>1, <2>3 DEF Checked
  <2>5. store[v].attrs = e.attrs /\ store[v].data = e.data
    BY <1>2, <2>4 DEF StoreI, FlagI
  <2> QED BY <1>3, <2>2, <2>5
<1> QED BY <1>6, <1>7

(* No step puts the flag ahead of what it vouches for. *)
LEMMA FlagHolds ==
  ASSUME TypeI, StoreI, Body
  PROVE  FlagMeansWritten'
<1> DEFINE flag == PersistanceTestFlag
<1> SUFFICES ASSUME Stored(store', flag), NEW k \in 1..3
             PROVE  store'[Persisted[k].var] = [attrs |-> BaseAttributes, data |-> Persisted[k].data]
  BY DEF FlagMeansWritten
<1> DEFINE v == Persisted[k].var
           e == [attrs |-> BaseAttributes, data |-> Persisted[k].data]
<1>1. flag \in Var /\ flag \in Persistent /\ v \in Var /\ v # flag /\ v \in Persistent
  BY TestVariableAssumption, PersistedParts DEF Persistent
<1>2. store \in [Var -> Entry] /\ phase = "body" /\ test \in 1..7
  BY StepType DEF TypeI, TypeOKT
<1>3. \A w \in Persistent : w \in Var /\ store'[w] # store[w] => test = 2
  BY <1>2, OneWrite, WhoWritesWhat
<1>4. CASE store'[flag] # store[flag]
  <2>1. test = 2 /\ Writes(step, flag)
    BY <1>1, <1>3, <1>4, OneWrite
  <2>2. script = VerifyAppendShrinkReplacePersist /\ pc \in 1..46
    BY <2>1, PersistStep
  <2>3. pc = 45
    <3>1. pc = 4 \/ pc = 45
      BY <2>1, <2>2, PersistScript DEF step
    <3>2. pc # 4
      <4> SUFFICES ASSUME pc = 4 PROVE FALSE
        OBVIOUS
      <4>1. step = Set(flag, BaseAttributes, <<>>, "SUCCESS")
        BY <2>2, PersistScript DEF step
      <4>2. step.attrs = BaseAttributes /\ step.data = <<>>
        BY <4>1 DEF Set
      <4>3. store'[flag] = Written(store[flag], BaseAttributes, <<>>)
        BY <1>1, <1>4, <4>2, OneWrite
      <4>4. Written(store[flag], BaseAttributes, <<>>) = Absent
        BY DEF Written, IsDelete, BaseAttributes
      <4> QED BY <4>3, <4>4 DEF Stored, Absent
    <3> QED BY <3>1, <3>2
  <2>4. e.attrs = BaseAttributes /\ e.data = Persisted[k].data
    OBVIOUS
  <2> HIDE DEF e
  <2>5. PICK p \in 10..44 : /\ Confirms(script[p], v, e)
                            /\ \A q \in (p + 1)..46 : ~Writes(script[q], v)
    BY <2>2, <2>4, PersistScript
  <2>6. Checked(script, pc, v, e)
    <3>1. p \in 10..46 /\ p < 45
      OBVIOUS
    <3>2. Len(script) = 46
      BY <2>2, PersistScript
    <3> QED BY <2>3, <2>5, <3>1, <3>2 DEF Checked
  <2>7. store[v].attrs = e.attrs /\ store[v].data = e.data
    BY <1>2, <2>1, <2>4, <2>6 DEF StoreI, FlagI
  <2>8. store'[v] = store[v]
    BY <1>1, <2>1, OneWrite DEF Writes
  <2> QED BY <1>1, <1>2, <2>4, <2>7, <2>8 DEF Entry
<1>5. CASE store'[flag] = store[flag]
  <2>1. Stored(store, flag) /\ store[v] = e
    BY <1>5 DEF Stored, StoreI, FlagMeansWritten
  <2>2. store'[v] = store[v]
    <3> SUFFICES ASSUME store'[v] # store[v] PROVE FALSE
      OBVIOUS
    <3>1. test = 2 /\ Writes(step, v)
      BY <1>1, <1>3, OneWrite
    <3>2. script = VerifyAppendShrinkReplacePersist /\ pc \in 1..46
      BY <3>1, PersistStep
    <3>3. pc \notin {1, 2, 3, 46}
      BY <3>1, <3>2, PersistScript DEF step
    <3>4. pc \notin 4..9
      BY <1>1, <3>1, <3>2, PersistScript DEF step
    <3>5. pc \in 5..45
      BY <3>2, <3>3, <3>4
    <3> QED BY <1>2, <2>1, <3>1, <3>5 DEF StoreI, FlagI
  <2> QED BY <2>1, <2>2
<1> QED BY <1>4, <1>5

(* What is stored when a machine starts was stored when it stopped. *)
LEMMA FlagSurvives ==
  ASSUME TypeOKT, Roomy(store), FlagMeansWritten, Restart
  PROVE  FlagMeansWritten'
<1> SUFFICES ASSUME Stored(store', PersistanceTestFlag), NEW k \in 1..3
             PROVE  store'[Persisted[k].var] = [attrs |-> BaseAttributes, data |-> Persisted[k].data]
  BY DEF FlagMeansWritten
<1>1. PersistanceTestFlag \in Var /\ Persisted[k].var \in Var
  BY TestVariableAssumption, PersistedParts DEF Persistent
<1>2. \A v \in Var : store'[v] = store[v] \/ ("NV" \notin store[v].attrs /\ store'[v] = Absent)
  BY RestartOutcome
<1>3. Stored(store, PersistanceTestFlag)
  BY <1>1, <1>2 DEF Stored, Absent
<1>4. store[Persisted[k].var] = [attrs |-> BaseAttributes, data |-> Persisted[k].data]
  BY <1>3 DEF FlagMeansWritten
<1>5. "NV" \in store[Persisted[k].var].attrs
  BY <1>4 DEF BaseAttributes
<1> QED BY <1>1, <1>2, <1>4, <1>5

(* The store before the first run. *)
LEMMA InitStore == InitT => StoreI
<1> SUFFICES ASSUME InitT PROVE StoreI
  OBVIOUS
<1>1. PersistanceTestFlag \in Var /\ PersistanceTestFlag # PK
  BY TestVariableAssumption, SelfTestAssumption DEF Persistent
<1>2. ~Stored(store, PersistanceTestFlag)
  BY <1>1 DEF InitT, Stored, Absent
<1>3. phase = "off"
  BY DEF InitT
<1> QED BY <1>2, <1>3 DEF StoreI, FlagMeansWritten, ProvisionedKept, GoneI, FlagI, FrameI

(* A test begins with nothing known of the store but what is in it. *)
LEMMA EnterStore ==
  ASSUME NEW i \in 1..7, Enter(i)
  PROVE  GoneI' /\ FlagI' /\ FrameI'
<1>1. phase' = "body" /\ pc' = 1 /\ before' = store'
  BY DEF Enter
<1>2. \A v : ~Gone(script, pc, v)'
  BY <1>1 DEF Gone
<1>3. \A v, e : ~Checked(script, pc, v, e)'
  BY <1>1 DEF Checked
<1>4. GoneI'
  BY <1>2 DEF GoneI
<1>5. FlagI'
  BY <1>1, <1>3 DEF FlagI
<1>6. FrameI'
  BY <1>1 DEF FrameI
<1> QED BY <1>4, <1>5, <1>6

(* The module is set up only where no platform key was seen. *)
LEMMA RunModuleStore == TypeI /\ StoreI /\ RunModule => StoreI'
<1> SUFFICES ASSUME TypeI, StoreI, RunModule PROVE StoreI'
  OBVIOUS
<1>1. store' = store
  BY DEF RunModule, svars, Read, GetVariable
<1>2. FlagMeansWritten'
  BY <1>1 DEF StoreI, FlagMeansWritten, Stored
<1>3. CASE phase' = "refused"
  BY <1>2, <1>3 DEF StoreI, ProvisionedKept, GoneI, FlagI, FrameI
<1>4. CASE Read(PK, 0, "setup") /\ ModuleSetup /\ Enter(1)
  <2>1. 1 \in 1..7
    OBVIOUS
  <2>2. Stored(store, PK) => "setup" \in faults'
    <3> SUFFICES ASSUME Stored(store, PK) PROVE "setup" \in faults'
      OBVIOUS
    <3>1. PK \in Var /\ store \in [Var -> Entry] /\ TypeOKT
      BY SelfTestAssumption DEF TypeI, TypeOKT
    <3>2. store[PK].data \in Seq(Tag) /\ store[PK].data # <<>>
      BY <3>1 DEF Stored, Entry
    <3>3. ~(Len(store[PK].data) <= 0)
      BY <3>2
    <3>4. reply'.status \in Failure
      <4>1. GetVariable(PK, 0) /\ 0 \in Nat
        BY <1>4 DEF Read
      <4>2. reply'.status # "BUFFER_TOO_SMALL"
        BY <1>4 DEF ModuleSetup
      <4> QED BY <3>1, <3>3, <4>1, <4>2, ReadOutcome
    <3> QED BY <1>4, <3>4 DEF Read, Fault
  <2>3. ProvisionedKept'
    BY <1>1, <2>2 DEF ProvisionedKept, Stored
  <2> QED BY <1>2, <1>4, <2>1, <2>3, EnterStore DEF StoreI
<1>5. phase' = "refused" \/ (Read(PK, 0, "setup") /\ ModuleSetup /\ Enter(1))
  BY DEF RunModule
<1> QED BY <1>3, <1>4, <1>5

(* A step of a test. *)
LEMMA BodyStore == TypeI /\ StoreI /\ Body => StoreI'
<1> SUFFICES ASSUME TypeI, StoreI, Body PROVE StoreI'
  OBVIOUS
<1>1. FlagMeansWritten'
  BY FlagHolds
<1>2. /\ phase = "body" /\ test \in 1..7 /\ test' = test /\ before' = before /\ faults \subseteq faults'
      /\ Leaves \/ Passes
  BY BodyEffect, StepType DEF Moves, Spends
<1>3. ProvisionedKept'
  <2>1. PK \in Var /\ PK \notin MayWrite(TestFunc[test])
    BY <1>2, WhoWritesWhat, SelfTestAssumption
  <2>2. store'[PK] = store[PK]
    BY <2>1, OneWrite
  <2>3. Stored(store, PK) => "setup" \in faults
    BY <1>2 DEF StoreI, ProvisionedKept
  <2> QED BY <1>2, <2>2, <2>3 DEF ProvisionedKept, Stored
<1>4. CASE Leaves
  BY <1>1, <1>3, <1>4 DEF Leaves, StoreI, GoneI, FlagI, FrameI
<1>5. CASE Passes
  <2>1. GoneI'
    BY <1>5, StillGone DEF StoreI, GoneI
  <2>2. FlagI'
    <3>1. test = 2 => /\ pc' \in 5..45 => ~Stored(store', PersistanceTestFlag)
                      /\ (pc' = 46 \/ pc' > 46) => Stored(store', PersistanceTestFlag)
      BY <1>5, FlagStep
    <3>2. test = 2 => \A k \in 1..3 : \A e :
            /\ e.attrs = BaseAttributes /\ e.data = Persisted[k].data
            /\ Checked(script, pc, Persisted[k].var, e)'
            => store'[Persisted[k].var].attrs = e.attrs /\ store'[Persisted[k].var].data = e.data
      BY <1>5, CheckedStep
    <3> QED BY <1>2, <3>1, <3>2 DEF FlagI
  <2>3. FrameI'
    <3> DEFINE func == TestFunc[test]
    <3> SUFFICES ASSUME NEW v \in Var, v \notin Kept(func) \union Deleted(func)
                 PROVE  store'[v] = before[v]
      BY <1>2 DEF FrameI
    <3>1. store[v] = before[v]
      BY <1>2 DEF StoreI, FrameI
    <3>2. store'[v] = store[v]
      <4> SUFFICES ASSUME store'[v] # store[v] PROVE FALSE
        OBVIOUS
      <4>1. Writes(step, v) /\ step.status = "SUCCESS"
        BY <1>5, OneWrite
      <4>2. local \in Measures /\ pc \in 1..Len(script)
        BY StepType
      <4>3. Sound(func, script)
        BY <1>2, <4>2, Scripts DEF script
      <4>4. v \in Kept(func) \union Deleted(func) \/ step.status # "SUCCESS"
        BY <4>1, <4>2, <4>3 DEF Sound, step
      <4> QED BY <4>1, <4>4
    <3> QED BY <3>1, <3>2
  <2> QED BY <1>1, <1>3, <2>1, <2>2, <2>3 DEF StoreI
<1> QED BY <1>2, <1>4, <1>5

(* The cleanup writes the overflow variable alone. *)
LEMMA TestCleanupStore == TypeI /\ StoreI /\ TestCleanup => StoreI'
<1> SUFFICES ASSUME TypeI, StoreI, TestCleanup PROVE StoreI'
  OBVIOUS
<1> DEFINE v == QueryOverflowVariableName1
<1>1. /\ store' = store \/ store' = [store EXCEPT ![v] = Absent]
      /\ "setup" \in faults => "setup" \in faults'
  BY CleanupOutcome
<1>2. v \in Var /\ v \notin Persistent /\ v # PK /\ PK \in Var /\ store \in [Var -> Entry]
  <2>1. 1 \in 1..7
    OBVIOUS
  <2> QED BY <2>1, WhoWritesWhat, SelfTestAssumption DEF TypeI, TypeOKT
<1>3. \A w \in Var : w # v => store'[w] = store[w]
  BY <1>1, <1>2
<1>4. FlagMeansWritten'
  <2>1. PersistanceTestFlag \in Var /\ PersistanceTestFlag # v
    BY <1>2, TestVariableAssumption DEF Persistent
  <2>2. \A k \in 1..3 : Persisted[k].var \in Var /\ Persisted[k].var # v
    BY <1>2, PersistedParts DEF Persistent
  <2> HIDE DEF v
  <2> QED BY <1>3, <2>1, <2>2 DEF StoreI, FlagMeansWritten, Stored
<1>5. ProvisionedKept'
  <2>1. store'[PK] = store[PK]
    BY <1>2, <1>3
  <2>2. Stored(store, PK) => "setup" \in faults
    BY DEF StoreI, ProvisionedKept, TestCleanup
  <2> QED BY <1>1, <2>1, <2>2 DEF ProvisionedKept, Stored
<1>6. CASE test < TestMetadataCount
  <2>1. Enter(test + 1) /\ test + 1 \in 1..7
    BY <1>6 DEF TestCleanup, NextTest, TypeI, TypeOKT
  <2> QED BY <1>4, <1>5, <2>1, EnterStore DEF StoreI
<1>7. CASE ~(test < TestMetadataCount)
  <2>1. phase' = "ended"
    BY <1>7 DEF TestCleanup, NextTest
  <2> QED BY <1>4, <1>5, <2>1 DEF StoreI, GoneI, FlagI, FrameI
<1> QED BY <1>6, <1>7

(* Every step keeps what is said of the store. *)
LEMMA StoreInvariance == TypeI /\ StoreI /\ [NextT]_tvars => StoreI'
<1> SUFFICES ASSUME TypeI, StoreI, [NextT]_tvars PROVE StoreI'
  OBVIOUS
<1>1. CASE UefiMain
  <2>1. FlagMeansWritten'
    BY <1>1, FlagSurvives DEF UefiMain, TypeI, StoreI
  <2> QED BY <1>1, <2>1 DEF UefiMain, StoreI, ProvisionedKept, GoneI, FlagI, FrameI
<1>2. CASE RunModule
  BY <1>2, RunModuleStore
<1>3. CASE Body
  BY <1>3, BodyStore
<1>4. CASE Return
  <2>1. /\ store' = store /\ faults' = faults /\ phase = "body" /\ phase' = "cleanup"
    BY <1>4 DEF Return, svars, ghosts
  <2> QED BY <2>1 DEF StoreI, FlagMeansWritten, ProvisionedKept, GoneI, FlagI, FrameI, Stored
<1>5. CASE TestCleanup
  BY <1>5, TestCleanupStore
<1>6. CASE Crash
  <2>1. FlagMeansWritten'
    BY <1>6, FlagSurvives DEF Crash, TypeI, StoreI
  <2> QED BY <1>6, <2>1 DEF Crash, StoreI, ProvisionedKept, GoneI, FlagI, FrameI
<1>7. CASE UNCHANGED tvars
  BY <1>7 DEF tvars, svars, ghosts, StoreI, FlagMeansWritten, ProvisionedKept, GoneI, FlagI, FrameI,
              Stored, script
<1> QED BY <1>1, <1>2, <1>3, <1>4, <1>5, <1>6, <1>7 DEF NextT

(* The inductive invariant of a run. *)
LEMMA InvarianceT == SpecT => [](TypeI /\ StoreI)
<1>1. TypeI /\ StoreI /\ [NextT]_tvars => StoreI'
  BY StoreInvariance
<1> QED BY <1>1, InitStore, TypeInvariance, PTL DEF SpecT

(* AuthVarTest.c:637, "Indicate that all writes succeeded": whatever fails, and
   wherever a run is cut short, the flag is in the store only with all three
   variables as the next run will check them. *)
THEOREM FlagIsTrue == SpecT => []FlagMeansWritten
<1>1. StoreI => FlagMeansWritten
  BY DEF StoreI
<1> QED BY <1>1, InvarianceT, PTL

(* AuthVarTest.c:1232: no test runs on a machine with a platform key, unless the
   key could not be asked for. *)
THEOREM ProvisioningKept == SpecT => []ProvisionedKept
<1>1. StoreI => ProvisionedKept
  BY DEF StoreI
<1> QED BY <1>1, InvarianceT, PTL

(* A test that passes leaves the store as it found it, but for the persistent
   variables, which are there with the flag, and its own, which are gone: the
   tests of AuthVarTest.c do not see each other through the store. *)
THEOREM PassedTestsAreClean == SpecT => PassedIsClean
<1> DEFINE Clean ==
      TestPassedCount' > TestPassedCount =>
        \A v \in Var :
          IF v \in Kept(TestFunc[test]) THEN Stored(store, v)
          ELSE IF v \in Deleted(TestFunc[test]) THEN ~Stored(store, v)
          ELSE store[v] = before[v]
<1>1. TypeI /\ StoreI /\ [NextT]_tvars => [Clean]_tvars
  <2> SUFFICES ASSUME TypeI, StoreI, NextT, TestPassedCount' > TestPassedCount, NEW v \in Var
               PROVE  IF v \in Kept(TestFunc[test]) THEN Stored(store, v)
                      ELSE IF v \in Deleted(TestFunc[test]) THEN ~Stored(store, v)
                      ELSE store[v] = before[v]
    OBVIOUS
  <2> DEFINE func == TestFunc[test]
  <2>1. Return
    <3>1. TestPassedCount \in Nat
      BY DEF TypeI, TypeOKT
    <3>2. ~UefiMain
      BY <3>1 DEF UefiMain
    <3>3. ~RunModule /\ ~Crash /\ ~TestCleanup
      BY <3>1 DEF RunModule, Crash, TestCleanup, context
    <3>4. ~Body
      BY <3>1 DEF Body
    <3> QED BY <3>2, <3>3, <3>4 DEF NextT
  <2>2. phase = "body" /\ pc > Len(script) /\ pc \in Nat /\ test \in 1..7 /\ local \in Measures
    BY <2>1 DEF Return, script, TypeI, TypeOKT, Measures
  <2>3. Sound(func, script) /\ Len(script) \in Nat
    <3>1. Sound(func, script)
      BY <2>2, Scripts DEF script
    <3> QED BY <3>1 DEF Sound
  <2>4. v \in Kept(func) => Stored(store, v)
    <3> SUFFICES ASSUME v \in Kept(func) PROVE Stored(store, v)
      OBVIOUS
    <3>1. test = 2 /\ v \in Persistent
      BY <2>2, KeptVars, Tests
    <3>2. pc > 46
      BY <2>2, <3>1, PersistScript, Tests, ScriptOf DEF script
    <3>3. Stored(store, PersistanceTestFlag)
      BY <2>2, <3>1, <3>2 DEF StoreI, FlagI
    <3>4. ASSUME NEW k \in 1..3
          PROVE  Stored(store, Persisted[k].var)
      BY <3>3, PersistedParts DEF StoreI, FlagMeansWritten, Stored
    <3>5. v = PersistanceTestFlag \/ v = Persisted[1].var \/ v = Persisted[2].var \/ v = Persisted[3].var
      BY <3>1, PersistedParts DEF Persistent
    <3> QED BY <3>3, <3>4, <3>5
  <2>5. v \in Deleted(func) => ~Stored(store, v)
    <3> SUFFICES ASSUME v \in Deleted(func) PROVE ~Stored(store, v)
      OBVIOUS
    <3>1. PICK p \in 1..Len(script) :
            Denies(script[p], v) /\ \A q \in (p + 1)..Len(script) : ~Writes(script[q], v)
      BY <2>3 DEF Sound, EndsWithout
    <3>2. p < pc
      BY <2>2, <2>3
    <3>3. Gone(script, pc, v)
      BY <3>1, <3>2 DEF Gone
    <3> QED BY <2>2, <3>3 DEF StoreI, GoneI
  <2>6. v \notin Kept(func) \union Deleted(func) => store[v] = before[v]
    BY <2>2 DEF StoreI, FrameI
  <2> QED BY <2>4, <2>5, <2>6
<1> QED BY <1>1, InvarianceT, PTL DEF SpecT, PassedIsClean
=============================================================================
