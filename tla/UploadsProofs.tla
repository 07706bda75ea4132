---------------------------- MODULE UploadsProofs ----------------------------
(****************************************************************************)
(* Proofs about Uploads: the space that is reserved is kept, for every      *)
(* number of requests and every size of their files.  The reservations and  *)
(* what was written are sums over the requests, so the first part is about  *)
(* sums over finite sets.  SumFunctionOnSet is a recursive function on the  *)
(* subsets; that it exists, is unique and adds up in any order follows from *)
(* the well-foundedness of strict inclusion, used as an induction on sets:  *)
(* a set of subsets that is not empty has a member no proper subset of      *)
(* which is in it.                                                          *)
(****************************************************************************)
EXTENDS Uploads, FiniteSetTheorems, TLAPS

(* The equation of the fold: the member taken first, then the rest.         *)
Pick(s) == CHOOSE x \in s : TRUE
Adds(f, S, g) ==
    g = [s \in SUBSET S |-> IF s = {} THEN 0 ELSE f[Pick(s)] + g[s \ {Pick(s)}]]

(* The induction: a smallest member of a set of finite sets.               *)
LEMMA Minimal ==
    ASSUME NEW S, IsFiniteSet(S), NEW Bad \in SUBSET SUBSET S, Bad # {}
    PROVE  \E T \in Bad : \A U \in SUBSET T : U # T => U \notin Bad
<1> DEFINE R == StrictSubsetOrdering(S)
<1>1. IsWellFoundedOn(R, SUBSET S)
  BY FS_StrictSubsetOrderingWellFounded, FS_FiniteSubsetsOfFinite
<1> HIDE DEF R
<1>2. PICK T \in Bad : \A U \in Bad : ~ (<<U, T>> \in R)
  BY <1>1, WFMin
<1>3. ASSUME NEW U \in SUBSET T, U # T PROVE U \notin Bad
  BY <1>2, <1>3 DEF R, StrictSubsetOrdering
<1>4. QED
  BY <1>2, <1>3

(* The member taken first is a member.                                     *)
LEMMA PickIn == ASSUME NEW s, s # {} PROVE Pick(s) \in s
BY DEF Pick

(* Two functions that satisfy the equation agree on the sets they share.   *)
LEMMA AddsOnce ==
    ASSUME NEW f, NEW A, NEW B, NEW g, NEW h, Adds(f, A, g), Adds(f, B, h),
           NEW S \in SUBSET A, S \in SUBSET B, IsFiniteSet(S)
    PROVE  g[S] = h[S]
<1> DEFINE Bad == {T \in SUBSET S : g[T] # h[T]}
<1>1. SUFFICES ASSUME Bad # {} PROVE FALSE
  OBVIOUS
<1>2. PICK T \in Bad : \A U \in SUBSET T : U # T => U \notin Bad
  <2>1. Bad \in SUBSET SUBSET S
    OBVIOUS
  <2> HIDE DEF Bad
  <2>2. QED
    BY <1>1, <2>1, Minimal
<1>3. T \in SUBSET A /\ T \in SUBSET B /\ g[T] # h[T] /\ \A U \in SUBSET T : U # T => g[U] = h[U]
  BY <1>2
<1> HIDE DEF Bad
<1>4. /\ g[T] = IF T = {} THEN 0 ELSE f[Pick(T)] + g[T \ {Pick(T)}]
      /\ h[T] = IF T = {} THEN 0 ELSE f[Pick(T)] + h[T \ {Pick(T)}]
  BY <1>3 DEF Adds
<1>5. T # {} => g[T \ {Pick(T)}] = h[T \ {Pick(T)}]
  BY <1>3, PickIn
<1>6. QED
  BY <1>3, <1>4, <1>5

(* Some function satisfies the equation.                                   *)
LEMMA AddsExists ==
    ASSUME NEW f, NEW S, IsFiniteSet(S)
    PROVE  \E g : Adds(f, S, g)
<1> DEFINE Bad == {T \in SUBSET S : ~\E g : Adds(f, T, g)}
<1>1. SUFFICES ASSUME Bad # {} PROVE FALSE
  OBVIOUS
<1>2. PICK T \in Bad : \A U \in SUBSET T : U # T => U \notin Bad
  <2>1. Bad \in SUBSET SUBSET S
    OBVIOUS
  <2> HIDE DEF Bad
  <2>2. QED
    BY <1>1, <2>1, Minimal
<1>3. T \in SUBSET S /\ (~\E g : Adds(f, T, g)) /\ \A U \in SUBSET T : U # T => \E g : Adds(f, U, g)
  BY <1>2
<1> DEFINE G(U) == CHOOSE g : Adds(f, U, g)
           h == [s \in SUBSET T |-> IF s = {} THEN 0 ELSE f[Pick(s)] + G(s \ {Pick(s)})[s \ {Pick(s)}]]
<1>4. \A U \in SUBSET T : U # T => Adds(f, U, G(U))
  BY <1>3
<1> HIDE DEF Bad, G
<1>5. \A U \in SUBSET T : U # T => h[U] = G(U)[U]
  <2>1. SUFFICES ASSUME NEW U \in SUBSET T, U # T PROVE h[U] = G(U)[U]
    OBVIOUS
  <2>2. G(U)[U] = IF U = {} THEN 0 ELSE f[Pick(U)] + G(U)[U \ {Pick(U)}]
    BY <1>4, <2>1 DEF Adds
  <2>3. CASE U = {}
    BY <2>2, <2>3
  <2>4. CASE U # {}
    <3> DEFINE V == U \ {Pick(U)}
    <3>1. V \in SUBSET T /\ V # T /\ V \in SUBSET U
      BY <2>1, <2>4, PickIn
    <3>2. IsFiniteSet(V)
      BY <1>3, <3>1, FS_Subset
    <3> HIDE DEF V
    <3>3. G(U)[V] = G(V)[V]
      BY <1>4, <2>1, <3>1, <3>2, AddsOnce
    <3>4. QED
      BY <2>2, <2>4, <3>3 DEF V
  <2>5. QED
    BY <2>3, <2>4
<1>6. h = [s \in SUBSET T |-> IF s = {} THEN 0 ELSE f[Pick(s)] + h[s \ {Pick(s)}]]
  <2>1. \A s \in SUBSET T : s # {} => h[s \ {Pick(s)}] = G(s \ {Pick(s)})[s \ {Pick(s)}]
    <3>1. SUFFICES ASSUME NEW s \in SUBSET T, s # {} PROVE h[s \ {Pick(s)}] = G(s \ {Pick(s)})[s \ {Pick(s)}]
      OBVIOUS
    <3>2. s \ {Pick(s)} \in SUBSET T /\ s \ {Pick(s)} # T
      BY <3>1, PickIn
    <3> HIDE DEF h
    <3>3. QED
      BY <1>5, <3>2
  <2>2. QED
    BY <2>1
<1>7. QED
  BY <1>3, <1>6 DEF Adds

(* The library's sum is a value of such a function.                        *)
LEMMA SumAdds ==
    ASSUME NEW f, NEW S, IsFiniteSet(S)
    PROVE  \E g : Adds(f, S, g) /\ SumFunctionOnSet(f, S) = g[S]
<1> DEFINE g == CHOOSE g : g = [s \in SUBSET S |-> IF s = {} THEN 0
                                                   ELSE LET x == CHOOSE x \in s : TRUE IN f[x] + g[s \ {x}]]
<1>1. SumFunctionOnSet(f, S) = g[S]
  BY DEF SumFunctionOnSet, FoldFunctionOnSet, MapThenFoldSet
<1>2. Adds(f, S, g)
  <2> DEFINE P(k) == k = [s \in SUBSET S |-> IF s = {} THEN 0
                                             ELSE LET x == CHOOSE x \in s : TRUE IN f[x] + k[s \ {x}]]
  <2>1. g = CHOOSE k : P(k)
    OBVIOUS
  <2>2. ASSUME NEW k PROVE P(k) <=> Adds(f, S, k)
    BY DEF Adds, Pick
  <2> HIDE DEF P, g
  <2>3. \E k : P(k)
    BY <2>2, AddsExists
  <2>4. P(g)
    BY <2>1, <2>3
  <2>5. QED
    BY <2>2, <2>4
<1>3. QED
  BY <1>1, <1>2

(* Nothing adds up to 0.                                                   *)
LEMMA SumEmpty == ASSUME NEW f PROVE SumFunctionOnSet(f, {}) = 0
<1>1. PICK g : Adds(f, {}, g) /\ SumFunctionOnSet(f, {}) = g[{}]
  BY SumAdds, FS_EmptySet
<1>2. QED
  BY <1>1 DEF Adds

(* The sum is the member taken first and the sum of the rest.              *)
LEMMA SumPick ==
    ASSUME NEW f, NEW S, IsFiniteSet(S), S # {}
    PROVE  SumFunctionOnSet(f, S) = f[Pick(S)] + SumFunctionOnSet(f, S \ {Pick(S)})
<1> DEFINE V == S \ {Pick(S)}
<1>1. IsFiniteSet(V)
  BY FS_Subset
<1>2. PICK g : Adds(f, S, g) /\ SumFunctionOnSet(f, S) = g[S]
  BY SumAdds
<1>3. g[S] = f[Pick(S)] + g[V]
  BY <1>2 DEF Adds
<1> HIDE DEF V
<1>4. PICK h : Adds(f, V, h) /\ SumFunctionOnSet(f, V) = h[V]
  BY <1>1, SumAdds
<1>5. V \in SUBSET S /\ V \in SUBSET V
  BY DEF V
<1>6. g[V] = h[V]
  BY <1>1, <1>2, <1>4, <1>5, AddsOnce
<1>7. QED
  BY <1>2, <1>3, <1>4, <1>6 DEF V

(* Integers add up to an integer.                                          *)
LEMMA SumType ==
    ASSUME NEW S, IsFiniteSet(S), NEW f, \A x \in S : f[x] \in Int
    PROVE  SumFunctionOnSet(f, S) \in Int
<1> DEFINE Bad == {T \in SUBSET S : SumFunctionOnSet(f, T) \notin Int}
<1>1. SUFFICES ASSUME Bad # {} PROVE FALSE
  OBVIOUS
<1>2. PICK T \in Bad : \A U \in SUBSET T : U # T => U \notin Bad
  <2>1. Bad \in SUBSET SUBSET S
    OBVIOUS
  <2> HIDE DEF Bad
  <2>2. QED
    BY <1>1, <2>1, Minimal
<1>3. /\ T \in SUBSET S /\ SumFunctionOnSet(f, T) \notin Int
      /\ \A U \in SUBSET T : U # T => SumFunctionOnSet(f, U) \in Int
  BY <1>2
<1> HIDE DEF Bad
<1>4. T # {}
  BY <1>3, SumEmpty
<1>5. SumFunctionOnSet(f, T) = f[Pick(T)] + SumFunctionOnSet(f, T \ {Pick(T)})
  BY <1>3, <1>4, SumPick, FS_Subset
<1>6. f[Pick(T)] \in Int /\ SumFunctionOnSet(f, T \ {Pick(T)}) \in Int
  BY <1>3, <1>4, PickIn
<1>7. QED
  BY <1>3, <1>5, <1>6

(* The sum is any member and the sum of the rest.                          *)
LEMMA SumTake ==
    ASSUME NEW S, IsFiniteSet(S), NEW f, \A x \in S : f[x] \in Int, NEW x \in S
    PROVE  SumFunctionOnSet(f, S) = f[x] + SumFunctionOnSet(f, S \ {x})
<1> DEFINE Bad == {T \in SUBSET S : \E y \in T : SumFunctionOnSet(f, T) # f[y] + SumFunctionOnSet(f, T \ {y})}
<1>1. SUFFICES ASSUME Bad # {} PROVE FALSE
  OBVIOUS
<1>2. PICK T \in Bad : \A U \in SUBSET T : U # T => U \notin Bad
  <2>1. Bad \in SUBSET SUBSET S
    OBVIOUS
  <2> HIDE DEF Bad
  <2>2. QED
    BY <1>1, <2>1, Minimal
<1>3. PICK y \in T : SumFunctionOnSet(f, T) # f[y] + SumFunctionOnSet(f, T \ {y})
  BY <1>2
<1>4. /\ T \in SUBSET S
      /\ \A U \in SUBSET T : U # T =>
            \A z \in U : SumFunctionOnSet(f, U) = f[z] + SumFunctionOnSet(f, U \ {z})
  BY <1>2
<1> HIDE DEF Bad
<1> DEFINE p == Pick(T)
<1>5. p \in T /\ SumFunctionOnSet(f, T) = f[p] + SumFunctionOnSet(f, T \ {p})
  BY <1>3, <1>4, SumPick, PickIn, FS_Subset
<1> HIDE DEF p
<1>6. p # y
  BY <1>3, <1>5
<1>7. /\ SumFunctionOnSet(f, T \ {p}) = f[y] + SumFunctionOnSet(f, (T \ {p}) \ {y})
      /\ SumFunctionOnSet(f, T \ {y}) = f[p] + SumFunctionOnSet(f, (T \ {y}) \ {p})
  BY <1>3, <1>4, <1>5, <1>6
<1>8. (T \ {p}) \ {y} = (T \ {y}) \ {p}
  OBVIOUS
<1>9. f[p] \in Int /\ f[y] \in Int /\ SumFunctionOnSet(f, (T \ {y}) \ {p}) \in Int
  <2>1. IsFiniteSet((T \ {y}) \ {p}) /\ \A z \in (T \ {y}) \ {p} : f[z] \in Int
    BY <1>4, FS_Subset
  <2>2. QED
    BY <1>3, <1>4, <1>5, <2>1, SumType
<1> DEFINE a == SumFunctionOnSet(f, (T \ {y}) \ {p})
           b == SumFunctionOnSet(f, T \ {p})
           c == SumFunctionOnSet(f, T \ {y})
<1>10. /\ SumFunctionOnSet(f, T) = f[p] + b /\ b = f[y] + a /\ c = f[p] + a
       /\ SumFunctionOnSet(f, T) # f[y] + c /\ a \in Int
  BY <1>3, <1>5, <1>7, <1>8, <1>9
<1> HIDE DEF a, b, c
<1>11. QED
  BY <1>9, <1>10

(* A family that is below another member by member adds up to less.        *)
LEMMA SumLeq ==
    ASSUME NEW S, IsFiniteSet(S), NEW f, NEW g, \A x \in S : f[x] \in Int /\ g[x] \in Int /\ f[x] <= g[x]
    PROVE  SumFunctionOnSet(f, S) <= SumFunctionOnSet(g, S)
<1> DEFINE Bad == {T \in SUBSET S : ~(SumFunctionOnSet(f, T) <= SumFunctionOnSet(g, T))}
<1>1. SUFFICES ASSUME Bad # {} PROVE FALSE
  OBVIOUS
<1>2. PICK T \in Bad : \A U \in SUBSET T : U # T => U \notin Bad
  <2>1. Bad \in SUBSET SUBSET S
    OBVIOUS
  <2> HIDE DEF Bad
  <2>2. QED
    BY <1>1, <2>1, Minimal
<1>3. /\ T \in SUBSET S /\ ~(SumFunctionOnSet(f, T) <= SumFunctionOnSet(g, T))
      /\ \A U \in SUBSET T : U # T => SumFunctionOnSet(f, U) <= SumFunctionOnSet(g, U)
  BY <1>2
<1> HIDE DEF Bad
<1>4. T # {}
  <2>1. SumFunctionOnSet(f, {}) = 0 /\ SumFunctionOnSet(g, {}) = 0
    BY SumEmpty
  <2>2. SUFFICES ASSUME T = {} PROVE FALSE
    OBVIOUS
  <2>3. QED
    BY <1>3, <2>1, <2>2
<1> DEFINE p == Pick(T)
           V == T \ {p}
<1>5. IsFiniteSet(T) /\ IsFiniteSet(V) /\ p \in T /\ V \in SUBSET T /\ V # T
  BY <1>3, <1>4, PickIn, FS_Subset
<1>6. /\ SumFunctionOnSet(f, T) = f[p] + SumFunctionOnSet(f, V)
      /\ SumFunctionOnSet(g, T) = g[p] + SumFunctionOnSet(g, V)
  BY <1>4, <1>5, SumPick
<1> HIDE DEF p, V
<1>7. SumFunctionOnSet(f, V) \in Int /\ SumFunctionOnSet(g, V) \in Int
  <2>1. \A x \in V : f[x] \in Int /\ g[x] \in Int
    BY <1>3, <1>5
  <2>2. QED
    BY <1>5, <2>1, SumType
<1>8. SumFunctionOnSet(f, V) <= SumFunctionOnSet(g, V) /\ f[p] \in Int /\ g[p] \in Int /\ f[p] <= g[p]
  BY <1>3, <1>5
<1>9. QED
  BY <1>3, <1>6, <1>7, <1>8

(* Families that differ in one member differ by it.                        *)
LEMMA SumChange ==
    ASSUME NEW S, IsFiniteSet(S), NEW f, NEW g, \A x \in S : f[x] \in Int /\ g[x] \in Int,
           NEW x \in S, \A y \in S \ {x} : g[y] = f[y]
    PROVE  SumFunctionOnSet(g, S) = SumFunctionOnSet(f, S) + g[x] - f[x]
<1> DEFINE V == S \ {x}
<1>1. IsFiniteSet(V) /\ \A y \in V : f[y] \in Int /\ g[y] \in Int /\ f[y] = g[y]
  BY FS_Subset
<1>2. /\ SumFunctionOnSet(f, S) = f[x] + SumFunctionOnSet(f, V)
      /\ SumFunctionOnSet(g, S) = g[x] + SumFunctionOnSet(g, V)
  BY SumTake
<1> HIDE DEF V
<1>3. SumFunctionOnSet(f, V) \in Int /\ SumFunctionOnSet(g, V) \in Int
  BY <1>1, SumType
<1>4. SumFunctionOnSet(f, V) <= SumFunctionOnSet(g, V) /\ SumFunctionOnSet(g, V) <= SumFunctionOnSet(f, V)
  <2>1. \A y \in V : f[y] \in Int /\ g[y] \in Int /\ f[y] <= g[y] /\ g[y] <= f[y]
    BY <1>1
  <2>2. QED
    BY <1>1, <2>1, SumLeq
<1>5. QED
  BY <1>2, <1>3, <1>4

(* Zeros add up to 0.                                                      *)
LEMMA SumZero ==
    ASSUME NEW S, IsFiniteSet(S), NEW f, \A x \in S : f[x] = 0
    PROVE  SumFunctionOnSet(f, S) = 0
<1> DEFINE Bad == {T \in SUBSET S : SumFunctionOnSet(f, T) # 0}
<1>1. SUFFICES ASSUME Bad # {} PROVE FALSE
  OBVIOUS
<1>2. PICK T \in Bad : \A U \in SUBSET T : U # T => U \notin Bad
  <2>1. Bad \in SUBSET SUBSET S
    OBVIOUS
  <2> HIDE DEF Bad
  <2>2. QED
    BY <1>1, <2>1, Minimal
<1>3. /\ T \in SUBSET S /\ SumFunctionOnSet(f, T) # 0
      /\ \A U \in SUBSET T : U # T => SumFunctionOnSet(f, U) = 0
  BY <1>2
<1> HIDE DEF Bad
<1>4. T # {}
  BY <1>3, SumEmpty
<1>5. SumFunctionOnSet(f, T) = f[Pick(T)] + SumFunctionOnSet(f, T \ {Pick(T)})
  BY <1>3, <1>4, SumPick, FS_Subset
<1>6. f[Pick(T)] = 0 /\ SumFunctionOnSet(f, T \ {Pick(T)}) = 0
  BY <1>3, <1>4, PickIn
<1>7. QED
  BY <1>3, <1>5, <1>6

----------------------------------------------------------------------------
(* What the requests in progress declared.                                 *)
Declares == [u \in Uploaders |-> IF u \in Reserving THEN Declared(u) ELSE 0]

LEMMA MaxIs ==
    ASSUME NEW a \in Int
    PROVE  Max({a, 0}) = IF a > 0 THEN a ELSE 0
BY DEF Max

(* The reservations add up; a request knows its file's size or nothing, and *)
(* has taken nothing before its body arrived.                               *)
Accounted == inflight = SumFunctionOnSet(Declares, Uploaders)

Carried ==
  \A u \in Uploaders :
    /\ At(u, "check") => upload[u].taken = 0
    /\ ~At(u, "idle") =>
         /\ upload[u] \in [pc : Steps, file : Files, size : Nat \cup {Unknown}, free : Nat, taken : Nat]
         /\ upload[u].taken \in {0, SizeOf[upload[u].file]}
         /\ upload[u].size \in {Unknown, SizeOf[upload[u].file]}

(* While no request was misled, every figure in use leaves the reserve, and *)
(* what is free covers it with everything that is still to come.            *)
Trusted ==
  ~stale =>
    /\ figure = Unknown \/ figure >= Reserve
    /\ \A u \in Uploaders : At(u, "check") => upload[u].free >= Reserve
    /\ \A u \in Reserving : upload[u].size # Unknown
    /\ Reserve > 0 => free + SumFunctionOnSet(Taken, Uploaders) >= Reserve + inflight

SpaceInv == SpaceOK /\ Accounted /\ Carried /\ Trusted

----------------------------------------------------------------------------
(* The two families are integers, and nothing is taken beyond what was     *)
(* declared by those who declared something.                               *)
LEMMA Families ==
    ASSUME SpaceOK, Carried
    PROVE  /\ \A u \in Uploaders : Taken[u] \in Int /\ Declares[u] \in Int
           /\ \A u \in Uploaders :
                (u \in Reserving => upload[u].size # Unknown) => Taken[u] <= Declares[u]
           /\ SumFunctionOnSet(Taken, Uploaders) \in Int
           /\ SumFunctionOnSet(Declares, Uploaders) \in Int
<1>1. ASSUME NEW u \in Uploaders
      PROVE  /\ Taken[u] \in Int /\ Declares[u] \in Int
             /\ (u \in Reserving => upload[u].size # Unknown) => Taken[u] <= Declares[u]
  <2>1. CASE u \notin Reserving
    BY <2>1 DEF Taken, Declares
  <2>2. CASE u \in Reserving
    <3>1. /\ upload[u].size \in Int /\ upload[u].taken \in Int /\ upload[u].file \in Files
          /\ upload[u].taken \in {0, SizeOf[upload[u].file]}
          /\ upload[u].size \in {Unknown, SizeOf[upload[u].file]}
      BY <2>2 DEF Carried, Reserving, At, Unknown
    <3>2. SizeOf[upload[u].file] \in Nat \ {0}
      BY <3>1, SizeAssumption
    <3>3. Declares[u] = IF upload[u].size > 0 THEN upload[u].size ELSE 0
      BY <2>2, <3>1, MaxIs DEF Declares, Declared
    <3>4. Taken[u] = upload[u].taken
      BY <2>2 DEF Taken
    <3> DEFINE s == upload[u].size
               t == upload[u].taken
               z == SizeOf[upload[u].file]
    <3>5. /\ t \in Int /\ s \in Int /\ z \in Nat \ {0} /\ t \in {0, z} /\ s \in {-1, z}
          /\ Taken[u] = t /\ Declares[u] = IF s > 0 THEN s ELSE 0
      BY <3>1, <3>2, <3>3, <3>4 DEF Unknown
    <3>6. upload[u].size # Unknown <=> s # -1
      BY DEF Unknown
    <3> HIDE DEF s, t, z
    <3>7. QED
      BY <2>2, <3>5, <3>6
  <2>3. QED
    BY <2>1, <2>2
<1>2. SumFunctionOnSet(Taken, Uploaders) \in Int /\ SumFunctionOnSet(Declares, Uploaders) \in Int
  BY <1>1, SumType, UploadersAssumption
<1>3. QED
  BY <1>1, <1>2

SumsOK ==
  /\ \A u \in Uploaders : Taken[u] \in Int /\ Declares[u] \in Int
  /\ SumFunctionOnSet(Taken, Uploaders) \in Int /\ SumFunctionOnSet(Declares, Uploaders) \in Int

LEMMA SumsAreIntegers == SpaceOK /\ Carried => SumsOK
BY Families DEF SumsOK

(* The invariant covers what is free.                                      *)
LEMMA KeptByInv == SpaceInv => ReserveKept
<1>1. SUFFICES ASSUME SpaceInv, ~stale PROVE free >= Reserve
  BY DEF ReserveKept
<1>2. free \in Nat /\ Reserve \in Nat
  BY <1>1, SpaceAssumption DEF SpaceInv, SpaceOK
<1>3. CASE Reserve = 0
  BY <1>2, <1>3
<1>4. CASE Reserve > 0
  <2>1. \A u \in Reserving : upload[u].size # Unknown
    BY <1>1 DEF SpaceInv, Trusted
  <2>2. \A u \in Uploaders : Taken[u] \in Int /\ Declares[u] \in Int /\ Taken[u] <= Declares[u]
    BY <1>1, <2>1, Families DEF SpaceInv
  <2>3. SumFunctionOnSet(Taken, Uploaders) <= SumFunctionOnSet(Declares, Uploaders)
    BY <2>2, SumLeq, UploadersAssumption
  <2>4. /\ free + SumFunctionOnSet(Taken, Uploaders) >= Reserve + inflight
        /\ inflight = SumFunctionOnSet(Declares, Uploaders)
    BY <1>1, <1>4 DEF SpaceInv, Trusted, Accounted
  <2>5. SumFunctionOnSet(Taken, Uploaders) \in Int /\ SumFunctionOnSet(Declares, Uploaders) \in Int
    BY <1>1, Families DEF SpaceInv
  <2>6. QED
    BY <1>2, <2>3, <2>4, <2>5
<1>5. QED
  BY <1>2, <1>3, <1>4

----------------------------------------------------------------------------
(* What one request does leaves the others alone, and a request that goes   *)
(* on keeps what it knew.                                                   *)
LEMMA OneChanges ==
    ASSUME SpaceOK, NEW u \in Uploaders, NEW r,
           upload' = [upload EXCEPT ![u] = r]
    PROVE  /\ upload'[u] = r
           /\ \A w \in Uploaders \ {u} :
                upload'[w] = upload[w] /\ Taken'[w] = Taken[w] /\ Declares'[w] = Declares[w]
BY DEF SpaceOK, Taken, Declares, Declared, Reserving

LEMMA GoesOn ==
    ASSUME SpaceOK, Carried, NEW u \in Uploaders, ~At(u, "idle"), NEW pc \in Steps, Goes(u, pc)
    PROVE  /\ upload'[u] \in [pc : Steps, file : Files, size : Nat \cup {Unknown}, free : Nat, taken : Nat]
           /\ upload'[u].pc = pc /\ upload'[u].file = upload[u].file
           /\ upload'[u].size = upload[u].size /\ upload'[u].free = upload[u].free
           /\ upload'[u].taken = upload[u].taken
           /\ \A w \in Uploaders \ {u} :
                upload'[w] = upload[w] /\ Taken'[w] = Taken[w] /\ Declares'[w] = Declares[w]
<1> DEFINE r == [upload[u] EXCEPT !.pc = pc]
<1>1. upload[u] \in [pc : Steps, file : Files, size : Nat \cup {Unknown}, free : Nat, taken : Nat]
  BY DEF Carried
<1>2. /\ r \in [pc : Steps, file : Files, size : Nat \cup {Unknown}, free : Nat, taken : Nat]
      /\ r.pc = pc /\ r.file = upload[u].file
      /\ r.size = upload[u].size /\ r.free = upload[u].free /\ r.taken = upload[u].taken
  BY <1>1
<1>3. upload' = [upload EXCEPT ![u] = r]
  BY DEF Goes
<1> HIDE DEF r
<1>4. QED
  BY <1>2, <1>3, OneChanges

(* The sums after a step of one request.                                    *)
LEMMA SumsChange ==
    ASSUME SpaceOK, Carried, SpaceOK', Carried', NEW u \in Uploaders,
           \A w \in Uploaders \ {u} : Taken'[w] = Taken[w] /\ Declares'[w] = Declares[w]
    PROVE  /\ SumFunctionOnSet(Taken', Uploaders) = SumFunctionOnSet(Taken, Uploaders) + Taken'[u] - Taken[u]
           /\ SumFunctionOnSet(Declares', Uploaders)
                = SumFunctionOnSet(Declares, Uploaders) + Declares'[u] - Declares[u]
           /\ SumFunctionOnSet(Taken, Uploaders) \in Int /\ SumFunctionOnSet(Taken', Uploaders) \in Int
           /\ Taken[u] \in Int /\ Taken'[u] \in Int /\ Declares[u] \in Int /\ Declares'[u] \in Int
           /\ SumFunctionOnSet(Declares, Uploaders) \in Int
<1>1. SumsOK /\ SumsOK'
  BY SumsAreIntegers, PTL
<1> DEFINE f == Taken
           g == Taken'
           d == Declares
           e == Declares'
<1>4. /\ \A w \in Uploaders : f[w] \in Int /\ g[w] \in Int /\ d[w] \in Int /\ e[w] \in Int
      /\ \A w \in Uploaders \ {u} : g[w] = f[w] /\ e[w] = d[w]
  BY <1>1 DEF SumsOK
<1> HIDE DEF f, g, d, e
<1>5. /\ SumFunctionOnSet(g, Uploaders) = SumFunctionOnSet(f, Uploaders) + g[u] - f[u]
      /\ SumFunctionOnSet(e, Uploaders) = SumFunctionOnSet(d, Uploaders) + e[u] - d[u]
  BY <1>4, SumChange, UploadersAssumption
<1>6. QED
  BY <1>1, <1>5 DEF SumsOK, f, g, d, e

LEMMA SumsStay == UNCHANGED upload => Taken' = Taken /\ Declares' = Declares
BY DEF Taken, Declares, Declared, Reserving

(* A request that goes on, not back to its check, still knows its file.    *)
LEMMA CarriesOn ==
    ASSUME SpaceOK, Carried, NEW u \in Uploaders, NEW r,
           r \in Uploading,
           r.pc # "idle" =>
             /\ r \in [pc : Steps, file : Files, size : Nat \cup {Unknown}, free : Nat, taken : Nat]
             /\ r.taken \in {0, SizeOf[r.file]} /\ r.size \in {Unknown, SizeOf[r.file]}
             /\ r.pc = "check" => r.taken = 0,
           upload' = [upload EXCEPT ![u] = r]
    PROVE  upload' \in [Uploaders -> Uploading] /\ Carried'
<1>1. upload' \in [Uploaders -> Uploading]
  BY DEF SpaceOK
<1>2. ASSUME NEW w \in Uploaders
      PROVE  /\ upload'[w].pc = "check" => upload'[w].taken = 0
             /\ upload'[w].pc # "idle" =>
                  /\ upload'[w] \in [pc : Steps, file : Files, size : Nat \cup {Unknown}, free : Nat, taken : Nat]
                  /\ upload'[w].taken \in {0, SizeOf[upload'[w].file]}
                  /\ upload'[w].size \in {Unknown, SizeOf[upload'[w].file]}
  <2>1. CASE w = u
    BY <2>1, OneChanges
  <2>2. CASE w # u
    <3>1. upload'[w] = upload[w]
      BY <2>2, OneChanges
    <3>2. QED
      BY <3>1 DEF Carried, At
  <2>3. QED
    BY <2>1, <2>2
<1>3. QED
  BY <1>1, <1>2 DEF Carried, At

LEMMA GoesCarriesOn ==
    ASSUME SpaceOK, Carried, NEW u \in Uploaders, ~At(u, "idle"),
           NEW pc \in Steps, pc # "check", Goes(u, pc)
    PROVE  upload' \in [Uploaders -> Uploading] /\ Carried'
<1> DEFINE r == [upload[u] EXCEPT !.pc = pc]
<1>1. /\ upload[u] \in [pc : Steps, file : Files, size : Nat \cup {Unknown}, free : Nat, taken : Nat]
      /\ upload[u].taken \in {0, SizeOf[upload[u].file]} /\ upload[u].size \in {Unknown, SizeOf[upload[u].file]}
  BY DEF Carried
<1>2. /\ r \in [pc : Steps, file : Files, size : Nat \cup {Unknown}, free : Nat, taken : Nat]
      /\ r.pc = pc /\ r.file = upload[u].file /\ r.size = upload[u].size /\ r.taken = upload[u].taken
  BY <1>1
<1>3. upload' = [upload EXCEPT ![u] = r]
  BY DEF Goes
<1> HIDE DEF r
<1>4. r \in Uploading
  BY <1>2 DEF Uploading
<1>5. QED
  BY <1>1, <1>2, <1>3, <1>4, CarriesOn

(* A step that changes neither sum, and takes nothing from the disk.       *)
LEMMA SameSums ==
    ASSUME SpaceInv, SpaceOK', Carried',
           \A w \in Uploaders : Taken'[w] = Taken[w] /\ Declares'[w] = Declares[w],
           free' >= free, inflight' = inflight, stale' = stale,
           figure' \in {figure, free, Unknown},
           \A w \in Uploaders :
             /\ upload'[w].pc = "check" =>
                  \/ upload[w].pc = "check" /\ upload'[w].free = upload[w].free
                  \/ upload'[w].free \in {figure, free} \ {Unknown}
             /\ upload'[w].pc \in {"body", "placed", "end"} =>
                  upload[w].pc \in {"body", "placed", "end"} /\ upload'[w].size = upload[w].size
    PROVE  SpaceInv'
<1>1. Taken' = Taken /\ Declares' = Declares
  BY DEF Taken, Declares
<1>2. Accounted'
  BY <1>1 DEF SpaceInv, Accounted
<1>3. SUFFICES ASSUME ~stale'
               PROVE  /\ figure' = Unknown \/ figure' >= Reserve
                      /\ \A u \in Uploaders : upload'[u].pc = "check" => upload'[u].free >= Reserve
                      /\ \A u \in Uploaders : upload'[u].pc \in {"body", "placed", "end"} => upload'[u].size # Unknown
                      /\ Reserve > 0 => free' + SumFunctionOnSet(Taken', Uploaders) >= Reserve + inflight'
  BY <1>2 DEF SpaceInv, Trusted, At, Reserving
<1>4. /\ figure = Unknown \/ figure >= Reserve
      /\ \A u \in Uploaders : upload[u].pc = "check" => upload[u].free >= Reserve
      /\ \A u \in Uploaders : upload[u].pc \in {"body", "placed", "end"} => upload[u].size # Unknown
      /\ Reserve > 0 => free + SumFunctionOnSet(Taken, Uploaders) >= Reserve + inflight
  BY <1>3 DEF SpaceInv, Trusted, At, Reserving
<1>5. free >= Reserve
  BY <1>3, KeptByInv DEF ReserveKept
<1>6. /\ free \in Nat /\ free' \in Nat /\ inflight \in Int /\ Reserve \in Nat
      /\ SumFunctionOnSet(Taken, Uploaders) \in Int
  BY SumsAreIntegers, SpaceAssumption DEF SpaceInv, SpaceOK, SumsOK
<1>7. Reserve > 0 => free' + SumFunctionOnSet(Taken', Uploaders) >= Reserve + inflight'
  <2>1. SumFunctionOnSet(Taken', Uploaders) = SumFunctionOnSet(Taken, Uploaders)
    BY <1>1
  <2>2. QED
    BY <1>4, <1>6, <2>1
<1>8. figure' = Unknown \/ figure' >= Reserve
  BY <1>4, <1>5
<1>9. \A u \in Uploaders : upload'[u].pc = "check" => upload'[u].free >= Reserve
  BY <1>4, <1>5
<1>10. \A u \in Uploaders : upload'[u].pc \in {"body", "placed", "end"} => upload'[u].size # Unknown
  BY <1>4
<1>11. QED
  BY <1>7, <1>8, <1>9, <1>10

----------------------------------------------------------------------------
(* The steps, one by one.                                                   *)
LEMMA BeginStep ==
    ASSUME SpaceInv, NEW u \in Uploaders, NEW f \in Files, NEW size \in Lengths[f], Begin(u, f, size)
    PROVE  SpaceInv'
<1>1. PICK seen \in Stat :
        /\ figure' = seen
        /\ upload' = [upload EXCEPT ![u] =
             [pc |-> "check", file |-> f, size |-> size, free |-> seen, taken |-> 0]]
  BY DEF Begin
<1> DEFINE r == [pc |-> "check", file |-> f, size |-> size, free |-> seen, taken |-> 0]
<1>2. /\ seen \in Nat /\ seen \in {free, figure} \ {Unknown}
  BY DEF Stat, SpaceInv, SpaceOK, Unknown
<1>3. size \in {SizeOf[f], Unknown} /\ SizeOf[f] \in Nat
  BY LengthAssumption, SizeAssumption
<1>4. /\ r \in [pc : Steps, file : Files, size : Nat \cup {Unknown}, free : Nat, taken : Nat]
      /\ r.pc = "check" /\ r.file = f /\ r.size = size /\ r.free = seen /\ r.taken = 0
  BY <1>2, <1>3 DEF Steps
<1>5. upload' = [upload EXCEPT ![u] = r]
  BY <1>1
<1> HIDE DEF r
<1>6. upload' \in [Uploaders -> Uploading] /\ Carried'
  <2>1. r \in Uploading
    BY <1>4 DEF Uploading
  <2>2. QED
    BY <1>3, <1>4, <1>5, <2>1, CarriesOn DEF SpaceInv
<1>7. /\ free' = free /\ inflight' = inflight /\ stale' = stale
      /\ figure' \in {free, figure} \ {Unknown}
  BY <1>1, <1>2 DEF Begin
<1>8. SpaceOK'
  BY <1>6, <1>7 DEF SpaceInv, SpaceOK
<1>9. /\ upload'[u] = r
      /\ \A w \in Uploaders \ {u} :
           upload'[w] = upload[w] /\ Taken'[w] = Taken[w] /\ Declares'[w] = Declares[w]
  BY <1>5, OneChanges DEF SpaceInv
<1>10. /\ Taken'[u] = 0 /\ Declares'[u] = 0 /\ Taken[u] = 0 /\ Declares[u] = 0
  <2>1. At(u, "idle") /\ upload'[u].pc = "check"
    BY <1>4, <1>9 DEF Begin
  <2>2. QED
    BY <2>1 DEF At, Taken, Declares, Reserving
<1>11. free' >= free
  BY <1>7 DEF SpaceInv, SpaceOK
<1>12. \A w \in Uploaders : Taken'[w] = Taken[w] /\ Declares'[w] = Declares[w]
  BY <1>9, <1>10
<1>13. \A w \in Uploaders :
             /\ upload'[w].pc = "check" =>
                  \/ upload[w].pc = "check" /\ upload'[w].free = upload[w].free
                  \/ upload'[w].free \in {figure, free} \ {Unknown}
             /\ upload'[w].pc \in {"body", "placed", "end"} =>
                  upload[w].pc \in {"body", "placed", "end"} /\ upload'[w].size = upload[w].size
  BY <1>2, <1>4, <1>9
<1>14. figure' \in {figure, free, Unknown}
  BY <1>7
<1>15. QED
  BY <1>6, <1>7, <1>8, <1>11, <1>12, <1>13, <1>14, SameSums

(* A request that leaves the reservations as they were: it is refused, its  *)
(* body breaks off, its file is in place, noted, or it has ended.           *)
LEMMA PassesOn ==
    ASSUME SpaceInv, NEW u \in Uploaders, NEW pc \in Steps, Goes(u, pc),
           \/ At(u, "check") /\ pc = "idle"
           \/ upload[u].pc \in {"body", "placed", "end"} /\ pc \in {"body", "placed", "end"},
           free' \in Nat, free' >= free, UNCHANGED <<figure, inflight, stale>>
    PROVE  SpaceInv'
<1>1. ~At(u, "idle") /\ pc # "check"
  BY DEF At
<1>2. upload' \in [Uploaders -> Uploading] /\ Carried'
  BY <1>1, GoesCarriesOn DEF SpaceInv
<1>3. /\ upload'[u].pc = pc /\ upload'[u].size = upload[u].size /\ upload'[u].free = upload[u].free
      /\ upload'[u].taken = upload[u].taken
      /\ \A w \in Uploaders \ {u} :
           upload'[w] = upload[w] /\ Taken'[w] = Taken[w] /\ Declares'[w] = Declares[w]
  BY <1>1, GoesOn DEF SpaceInv
<1>4. SpaceOK'
  BY <1>2 DEF SpaceInv, SpaceOK
<1>5. Taken'[u] = Taken[u] /\ Declares'[u] = Declares[u]
  BY <1>3 DEF Taken, Declares, Declared, Reserving, At
<1>6. \A w \in Uploaders : Taken'[w] = Taken[w] /\ Declares'[w] = Declares[w]
  BY <1>3, <1>5
<1>7. \A w \in Uploaders :
             /\ upload'[w].pc = "check" =>
                  \/ upload[w].pc = "check" /\ upload'[w].free = upload[w].free
                  \/ upload'[w].free \in {figure, free} \ {Unknown}
             /\ upload'[w].pc \in {"body", "placed", "end"} =>
                  upload[w].pc \in {"body", "placed", "end"} /\ upload'[w].size = upload[w].size
  BY <1>1, <1>3 DEF At
<1>8. QED
  BY <1>2, <1>4, <1>6, <1>7, SameSums

LEMMA ReserveStep ==
    ASSUME SpaceInv, NEW u \in Uploaders, ReserveSpace(u)
    PROVE  SpaceInv'
<1>1. At(u, "check") /\ UNCHANGED <<free, figure>>
  BY DEF ReserveSpace
<1>2. CASE ~Fits(u)
  <2>1. Goes(u, "idle") /\ UNCHANGED <<inflight, stale>>
    BY <1>2 DEF ReserveSpace
  <2>2. free' \in Nat /\ free' >= free
    BY <1>1 DEF SpaceInv, SpaceOK
  <2>3. "idle" \in Steps
    BY DEF Steps
  <2>4. QED
    BY <1>1, <2>1, <2>2, <2>3, PassesOn
<1>3. CASE Fits(u)
  <2>1. /\ Goes(u, "body") /\ inflight' = inflight + Declared(u)
        /\ stale' = (stale \/ Misled(u))
    BY <1>3, Zenon DEF ReserveSpace
  <2> DEFINE s == upload[u].size
             d == IF s > 0 THEN s ELSE 0
  <2>2. /\ upload[u] \in [pc : Steps, file : Files, size : Nat \cup {Unknown}, free : Nat, taken : Nat]
        /\ upload[u].taken = 0 /\ upload[u].size \in {Unknown, SizeOf[upload[u].file]}
    BY <1>1 DEF SpaceInv, Carried, At
  <2>3. SizeOf[upload[u].file] \in Nat \ {0} /\ s \in Int /\ s \in Nat \cup {Unknown}
    BY <2>2, SizeAssumption DEF Unknown
  <2>4. Declared(u) = d /\ d \in Nat
    BY <2>3, MaxIs DEF Declared, Unknown
  <2>5. ~At(u, "idle") /\ "body" \in Steps
    BY <1>1 DEF At, Steps
  <2>6. upload' \in [Uploaders -> Uploading] /\ Carried'
    BY <2>1, <2>5, GoesCarriesOn DEF SpaceInv
  <2>7. /\ upload'[u].pc = "body" /\ upload'[u].size = upload[u].size
        /\ upload'[u].taken = upload[u].taken
        /\ \A w \in Uploaders \ {u} :
             upload'[w] = upload[w] /\ Taken'[w] = Taken[w] /\ Declares'[w] = Declares[w]
    BY <2>1, <2>5, GoesOn DEF SpaceInv
  <2>8. stale' \in BOOLEAN
    BY <2>1, Zenon
  <2>9. SpaceOK'
    BY <1>1, <2>1, <2>4, <2>6, <2>8 DEF SpaceInv, SpaceOK
  <2>10. /\ Taken[u] = 0 /\ Taken'[u] = 0 /\ Declares[u] = 0 /\ Declares'[u] = d
    <3>1. Declared(u)' = Declared(u)
      BY <2>7 DEF Declared
    <3>2. QED
      BY <1>1, <2>2, <2>4, <2>7, <3>1 DEF At, Taken, Declares, Reserving
  <2>11. /\ SumFunctionOnSet(Taken', Uploaders) = SumFunctionOnSet(Taken, Uploaders) + Taken'[u] - Taken[u]
         /\ SumFunctionOnSet(Declares', Uploaders)
              = SumFunctionOnSet(Declares, Uploaders) + Declares'[u] - Declares[u]
         /\ SumFunctionOnSet(Taken, Uploaders) \in Int
         /\ SumFunctionOnSet(Declares, Uploaders) \in Int
    BY <2>6, <2>7, <2>9, SumsChange DEF SpaceInv
  <2>12. Accounted'
    <3>1. inflight = SumFunctionOnSet(Declares, Uploaders) /\ inflight' = inflight + d
      BY <2>1, <2>4 DEF SpaceInv, Accounted
    <3>2. SumFunctionOnSet(Declares', Uploaders) = SumFunctionOnSet(Declares, Uploaders) + d
      BY <2>4, <2>10, <2>11
    <3>3. QED
      BY <3>1, <3>2 DEF Accounted
  <2>13. Trusted'
    <3>1. SUFFICES ASSUME ~stale'
                   PROVE  /\ figure' = Unknown \/ figure' >= Reserve
                          /\ \A w \in Uploaders : upload'[w].pc = "check" => upload'[w].free >= Reserve
                          /\ \A w \in Uploaders : upload'[w].pc \in {"body", "placed", "end"} => upload'[w].size # Unknown
                          /\ Reserve > 0 => free' + SumFunctionOnSet(Taken', Uploaders) >= Reserve + inflight'
      BY DEF Trusted, At, Reserving
    <3>2. ~stale /\ ~Misled(u)
      BY <2>1, <3>1, Zenon
    <3>3. /\ figure = Unknown \/ figure >= Reserve
          /\ \A w \in Uploaders : upload[w].pc = "check" => upload[w].free >= Reserve
          /\ \A w \in Uploaders : upload[w].pc \in {"body", "placed", "end"} => upload[w].size # Unknown
      BY <3>2 DEF SpaceInv, Trusted, At, Reserving
    <3>4. /\ s # Unknown
          /\ ~(upload[u].free > free + SumFunctionOnSet(Taken, Uploaders))
      BY <3>2 DEF Misled
    <3>5. upload[u].free >= Reserve
      BY <1>1, <3>3 DEF At
    <3>6. s > 0 /\ d = s
      BY <2>2, <2>3, <3>4
    <3>7. Reserve > 0 => s <= upload[u].free - Reserve - inflight
      <4>1. s > 0 /\ upload[u].free > 0 => s <= upload[u].free - Reserve - inflight
        BY <1>3 DEF Fits
      <4>2. upload[u].free \in Nat /\ Reserve \in Nat
        BY <2>2, SpaceAssumption
      <4>3. QED
        BY <3>5, <3>6, <4>1, <4>2
    <3>8. Reserve > 0 => free' + SumFunctionOnSet(Taken', Uploaders) >= Reserve + inflight'
      <4>1. /\ free \in Nat /\ inflight \in Int /\ Reserve \in Nat /\ upload[u].free \in Nat
        BY <2>2, SpaceAssumption DEF SpaceInv, SpaceOK
      <4>2. /\ SumFunctionOnSet(Taken', Uploaders) = SumFunctionOnSet(Taken, Uploaders)
            /\ inflight' = inflight + s /\ free' = free
        BY <1>1, <2>1, <2>4, <2>10, <2>11, <3>6
      <4>3. QED
        BY <2>3, <2>11, <3>4, <3>7, <4>1, <4>2
    <3>9. \A w \in Uploaders : upload'[w].pc = "check" => upload'[w].free >= Reserve
      BY <2>7, <3>3
    <3>10. \A w \in Uploaders : upload'[w].pc \in {"body", "placed", "end"} => upload'[w].size # Unknown
      BY <2>7, <3>3, <3>4
    <3>11. QED
      BY <1>1, <3>3, <3>8, <3>9, <3>10
  <2>14. QED
    BY <2>6, <2>9, <2>12, <2>13 DEF SpaceInv
<1>4. QED
  BY <1>2, <1>3

LEMMA BodyStep ==
    ASSUME SpaceInv, NEW u \in Uploaders, BodyArrives(u)
    PROVE  SpaceInv'
<1> DEFINE size == SizeOf[upload[u].file]
<1>1. /\ upload[u].pc = "body" /\ upload[u].taken = 0
      /\ UNCHANGED <<figure, inflight, stale>>
      /\ \/ size <= free /\ free' = free - size /\ upload' = [upload EXCEPT ![u].taken = size]
         \/ Goes(u, "end") /\ free' = free
  BY DEF BodyArrives, At
<1>2. free \in Nat
  BY DEF SpaceInv, SpaceOK
<1>3. /\ upload[u] \in [pc : Steps, file : Files, size : Nat \cup {Unknown}, free : Nat, taken : Nat]
      /\ upload[u].size \in {Unknown, SizeOf[upload[u].file]}
  BY <1>1 DEF SpaceInv, Carried, At
<1>4. size \in Nat \ {0}
  BY <1>3, SizeAssumption
<1>5. CASE Goes(u, "end") /\ free' = free
  <2>1. "end" \in Steps /\ free' >= free /\ free' \in Nat
    BY <1>2, <1>5 DEF Steps
  <2>2. QED
    BY <1>1, <1>5, <2>1, PassesOn
<1>6. CASE size <= free /\ free' = free - size /\ upload' = [upload EXCEPT ![u].taken = size]
  <2> DEFINE r == [upload[u] EXCEPT !.taken = size]
  <2>1. /\ r \in [pc : Steps, file : Files, size : Nat \cup {Unknown}, free : Nat, taken : Nat]
        /\ r.pc = "body" /\ r.file = upload[u].file /\ r.size = upload[u].size /\ r.taken = size
    BY <1>1, <1>3, <1>4
  <2>2. upload' = [upload EXCEPT ![u] = r]
    BY <1>6
  <2> HIDE DEF r
  <2>3. upload' \in [Uploaders -> Uploading] /\ Carried'
    <3>1. r \in Uploading /\ r.taken \in {0, SizeOf[r.file]} /\ r.size \in {Unknown, SizeOf[r.file]}
      BY <1>3, <2>1 DEF Uploading
    <3>2. QED
      BY <2>1, <2>2, <3>1, CarriesOn DEF SpaceInv
  <2>4. /\ upload'[u] = r
        /\ \A w \in Uploaders \ {u} :
             upload'[w] = upload[w] /\ Taken'[w] = Taken[w] /\ Declares'[w] = Declares[w]
    BY <2>2, OneChanges DEF SpaceInv
  <2>5. free' \in Nat
    BY <1>2, <1>4, <1>6
  <2>6. SpaceOK'
    BY <1>1, <2>3, <2>5 DEF SpaceInv, SpaceOK
  <2>7. /\ Taken[u] = 0 /\ Taken'[u] = size /\ Declares'[u] = Declares[u]
    <3>1. Declared(u)' = Declared(u)
      BY <2>1, <2>4 DEF Declared
    <3>2. QED
      BY <1>1, <2>1, <2>4, <3>1 DEF Taken, Declares, Reserving
  <2>8. /\ SumFunctionOnSet(Taken', Uploaders) = SumFunctionOnSet(Taken, Uploaders) + Taken'[u] - Taken[u]
        /\ SumFunctionOnSet(Declares', Uploaders)
             = SumFunctionOnSet(Declares, Uploaders) + Declares'[u] - Declares[u]
        /\ SumFunctionOnSet(Taken, Uploaders) \in Int /\ SumFunctionOnSet(Declares, Uploaders) \in Int
        /\ Declares[u] \in Int
    BY <2>3, <2>4, <2>6, SumsChange DEF SpaceInv
  <2>9. Accounted'
    <3>1. SumFunctionOnSet(Declares', Uploaders) = SumFunctionOnSet(Declares, Uploaders)
      BY <2>7, <2>8
    <3>2. QED
      BY <1>1, <3>1 DEF SpaceInv, Accounted
  <2>10. Reserve \in Nat /\ inflight \in Int
    BY SpaceAssumption DEF SpaceInv, SpaceOK
  <2>11. free' + SumFunctionOnSet(Taken', Uploaders) = free + SumFunctionOnSet(Taken, Uploaders)
    <3> DEFINE a == SumFunctionOnSet(Taken, Uploaders)
               b == SumFunctionOnSet(Taken', Uploaders)
    <3>1. b = a + size /\ a \in Int /\ free' = free - size
      BY <1>4, <1>6, <2>7, <2>8
    <3> HIDE DEF a, b
    <3>2. free' + b = free + a
      BY <1>2, <1>4, <3>1
    <3>3. QED
      BY <3>2 DEF a, b
  <2>12. Trusted'
    BY <1>1, <2>1, <2>4, <2>11 DEF SpaceInv, Trusted, At, Reserving
  <2>13. QED
    BY <2>3, <2>6, <2>9, <2>12 DEF SpaceInv
<1>7. QED
  BY <1>1, <1>5, <1>6

LEMMA PlaceStep ==
    ASSUME SpaceInv, NEW u \in Uploaders, Place(u)
    PROVE  SpaceInv'
<1>1. /\ upload[u].pc = "body" /\ Goes(u, "placed") /\ UNCHANGED <<figure, inflight, stale>>
      /\ free' = free + (IF stored[upload[u].file] = 0 THEN 0 ELSE SizeOf[upload[u].file])
  BY DEF Place, At
<1>2. upload[u].file \in Files
  BY <1>1 DEF SpaceInv, Carried, At
<1>3. SizeOf[upload[u].file] \in Nat /\ free \in Nat
  BY <1>2, SizeAssumption DEF SpaceInv, SpaceOK
<1>4. free' \in Nat /\ free' >= free /\ "placed" \in Steps
  BY <1>1, <1>3 DEF Steps
<1>5. QED
  BY <1>1, <1>4, PassesOn

LEMMA NoteStep ==
    ASSUME SpaceInv, NEW u \in Uploaders, NoteUploaded(u)
    PROVE  SpaceInv'
<1>1. upload[u].pc = "placed" /\ Goes(u, "end") /\ UNCHANGED <<free, figure, inflight, stale>>
  BY DEF NoteUploaded, At, space
<1>2. free' \in Nat /\ free' >= free /\ "end" \in Steps
  BY <1>1 DEF SpaceInv, SpaceOK, Steps
<1>3. QED
  BY <1>1, <1>2, PassesOn

LEMMA ReleaseStep ==
    ASSUME SpaceInv, NEW u \in Uploaders, Release(u)
    PROVE  SpaceInv'
<1>1. /\ upload[u].pc = "end" /\ Goes(u, "forget") /\ inflight' = inflight - Declared(u)
      /\ UNCHANGED <<free, figure, stale>>
  BY DEF Release, At
<1>2. ~At(u, "idle") /\ "forget" \in Steps
  BY <1>1 DEF At, Steps
<1>3. upload' \in [Uploaders -> Uploading] /\ Carried'
  BY <1>1, <1>2, GoesCarriesOn DEF SpaceInv
<1>4. /\ upload'[u].pc = "forget"
      /\ \A w \in Uploaders \ {u} :
           upload'[w] = upload[w] /\ Taken'[w] = Taken[w] /\ Declares'[w] = Declares[w]
  BY <1>1, <1>2, GoesOn DEF SpaceInv
<1>5. /\ Declares[u] = Declared(u) /\ Declares'[u] = 0 /\ Taken'[u] = 0
  BY <1>1, <1>4 DEF Declares, Taken, Reserving
<1>6. Taken[u] \in Int /\ Declares[u] \in Int
  BY SumsAreIntegers DEF SpaceInv, SumsOK
<1>7. SpaceOK'
  BY <1>1, <1>3, <1>5, <1>6 DEF SpaceInv, SpaceOK
<1>8. /\ SumFunctionOnSet(Taken', Uploaders) = SumFunctionOnSet(Taken, Uploaders) + Taken'[u] - Taken[u]
      /\ SumFunctionOnSet(Declares', Uploaders)
           = SumFunctionOnSet(Declares, Uploaders) + Declares'[u] - Declares[u]
      /\ SumFunctionOnSet(Taken, Uploaders) \in Int
      /\ SumFunctionOnSet(Declares, Uploaders) \in Int
  BY <1>3, <1>4, <1>7, SumsChange DEF SpaceInv
<1> DEFINE a == SumFunctionOnSet(Taken, Uploaders)
           b == SumFunctionOnSet(Taken', Uploaders)
           c == SumFunctionOnSet(Declares, Uploaders)
           d == SumFunctionOnSet(Declares', Uploaders)
<1>9. /\ b = a - Taken[u] /\ d = c - Declares[u] /\ a \in Int /\ c \in Int
  BY <1>5, <1>6, <1>8
<1>10. Accounted'
  BY <1>1, <1>5, <1>9 DEF SpaceInv, Accounted
<1>11. ASSUME ~stale'
       PROVE  Reserve > 0 => free' + b >= Reserve + inflight'
  <2>1. Reserve > 0 => free + a >= Reserve + inflight
    BY <1>1, <1>11 DEF SpaceInv, Trusted
  <2>2. upload[u].size # Unknown
    BY <1>1, <1>11 DEF SpaceInv, Trusted, Reserving
  <2>3. Taken[u] <= Declares[u]
    BY <2>2, Families DEF SpaceInv
  <2>4. Reserve \in Nat /\ inflight \in Int /\ free \in Nat /\ free' = free /\ inflight' = inflight - Declares[u]
    BY <1>1, <1>5, SpaceAssumption DEF SpaceInv, SpaceOK
  <2> HIDE DEF a, b, c, d
  <2>5. QED
    BY <1>6, <1>9, <2>1, <2>3, <2>4
<1>12. Trusted'
  BY <1>1, <1>4, <1>11 DEF SpaceInv, Trusted, At, Reserving
<1>13. QED
  BY <1>3, <1>7, <1>10, <1>12 DEF SpaceInv

LEMMA ForgetStep ==
    ASSUME SpaceInv, NEW u \in Uploaders, Forget(u)
    PROVE  SpaceInv'
<1>1. /\ upload[u].pc = "forget" /\ figure' = Unknown /\ upload' = [upload EXCEPT ![u] = Idle]
      /\ UNCHANGED <<free, inflight, stale>>
  BY DEF Forget, At
<1>2. Idle \in Uploading /\ Idle.pc = "idle"
  BY DEF Idle, Uploading
<1>3. upload' \in [Uploaders -> Uploading] /\ Carried'
  BY <1>1, <1>2, CarriesOn DEF SpaceInv
<1>4. /\ upload'[u].pc = "idle"
      /\ \A w \in Uploaders \ {u} :
           upload'[w] = upload[w] /\ Taken'[w] = Taken[w] /\ Declares'[w] = Declares[w]
  BY <1>1, <1>2, OneChanges DEF SpaceInv
<1>5. SpaceOK'
  BY <1>1, <1>3 DEF SpaceInv, SpaceOK
<1>6. Taken'[u] = Taken[u] /\ Declares'[u] = Declares[u]
  BY <1>1, <1>4 DEF Taken, Declares, Reserving
<1>7. \A w \in Uploaders : Taken'[w] = Taken[w] /\ Declares'[w] = Declares[w]
  BY <1>4, <1>6
<1>8. \A w \in Uploaders :
             /\ upload'[w].pc = "check" =>
                  \/ upload[w].pc = "check" /\ upload'[w].free = upload[w].free
                  \/ upload'[w].free \in {figure, free} \ {Unknown}
             /\ upload'[w].pc \in {"body", "placed", "end"} =>
                  upload[w].pc \in {"body", "placed", "end"} /\ upload'[w].size = upload[w].size
  BY <1>4
<1>9. free' >= free
  BY <1>1 DEF SpaceInv, SpaceOK
<1>10. QED
  BY <1>1, <1>3, <1>5, <1>7, <1>8, <1>9, SameSums

(* Timers, scans, events and other people do not touch the space.           *)
LEMMA OtherStep ==
    ASSUME SpaceInv, UNCHANGED <<space, upload>>
    PROVE  SpaceInv'
<1>1. UNCHANGED <<free, figure, inflight, stale, upload>>
  BY DEF space
<1>2. Taken' = Taken /\ Declares' = Declares
  BY <1>1, SumsStay
<1>3. SpaceOK' /\ Accounted'
  BY <1>1, <1>2 DEF SpaceInv, SpaceOK, Accounted
<1>4. Carried'
  BY <1>1 DEF SpaceInv, Carried, At
<1>5. Trusted'
  BY <1>1, <1>2 DEF SpaceInv, Trusted, At, Reserving
<1>6. QED
  BY <1>3, <1>4, <1>5 DEF SpaceInv

LEMMA SpaceInit == Init => SpaceInv
<1>1. SUFFICES ASSUME Init PROVE SpaceInv
  OBVIOUS
<1>2. /\ free = Space /\ figure = Unknown /\ inflight = 0 /\ stale = FALSE
      /\ upload = [u \in Uploaders |-> Idle]
  BY <1>1 DEF Init
<1>3. \A u \in Uploaders : upload[u].pc = "idle" /\ upload[u] \in Uploading
  BY <1>2 DEF Idle, Uploading
<1>4. SpaceOK
  <2>1. upload \in [Uploaders -> Uploading]
    BY <1>2, <1>3
  <2>2. free \in Nat /\ inflight \in Int /\ figure \in Nat \cup {Unknown}
    BY <1>2, SpaceAssumption
  <2>3. stale \in BOOLEAN
    BY <1>2, Zenon
  <2>4. QED
    BY <2>1, <2>2, <2>3 DEF SpaceOK
<1>5. Carried
  BY <1>3 DEF Carried, At
<1>6. \A u \in Uploaders : Taken[u] = 0 /\ Declares[u] = 0
  BY <1>3 DEF Taken, Declares, Reserving
<1>7. SumFunctionOnSet(Taken, Uploaders) = 0 /\ SumFunctionOnSet(Declares, Uploaders) = 0
  BY <1>6, SumZero, UploadersAssumption
<1>8. Accounted
  BY <1>2, <1>7 DEF Accounted
<1>9. Trusted
  <2>1. Space \in Nat /\ Reserve \in Nat /\ Reserve <= Space
    BY SpaceAssumption
  <2>2. free + SumFunctionOnSet(Taken, Uploaders) >= Reserve + inflight
    BY <1>2, <1>7, <2>1
  <2>3. \A u \in Uploaders : ~At(u, "check") /\ u \notin Reserving
    BY <1>3 DEF At, Reserving
  <2>4. QED
    BY <1>2, <2>2, <2>3 DEF Trusted, Reserving
<1>10. QED
  BY <1>4, <1>5, <1>8, <1>9 DEF SpaceInv

LEMMA SpaceStep == SpaceInv /\ [Next]_vars => SpaceInv'
<1>1. SUFFICES ASSUME SpaceInv, [Next]_vars PROVE SpaceInv'
  OBVIOUS
<1>2. ASSUME NEW u \in Uploaders, NEW f \in Files, NEW size \in Lengths[f], Begin(u, f, size)
      PROVE  SpaceInv'
  BY <1>1, <1>2, BeginStep
<1>3. ASSUME NEW u \in Uploaders, Proceeds(u) PROVE SpaceInv'
  BY <1>1, <1>3, ReserveStep, BodyStep, PlaceStep, NoteStep, ReleaseStep, ForgetStep, Zenon DEF Proceeds
<1>4. CASE TimerFires \/ ScanGrowsOld \/ \E fo \in Folders : SendUpdate(fo)
  <2>1. UNCHANGED <<space, upload>>
    BY <1>4 DEF TimerFires, ScanGrowsOld, SendUpdate
  <2>2. QED
    BY <1>1, <2>1, OtherStep
<1>5. CASE ScanEnds \/ EventArrives \/ NoteUpdate \/ ScanNextBatch
  <2>1. UNCHANGED <<space, upload>>
    BY <1>5 DEF ScanEnds, EventArrives, NoteUpdate, ScanNextBatch, MaybeScan
  <2>2. QED
    BY <1>1, <2>1, OtherStep
<1>6. CASE MpdStops \/ MpdStarts \/ LoseEvent \/ Rescan \/ \E fo \in Folders \ {<<>>} : NewFolder(fo)
  <2>1. UNCHANGED <<space, upload>>
    BY <1>6 DEF MpdStops, MpdStarts, LoseEvent, Rescan, NewFolder
  <2>2. QED
    BY <1>1, <2>1, OtherStep
<1>7. CASE UNCHANGED vars
  <2>1. UNCHANGED <<space, upload>>
    BY <1>7 DEF vars
  <2>2. QED
    BY <1>1, <2>1, OtherStep
<1>8. QED
  BY <1>1, <1>2, <1>3, <1>4, <1>5, <1>6, <1>7, Zenon DEF Next

(* The space check of files.go:212 and the reservation under the same lock  *)
(* keep the reserve of the disk, however many requests upload at once, as   *)
(* long as none is admitted without a size or with a figure from before     *)
(* another upload ended.                                                    *)
THEOREM SpaceKept == Spec => []ReserveKept
<1>1. Spec => []SpaceInv
  BY SpaceInit, SpaceStep, PTL DEF Spec
<1>2. QED
  BY <1>1, KeptByInv, PTL
=============================================================================
