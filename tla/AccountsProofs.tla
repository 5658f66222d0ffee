--------------------------- MODULE AccountsProofs ---------------------------
(***************************************************************************)
(* What the proofs about the origin cache and the store need to know of    *)
(* sums over finite sets, of removals from sequences and of extremes.      *)
(***************************************************************************)
EXTENDS Accounts, FiniteSetTheorems, SequenceTheorems, TLAPS

-----------------------------------------------------------------------------
(* Sums                                                                     *)

LEMMA UnitsMember ==
  ASSUME NEW S, NEW f
  PROVE  \A u : u \in Units(S, f) <=>
           \E x \in S : \E n \in 1..f[x] : u = <<x, n>>
BY DEF Units

LEMMA UnitsFinite ==
  ASSUME NEW S, IsFiniteSet(S), NEW f, \A x \in S : f[x] \in Int
  PROVE  IsFiniteSet(Units(S, f)) /\ Cardinality(Units(S, f)) \in Nat
<1> DEFINE part == [x \in S |-> {x} \X (1..f[x])]
           parts == {{x} \X (1..f[x]) : x \in S}
<1>1. part \in Surjection(S, parts)
  BY DEF Surjection
<1>2. IsFiniteSet(parts)
  <2> HIDE DEF part, parts
  <2>1. QED BY <1>1, FS_Surjection
<1>3. \A T \in parts : IsFiniteSet(T)
  <2> SUFFICES ASSUME NEW x \in S PROVE IsFiniteSet({x} \X (1..f[x]))
    OBVIOUS
  <2>1. f[x] \in Int /\ 1 \in Int
    OBVIOUS
  <2>2. IsFiniteSet(1..f[x])
    BY <2>1, FS_Interval
  <2>3. IsFiniteSet({x})
    BY FS_Singleton
  <2>4. QED BY <2>2, <2>3, FS_Product
<1>4. IsFiniteSet(Units(S, f))
  <2> HIDE DEF parts
  <2>1. IsFiniteSet(UNION parts)
    BY <1>2, <1>3, FS_UNION
  <2>2. QED BY <2>1 DEF Units, parts
<1>5. QED BY <1>4, FS_CardinalityType

\* Units counts only what f is on S.
LEMMA UnitsAgree ==
  ASSUME NEW S, NEW f, NEW g, \A x \in S : f[x] = g[x]
  PROVE  Units(S, f) = Units(S, g)
<1>1. \A u : u \in Units(S, f) <=> u \in Units(S, g)
  BY UnitsMember
<1>2. QED BY <1>1

LEMMA UnitsDifference ==
  ASSUME NEW S, IsFiniteSet(S), NEW T \in SUBSET S, NEW f, \A x \in S : f[x] \in Int
  PROVE  Cardinality(Units(S \ T, f)) = Cardinality(Units(S, f)) - Cardinality(Units(T, f))
<1>1. Units(T, f) \subseteq Units(S, f)
  BY UnitsMember
<1>2. Units(S \ T, f) = Units(S, f) \ Units(T, f)
  <2>1. \A u : u \in Units(S \ T, f) <=> u \in Units(S, f) /\ u \notin Units(T, f)
    <3> TAKE u
    <3>1. u \in Units(S \ T, f) <=> \E x \in S \ T : \E n \in 1..f[x] : u = <<x, n>>
      BY UnitsMember
    <3>2. u \in Units(S, f) <=> \E x \in S : \E n \in 1..f[x] : u = <<x, n>>
      BY UnitsMember
    <3>3. u \in Units(T, f) <=> \E x \in T : \E n \in 1..f[x] : u = <<x, n>>
      BY UnitsMember
    <3>4. \A x, y, m, n : <<x, m>> = <<y, n>> => x = y
      OBVIOUS
    <3>5. QED BY <3>1, <3>2, <3>3, <3>4
  <2>2. QED BY <2>1
<1>3. Units(S, f) \cap Units(T, f) = Units(T, f)
  BY <1>1
<1>4. IsFiniteSet(Units(S, f))
  BY UnitsFinite
<1>5. Cardinality(Units(S, f) \ Units(T, f))
        = Cardinality(Units(S, f)) - Cardinality(Units(S, f) \cap Units(T, f))
  BY <1>4, FS_Difference
<1>6. QED BY <1>2, <1>3, <1>5

LEMMA TotalType ==
  ASSUME NEW S, IsFiniteSet(S), NEW f, \A x \in S : f[x] \in Int
  PROVE  Total(S, f) \in Int
<1> DEFINE minus == [x \in S |-> -f[x]]
<1>1. \A x \in S : minus[x] \in Int
  OBVIOUS
<1>2. Cardinality(Units(S, minus)) \in Nat
  <2> HIDE DEF minus
  <2>1. QED BY <1>1, UnitsFinite
<1>3. Cardinality(Units(S, f)) \in Nat
  BY UnitsFinite
<1>4. QED BY <1>2, <1>3 DEF Total

LEMMA TotalAgree ==
  ASSUME NEW S, NEW f, NEW g, \A x \in S : f[x] = g[x]
  PROVE  Total(S, f) = Total(S, g)
<1>1. [x \in S |-> -f[x]] = [x \in S |-> -g[x]]
  OBVIOUS
<1>2. QED BY <1>1, UnitsAgree DEF Total

\* What a part holds is the whole less what the rest holds.
LEMMA TotalDifference ==
  ASSUME NEW S, IsFiniteSet(S), NEW T \in SUBSET S, NEW f, \A x \in S : f[x] \in Int
  PROVE  Total(S \ T, f) = Total(S, f) - Total(T, f)
<1> DEFINE Minus(R) == [x \in R |-> -f[x]]
<1>1. \A x \in S : Minus(S)[x] \in Int
  OBVIOUS
<1>2. Cardinality(Units(S \ T, f)) = Cardinality(Units(S, f)) - Cardinality(Units(T, f))
  BY UnitsDifference
<1>3. Cardinality(Units(S \ T, Minus(S)))
        = Cardinality(Units(S, Minus(S))) - Cardinality(Units(T, Minus(S)))
  <2> HIDE DEF Minus
  <2>1. QED BY <1>1, UnitsDifference
<1>4. /\ Units(S \ T, Minus(S)) = Units(S \ T, Minus(S \ T))
      /\ Units(T, Minus(S)) = Units(T, Minus(T))
  <2>1. /\ \A x \in S \ T : Minus(S)[x] = Minus(S \ T)[x]
        /\ \A x \in T : Minus(S)[x] = Minus(T)[x]
    OBVIOUS
  <2> HIDE DEF Minus
  <2>2. QED BY <2>1, UnitsAgree
<1>5. IsFiniteSet(T) /\ IsFiniteSet(S \ T)
  BY FS_Subset
<1>6. /\ Cardinality(Units(S, f)) \in Nat /\ Cardinality(Units(T, f)) \in Nat
      /\ Cardinality(Units(S, Minus(S))) \in Nat /\ Cardinality(Units(T, Minus(T))) \in Nat
  <2>1. /\ \A x \in S : Minus(S)[x] \in Int
        /\ \A x \in T : Minus(T)[x] \in Int
        /\ \A x \in T : f[x] \in Int
    OBVIOUS
  <2> HIDE DEF Minus
  <2>2. QED BY <2>1, <1>5, UnitsFinite
<1>7. /\ Total(S \ T, f) = Cardinality(Units(S \ T, f)) - Cardinality(Units(S \ T, Minus(S \ T)))
      /\ Total(S, f) = Cardinality(Units(S, f)) - Cardinality(Units(S, Minus(S)))
      /\ Total(T, f) = Cardinality(Units(T, f)) - Cardinality(Units(T, Minus(T)))
  BY DEF Total
<1> HIDE DEF Minus
<1>8. QED BY <1>2, <1>3, <1>4, <1>6, <1>7

LEMMA TotalEmpty ==
  ASSUME NEW f
  PROVE  Total({}, f) = 0
<1>1. \A g : Units({}, g) = {}
  BY DEF Units
<1>2. Cardinality({}) = 0
  BY FS_EmptySet
<1>3. Total({}, f) = Cardinality({}) - Cardinality({})
  BY <1>1 DEF Total
<1>4. QED BY <1>2, <1>3

LEMMA UnitsOfOne ==
  ASSUME NEW x, NEW f, f[x] \in Int
  PROVE  Cardinality(Units({x}, f)) = IF f[x] > 0 THEN f[x] ELSE 0
<1>1. Units({x}, f) = {x} \X (1..f[x])
  BY DEF Units
<1> DEFINE n == f[x]
<1>2. /\ IsFiniteSet({x}) /\ Cardinality({x}) = 1 /\ IsFiniteSet(1..n)
      /\ Cardinality(1..n) = IF 1 > n THEN 0 ELSE n - 1 + 1
  <2>1. n \in Int /\ 1 \in Int
    OBVIOUS
  <2> HIDE DEF n
  <2>2. QED BY <2>1, FS_Singleton, FS_Interval
<1>3. Cardinality(Units({x}, f)) = 1 * Cardinality(1..f[x])
  BY <1>1, <1>2, FS_Product
<1>4. QED BY <1>2, <1>3

LEMMA TotalOfOne ==
  ASSUME NEW x, NEW f, f[x] \in Int
  PROVE  Total({x}, f) = f[x]
<1> DEFINE minus == [y \in {x} |-> -f[y]]
<1>1. minus[x] = -f[x] /\ minus[x] \in Int
  OBVIOUS
<1> HIDE DEF minus
<1>2. Cardinality(Units({x}, minus)) = IF minus[x] > 0 THEN minus[x] ELSE 0
  BY <1>1, UnitsOfOne
<1>3. Cardinality(Units({x}, f)) = IF f[x] > 0 THEN f[x] ELSE 0
  BY UnitsOfOne
<1>4. QED BY <1>1, <1>2, <1>3 DEF Total, minus

LEMMA TotalWithout ==
  ASSUME NEW S, IsFiniteSet(S), NEW x \in S, NEW f, \A y \in S : f[y] \in Int
  PROVE  Total(S \ {x}, f) = Total(S, f) - f[x]
<1>1. {x} \in SUBSET S /\ f[x] \in Int
  OBVIOUS
<1>2. Total(S \ {x}, f) = Total(S, f) - Total({x}, f)
  BY <1>1, TotalDifference
<1>3. QED BY <1>1, <1>2, TotalOfOne

LEMMA TotalWith ==
  ASSUME NEW S, IsFiniteSet(S), NEW x, x \notin S, NEW f,
         \A y \in S \cup {x} : f[y] \in Int
  PROVE  Total(S \cup {x}, f) = Total(S, f) + f[x]
<1>1. IsFiniteSet(S \cup {x}) /\ (S \cup {x}) \ {x} = S
  BY FS_AddElement
<1>2. Total(S, f) = Total(S \cup {x}, f) - f[x]
  BY <1>1, TotalWithout
<1>3. Total(S \cup {x}, f) \in Int /\ f[x] \in Int
  BY <1>1, TotalType
<1>4. QED BY <1>2, <1>3

\* A sum of what is not negative is not negative; of nothing, nothing.
LEMMA TotalPositive ==
  ASSUME NEW S, IsFiniteSet(S), NEW f, \A x \in S : f[x] \in Nat
  PROVE  Total(S, f) \in Nat
<1> DEFINE minus == [x \in S |-> -f[x]]
<1>1. \A x \in S : 1..minus[x] = {}
  OBVIOUS
<1>2. Units(S, minus) = {}
  BY <1>1, UnitsMember
<1>3. Cardinality(Units(S, f)) \in Nat
  BY UnitsFinite
<1>4. QED BY <1>2, <1>3, FS_EmptySet DEF Total

LEMMA TotalZero ==
  ASSUME NEW S, NEW f, \A x \in S : f[x] = 0
  PROVE  Total(S, f) = 0
<1> DEFINE minus == [x \in S |-> -f[x]]
<1>1. \A x \in S : 1..minus[x] = {} /\ 1..f[x] = {}
  OBVIOUS
<1>2. Units(S, minus) = {} /\ Units(S, f) = {}
  BY <1>1, UnitsMember
<1>3. QED BY <1>2, FS_EmptySet DEF Total

\* Two of S at once.
LEMMA TotalWithoutTwo ==
  ASSUME NEW S, IsFiniteSet(S), NEW x \in S, NEW y \in S, x # y, NEW f,
         \A z \in S : f[z] \in Int
  PROVE  Total(S \ {x, y}, f) = Total(S, f) - f[x] - f[y]
<1>1. IsFiniteSet(S \ {x}) /\ (S \ {x}) \ {y} = S \ {x, y}
  BY FS_RemoveElement
<1>2. Total(S \ {x}, f) = Total(S, f) - f[x]
  BY TotalWithout
<1>3. Total((S \ {x}) \ {y}, f) = Total(S \ {x}, f) - f[y]
  BY <1>1, TotalWithout
<1>4. Total(S, f) \in Int /\ f[x] \in Int /\ f[y] \in Int
  BY TotalType
<1>5. QED BY <1>1, <1>2, <1>3, <1>4

-----------------------------------------------------------------------------
(* Sequences without repetition                                             *)

Distinct(s) == \A i, j \in 1..Len(s) : s[i] = s[j] => i = j

LEMMA SetOfSeq ==
  ASSUME NEW S, NEW s \in Seq(S)
  PROVE  /\ ToSet(s) \subseteq S
         /\ \A e : e \in ToSet(s) <=> \E i \in 1..Len(s) : s[i] = e
<1>1. DOMAIN s = 1..Len(s) /\ \A i \in 1..Len(s) : s[i] \in S
  BY LenProperties
<1>2. QED BY <1>1 DEF ToSet

LEMMA EmptyDistinct == ToSet(<<>>) = {} /\ Distinct(<<>>)
<1>1. <<>> \in Seq({}) /\ Len(<<>>) = 0
  BY EmptySeq
<1>2. \A i : i \notin 1..Len(<<>>)
  BY <1>1
<1>3. \A e : e \notin ToSet(<<>>)
  BY <1>1, <1>2, SetOfSeq
<1>4. QED BY <1>2, <1>3 DEF Distinct

LEMMA DistinctCounted ==
  ASSUME NEW S, NEW s \in Seq(S), Distinct(s)
  PROVE  IsFiniteSet(ToSet(s)) /\ Cardinality(ToSet(s)) = Len(s)
<1>1. Len(s) \in Nat /\ s \in [1..Len(s) -> S] /\ DOMAIN s = 1..Len(s)
  BY LenProperties
<1>2. s \in Bijection(1..Len(s), ToSet(s))
  BY <1>1 DEF ToSet, Distinct, Bijection, Injection, IsInjective, Surjection
<1>3. ExistsBijection(1..Len(s), ToSet(s))
  BY <1>2 DEF ExistsBijection
<1>4. Cardinality(ToSet(s)) = Len(s)
  BY <1>1, <1>3, FS_CountingElements
<1>5. IsFiniteSet(ToSet(s))
  BY <1>1, <1>3, FS_NatBijection
<1>6. QED BY <1>4, <1>5

LEMMA DistinctAppend ==
  ASSUME NEW S, NEW s \in Seq(S), NEW e \in S
  PROVE  /\ Append(s, e) \in Seq(S) /\ Len(Append(s, e)) = Len(s) + 1
         /\ ToSet(Append(s, e)) = ToSet(s) \cup {e}
         /\ Distinct(s) /\ e \notin ToSet(s) => Distinct(Append(s, e))
<1> DEFINE t == Append(s, e)
<1>1. /\ t \in Seq(S) /\ Len(t) = Len(s) + 1 /\ Len(s) \in Nat
      /\ \A i \in 1..Len(s) : t[i] = s[i]
      /\ t[Len(s) + 1] = e
  BY AppendProperties, LenProperties
<1> HIDE DEF t
<1>2. \A i \in 1..Len(t) : i \in 1..Len(s) \/ i = Len(s) + 1
  BY <1>1
<1>3. \A x : x \in ToSet(t) <=> x \in ToSet(s) \cup {e}
  <2> TAKE x
  <2>1. x \in ToSet(t) <=> \E i \in 1..Len(t) : t[i] = x
    BY <1>1, SetOfSeq
  <2>2. x \in ToSet(s) <=> \E i \in 1..Len(s) : s[i] = x
    BY SetOfSeq
  <2>3. QED BY <1>1, <1>2, <2>1, <2>2
<1>4. ASSUME Distinct(s), e \notin ToSet(s)  PROVE Distinct(t)
  <2>1. \A i \in 1..Len(s) : s[i] # e
    BY <1>4, SetOfSeq
  <2>2. QED BY <1>1, <1>2, <1>4, <2>1 DEF Distinct
<1>5. ToSet(t) = ToSet(s) \cup {e}
  BY <1>3
<1>6. QED BY <1>1, <1>4, <1>5 DEF t

\* What stays of a sequence when its first n elements go.
LEMMA DistinctSuffix ==
  ASSUME NEW S, NEW s \in Seq(S), NEW n \in 0..Len(s)
  PROVE  LET t == SubSeq(s, n + 1, Len(s)) IN
         /\ t \in Seq(S) /\ Len(t) = Len(s) - n
         /\ Distinct(s) => Distinct(t) /\ ToSet(t) = ToSet(s) \ {s[i] : i \in 1..n}
<1> DEFINE t == SubSeq(s, n + 1, Len(s))
<1>1. Len(s) \in Nat /\ \A i \in 1..Len(s) : s[i] \in S
  BY LenProperties
<1>2. /\ t \in Seq(S) /\ Len(t) = Len(s) - n
      /\ \A i \in 1..(Len(s) - n) : t[i] = s[n + i]
  <2>1. \A i \in (n + 1)..Len(s) : s[i] \in S
    BY <1>1
  <2>2. n + 1 \in Int /\ Len(s) \in Int
    BY <1>1
  <2>3. /\ t \in Seq(S)
        /\ Len(t) = IF n + 1 <= Len(s) THEN Len(s) - (n + 1) + 1 ELSE 0
        /\ \A i \in 1..(Len(s) - (n + 1) + 1) : t[i] = s[(n + 1) + i - 1]
    BY <2>1, <2>2, SubSeqProperties
  <2> HIDE DEF t
  <2>4. ASSUME NEW i \in 1..(Len(s) - n)  PROVE t[i] = s[n + i]
    <3>1. i \in 1..(Len(s) - (n + 1) + 1) /\ (n + 1) + i - 1 = n + i
      BY <1>1
    <3>2. t[i] = s[(n + 1) + i - 1]
      BY <2>3, <3>1
    <3>3. QED BY <3>1, <3>2
  <2>5. Len(t) = Len(s) - n
    BY <1>1, <2>3
  <2>6. QED BY <2>3, <2>4, <2>5
<1> HIDE DEF t
<1>3. ASSUME Distinct(s) PROVE Distinct(t)
  BY <1>1, <1>2, <1>3 DEF Distinct
<1>4. ASSUME Distinct(s), NEW x
      PROVE  x \in ToSet(t) <=> x \in ToSet(s) \ {s[i] : i \in 1..n}
  <2>1. x \in ToSet(t) <=> \E i \in 1..(Len(s) - n) : s[n + i] = x
    <3>1. x \in ToSet(t) <=> \E i \in 1..Len(t) : t[i] = x
      BY <1>2, SetOfSeq
    <3>2. QED BY <1>2, <3>1
  <2>2. x \in ToSet(s) <=> \E i \in 1..Len(s) : s[i] = x
    BY SetOfSeq
  <2>3. ASSUME NEW i \in 1..(Len(s) - n), s[n + i] = x
        PROVE  x \in ToSet(s) \ {s[j] : j \in 1..n}
    <3>1. n + i \in 1..Len(s) /\ \A j \in 1..n : j \in 1..Len(s) /\ j # n + i
      BY <1>1
    <3>2. QED BY <1>4, <2>2, <2>3, <3>1 DEF Distinct
  <2>4. ASSUME NEW i \in 1..Len(s), s[i] = x, x \notin {s[j] : j \in 1..n}
        PROVE  \E j \in 1..(Len(s) - n) : s[n + j] = x
    <3>1. i \notin 1..n
      BY <2>4
    <3>2. i - n \in 1..(Len(s) - n) /\ n + (i - n) = i
      BY <1>1, <3>1
    <3>3. QED BY <2>4, <3>2
  <2>5. QED BY <2>1, <2>2, <2>3, <2>4
<1>5. Distinct(s) => ToSet(t) = ToSet(s) \ {s[i] : i \in 1..n}
  BY <1>4
<1>6. QED BY <1>2, <1>3, <1>5 DEF t

LEMMA WithoutKeeps ==
  ASSUME NEW S, NEW s \in Seq(S), NEW e
  PROVE  /\ Without(s, e) \in Seq(S)
         /\ ToSet(Without(s, e)) \subseteq ToSet(s)
         /\ Distinct(s) => /\ Distinct(Without(s, e))
                           /\ ToSet(Without(s, e)) = ToSet(s) \ {e}
<1>0. Len(s) \in Nat /\ DOMAIN s = 1..Len(s) /\ \A i \in 1..Len(s) : s[i] \in S
  BY LenProperties
<1>1. CASE e \notin ToSet(s)
  BY <1>1 DEF Without
<1>2. CASE e \in ToSet(s)
  <2> DEFINE p == CHOOSE i \in DOMAIN s : s[i] = e
             t == Without(s, e)
  <2>1. p \in 1..Len(s) /\ s[p] = e
    BY <1>0, <1>2, SetOfSeq
  <2>2. t = SubSeq(s, 1, p - 1) \o SubSeq(s, p + 1, Len(s))
    BY <1>2 DEF Without, RemoveAt
  <2> HIDE DEF p, t
  <2>3. /\ SubSeq(s, 1, p - 1) \in Seq(S) /\ Len(SubSeq(s, 1, p - 1)) = p - 1
        /\ \A i \in 1..(p - 1) : SubSeq(s, 1, p - 1)[i] = s[i]
    <3>1. 1 \in Int /\ p - 1 \in Int /\ \A i \in 1..(p - 1) : s[i] \in S
      BY <1>0, <2>1
    <3>2. /\ SubSeq(s, 1, p - 1) \in Seq(S)
          /\ Len(SubSeq(s, 1, p - 1)) = IF 1 <= p - 1 THEN p - 1 - 1 + 1 ELSE 0
          /\ \A i \in 1..(p - 1 - 1 + 1) : SubSeq(s, 1, p - 1)[i] = s[1 + i - 1]
      BY <3>1, SubSeqProperties
    <3>3. p - 1 - 1 + 1 = p - 1 /\ \A i \in Int : 1 + i - 1 = i
      BY <1>0, <2>1
    <3>4. QED BY <1>0, <2>1, <3>2, <3>3
  <2>4. /\ SubSeq(s, p + 1, Len(s)) \in Seq(S)
        /\ Len(SubSeq(s, p + 1, Len(s))) = Len(s) - p
        /\ \A i \in 1..(Len(s) - p) : SubSeq(s, p + 1, Len(s))[i] = s[p + i]
    <3>1. p + 1 \in Int /\ Len(s) \in Int /\ \A i \in (p + 1)..Len(s) : s[i] \in S
      BY <1>0, <2>1
    <3>2. /\ SubSeq(s, p + 1, Len(s)) \in Seq(S)
          /\ Len(SubSeq(s, p + 1, Len(s)))
               = IF p + 1 <= Len(s) THEN Len(s) - (p + 1) + 1 ELSE 0
          /\ \A i \in 1..(Len(s) - (p + 1) + 1) :
               SubSeq(s, p + 1, Len(s))[i] = s[(p + 1) + i - 1]
      BY <3>1, SubSeqProperties
    <3>3. ASSUME NEW i \in 1..(Len(s) - p)
          PROVE  SubSeq(s, p + 1, Len(s))[i] = s[p + i]
      <4>1. i \in 1..(Len(s) - (p + 1) + 1) /\ (p + 1) + i - 1 = p + i
        BY <1>0, <2>1
      <4>2. SubSeq(s, p + 1, Len(s))[i] = s[(p + 1) + i - 1]
        BY <3>2, <4>1
      <4>3. QED BY <4>1, <4>2
    <3>4. Len(SubSeq(s, p + 1, Len(s))) = Len(s) - p
      BY <1>0, <2>1, <3>2
    <3>5. QED BY <3>2, <3>3, <3>4
  <2>5. /\ t \in Seq(S) /\ Len(t) = Len(s) - 1
        /\ \A i \in 1..(Len(s) - 1) : t[i] = IF i < p THEN s[i] ELSE s[i + 1]
    <3>1. /\ t \in Seq(S) /\ Len(t) = (p - 1) + (Len(s) - p)
          /\ \A i \in 1..((p - 1) + (Len(s) - p)) :
               t[i] = IF i <= p - 1 THEN SubSeq(s, 1, p - 1)[i]
                      ELSE SubSeq(s, p + 1, Len(s))[i - (p - 1)]
      BY <2>2, <2>3, <2>4, ConcatProperties
    <3>2. (p - 1) + (Len(s) - p) = Len(s) - 1
      BY <1>0, <2>1
    <3>3. ASSUME NEW i \in 1..(Len(s) - 1)
          PROVE  t[i] = IF i < p THEN s[i] ELSE s[i + 1]
      <4>1. CASE i < p
        BY <1>0, <2>1, <2>3, <3>1, <3>2, <4>1
      <4>2. CASE ~(i < p)
        <5> DEFINE k == i - (p - 1)
        <5>1. /\ k \in 1..(Len(s) - p) /\ p + k = i + 1 /\ ~(i <= p - 1)
              /\ i \in 1..((p - 1) + (Len(s) - p))
          BY <1>0, <2>1, <4>2
        <5>2. t[i] = SubSeq(s, p + 1, Len(s))[k]
          BY <3>1, <5>1
        <5> HIDE DEF k
        <5>3. SubSeq(s, p + 1, Len(s))[k] = s[p + k]
          BY <2>4, <5>1
        <5>4. QED BY <4>2, <5>1, <5>2, <5>3
      <4>3. QED BY <4>1, <4>2
    <3>4. QED BY <3>1, <3>2, <3>3
  <2>6. \A x : x \in ToSet(t) <=> \E i \in 1..Len(s) : i # p /\ s[i] = x
    <3> TAKE x
    <3>1. x \in ToSet(t) <=> \E i \in 1..(Len(s) - 1) : t[i] = x
      BY <2>5, SetOfSeq
    <3>2. ASSUME NEW i \in 1..(Len(s) - 1), t[i] = x
          PROVE  \E j \in 1..Len(s) : j # p /\ s[j] = x
      <4>1. CASE i < p
        BY <1>0, <2>5, <3>2, <4>1
      <4>2. CASE ~(i < p)
        <5>1. i + 1 \in 1..Len(s) /\ i + 1 # p
          BY <1>0, <2>1, <4>2
        <5>2. QED BY <2>5, <3>2, <4>2, <5>1
      <4>3. QED BY <4>1, <4>2
    <3>3. ASSUME NEW j \in 1..Len(s), j # p, s[j] = x
          PROVE  \E i \in 1..(Len(s) - 1) : t[i] = x
      <4>1. CASE j < p
        BY <1>0, <2>1, <2>5, <3>3, <4>1
      <4>2. CASE ~(j < p)
        <5>1. j - 1 \in 1..(Len(s) - 1) /\ ~(j - 1 < p) /\ (j - 1) + 1 = j
          BY <1>0, <2>1, <3>3, <4>2
        <5>2. QED BY <2>5, <3>3, <5>1
      <4>3. QED BY <4>1, <4>2
    <3>4. QED BY <3>1, <3>2, <3>3
  <2>7. ToSet(t) \subseteq ToSet(s)
    BY <2>6, SetOfSeq
  <2>8. ASSUME Distinct(s)  PROVE Distinct(t)
    <3> SUFFICES ASSUME NEW i \in 1..(Len(s) - 1), NEW j \in 1..(Len(s) - 1), t[i] = t[j]
                 PROVE  i = j
      BY <2>5 DEF Distinct
    <3>1. /\ (IF i < p THEN i ELSE i + 1) \in 1..Len(s)
          /\ (IF j < p THEN j ELSE j + 1) \in 1..Len(s)
          /\ s[IF i < p THEN i ELSE i + 1] = s[IF j < p THEN j ELSE j + 1]
      BY <1>0, <2>5
    <3>2. (IF i < p THEN i ELSE i + 1) = (IF j < p THEN j ELSE j + 1)
      BY <2>8, <3>1 DEF Distinct
    <3>3. QED BY <2>1, <3>2
  <2>9. ASSUME Distinct(s)  PROVE ToSet(t) = ToSet(s) \ {e}
    <3>1. \A i \in 1..Len(s) : s[i] = e <=> i = p
      BY <2>1, <2>9 DEF Distinct
    <3>2. \A x : x \in ToSet(s) <=> \E i \in 1..Len(s) : s[i] = x
      BY SetOfSeq
    <3>3. QED BY <2>6, <3>1, <3>2
  <2>10. QED BY <2>5, <2>7, <2>8, <2>9 DEF t
<1>3. QED BY <1>1, <1>2

-----------------------------------------------------------------------------
(* Extremes of finite sets                                                  *)

\* A finite set that is not empty has an element with the largest key: the
\* elements above one of them are fewest for the largest.
LEMMA LatestExists ==
  ASSUME NEW S, IsFiniteSet(S), S # {}, NEW key \in [S -> Int]
  PROVE  \E m \in S : \A i \in S : key[i] <= key[m]
<1> DEFINE Above(i) == {j \in S : key[j] > key[i]}
           aboves == {Above(i) : i \in S}
           smaller == StrictSubsetOrdering(S)
<1>1. IsWellFoundedOn(smaller, FiniteSubsetsOf(S))
  BY FS_StrictSubsetOrderingWellFounded
<1>2. aboves \subseteq FiniteSubsetsOf(S)
  <2>1. \A T \in SUBSET S : IsFiniteSet(T)
    BY FS_Subset
  <2>2. QED BY <2>1 DEF FiniteSubsetsOf
<1>3. aboves # {}
  <2>1. PICK i \in S : TRUE
    OBVIOUS
  <2>2. Above(i) \in aboves
    OBVIOUS
  <2>3. QED BY <2>2
<1>4. PICK T \in aboves : \A U \in aboves : <<U, T>> \notin smaller
  BY <1>1, <1>2, <1>3, WFMin
<1>5. PICK m \in S : T = Above(m)
  OBVIOUS
<1>6. ASSUME NEW i \in S, key[i] > key[m] PROVE FALSE
  <2>1. \A j \in S : key[j] > key[i] => key[j] > key[m]
    BY <1>6
  <2>2. Above(i) \subseteq T /\ i \in T
    BY <1>5, <1>6, <2>1
  <2>3. i \notin Above(i) /\ Above(i) \in aboves
    OBVIOUS
  <2>4. Above(i) \in SUBSET S /\ T \in SUBSET S /\ Above(i) # T
    BY <1>5, <2>2, <2>3
  <2>5. <<Above(i), T>> \in smaller
    <3> HIDE DEF Above
    <3>1. QED BY <2>2, <2>4 DEF StrictSubsetOrdering
  <2>6. QED BY <1>4, <2>3, <2>5
<1>7. QED BY <1>6

LEMMA LargestExists ==
  ASSUME NEW S \in SUBSET Int, IsFiniteSet(S), S # {}
  PROVE  \E m \in S : \A i \in S : i <= m
<1> DEFINE key == [i \in S |-> i]
<1>1. key \in [S -> Int]
  OBVIOUS
<1>2. PICK m \in S : \A i \in S : key[i] <= key[m]
  <2> HIDE DEF key
  <2>1. QED BY <1>1, LatestExists
<1>3. QED BY <1>2

LEMMA SmallestExists ==
  ASSUME NEW S \in SUBSET Int, IsFiniteSet(S), S # {}
  PROVE  \E m \in S : \A i \in S : m <= i
<1> DEFINE key == [i \in S |-> -i]
<1>1. key \in [S -> Int]
  OBVIOUS
<1>2. PICK m \in S : \A i \in S : key[i] <= key[m]
  <2> HIDE DEF key
  <2>1. QED BY <1>1, LatestExists
<1>3. \A i \in S : -i <= -m
  BY <1>2
<1>4. QED BY <1>3
=============================================================================
