---------------------------- MODULE ListsProofs -----------------------------
(* What the list operations return, for lists of any length and over any   *)
(* set.  A recursive function is what its defining equation says once some *)
(* function satisfies that equation; one does for every length, or there   *)
(* would be a least length without one.                                    *)
EXTENDS Lists, WellFoundedInduction, TLAPS

\* f is the function that Retained(s, S) defines, up to the n-th element.
Retaining(s, S, n, f) ==
    f = [i \in 0..n |->
            IF i = 0 THEN <<>>
            ELSE IF s[i] \in S THEN Append(f[i - 1], s[i]) ELSE f[i - 1]]

LEMMA RetainedDef ==
    ASSUME NEW s, NEW S
    PROVE  Retained(s, S) = (CHOOSE f : Retaining(s, S, Len(s), f))[Len(s)]
    BY DEF Retained, Retaining

\* A set of naturals that is not empty has a least element.
LEMMA LeastNat ==
    ASSUME NEW T \in SUBSET Nat, T # {}
    PROVE  \E x \in T : \A y \in T : x <= y
<1>1. IsWellFoundedOn(OpToRel(<, Nat), Nat)
    BY NatLessThanWellFounded
<1>2. PICK x \in T : \A y \in T : ~(<<y, x>> \in OpToRel(<, Nat))
    BY <1>1, WFMin
<1>3. \A y \in T : ~(y < x)
    BY <1>2 DEF OpToRel
<1> QED
    BY <1>3

\* A set of naturals below a bound has a greatest element.
LEMMA GreatestNat ==
    ASSUME NEW n \in Nat, NEW T \in SUBSET (0..n), T # {}
    PROVE  \E x \in T : \A y \in T : y <= x
<1> DEFINE D == {n - x : x \in T}
<1>1. D \in SUBSET Nat /\ D # {}
    <2>1. \A x \in T : n - x \in Nat
        OBVIOUS
    <2> QED
        BY <2>1
<1>2. PICK d \in D : \A e \in D : d <= e
    BY <1>1, LeastNat
<1>3. PICK x \in T : d = n - x
    BY <1>2
<1>4. \A y \in T : n - x <= n - y
    BY <1>2, <1>3
<1> QED
    BY <1>4

\* The equation has a solution for every length.
LEMMA RetainingExists ==
    ASSUME NEW s, NEW S, NEW n \in Nat
    PROVE  \E f : Retaining(s, S, n, f)
<1> DEFINE T == {m \in Nat : ~ \E f : Retaining(s, S, m, f)}
<1>1. SUFFICES ASSUME T # {} PROVE FALSE
    OBVIOUS
<1>2. PICK m \in T : \A y \in T : m <= y
    BY <1>1, LeastNat
<1>3. m # 0
    <2>1. Retaining(s, S, 0, [i \in 0..0 |-> <<>>])
        BY DEF Retaining
    <2> QED
        BY <2>1
<1>4. m - 1 \in Nat /\ m - 1 \notin T
    BY <1>2, <1>3
<1>5. PICK f : Retaining(s, S, m - 1, f)
    BY <1>4
<1> DEFINE g == [i \in 0..m |->
                    IF i = m
                    THEN IF s[m] \in S THEN Append(f[m - 1], s[m]) ELSE f[m - 1]
                    ELSE f[i]]
<1>6. \A i \in 0..(m - 1) :
        f[i] = IF i = 0 THEN <<>>
               ELSE IF s[i] \in S THEN Append(f[i - 1], s[i]) ELSE f[i - 1]
    BY <1>5, <1>4 DEF Retaining
<1>7. \A i \in 0..m :
        g[i] = IF i = 0 THEN <<>>
               ELSE IF s[i] \in S THEN Append(g[i - 1], s[i]) ELSE g[i - 1]
    <2> TAKE i \in 0..m
    <2>0. \A j \in 0..(m - 1) : g[j] = f[j]
        BY <1>2, <1>4
    <2>1. CASE i = m
        <3>1. g[m] = IF s[m] \in S THEN Append(f[m - 1], s[m]) ELSE f[m - 1]
            BY <1>2
        <3>2. g[m - 1] = f[m - 1]
            BY <2>0, <1>4
        <3> QED
            BY <3>1, <3>2, <2>1, <1>3
    <2>2. CASE i # m
        <3>1. i \in 0..(m - 1) /\ (i # 0 => i - 1 \in 0..(m - 1))
            BY <2>2, <1>2
        <3> HIDE DEF g
        <3> QED
            BY <3>1, <2>0, <1>6
    <2> QED
        BY <2>1, <2>2
<1>8. Retaining(s, S, m, g)
    BY <1>7 DEF Retaining
<1> QED
    BY <1>8, <1>2

\* The solution's values, from one element to the next.
LEMMA RetainingStep ==
    ASSUME NEW s, NEW S, NEW n \in Nat, NEW f, Retaining(s, S, n, f)
    PROVE  /\ f[0] = <<>>
           /\ \A i \in 1..n : f[i] = IF s[i] \in S THEN Append(f[i - 1], s[i]) ELSE f[i - 1]
<1>0. 0 \in 0..n
    OBVIOUS
<1>1. f[0] = <<>>
    BY <1>0, Zenon DEF Retaining
<1>2. \A i \in 1..n : f[i] = IF s[i] \in S THEN Append(f[i - 1], s[i]) ELSE f[i - 1]
    <2>1. \A i \in 0..n :
            f[i] = IF i = 0 THEN <<>>
                   ELSE IF s[i] \in S THEN Append(f[i - 1], s[i]) ELSE f[i - 1]
        BY Zenon DEF Retaining
    <2>2. \A i \in 1..n : i \in 0..n /\ i # 0
        OBVIOUS
    <2> QED
        BY <2>1, <2>2, Zenon
<1> QED
    BY <1>1, <1>2

\* What is retained of a list is a list, no longer than it, of just those of
\* its elements that are in S.
LEMMA RetainedList ==
    ASSUME NEW U, NEW s \in Seq(U), NEW S
    PROVE  /\ Retained(s, S) \in Seq(U)
           /\ Len(Retained(s, S)) <= Len(s)
           /\ \A j \in 1..Len(Retained(s, S)) : \E i \in 1..Len(s) :
                 s[i] = Retained(s, S)[j] /\ s[i] \in S
           /\ \A i \in 1..Len(s) : s[i] \in S =>
                 \E j \in 1..Len(Retained(s, S)) : Retained(s, S)[j] = s[i]
<1> DEFINE n == Len(s)
           f == CHOOSE x : Retaining(s, S, n, x)
           Fits(i) == /\ f[i] \in Seq(U) /\ Len(f[i]) <= i
                      /\ \A j \in 1..Len(f[i]) : \E k \in 1..i : s[k] = f[i][j] /\ s[k] \in S
                      /\ \A k \in 1..i : s[k] \in S => \E j \in 1..Len(f[i]) : f[i][j] = s[k]
<1>1. n \in Nat /\ Retained(s, S) = f[n]
    <2>1. n \in Nat
        OBVIOUS
    <2>2. Retained(s, S) = f[n]
        BY RetainedDef, Zenon
    <2> QED
        BY <2>1, <2>2
<1>2. Retaining(s, S, n, f)
    BY <1>1, RetainingExists
<1>3. f[0] = <<>> /\ \A i \in 1..n : f[i] = IF s[i] \in S THEN Append(f[i - 1], s[i]) ELSE f[i - 1]
    <2> HIDE DEF f, n
    <2> QED
        BY <1>1, <1>2, RetainingStep
<1> HIDE DEF f
<1>4. Fits(0)
    BY <1>3
<1>5. ASSUME NEW i \in 1..n, Fits(i - 1)
      PROVE  Fits(i)
    <2> DEFINE a == f[i - 1]
    <2>1. a \in Seq(U) /\ Len(a) \in Nat /\ Len(a) <= i - 1 /\ i \in Nat /\ i - 1 \in Nat /\ s[i] \in U
        BY <1>1, <1>5
    <2>2. \A j \in 1..Len(a) : \E k \in 1..(i - 1) : s[k] = a[j] /\ s[k] \in S
        BY <1>5
    <2>3. \A k \in 1..(i - 1) : s[k] \in S => \E j \in 1..Len(a) : a[j] = s[k]
        BY <1>5
    <2>4. CASE s[i] \notin S
        <3>1. f[i] = a
            BY <1>3, <2>4
        <3>2. \A k \in 1..i : k = i \/ k \in 1..(i - 1)
            BY <2>1
        <3> HIDE DEF a
        <3>3. f[i] \in Seq(U) /\ Len(f[i]) <= i
            BY <3>1, <2>1
        <3>4. \A j \in 1..Len(f[i]) : \E k \in 1..i : s[k] = f[i][j] /\ s[k] \in S
            BY <3>1, <2>1, <2>2
        <3>5. \A k \in 1..i : s[k] \in S => \E j \in 1..Len(f[i]) : f[i][j] = s[k]
            BY <3>1, <3>2, <2>3, <2>4
        <3> QED
            BY <3>3, <3>4, <3>5
    <2>5. CASE s[i] \in S
        <3>1. f[i] = Append(a, s[i])
            BY <1>3, <2>5
        <3> HIDE DEF a
        <3>2. f[i] \in Seq(U) /\ Len(f[i]) = Len(a) + 1 /\ f[i][Len(a) + 1] = s[i]
            BY <3>1, <2>1
        <3>3. \A j \in 1..Len(a) : f[i][j] = a[j]
            BY <3>1, <2>1
        <3>4. \A j \in 1..Len(f[i]) : \E k \in 1..i : s[k] = f[i][j] /\ s[k] \in S
            <4> TAKE j \in 1..Len(f[i])
            <4>1. CASE j = Len(a) + 1
                BY <4>1, <3>2, <2>5, <2>1
            <4>2. CASE j # Len(a) + 1
                <5>1. j \in 1..Len(a)
                    BY <4>2, <3>2, <2>1
                <5> QED
                    BY <5>1, <3>3, <2>2, <2>1
            <4> QED
                BY <4>1, <4>2
        <3>5. \A k \in 1..i : s[k] \in S => \E j \in 1..Len(f[i]) : f[i][j] = s[k]
            <4> TAKE k \in 1..i
            <4> HAVE s[k] \in S
            <4>1. CASE k = i
                <5>1. Len(a) + 1 \in 1..Len(f[i])
                    BY <3>2, <2>1
                <5> QED
                    BY <5>1, <4>1, <3>2
            <4>2. CASE k # i
                <5>1. k \in 1..(i - 1)
                    BY <4>2, <2>1
                <5>2. PICK j \in 1..Len(a) : a[j] = s[k]
                    BY <5>1, <2>3
                <5>3. j \in 1..Len(f[i]) /\ f[i][j] = a[j]
                    BY <3>2, <3>3, <2>1
                <5> QED
                    BY <5>2, <5>3
            <4> QED
                BY <4>1, <4>2
        <3> QED
            BY <3>2, <3>4, <3>5, <2>1
    <2> QED
        BY <2>4, <2>5
<1>6. \A i \in 0..n : Fits(i)
    <2> DEFINE T == {i \in 0..n : ~Fits(i)}
    <2>1. SUFFICES ASSUME T # {} PROVE FALSE
        OBVIOUS
    <2>2. T \in SUBSET Nat
        BY <1>1
    <2>3. PICK m \in T : \A y \in T : m <= y
        BY <2>1, <2>2, LeastNat
    <2> HIDE DEF Fits
    <2>4. m # 0 /\ m \in 0..n
        BY <2>3, <1>4
    <2>5. m - 1 \in 0..n /\ m \in 1..n
        BY <2>4, <1>1
    <2>6. Fits(m - 1)
        BY <2>5, <2>3, <1>1
    <2> QED
        BY <2>5, <2>6, <2>3, <1>5
<1> QED
    BY <1>1, <1>6

\* They keep their order: the places they come from ascend.
LEMMA RetainedOrder ==
    ASSUME NEW U, NEW s \in Seq(U), NEW S
    PROVE  \E from \in [1..Len(Retained(s, S)) -> 1..Len(s)] :
              /\ \A j \in 1..Len(Retained(s, S)) : Retained(s, S)[j] = s[from[j]]
              /\ \A j, k \in 1..Len(Retained(s, S)) : j < k => from[j] < from[k]
<1> DEFINE n == Len(s)
           f == CHOOSE x : Retaining(s, S, n, x)
           Fits(i) == /\ f[i] \in Seq(U)
                      /\ \E from \in [1..Len(f[i]) -> 1..i] :
                            /\ \A j \in 1..Len(f[i]) : f[i][j] = s[from[j]]
                            /\ \A j, k \in 1..Len(f[i]) : j < k => from[j] < from[k]
<1>1. n \in Nat /\ Retained(s, S) = f[n]
    <2>1. n \in Nat
        OBVIOUS
    <2>2. Retained(s, S) = f[n]
        BY RetainedDef, Zenon
    <2> QED
        BY <2>1, <2>2
<1>2. Retaining(s, S, n, f)
    BY <1>1, RetainingExists
<1>3. f[0] = <<>> /\ \A i \in 1..n : f[i] = IF s[i] \in S THEN Append(f[i - 1], s[i]) ELSE f[i - 1]
    <2> HIDE DEF f, n
    <2> QED
        BY <1>1, <1>2, RetainingStep
<1> HIDE DEF f
<1>4. Fits(0)
    <2> DEFINE g == [j \in 1..0 |-> j]
    <2>1. g \in [1..0 -> 1..0]
        OBVIOUS
    <2>2. \A j \in 1..0 : f[0][j] = s[g[j]]
        OBVIOUS
    <2>3. f[0] \in Seq(U) /\ Len(f[0]) = 0
        BY <1>3
    <2> QED
        BY <2>1, <2>2, <2>3
<1>5. ASSUME NEW i \in 1..n, Fits(i - 1)
      PROVE  Fits(i)
    <2> DEFINE a == f[i - 1]
               m == Len(a)
    <2>1. a \in Seq(U) /\ m \in Nat /\ i \in Nat /\ i - 1 \in Nat /\ s[i] \in U
        BY <1>1, <1>5
    <2>2. PICK g \in [1..m -> 1..(i - 1)] :
             /\ \A j \in 1..m : a[j] = s[g[j]]
             /\ \A j, k \in 1..m : j < k => g[j] < g[k]
        BY <1>5
    <2>3. CASE s[i] \notin S
        <3>1. f[i] = a
            BY <1>3, <2>3
        <3>2. g \in [1..m -> 1..i]
            BY <2>1
        <3> QED
            BY <3>1, <3>2, <2>1, <2>2
    <2>4. CASE s[i] \in S
        <3>1. f[i] = Append(a, s[i])
            BY <1>3, <2>4
        <3> HIDE DEF a
        <3>2. f[i] \in Seq(U) /\ Len(f[i]) = m + 1 /\ f[i][m + 1] = s[i] /\ \A j \in 1..m : f[i][j] = a[j]
            BY <3>1, <2>1
        <3> HIDE DEF m
        <3> DEFINE h == [j \in 1..(m + 1) |-> IF j = m + 1 THEN i ELSE g[j]]
        <3>3. \A j \in 1..(m + 1) : (j = m + 1 /\ h[j] = i) \/ (j \in 1..m /\ h[j] = g[j] /\ g[j] \in 1..(i - 1))
            BY <2>1, <2>2
        <3>4. h \in [1..(m + 1) -> 1..i]
            BY <2>1, <3>3
        <3> HIDE DEF h
        <3>5. \A j \in 1..(m + 1) : f[i][j] = s[h[j]]
            BY <2>2, <3>2, <3>3
        <3>6. \A j, k \in 1..(m + 1) : j < k => h[j] < h[k]
            BY <2>1, <2>2, <3>3
        <3> QED
            BY <3>2, <3>4, <3>5, <3>6
    <2> QED
        BY <2>3, <2>4
<1>6. \A i \in 0..n : Fits(i)
    <2> DEFINE T == {i \in 0..n : ~Fits(i)}
    <2>1. SUFFICES ASSUME T # {} PROVE FALSE
        OBVIOUS
    <2>2. T \in SUBSET Nat
        BY <1>1
    <2>3. PICK m \in T : \A y \in T : m <= y
        BY <2>1, <2>2, LeastNat
    <2> HIDE DEF Fits
    <2>4. m # 0 /\ m \in 0..n
        BY <2>3, <1>4
    <2>5. m - 1 \in 0..n /\ m \in 1..n
        BY <2>4, <1>1
    <2>6. Fits(m - 1)
        BY <2>5, <2>3, <1>1
    <2> QED
        BY <2>5, <2>6, <2>3, <1>5
<1>7. Fits(n)
    <2> HIDE DEF Fits, n
    <2>1. n \in 0..n
        BY <1>1
    <2> QED
        BY <1>6, <2>1
<1> QED
    <2> HIDE DEF n
    <2>1. \E from \in [1..Len(f[n]) -> 1..n] :
             /\ \A j \in 1..Len(f[n]) : f[n][j] = s[from[j]]
             /\ \A j, k \in 1..Len(f[n]) : j < k => from[j] < from[k]
        BY <1>7
    <2>2. Retained(s, S) = f[n]
        BY <1>1
    <2> QED
        BY <2>1, <2>2 DEF n

=============================================================================
