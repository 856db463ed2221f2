--------------------------- MODULE RegistryProofs ---------------------------
(* Proofs about the registry: what a stream retains, what a mailbox holds and  *)
(* costs, and which stream makes way for a new one.                            *)
EXTENDS Registry, WellFoundedInduction, TLAPS

-----------------------------------------------------------------------------
(* Sequences.                                                                  *)

LEMMA SeqEqual ==
    ASSUME NEW S, NEW s \in Seq(S), NEW t \in Seq(S), Len(s) = Len(t),
           \A i \in 1..Len(s) : s[i] = t[i]
    PROVE  s = t
<1>1. /\ s = [i \in 1..Len(s) |-> s[i]] /\ t = [i \in 1..Len(t) |-> t[i]]
  OBVIOUS
<1>2. [i \in 1..Len(s) |-> s[i]] = [i \in 1..Len(s) |-> t[i]]
  BY Zenon
<1> QED
  BY <1>1, <1>2, Zenon

LEMMA ElementOfSeq ==
    ASSUME NEW S, NEW q \in Seq(S), NEW k \in 1..Len(q)
    PROVE  q[k] \in S
OBVIOUS

(* Sequence q, of elements of S, is a followed by b, and a has k elements.     *)
Parts(S, q, k, a, b) ==
    /\ q \in Seq(S) /\ a \in Seq(S) /\ b \in Seq(S)
    /\ Len(a) = k /\ Len(b) = Len(q) - k
    /\ \A j \in 1..k : a[j] = q[j]
    /\ \A j \in 1..(Len(q) - k) : b[j] = q[k + j]

LEMMA ConcatSeq ==
    ASSUME NEW S, NEW a \in Seq(S), NEW b \in Seq(S)
    PROVE  Parts(S, a \o b, Len(a), a, b)
<1>1. /\ a \o b \in Seq(S) /\ Len(a \o b) = Len(a) + Len(b)
      /\ \A k \in 1..Len(a) : (a \o b)[k] = a[k]
      /\ \A k \in 1..Len(b) : (a \o b)[Len(a) + k] = b[k]
      /\ Len(a) \in Nat /\ Len(b) \in Nat
  OBVIOUS
<1>2. Len(a \o b) - Len(a) = Len(b)
  BY <1>1
<1> QED
  BY <1>1, <1>2, Zenon DEF Parts

LEMMA AppendSeq ==
    ASSUME NEW S, NEW q \in Seq(S), NEW x \in S
    PROVE  Append(q, x) \in Seq(S) /\ Len(Append(q, x)) = Len(q) + 1
OBVIOUS

(* The two parts of a sequence cut after k elements.                           *)
LEMMA CutSeq ==
    ASSUME NEW S, NEW q \in Seq(S), NEW k \in 0..Len(q)
    PROVE  Parts(S, q, k, SubSeq(q, 1, k), SubSeq(q, k + 1, Len(q)))
<1>1. Len(q) \in Nat
  OBVIOUS
<1>2. /\ \A i \in 1..k : q[i] \in S
      /\ \A i \in (k + 1)..Len(q) : q[i] \in S
  BY <1>1
<1>3. /\ SubSeq(q, 1, k) \in Seq(S) /\ Len(SubSeq(q, 1, k)) = k
      /\ \A j \in 1..k : SubSeq(q, 1, k)[j] = q[j]
  BY <1>1, <1>2
<1>4. /\ SubSeq(q, k + 1, Len(q)) \in Seq(S)
      /\ Len(SubSeq(q, k + 1, Len(q))) = Len(q) - k
      /\ \A j \in 1..(Len(q) - k) : SubSeq(q, k + 1, Len(q))[j] = q[k + j]
  BY <1>1, <1>2
<1> QED
  BY <1>3, <1>4, Zenon DEF Parts

(* Sequence q lists the elements of X, each once.                              *)
Listed(q, X) ==
    /\ {q[k] : k \in DOMAIN q} = X
    /\ \A j, k \in DOMAIN q : q[j] = q[k] => j = k

LEMMA TailListed ==
    ASSUME NEW T, NEW q \in Seq(T), q # << >>, NEW X, Listed(q, X)
    PROVE  Tail(q) \in Seq(T) /\ Listed(Tail(q), X \ {Head(q)})
<1> DEFINE t == Tail(q)
<1>0. /\ X = {q[k] : k \in DOMAIN q} /\ \A j, k \in DOMAIN q : q[j] = q[k] => j = k
  BY Zenon DEF Listed
<1>1. /\ t \in Seq(T) /\ Len(q) \in Nat \ {0} /\ Head(q) = q[1]
      /\ DOMAIN q = 1..Len(q) /\ DOMAIN t = 1..(Len(q) - 1)
      /\ \A k \in 1..(Len(q) - 1) : t[k] = q[k + 1]
  OBVIOUS
<1> HIDE DEF t
<1>2. \A k \in DOMAIN t : k + 1 \in DOMAIN q /\ k + 1 # 1 /\ t[k] = q[k + 1]
  BY <1>1
<1>3. 1 \in DOMAIN q /\ \A k \in DOMAIN q : k # 1 => k - 1 \in DOMAIN t /\ t[k - 1] = q[k]
  BY <1>1
<1>4. {t[k] : k \in DOMAIN t} = {q[k] : k \in DOMAIN q} \ {Head(q)}
  <2>1. ASSUME NEW k \in DOMAIN t PROVE t[k] \in {q[j] : j \in DOMAIN q} /\ t[k] # Head(q)
    <3>1. t[k] \in {q[j] : j \in DOMAIN q}
      BY <1>2, Zenon
    <3>2. t[k] # q[1]
      BY <1>0, <1>2, <1>3, Zenon
    <3> QED BY <1>1, <3>1, <3>2, Zenon
  <2>2. ASSUME NEW k \in DOMAIN q, q[k] # Head(q) PROVE q[k] \in {t[j] : j \in DOMAIN t}
    <3>1. k # 1
      BY <1>1, <2>2, Zenon
    <3> QED BY <1>3, <3>1, Zenon
  <2> QED BY <2>1, <2>2, Zenon
<1>5. ASSUME NEW j \in DOMAIN t, NEW k \in DOMAIN t, t[j] = t[k] PROVE j = k
  <2>1. j + 1 = k + 1
    BY <1>0, <1>2, <1>5, Zenon
  <2> QED BY <1>1, <2>1
<1> QED
  BY <1>0, <1>1, <1>4, <1>5, Zenon DEF t, Listed

LEMMA AppendListed ==
    ASSUME NEW T, NEW q \in Seq(T), NEW X, Listed(q, X), NEW x \in T, x \notin X
    PROVE  Append(q, x) \in Seq(T) /\ Listed(Append(q, x), X \cup {x})
<1> DEFINE p == Append(q, x)
           N == Len(q)
<1>0. /\ X = {q[k] : k \in DOMAIN q} /\ \A j, k \in DOMAIN q : q[j] = q[k] => j = k
  BY Zenon DEF Listed
<1>1. /\ p \in Seq(T) /\ N \in Nat /\ DOMAIN q = 1..N /\ DOMAIN p = 1..(N + 1)
      /\ p[N + 1] = x /\ \A k \in 1..N : p[k] = q[k]
  OBVIOUS
<1> HIDE DEF p, N
<1>2. /\ N + 1 \in DOMAIN p /\ p[N + 1] = x
      /\ \A k \in DOMAIN q : k \in DOMAIN p /\ p[k] = q[k]
      /\ \A k \in DOMAIN p : k \in DOMAIN q \/ k = N + 1
  BY <1>1
<1>3. {p[k] : k \in DOMAIN p} = {q[k] : k \in DOMAIN q} \cup {x}
  <2>1. ASSUME NEW k \in DOMAIN p PROVE p[k] \in {q[j] : j \in DOMAIN q} \cup {x}
    <3>1. CASE k \in DOMAIN q
      BY <1>2, <3>1, Zenon
    <3>2. CASE k = N + 1
      BY <1>2, <3>2, Zenon
    <3> QED BY <1>2, <3>1, <3>2, Zenon
  <2>2. ASSUME NEW k \in DOMAIN q PROVE q[k] \in {p[j] : j \in DOMAIN p}
    BY <1>2, Zenon
  <2>3. x \in {p[j] : j \in DOMAIN p}
    BY <1>2, Zenon
  <2> QED BY <2>1, <2>2, <2>3, Zenon
<1>4. \A j, k \in DOMAIN p : p[j] = p[k] => j = k
  <2>1. \A k \in DOMAIN q : p[k] = q[k] /\ p[k] # x
    BY <1>0, <1>2, Zenon
  <2> QED BY <1>0, <1>2, <2>1, Zenon
<1> QED
  BY <1>0, <1>1, <1>3, <1>4, Zenon DEF p, Listed

-----------------------------------------------------------------------------
(* Naturals: least elements, and induction with the set of the good ones.      *)

LEMMA LeastNat ==
    ASSUME NEW T, T \subseteq Nat, T # {}
    PROVE  \E x \in T : \A y \in T : x <= y
<1> DEFINE R == {ss \in Nat \X Nat : ss[1] < ss[2]}
<1>1. IsWellFoundedOn(R, Nat)
  BY NatLessThanWellFounded, Zenon DEF OpToRel
<1>2. \E x \in T : \A y \in T : ~ (<<y, x>> \in R)
  <2> HIDE DEF R
  <2> QED
    BY <1>1, WFMin, Zenon
<1>3. \A x, y \in T : ~ (<<y, x>> \in R) => x <= y
  OBVIOUS
<1> QED
  BY <1>2, <1>3, Zenon

LEMMA EveryNat ==
    ASSUME NEW T, 0 \in T, \A n \in Nat : n \in T => n + 1 \in T
    PROVE  Nat \subseteq T
<1> SUFFICES ASSUME Nat \ T # {} PROVE FALSE
  OBVIOUS
<1>1. PICK x \in Nat \ T : \A y \in Nat \ T : x <= y
  BY LeastNat, Zenon
<1>2. x # 0 /\ x - 1 \in Nat
  BY <1>1
<1>3. x - 1 \in T
  BY <1>1, <1>2
<1> QED
  BY <1>1, <1>2, <1>3

-----------------------------------------------------------------------------
(* Total, the sum of a sequence of sizes.                                      *)

Sums(f, q) ==
    /\ f \in [0..Len(q) -> Nat]
    /\ f[0] = 0
    /\ \A k \in 1..Len(q) : f[k] = f[k - 1] + q[k]

LEMMA PartialSums ==
    ASSUME NEW q \in Seq(Nat)
    PROVE  \E f : Sums(f, q)
<1> DEFINE P(n) == \E f \in [0..n -> Nat] :
                      f[0] = 0 /\ \A k \in 1..n : f[k] = f[k - 1] + q[k]
           T == {n \in Nat : n <= Len(q) => P(n)}
<1>1. 0 \in T
  <2> DEFINE f == [k \in 0..0 |-> 0]
  <2>1. f \in [0..0 -> Nat] /\ f[0] = 0 /\ \A k \in 1..0 : f[k] = f[k - 1] + q[k]
    OBVIOUS
  <2> QED
    BY <2>1, Zenon
<1>2. ASSUME NEW n \in Nat, n \in T PROVE n + 1 \in T
  <2>0. SUFFICES ASSUME n + 1 <= Len(q) PROVE P(n + 1)
    <3> HIDE DEF P
    <3> QED OBVIOUS
  <2>a. P(n)
    <3> HIDE DEF P
    <3> QED BY <1>2, <2>0
  <2>1. PICK g \in [0..n -> Nat] : g[0] = 0 /\ \A k \in 1..n : g[k] = g[k - 1] + q[k]
    BY <2>a, Zenon
  <2> DEFINE f == [k \in 0..(n + 1) |-> IF k <= n THEN g[k] ELSE g[n] + q[n + 1]]
  <2>2. f \in [0..(n + 1) -> Nat] /\ f[0] = 0
    <3>1. q[n + 1] \in Nat /\ g[n] \in Nat /\ \A k \in 0..n : g[k] \in Nat
      BY <2>0
    <3>2. \A k \in 0..(n + 1) : f[k] \in Nat
      BY <3>1
    <3> QED BY <3>2, <2>1
  <2>3. \A k \in 1..(n + 1) : f[k] = f[k - 1] + q[k]
    <3>1. ASSUME NEW k \in 1..n PROVE f[k] = f[k - 1] + q[k]
      <4>1. f[k] = g[k] /\ f[k - 1] = g[k - 1]
        OBVIOUS
      <4> QED BY <4>1, <2>1, Zenon
    <3>2. f[n + 1] = f[n] + q[n + 1]
      OBVIOUS
    <3> SUFFICES ASSUME NEW k \in 1..(n + 1) PROVE f[k] = f[k - 1] + q[k]
      BY Zenon
    <3>3. CASE k \in 1..n
      BY <3>1, <3>3, Zenon
    <3>4. CASE k = n + 1
      <4>1. k - 1 = n
        BY <3>4
      <4> QED BY <3>2, <3>4, <4>1, Zenon
    <3> QED BY <3>3, <3>4
  <2> QED
    BY <2>2, <2>3, Zenon
<1>3. Len(q) \in T
  <2> HIDE DEF T
  <2>1. Nat \subseteq T
    BY <1>1, <1>2, EveryNat, Zenon
  <2>2. Len(q) \in Nat
    OBVIOUS
  <2> QED
    BY <2>1, <2>2, Zenon
<1> QED
  BY <1>3 DEF Sums

LEMMA TotalSums ==
    ASSUME NEW q \in Seq(Nat)
    PROVE  \E f : Sums(f, q) /\ Total(q) = f[Len(q)]
<1> DEFINE N == Len(q)
           E(f) == f = [k \in 0..N |-> IF k = 0 THEN 0 ELSE f[k - 1] + q[k]]
           u == CHOOSE f : E(f)
<1>1. PICK g : Sums(g, q)
  BY PartialSums
<1>2. E(g)
  BY <1>1 DEF Sums
<1>3. E(u)
  <2> HIDE DEF E
  <2> QED BY <1>2, Zenon
<1>4. u[0] = 0 /\ \A k \in 1..N : u[k] = u[k - 1] + q[k]
  <2> HIDE DEF u
  <2>1. \A k \in 0..N : u[k] = IF k = 0 THEN 0 ELSE u[k - 1] + q[k]
    BY <1>3, Zenon
  <2>2. 0 \in 0..N /\ \A k \in 1..N : k \in 0..N /\ k # 0
    OBVIOUS
  <2> QED BY <2>1, <2>2, Zenon
<1> DEFINE T == {n \in Nat : n <= N => u[n] \in Nat}
<1>5. \A n \in 0..N : u[n] \in Nat
  <2> HIDE DEF u
  <2>1. 0 \in T
    BY <1>4
  <2>2. ASSUME NEW n \in Nat, n \in T PROVE n + 1 \in T
    <3> SUFFICES ASSUME n + 1 <= N PROVE u[n + 1] \in Nat
      OBVIOUS
    <3>1. u[n] \in Nat
      BY <2>2
    <3>2. n + 1 \in 1..N /\ q[n + 1] \in Nat /\ n + 1 - 1 = n
      OBVIOUS
    <3>3. u[n + 1] = u[n] + q[n + 1]
      <4> DEFINE m == n + 1
      <4>1. u[m] = u[m - 1] + q[m]
        BY <1>4, <3>2
      <4> QED BY <4>1, <3>2
    <3> QED BY <3>1, <3>2, <3>3
  <2>3. Nat \subseteq T
    <3> HIDE DEF T
    <3> QED BY <2>1, <2>2, EveryNat, Zenon
  <2> QED BY <2>3
<1>6. Sums(u, q)
  <2> HIDE DEF u
  <2> QED BY <1>3, <1>4, <1>5, Zenon DEF Sums
<1>7. Total(q) = u[N]
  BY Zenon DEF Total
<1> QED
  BY <1>6, <1>7, Zenon

LEMMA TotalNat ==
    ASSUME NEW q \in Seq(Nat)
    PROVE  Total(q) \in Nat
BY TotalSums DEF Sums

LEMMA TotalEmpty == Total(<< >>) = 0
<1>1. << >> \in Seq(Nat) /\ Len(<< >>) = 0
  OBVIOUS
<1> QED
  BY TotalSums, <1>1, Zenon DEF Sums

LEMMA TotalOne ==
    ASSUME NEW x \in Nat
    PROVE  Total(<<x>>) = x
<1>1. <<x>> \in Seq(Nat) /\ Len(<<x>>) = 1 /\ <<x>>[1] = x
  OBVIOUS
<1>2. PICK f : Sums(f, <<x>>) /\ Total(<<x>>) = f[1]
  BY TotalSums, <1>1, Zenon
<1> QED
  BY <1>1, <1>2 DEF Sums

LEMMA TotalConcat ==
    ASSUME NEW a \in Seq(Nat), NEW b \in Seq(Nat)
    PROVE  Total(a \o b) = Total(a) + Total(b)
<1> DEFINE q == a \o b
           m == Len(a)
<1>1. /\ q \in Seq(Nat) /\ Len(q) = m + Len(b)
      /\ \A k \in 1..m : q[k] = a[k]
      /\ \A k \in 1..Len(b) : q[m + k] = b[k]
  OBVIOUS
<1> HIDE DEF q
<1>2. PICK f : Sums(f, q) /\ Total(q) = f[Len(q)]
  BY <1>1, TotalSums, Zenon
<1>3. PICK g : Sums(g, a) /\ Total(a) = g[m]
  BY TotalSums
<1>4. PICK h : Sums(h, b) /\ Total(b) = h[Len(b)]
  BY TotalSums
<1>a. h[0] = 0 /\ \A k \in 1..Len(b) : h[k] = h[k - 1] + b[k]
  BY <1>4, Zenon DEF Sums
<1>b. \A k \in 0..m : g[k] \in Nat
  BY <1>3, Zenon DEF Sums
<1>c. \A k \in 0..Len(b) : h[k] \in Nat
  BY <1>4, Zenon DEF Sums
<1>e. \A k \in 1..Len(q) : f[k] = f[k - 1] + q[k]
  BY <1>2, Zenon DEF Sums
<1>d. m \in Nat /\ Len(b) \in Nat
  OBVIOUS
<1> DEFINE T == {n \in Nat : n <= m => f[n] = g[n]}
           U == {n \in Nat : n <= Len(b) => f[m + n] = g[m] + h[n]}
<1>5. m \in T
  <2>1. 0 \in T
    BY <1>2, <1>3 DEF Sums
  <2>2. ASSUME NEW n \in Nat, n \in T PROVE n + 1 \in T
    <3> SUFFICES ASSUME n + 1 <= m PROVE f[n + 1] = g[n + 1]
      OBVIOUS
    <3>1. f[n] = g[n]
      BY <2>2
    <3>2. f[n + 1] = f[n + 1 - 1] + q[n + 1]
      BY <1>1, <1>2 DEF Sums
    <3>3. g[n + 1] = g[n + 1 - 1] + a[n + 1]
      BY <1>3 DEF Sums
    <3> QED BY <1>1, <3>1, <3>2, <3>3
  <2>3. Nat \subseteq T
    <3> HIDE DEF T
    <3> QED BY <2>1, <2>2, EveryNat, Zenon
  <2> QED BY <2>3
<1>6. Len(b) \in U
  <2>1. 0 \in U
    <3>1. f[m] = g[m] /\ g[m] \in Nat /\ h[0] = 0 /\ m + 0 = m
      BY <1>a, <1>b, <1>d, <1>5
    <3> QED BY <3>1, <1>d
  <2>2. ASSUME NEW n \in Nat, n \in U PROVE n + 1 \in U
    <3> SUFFICES ASSUME n + 1 <= Len(b) PROVE f[m + (n + 1)] = g[m] + h[n + 1]
      OBVIOUS
    <3>0. n <= Len(b) /\ n + 1 \in 1..Len(b)
      OBVIOUS
    <3>1. f[m + n] = g[m] + h[n]
      BY <2>2, <3>0, Zenon
    <3>2. f[m + (n + 1)] = f[m + (n + 1) - 1] + q[m + (n + 1)]
      <4>1. m + (n + 1) \in 1..Len(q)
        BY <1>1, <1>d, <3>0
      <4> QED BY <1>e, <4>1
    <3>3. h[n + 1] = h[n + 1 - 1] + b[n + 1]
      BY <1>a, <3>0
    <3>4. q[m + (n + 1)] = b[n + 1] /\ b[n + 1] \in Nat
      <4>1. b[n + 1] \in Nat
        BY <3>0
      <4> QED BY <1>1, <3>0, <4>1, Zenon
    <3>5. g[m] \in Nat /\ h[n] \in Nat
      BY <1>b, <1>c, <1>d, <3>0
    <3>6. m + (n + 1) - 1 = m + n /\ n + 1 - 1 = n
      OBVIOUS
    <3> QED BY <3>1, <3>2, <3>3, <3>4, <3>5, <3>6
  <2>3. Nat \subseteq U
    <3> HIDE DEF U
    <3> QED BY <2>1, <2>2, EveryNat, Zenon
  <2> QED BY <2>3
<1> QED
  BY <1>1, <1>2, <1>3, <1>4, <1>6 DEF q

LEMMA TotalAppend ==
    ASSUME NEW q \in Seq(Nat), NEW x \in Nat
    PROVE  Total(Append(q, x)) = Total(q) + x
<1>1. Append(q, x) = q \o <<x>> /\ <<x>> \in Seq(Nat)
  OBVIOUS
<1> QED
  BY <1>1, TotalConcat, TotalOne, ZenonT(60)

LEMMA TotalTail ==
    ASSUME NEW q \in Seq(Nat), q # << >>
    PROVE  Total(q) = Head(q) + Total(Tail(q))
<1>1. /\ q = <<Head(q)>> \o Tail(q) /\ <<Head(q)>> \in Seq(Nat)
      /\ Tail(q) \in Seq(Nat) /\ Head(q) \in Nat
  OBVIOUS
<1> QED
  BY <1>1, TotalConcat, TotalOne, ZenonT(60)

LEMMA TotalSplit ==
    ASSUME NEW q \in Seq(Nat), NEW k \in 0..Len(q)
    PROVE  Total(q) = Total(SubSeq(q, 1, k)) + Total(SubSeq(q, k + 1, Len(q)))
<1> DEFINE a == SubSeq(q, 1, k)
           b == SubSeq(q, k + 1, Len(q))
           c == a \o b
<1>1. Len(q) \in Nat
  OBVIOUS
<1>p. Parts(Nat, q, k, a, b)
  BY CutSeq, Zenon
<1> HIDE DEF a, b
<1>2. /\ a \in Seq(Nat) /\ Len(a) = k /\ \A j \in 1..k : a[j] = q[j]
      /\ b \in Seq(Nat) /\ Len(b) = Len(q) - k /\ \A j \in 1..(Len(q) - k) : b[j] = q[k + j]
  BY <1>p, Zenon DEF Parts
<1>c. Parts(Nat, c, k, a, b)
  BY <1>2, ConcatSeq, Zenon
<1> HIDE DEF c
<1>3. /\ c \in Seq(Nat) /\ Len(b) = Len(c) - k
      /\ \A j \in 1..k : a[j] = c[j]
      /\ \A j \in 1..(Len(c) - k) : b[j] = c[k + j]
  BY <1>c, Zenon DEF Parts
<1>4. Len(c) = Len(q)
  <2>1. Len(c) \in Nat
    BY <1>3
  <2> QED BY <1>1, <1>2, <1>3, <2>1
<1>5. ASSUME NEW j \in 1..Len(q) PROVE c[j] = q[j]
  <2>1. CASE j \in 1..k
    BY <1>2, <1>3, <2>1, Zenon
  <2>2. CASE j - k \in 1..(Len(q) - k)
    <3>1. c[k + (j - k)] = q[k + (j - k)]
      BY <1>2, <1>3, <1>4, <2>2, Zenon
    <3>2. k + (j - k) = j
      BY <1>1
    <3> QED BY <3>1, <3>2, Zenon
  <2> QED BY <1>1, <2>1, <2>2
<1>6. c = q
  BY <1>3, <1>4, <1>5, SeqEqual
<1>7. Total(c) = Total(a) + Total(b)
  BY <1>2, TotalConcat, Zenon DEF c
<1> QED
  BY <1>6, <1>7, Zenon DEF a, b

-----------------------------------------------------------------------------
(* The inductive invariant.                                                    *)

Streams == [inc : Nat, history : Seq(Nat), bytes : Nat, first : Nat, closed : BOOLEAN]
Responses == [tag : {"event", "begin", "snapshot", "end"}, inc : Nat, seq : Nat]
Boxes == [pending : Seq(Responses), bytes : Nat, stopped : BOOLEAN]

(* The log: no incarnation is empty, and there are at most MaxOpens.           *)
LogIs(lg) ==
    /\ lg \in Seq([id : Ids, kinds : Seq(Kinds)])
    /\ Len(lg) <= MaxOpens
    /\ \A i \in DOMAIN lg : Len(lg[i].kinds) > 0

LogOK == LogIs(log)

(* Each stream in the table is the incarnation its record names, and closedAt  *)
(* lists the closed ones, each once.                                           *)
TableOK ==
    /\ DOMAIN streams \subseteq Ids
    /\ \A id \in DOMAIN streams :
          /\ streams[id] \in Streams
          /\ streams[id].inc \in DOMAIN log
          /\ log[streams[id].inc].id = id
    /\ closedAt \in Seq(Ids)
    /\ {closedAt[k] : k \in DOMAIN closedAt}
          = {id \in DOMAIN streams : streams[id].closed}
    /\ \A j, k \in DOMAIN closedAt : closedAt[j] = closedAt[k] => j = k

(* Stream s retains a run of the newest events of its incarnation in lg: what  *)
(* HistoryIsNewestRun says, with the announced first event in range.           *)
BytesIn(lg, i, h) == Total([k \in DOMAIN h |-> Charge[lg[i].kinds[h[k]]]])

NewestRun(s, lg) ==
    LET last == Len(lg[s.inc].kinds)
    IN  /\ s.first \in 1..(last + 1)
        /\ s.history = [k \in 1..(last + 1 - s.first) |-> s.first + k - 1]
        /\ s.bytes = BytesIn(lg, s.inc, s.history)
        /\ s.bytes <= RetentionBytes
        /\ s.history = << >> => Charge[lg[s.inc].kinds[last]] > RetentionBytes

HistoryOK == \A id \in DOMAIN streams : NewestRun(streams[id], log)

(* The events a queue refers to exist in lg, and what its responses cost.      *)
Known(lg, q) ==
    \A k \in DOMAIN q : q[k].tag = "event" =>
        /\ q[k].inc \in DOMAIN lg
        /\ q[k].seq \in 1..Len(lg[q[k].inc].kinds)

CostIn(lg, x) == IF x.tag = "event" THEN Charge[lg[x.inc].kinds[x.seq]] ELSE 1
Costs(lg, q) == [k \in DOMAIN q |-> CostIn(lg, q[k])]

(* A mailbox refers to events that exist, and counts them right.               *)
BoxIs(b, lg) ==
    /\ Known(lg, b.pending)
    /\ b.bytes = Total(Costs(lg, b.pending))
    /\ b.bytes <= SubscriberBytes

BoxesOK ==
    /\ running \subseteq Clients
    /\ box \in [Clients -> Boxes]
    /\ \A c \in Clients : BoxIs(box[c], log)

(* Nobody has seen anything that does not exist yet.                           *)
SeenOK ==
    /\ seen \in [Clients -> [Incarnations -> Nat]]
    /\ \A c \in Clients, i \in Incarnations :
          IF i \in DOMAIN log THEN seen[c][i] <= Len(log[i].kinds) ELSE seen[c][i] = 0

(* A response in Write was in a mailbox; without an RPC there is none.         *)
SendingOK ==
    /\ sending \in [Clients -> Responses \cup {Nothing}]
    /\ \A c \in Clients : Known(log, <<sending[c]>>)
    /\ \A c \in Clients : c \notin running => sending[c] = Nothing

(* Queue q has the events of incarnation i that c wants beyond event base, in  *)
(* order: what MailboxIsTheRest says, entry by entry.                          *)
Queued(q, k, i) == q[k].tag = "event" /\ q[k].inc = i

RestIs(q, i, lg, base, c) ==
    /\ \A k \in DOMAIN q : Queued(q, k, i) =>
          /\ q[k].seq \in 1..Len(lg[i].kinds)
          /\ q[k].seq > base
          /\ AcceptsKind(c, lg[i].kinds[q[k].seq])
    /\ \A n \in 1..Len(lg[i].kinds) :
          n > base /\ AcceptsKind(c, lg[i].kinds[n]) =>
             \E k \in DOMAIN q : Queued(q, k, i) /\ q[k].seq = n
    /\ \A j, k \in DOMAIN q :
          Queued(q, j, i) /\ Queued(q, k, i) /\ j < k => q[j].seq < q[k].seq

RestOK ==
    \A c \in running : ~box[c].stopped =>
        \A i \in DOMAIN log : AcceptsId(c, log[i].id) =>
            RestIs(Outgoing(c), i, log, seen[c][i], c)

IInv == LogOK /\ TableOK /\ HistoryOK /\ BoxesOK /\ SeenOK /\ SendingOK /\ RestOK

-----------------------------------------------------------------------------
(* Retain: what is left of a history when event n, of size z[n], is published. *)

LEMMA EvictedProperties ==
    ASSUME NEW s \in Streams, NEW size \in Nat
    PROVE  LET k == Evicted(s, size)
           IN  /\ k \in 0..Len(s.history)
               /\ \/ k = Len(s.history)
                  \/ /\ size <= RetentionBytes
                     /\ s.bytes - HistoryBytes(s.inc, SubSeq(s.history, 1, k))
                           <= RetentionBytes - size
<1> DEFINE Ok(k) == \/ k = Len(s.history)
                    \/ /\ size <= RetentionBytes
                       /\ s.bytes - HistoryBytes(s.inc, SubSeq(s.history, 1, k))
                             <= RetentionBytes - size
           T == {k \in 0..Len(s.history) : Ok(k)}
<1>1. Len(s.history) \in Nat
  BY DEF Streams
<1>2. T \subseteq Nat /\ Len(s.history) \in T
  BY <1>1
<1>3. Min(T) \in T
  <2> HIDE DEF T
  <2>1. \E x \in T : \A y \in T : x <= y
    BY <1>2, LeastNat, Zenon
  <2> QED BY <2>1, Zenon DEF Min
<1>4. Evicted(s, size) = Min(T)
  BY Zenon DEF Evicted
<1> QED
  BY <1>3, <1>4, Zenon

(* The sizes of the events listed in h, where z[n] is the size of event n.     *)
Sizes(z, h) == [k \in DOMAIN h |-> z[h[k]]]

LEMMA SizesSeq ==
    ASSUME NEW z \in Seq(Nat), NEW h \in Seq(1..Len(z))
    PROVE  Sizes(z, h) \in Seq(Nat) /\ Len(Sizes(z, h)) = Len(h)
           /\ \A k \in 1..Len(h) : Sizes(z, h)[k] = z[h[k]]
<1>1. Len(h) \in Nat /\ DOMAIN h = 1..Len(h) /\ \A k \in 1..Len(h) : h[k] \in 1..Len(z)
  OBVIOUS
<1>2. \A k \in 1..Len(z) : z[k] \in Nat
  OBVIOUS
<1>3. \A k \in 1..Len(h) : z[h[k]] \in Nat
  BY <1>1, <1>2, Zenon
<1> QED
  BY <1>1, <1>3 DEF Sizes

LEMMA Shifted ==
    ASSUME NEW q, Len(q) \in Nat, NEW k \in 0..Len(q)
    PROVE  \A j \in 1..(Len(q) - k) : k + j \in 1..Len(q)
OBVIOUS

LEMMA SizesSplit ==
    ASSUME NEW z \in Seq(Nat), NEW h \in Seq(1..Len(z)), NEW k \in 0..Len(h)
    PROVE  Total(Sizes(z, h)) = Total(Sizes(z, SubSeq(h, 1, k)))
                                + Total(Sizes(z, SubSeq(h, k + 1, Len(h))))
<1> DEFINE q == Sizes(z, h)
           a == SubSeq(h, 1, k)
           b == SubSeq(h, k + 1, Len(h))
<1>1. q \in Seq(Nat) /\ Len(q) = Len(h) /\ \A j \in 1..Len(h) : q[j] = z[h[j]]
  BY SizesSeq
<1>2. /\ a \in Seq(1..Len(z)) /\ Len(a) = k /\ \A j \in 1..k : a[j] = h[j]
      /\ b \in Seq(1..Len(z)) /\ Len(b) = Len(h) - k
      /\ \A j \in 1..(Len(h) - k) : b[j] = h[k + j]
  <2>1. Parts(1..Len(z), h, k, a, b)
    BY CutSeq, Zenon
  <2> HIDE DEF a, b
  <2> QED BY <2>1, Zenon DEF Parts
<1> HIDE DEF q, a, b
<1>3. /\ SubSeq(q, 1, k) \in Seq(Nat) /\ Len(SubSeq(q, 1, k)) = k
      /\ \A j \in 1..k : SubSeq(q, 1, k)[j] = q[j]
      /\ SubSeq(q, k + 1, Len(q)) \in Seq(Nat)
      /\ Len(SubSeq(q, k + 1, Len(q))) = Len(q) - k
      /\ \A j \in 1..(Len(q) - k) : SubSeq(q, k + 1, Len(q))[j] = q[k + j]
  <2>1. k \in 0..Len(q)
    BY <1>1
  <2>2. Parts(Nat, q, k, SubSeq(q, 1, k), SubSeq(q, k + 1, Len(q)))
    BY <1>1, <2>1, CutSeq, Zenon
  <2> QED BY <2>2, Zenon DEF Parts
<1>4. SubSeq(q, 1, k) = Sizes(z, a)
  <2>1. /\ Sizes(z, a) \in Seq(Nat) /\ Len(Sizes(z, a)) = k
        /\ \A j \in 1..k : Sizes(z, a)[j] = z[a[j]]
    BY <1>2, SizesSeq, ZenonT(60)
  <2>2. \A j \in 1..k : j \in 1..Len(h)
    OBVIOUS
  <2>3. ASSUME NEW j \in 1..k PROVE Sizes(z, a)[j] = SubSeq(q, 1, k)[j]
    <3>1. Sizes(z, a)[j] = z[a[j]] /\ a[j] = h[j]
      BY <1>2, <2>1, Zenon
    <3>2. SubSeq(q, 1, k)[j] = z[h[j]]
      BY <1>1, <1>3, <2>2, Zenon
    <3> QED BY <3>1, <3>2, Zenon
  <2> DEFINE u == SubSeq(q, 1, k)
             v == Sizes(z, a)
  <2>4. u \in Seq(Nat) /\ v \in Seq(Nat) /\ Len(u) = Len(v) /\ \A j \in 1..Len(u) : u[j] = v[j]
    BY <1>3, <2>1, <2>3, Zenon
  <2> HIDE DEF u, v
  <2>5. u = v
    BY <2>4, SeqEqual, Zenon
  <2> QED BY <2>5, Zenon DEF u, v
<1>5. SubSeq(q, k + 1, Len(q)) = Sizes(z, b)
  <2>1. /\ Sizes(z, b) \in Seq(Nat) /\ Len(Sizes(z, b)) = Len(h) - k
        /\ \A j \in 1..(Len(h) - k) : Sizes(z, b)[j] = z[b[j]]
    <3>1. /\ Sizes(z, b) \in Seq(Nat) /\ Len(Sizes(z, b)) = Len(b)
          /\ \A j \in 1..Len(b) : Sizes(z, b)[j] = z[b[j]]
      BY <1>2, SizesSeq, Zenon
    <3> QED BY <1>2, <3>1, Zenon
  <2>2. /\ \A j \in 1..(Len(h) - k) : k + j \in 1..Len(h)
        /\ Len(q) - k = Len(h) - k
    <3>1. Len(h) \in Nat
      OBVIOUS
    <3> QED BY <1>1, <3>1, Shifted, Zenon
  <2>3. ASSUME NEW j \in 1..(Len(h) - k)
        PROVE  Sizes(z, b)[j] = SubSeq(q, k + 1, Len(q))[j]
    <3>1. Sizes(z, b)[j] = z[b[j]] /\ b[j] = h[k + j]
      BY <1>2, <2>1, Zenon
    <3>2. SubSeq(q, k + 1, Len(q))[j] = q[k + j]
      BY <1>3, <2>2, Zenon
    <3>3. q[k + j] = z[h[k + j]]
      BY <1>1, <2>2, Zenon
    <3> QED BY <3>1, <3>2, <3>3, Zenon
  <2> DEFINE u == SubSeq(q, k + 1, Len(q))
             v == Sizes(z, b)
  <2>4. u \in Seq(Nat) /\ v \in Seq(Nat) /\ Len(u) = Len(v) /\ \A j \in 1..Len(u) : u[j] = v[j]
    BY <1>3, <2>1, <2>2, <2>3, Zenon
  <2> HIDE DEF u, v
  <2>5. u = v
    BY <2>4, SeqEqual, Zenon
  <2> QED BY <2>5, Zenon DEF u, v
<1>6. Total(q) = Total(SubSeq(q, 1, k)) + Total(SubSeq(q, k + 1, Len(q)))
  <2>1. k \in 0..Len(q)
    BY <1>1
  <2> QED BY <1>1, <2>1, TotalSplit
<1> QED
  BY <1>4, <1>5, <1>6, Zenon DEF q, a, b

LEMMA SizesAppend ==
    ASSUME NEW z \in Seq(Nat), NEW h \in Seq(1..Len(z)), NEW n \in 1..Len(z)
    PROVE  Total(Sizes(z, Append(h, n))) = Total(Sizes(z, h)) + z[n]
<1> DEFINE g == Append(h, n)
<1>1. /\ g \in Seq(1..Len(z)) /\ Len(g) = Len(h) + 1 /\ g[Len(h) + 1] = n
      /\ \A j \in 1..Len(h) : g[j] = h[j]
  OBVIOUS
<1> HIDE DEF g
<1>2. /\ Sizes(z, g) \in Seq(Nat) /\ Len(Sizes(z, g)) = Len(g)
      /\ \A j \in 1..Len(g) : Sizes(z, g)[j] = z[g[j]]
  BY <1>1, SizesSeq, Zenon
<1>3. /\ Sizes(z, h) \in Seq(Nat) /\ Len(Sizes(z, h)) = Len(h)
      /\ \A j \in 1..Len(h) : Sizes(z, h)[j] = z[h[j]]
  BY SizesSeq
<1>4. z[n] \in Nat /\ Len(h) \in Nat
  OBVIOUS
<1>5. /\ Append(Sizes(z, h), z[n]) \in Seq(Nat)
      /\ Len(Append(Sizes(z, h), z[n])) = Len(h) + 1
      /\ \A j \in 1..Len(h) : Append(Sizes(z, h), z[n])[j] = Sizes(z, h)[j]
      /\ Append(Sizes(z, h), z[n])[Len(h) + 1] = z[n]
  BY <1>3, <1>4
<1>6. \A j \in 1..(Len(h) + 1) : Sizes(z, g)[j] = Append(Sizes(z, h), z[n])[j]
  <2>1. \A j \in 1..(Len(h) + 1) : j \in 1..Len(h) \/ j = Len(h) + 1
    BY <1>4
  <2>2. \A j \in 1..(Len(h) + 1) : Sizes(z, g)[j] = z[g[j]]
    BY <1>1, <1>2, Zenon
  <2>3. \A j \in 1..Len(h) : Sizes(z, g)[j] = z[h[j]] /\ j \in 1..(Len(h) + 1)
    <3>1. \A j \in 1..Len(h) : j \in 1..(Len(h) + 1)
      BY <1>4
    <3> QED BY <1>1, <2>2, <3>1, Zenon
  <2>4. Sizes(z, g)[Len(h) + 1] = z[n]
    <3>1. Len(h) + 1 \in 1..(Len(h) + 1)
      BY <1>4
    <3> QED BY <1>1, <2>2, <3>1, Zenon
  <2> QED BY <1>3, <1>5, <2>1, <2>3, <2>4, Zenon
<1>7. Sizes(z, g) = Append(Sizes(z, h), z[n])
  <2> DEFINE u == Sizes(z, g)
             v == Append(Sizes(z, h), z[n])
  <2>4. u \in Seq(Nat) /\ v \in Seq(Nat) /\ Len(u) = Len(v) /\ \A j \in 1..Len(u) : u[j] = v[j]
    BY <1>1, <1>2, <1>5, <1>6, Zenon
  <2> HIDE DEF u, v
  <2>5. u = v
    BY <2>4, SeqEqual, Zenon
  <2> QED BY <2>5, Zenon DEF u, v
<1> QED
  BY <1>3, <1>4, <1>7, TotalAppend DEF g

(* s retains the newest m of the events before event Len(z).                   *)
Retains(s, z, m) ==
    /\ s.history = [k \in 1..m |-> Len(z) - m + k - 1]
    /\ \A h \in Seq(1..(Len(z) - 1)) : HistoryBytes(s.inc, h) = Total(Sizes(z, h))
    /\ s.bytes = HistoryBytes(s.inc, s.history)

(* t retains the newest events up to event Len(z), within the budget.          *)
Retained(t, z) ==
    /\ t.first \in 1..(Len(z) + 1)
    /\ t.history = [k \in 1..(Len(z) + 1 - t.first) |-> t.first + k - 1]
    /\ t.bytes = Total(Sizes(z, t.history))
    /\ t.bytes <= RetentionBytes
    /\ t.history = << >> => z[Len(z)] > RetentionBytes

LEMMA RunOfNumbers ==
    ASSUME NEW n \in Nat, NEW m \in 0..n, NEW k \in 0..m
    PROVE  LET h == [j \in 1..m |-> n - m + j]
           IN  /\ h \in Seq(1..n) /\ Len(h) = m
               /\ SubSeq(h, k + 1, m) = [j \in 1..(m - k) |-> n - (m - k) + j]
<1> DEFINE h == [j \in 1..m |-> n - m + j]
           b == SubSeq(h, k + 1, m)
           g == [j \in 1..(m - k) |-> n - (m - k) + j]
<1>1. m \in Nat /\ \A j \in 1..m : n - m + j \in 1..n
  OBVIOUS
<1>2. h \in Seq(1..n) /\ Len(h) = m /\ \A j \in 1..m : h[j] = n - m + j
  BY <1>1
<1>3. m - k \in Nat /\ \A j \in 1..(m - k) : n - (m - k) + j \in 1..n
  OBVIOUS
<1>4. /\ g \in Seq(1..n) /\ Len(g) = m - k
      /\ \A j \in 1..(m - k) : g[j] = n - (m - k) + j
  BY <1>3
<1> HIDE DEF h, g
<1>5. /\ b \in Seq(1..n) /\ Len(b) = m - k
      /\ \A j \in 1..(m - k) : b[j] = h[k + j]
  <2>1. Parts(1..n, h, k, SubSeq(h, 1, k), SubSeq(h, k + 1, Len(h)))
    BY <1>2, CutSeq, Zenon
  <2>2. b = SubSeq(h, k + 1, Len(h))
    BY <1>2, Zenon
  <2> HIDE DEF b
  <2> QED BY <1>2, <2>1, <2>2, Zenon DEF Parts
<1> HIDE DEF b
<1>6. \A j \in 1..(m - k) : b[j] = g[j]
  <2>1. \A j \in 1..(m - k) : k + j \in 1..m /\ n - m + (k + j) = n - (m - k) + j
    BY <1>1
  <2> QED BY <1>2, <1>4, <1>5, <2>1
<1>7. b = g
  BY <1>4, <1>5, <1>6, SeqEqual
<1> QED
  BY <1>2, <1>7, Zenon DEF b, h, g

LEMMA RetainProperties ==
    ASSUME NEW z \in Seq(Nat), Len(z) # 0, NEW m \in 0..(Len(z) - 1),
           NEW s \in Streams, Retains(s, z, m)
    PROVE  LET t == Retain(s, Len(z), z[Len(z)])
           IN  /\ t \in Streams /\ t.inc = s.inc /\ t.closed = s.closed
               /\ Retained(t, z)
<1> DEFINE n == Len(z)
           size == z[n]
           h == s.history
           e == Evicted(s, size)
           kept == SubSeq(h, e + 1, Len(h))
           rest == s.bytes - HistoryBytes(s.inc, SubSeq(h, 1, e))
           fits == size <= RetentionBytes
           now == IF fits THEN Append(kept, n) ELSE kept
           t == Retain(s, n, size)
<1>1. n \in Nat /\ n \in 1..n /\ n - 1 \in Nat /\ size \in Nat /\ m \in Nat /\ n - m \in 1..n
  OBVIOUS
<1>2. h = [k \in 1..m |-> (n - 1) - m + k]
  <2>1. h = [k \in 1..m |-> n - m + k - 1]
    BY Zenon DEF Retains
  <2>2. \A k \in 1..m : n - m + k - 1 = (n - 1) - m + k
    BY <1>1
  <2> QED BY <2>1, <2>2, Zenon
<1>3. /\ \A g \in Seq(1..(n - 1)) : HistoryBytes(s.inc, g) = Total(Sizes(z, g))
      /\ s.bytes = HistoryBytes(s.inc, h)
  BY Zenon DEF Retains
<1>4. /\ e \in 0..Len(h)
      /\ e = Len(h) \/ (fits /\ rest <= RetentionBytes - size)
  BY <1>1, EvictedProperties, Zenon
<1>5. t = [s EXCEPT !.history = now, !.bytes = IF fits THEN rest + size ELSE rest,
                    !.first = FirstRetained(now, n)]
  BY Zenon DEF Retain
<1> HIDE DEF h, e, t
<1>6. h \in Seq(1..(n - 1)) /\ Len(h) = m
  <2>1. m \in 0..(n - 1) /\ m \in 0..m
    BY <1>1
  <2> QED BY <1>1, <1>2, <2>1, RunOfNumbers, Zenon
<1>7. e \in 0..m /\ m - e \in 0..(n - 1)
  BY <1>1, <1>4, <1>6
<1>8. kept = [k \in 1..(m - e) |-> (n - 1) - (m - e) + k]
  <2>1. m \in 0..(n - 1) /\ e \in 0..m
    BY <1>1, <1>7
  <2>2. SubSeq([k \in 1..m |-> (n - 1) - m + k], e + 1, m)
           = [k \in 1..(m - e) |-> (n - 1) - (m - e) + k]
    BY <1>1, <2>1, RunOfNumbers, Zenon
  <2> QED BY <1>2, <1>6, <2>2, Zenon
<1>9. kept \in Seq(1..(n - 1)) /\ Len(kept) = m - e /\ SubSeq(h, 1, e) \in Seq(1..(n - 1))
  <2>1. Parts(1..(n - 1), h, e, SubSeq(h, 1, e), SubSeq(h, e + 1, Len(h)))
    BY <1>4, <1>6, CutSeq, Zenon
  <2>2. /\ SubSeq(h, 1, e) \in Seq(1..(n - 1)) /\ SubSeq(h, e + 1, Len(h)) \in Seq(1..(n - 1))
        /\ Len(SubSeq(h, e + 1, Len(h))) = Len(h) - e
    BY <2>1, Zenon DEF Parts
  <2> QED BY <1>6, <2>2, Zenon
<1>10. \A g \in Seq(1..(n - 1)) : g \in Seq(1..n)
  BY <1>1
<1>11. rest = Total(Sizes(z, kept)) /\ rest \in Nat
  <2>1. Total(Sizes(z, h)) = Total(Sizes(z, SubSeq(h, 1, e))) + Total(Sizes(z, kept))
    BY <1>4, <1>6, <1>10, SizesSplit, Zenon
  <2>2. Total(Sizes(z, SubSeq(h, 1, e))) \in Nat /\ Total(Sizes(z, kept)) \in Nat
    BY <1>9, <1>10, SizesSeq, TotalNat, Zenon
  <2>3. /\ s.bytes = Total(Sizes(z, h))
        /\ HistoryBytes(s.inc, SubSeq(h, 1, e)) = Total(Sizes(z, SubSeq(h, 1, e)))
    BY <1>3, <1>6, <1>9, Zenon
  <2> QED BY <2>1, <2>2, <2>3
<1>12. e = m => rest = 0
  <2> SUFFICES ASSUME e = m PROVE rest = 0
    OBVIOUS
  <2>1. Len(kept) = 0
    BY <1>9, <1>1
  <2>2. Sizes(z, kept) = << >>
    <3> HIDE DEF kept
    <3>1. kept = << >>
      BY <1>9, <2>1
    <3> QED BY <3>1 DEF Sizes
  <2> QED BY <1>11, <2>2, TotalEmpty, Zenon
<1> HIDE DEF kept, rest
<1>a. PICK d \in Nat : /\ d <= n - 1
                       /\ kept \in Seq(1..(n - 1)) /\ Len(kept) = d
                       /\ kept = [k \in 1..d |-> (n - 1) - d + k]
  BY <1>1, <1>7, <1>8, <1>9
<1>13. PICK f \in 1..n : f = n - d /\ n + 1 - f = d + 1
  <2>1. n - d \in 1..n /\ n + 1 - (n - d) = d + 1
    BY <1>1, <1>a
  <2> QED BY <2>1, Zenon
<1>14. CASE fits
  <2>1. now = Append(kept, n)
    BY <1>14
  <2>2. now \in Seq(1..n) /\ Len(now) = d + 1
    <3>1. kept \in Seq(1..n) /\ n \in 1..n
      BY <1>1, <1>9, <1>10
    <3>2. Append(kept, n) \in Seq(1..n) /\ Len(Append(kept, n)) = Len(kept) + 1
      <4> HIDE DEF n
      <4> QED BY <3>1, AppendSeq, Zenon
    <3> QED BY <1>a, <2>1, <3>2, Zenon
  <2>3. ASSUME NEW k \in 1..(d + 1) PROVE now[k] = f + k - 1
    <3>1. CASE k \in 1..d
      <4>1. kept[k] = (n - 1) - d + k
        BY <1>a, <3>1
      <4>2. now[k] = kept[k]
        BY <1>a, <2>1, <3>1
      <4> QED BY <1>1, <1>a, <1>13, <3>1, <4>1, <4>2
    <3>2. CASE k = d + 1
      <4>1. now[k] = n
        BY <1>a, <2>1, <3>2
      <4> QED BY <1>1, <1>a, <1>13, <3>2, <4>1
    <3>3. k \in 1..d \/ k = d + 1
      BY <1>a
    <3> QED BY <3>1, <3>2, <3>3, Zenon
  <2>4. now = [k \in 1..(n + 1 - f) |-> f + k - 1]
    <3> DEFINE g == [k \in 1..(d + 1) |-> f + k - 1]
    <3>1. \A k \in 1..(d + 1) : f + k - 1 \in 1..n
      BY <1>1, <1>a, <1>13
    <3>2. g \in Seq(1..n) /\ Len(g) = d + 1 /\ \A k \in 1..(d + 1) : g[k] = f + k - 1
      BY <1>a, <3>1
    <3> HIDE DEF g, now
    <3>3. now = g
      BY <2>2, <2>3, <3>2, SeqEqual, ZenonT(60)
    <3> QED BY <1>13, <3>3, Zenon DEF g
  <2>5. now # << >> /\ Head(now) = f
    <3> HIDE DEF now
    <3>1. now[1] = f /\ Len(now) > 0
      BY <1>a, <2>2, <2>3, <1>13
    <3> QED BY <2>2, <3>1
  <2>6. t = [s EXCEPT !.history = now, !.bytes = rest + size, !.first = f]
    BY <1>5, <1>14, <2>5, Zenon DEF FirstRetained
  <2>7. rest + size \in Nat /\ f \in Nat
    BY <1>1, <1>11, <1>13
  <2>8. rest + size = Total(Sizes(z, now))
    BY <1>1, <1>9, <1>10, <1>11, <2>1, SizesAppend, Zenon
  <2>9. rest + size <= RetentionBytes
    <3>1. RetentionBytes \in Nat /\ size <= RetentionBytes
      BY <1>14, RegistryAssumption
    <3>2. rest = 0 \/ rest <= RetentionBytes - size
      BY <1>4, <1>6, <1>12, Zenon
    <3> QED BY <1>1, <1>11, <3>1, <3>2
  <2> HIDE DEF now
  <2>10. now \in Seq(Nat)
    BY <2>2
  <2>11. /\ t \in Streams /\ t.inc = s.inc /\ t.closed = s.closed
         /\ t.history = now /\ t.bytes = rest + size /\ t.first = f
    BY <2>6, <2>7, <2>10, Zenon DEF Streams
  <2>12. f \in 1..(n + 1)
    BY <1>1, <1>13
  <2> QED BY <2>4, <2>5, <2>8, <2>9, <2>11, <2>12, Zenon DEF Retained, t
<1>15. CASE ~fits
  <2>1. e = m /\ rest = 0 /\ now = kept
    BY <1>4, <1>6, <1>12, <1>15
  <2>2. kept = << >>
    BY <1>1, <1>9, <2>1
  <2>3. t = [s EXCEPT !.history = << >>, !.bytes = 0, !.first = n + 1]
    BY <1>5, <1>15, <2>1, <2>2, Zenon DEF FirstRetained
  <2>4. /\ t.inc = s.inc /\ t.closed = s.closed
        /\ t.history = << >> /\ t.bytes = 0 /\ t.first = n + 1
    BY <2>3 DEF Streams
  <2>5. t \in Streams
    <3>1. << >> \in Seq(Nat) /\ 0 \in Nat /\ n + 1 \in Nat
      BY <1>1
    <3> QED BY <2>3, <3>1, Zenon DEF Streams
  <2>6. Sizes(z, << >>) = << >>
    BY DEF Sizes
  <2>7. size > RetentionBytes /\ 0 <= RetentionBytes
    BY <1>1, <1>15, RegistryAssumption
  <2>8. << >> = [k \in 1..(n + 1 - (n + 1)) |-> (n + 1) + k - 1] /\ n + 1 \in 1..(n + 1)
    BY <1>1
  <2> QED BY <2>4, <2>5, <2>6, <2>7, <2>8, TotalEmpty DEF Retained, t
<1> QED
  BY <1>14, <1>15, Zenon

-----------------------------------------------------------------------------
(* Publication.                                                                *)

(* Event n, of the given kind, is now the newest of incarnation i of id.       *)
Grows(id, i, n, kind) ==
    /\ \/ i \in DOMAIN log /\ log[i].id = id /\ n = Len(log[i].kinds) + 1
       \/ i = Len(log) + 1 /\ n = 1
    /\ DOMAIN log' = DOMAIN log \cup {i}
    /\ log'[i].id = id
    /\ Len(log'[i].kinds) = n
    /\ log'[i].kinds[n] = kind
    /\ \A m \in 1..(n - 1) : log'[i].kinds[m] = log[i].kinds[m]
    /\ \A j \in DOMAIN log : j # i => log'[j] = log[j]

Posts(id, s, table, kind, n) ==
    /\ streams' = [x \in {id} \cup DOMAIN table |->
                     IF x = id THEN Retain(s, n, Charge[kind]) ELSE table[x]]
    /\ box' = [c \in Clients |->
                 IF c \in running /\ AcceptsId(c, id) /\ AcceptsKind(c, kind)
                 THEN Push(box[c], Event(s.inc, n), Charge[kind])
                 ELSE box[c]]

(* Published events stay as they are.                                          *)
Keeps ==
    /\ DOMAIN log \subseteq DOMAIN log'
    /\ \A j \in DOMAIN log :
          /\ log'[j].id = log[j].id
          /\ Len(log[j].kinds) <= Len(log'[j].kinds)
          /\ \A m \in 1..Len(log[j].kinds) : log'[j].kinds[m] = log[j].kinds[m]

LEMMA LogTypes ==
    ASSUME NEW lg, LogIs(lg)
    PROVE  /\ Len(lg) \in Nat /\ DOMAIN lg = 1..Len(lg)
           /\ \A i \in DOMAIN lg :
                 /\ lg[i] \in [id : Ids, kinds : Seq(Kinds)]
                 /\ lg[i].id \in Ids /\ lg[i].kinds \in Seq(Kinds)
                 /\ Len(lg[i].kinds) \in Nat \ {0}
                 /\ \A m \in 1..Len(lg[i].kinds) : lg[i].kinds[m] \in Kinds
           /\ DOMAIN lg \subseteq Incarnations
<1>1. Len(lg) \in Nat /\ DOMAIN lg = 1..Len(lg)
  BY DEF LogIs
<1>2. ASSUME NEW i \in DOMAIN lg
      PROVE  /\ lg[i] \in [id : Ids, kinds : Seq(Kinds)]
             /\ lg[i].id \in Ids /\ lg[i].kinds \in Seq(Kinds)
  <2> DEFINE R == [id : Ids, kinds : Seq(Kinds)]
  <2>1. lg \in Seq(R) /\ i \in 1..Len(lg)
    BY <1>1, Zenon DEF LogIs
  <2>2. lg[i] \in R
    <3> HIDE DEF R
    <3> QED BY <2>1, ElementOfSeq, Zenon
  <2> QED BY <2>2, Zenon
<1>3. ASSUME NEW i \in DOMAIN lg
      PROVE  /\ Len(lg[i].kinds) \in Nat \ {0}
             /\ \A m \in 1..Len(lg[i].kinds) : lg[i].kinds[m] \in Kinds
  <2> DEFINE q == lg[i].kinds
  <2>1. q \in Seq(Kinds) /\ Len(q) > 0
    BY <1>2 DEF LogIs
  <2> HIDE DEF q
  <2>2. Len(q) \in Nat \ {0} /\ \A m \in 1..Len(q) : q[m] \in Kinds
    BY <2>1
  <2> QED BY <2>2, Zenon DEF q
<1>4. DOMAIN lg \subseteq Incarnations
  BY <1>1, RegistryAssumption DEF LogIs, Incarnations
<1> QED
  BY <1>1, <1>2, <1>3, <1>4, Zenon

LEMMA PublishGrows ==
    ASSUME LogOK, NEW id \in Ids, NEW s, NEW table, NEW kind \in Kinds,
           \/ s.inc \in DOMAIN log /\ log[s.inc].id = id
           \/ s.inc = Len(log) + 1 /\ Len(log) < MaxOpens,
           Publish(id, s, table, kind)
    PROVE  \E n \in Nat : /\ Grows(id, s.inc, n, kind)
                          /\ Posts(id, s, table, kind, n)
                          /\ LogOK' /\ Keeps
<1> DEFINE i == s.inc
           n == IF i > Len(log) THEN 1 ELSE Len(log[i].kinds) + 1
           Recs == [id : Ids, kinds : Seq(Kinds)]
<1>1. /\ log' = IF n = 1 THEN Append(log, [id |-> id, kinds |-> <<kind>>])
                ELSE [log EXCEPT ![i].kinds = Append(@, kind)]
      /\ Posts(id, s, table, kind, n)
  BY Zenon DEF Publish, Posts
<1>2. /\ Len(log) \in Nat /\ DOMAIN log = 1..Len(log) /\ log \in Seq(Recs)
      /\ \A j \in DOMAIN log : /\ log[j] \in Recs
                               /\ log[j].kinds \in Seq(Kinds)
                               /\ Len(log[j].kinds) \in Nat \ {0}
  BY LogTypes, Zenon DEF LogOK, LogIs
<1>3. Len(log) <= MaxOpens /\ MaxOpens \in Nat
  BY RegistryAssumption DEF LogOK, LogIs
<1>4. CASE i \in DOMAIN log /\ log[i].id = id
  <2> DEFINE q == log[i].kinds
             L == Len(log)
  <2>1. q \in Seq(Kinds) /\ Len(q) \in Nat \ {0}
    BY <1>2, <1>4
  <2>2. n = Len(q) + 1 /\ n # 1 /\ n \in Nat
    BY <1>2, <1>4, <2>1
  <2> HIDE DEF n
  <2>3. log' = [log EXCEPT ![i].kinds = Append(q, kind)]
    BY <1>1, <2>2, Zenon
  <2>4. DOMAIN log' = DOMAIN log /\ \A j \in DOMAIN log : j # i => log'[j] = log[j]
    BY <2>3
  <2>5. log'[i] = [log[i] EXCEPT !.kinds = Append(q, kind)]
    BY <1>4, <2>3
  <2>6. log'[i].id = id /\ log'[i].kinds = Append(q, kind) /\ log'[i] \in Recs
    <3>1. Append(q, kind) \in Seq(Kinds)
      <4> HIDE DEF q
      <4> QED BY <2>1
    <3> QED BY <1>2, <1>4, <2>5, <3>1, Zenon
  <2>7. /\ Len(log'[i].kinds) = n /\ log'[i].kinds[n] = kind
        /\ \A m \in 1..(n - 1) : log'[i].kinds[m] = q[m]
    <3> HIDE DEF q
    <3>1. /\ Len(Append(q, kind)) = Len(q) + 1 /\ Append(q, kind)[Len(q) + 1] = kind
          /\ \A m \in 1..Len(q) : Append(q, kind)[m] = q[m]
      BY <2>1
    <3>2. n - 1 = Len(q)
      BY <2>1, <2>2
    <3> QED BY <2>2, <2>6, <3>1, <3>2, Zenon
  <2>8. log' \in Seq(Recs) /\ Len(log') = Len(log)
    <3> HIDE DEF Recs
    <3>1. \A j \in DOMAIN log : log'[j] \in Recs
      BY <1>2, <2>4, <2>6, Zenon
    <3>2. log' = [j \in 1..L |-> log'[j]]
      BY <1>2, <2>3, Zenon
    <3> QED BY <1>2, <3>1, <3>2
  <2>9. \A j \in DOMAIN log' : Len(log'[j].kinds) > 0
    BY <1>2, <2>2, <2>4, <2>7
  <2>10. LogOK'
    BY <1>3, <2>8, <2>9 DEF LogOK, LogIs
  <2>11. Grows(id, i, n, kind)
    BY <1>4, <2>2, <2>4, <2>6, <2>7, Zenon DEF Grows
  <2>12. Keeps
    <3>1. ASSUME NEW j \in DOMAIN log, j # i
          PROVE  /\ log'[j].id = log[j].id /\ Len(log[j].kinds) <= Len(log'[j].kinds)
                 /\ \A m \in 1..Len(log[j].kinds) : log'[j].kinds[m] = log[j].kinds[m]
      BY <1>2, <2>4, <3>1
    <3>2. /\ log'[i].id = log[i].id /\ Len(log[i].kinds) <= Len(log'[i].kinds)
          /\ \A m \in 1..Len(log[i].kinds) : log'[i].kinds[m] = log[i].kinds[m]
      <4>1. n - 1 = Len(q) /\ Len(q) <= n
        BY <2>1, <2>2
      <4> QED BY <1>4, <2>6, <2>7, <4>1, Zenon
    <3> QED BY <2>4, <3>1, <3>2, Zenon DEF Keeps
  <2> QED BY <1>1, <2>2, <2>10, <2>11, <2>12, Zenon
<1>5. CASE i = Len(log) + 1 /\ Len(log) < MaxOpens
  <2> DEFINE r == [id |-> id, kinds |-> <<kind>>]
  <2>1. n = 1
    BY <1>2, <1>5
  <2> HIDE DEF n
  <2>2. log' = Append(log, r)
    BY <1>1, <2>1, Zenon
  <2>3. r \in Recs /\ r.id = id /\ r.kinds = <<kind>>
    OBVIOUS
  <2> HIDE DEF r, Recs
  <2>4. /\ log' \in Seq(Recs) /\ Len(log') = Len(log) + 1 /\ log'[i] = r
        /\ DOMAIN log' = DOMAIN log \cup {i}
        /\ \A j \in DOMAIN log : log'[j] = log[j]
    BY <1>2, <1>5, <2>2, <2>3
  <2>5. Len(<<kind>>) = 1 /\ <<kind>>[1] = kind
    OBVIOUS
  <2>6. /\ log'[i].id = id /\ Len(log'[i].kinds) = n /\ log'[i].kinds[n] = kind
    BY <2>1, <2>3, <2>4, <2>5, Zenon
  <2>7. \A j \in DOMAIN log' : Len(log'[j].kinds) > 0
    BY <1>2, <2>1, <2>4, <2>6
  <2>8. LogOK'
    <3>1. Len(log') <= MaxOpens
      BY <1>2, <1>3, <1>5, <2>4
    <3> QED BY <2>4, <2>7, <3>1 DEF LogOK, LogIs, Recs
  <2>9. Grows(id, i, n, kind)
    <3>1. \A m \in 1..(n - 1) : FALSE
      BY <2>1
    <3> QED BY <1>5, <2>1, <2>4, <2>6, <3>1, Zenon DEF Grows
  <2>10. Keeps
    BY <1>2, <2>4 DEF Keeps
  <2>11. n \in Nat
    BY <2>1
  <2> QED BY <1>1, <2>8, <2>9, <2>10, <2>11, Zenon
<1> QED
  BY <1>4, <1>5, Zenon

LEMMA HistoryBytesIn ==
    ASSUME NEW i, NEW h
    PROVE  HistoryBytes(i, h) = BytesIn(log, i, h)
BY Zenon DEF HistoryBytes, BytesIn, Kind

(* The stream of a publication: it retains the newest run, the event included. *)
LEMMA RetainRun ==
    ASSUME LogOK', NEW s \in Streams, NEW id, NEW kind \in Kinds, NEW n \in Nat,
           Grows(id, s.inc, n, kind), s.inc \in DOMAIN log', NEW m \in 0..(n - 1),
           s.history = [k \in 1..m |-> n - m + k - 1],
           s.bytes = HistoryBytes(s.inc, s.history)
    PROVE  LET t == Retain(s, n, Charge[kind])
           IN  /\ t \in Streams /\ t.inc = s.inc /\ t.closed = s.closed
               /\ NewestRun(t, log')
<1> DEFINE i == s.inc
           q == log'[i].kinds
           z == [k \in 1..n |-> Charge[q[k]]]
           t == Retain(s, n, Charge[kind])
<1>1. /\ q \in Seq(Kinds) /\ Len(q) = n /\ q[n] = kind /\ n # 0
      /\ \A k \in 1..(n - 1) : q[k] = log[i].kinds[k]
  <2>1. log'[i].kinds \in Seq(Kinds) /\ Len(log'[i].kinds) \in Nat \ {0}
    BY LogTypes, Zenon DEF LogOK
  <2>2. /\ Len(q) = n /\ q[n] = kind
        /\ \A k \in 1..(n - 1) : q[k] = log[i].kinds[k]
    BY Zenon DEF Grows
  <2> QED BY <2>1, <2>2
<1> HIDE DEF q
<1>2. z \in Seq(Nat) /\ Len(z) = n /\ \A k \in 1..n : z[k] = Charge[q[k]]
  <2>1. \A k \in 1..n : Charge[q[k]] \in Nat
    <3>1. \A k \in 1..n : q[k] \in Kinds
      BY <1>1
    <3> QED BY <3>1, RegistryAssumption
  <2> QED BY <2>1
<1>3. z[n] = Charge[kind]
  BY <1>1, <1>2
<1> HIDE DEF z
<1>4. ASSUME NEW g \in Seq(1..(n - 1))
      PROVE  HistoryBytes(i, g) = Total(Sizes(z, g))
  <2>1. \A k \in DOMAIN g : g[k] \in 1..(n - 1) /\ g[k] \in 1..n
    OBVIOUS
  <2>2. \A k \in DOMAIN g : z[g[k]] = Charge[log[i].kinds[g[k]]]
    BY <1>1, <1>2, <2>1, Zenon
  <2>3. [k \in DOMAIN g |-> Charge[log[i].kinds[g[k]]]] = Sizes(z, g)
    BY <2>2, Zenon DEF Sizes
  <2> QED BY <2>3, HistoryBytesIn, Zenon DEF BytesIn
<1>5. Retains(s, z, m)
  BY <1>2, <1>4, Zenon DEF Retains
<1>6. /\ t \in Streams /\ t.inc = s.inc /\ t.closed = s.closed /\ Retained(t, z)
  <2>1. Len(z) # 0 /\ m \in 0..(Len(z) - 1)
    BY <1>1, <1>2
  <2> DEFINE u == Retain(s, Len(z), z[Len(z)])
  <2>2. u \in Streams /\ u.inc = s.inc /\ u.closed = s.closed /\ Retained(u, z)
    BY <1>2, <1>5, <2>1, RetainProperties, Zenon
  <2>3. u = t
    BY <1>2, <1>3, Zenon
  <2> QED BY <2>2, <2>3, Zenon
<1> HIDE DEF t
<1>7. t.history = [k \in 1..(n + 1 - t.first) |-> t.first + k - 1] /\ t.first \in 1..(n + 1)
  BY <1>2, <1>6, Zenon DEF Retained
<1>8. \A k \in DOMAIN t.history : t.history[k] \in 1..n
  BY <1>7
<1>9. BytesIn(log', i, t.history) = Total(Sizes(z, t.history))
  <2>1. \A k \in DOMAIN t.history : z[t.history[k]] = Charge[log'[i].kinds[t.history[k]]]
    BY <1>2, <1>8, Zenon DEF q
  <2>2. [k \in DOMAIN t.history |-> Charge[log'[i].kinds[t.history[k]]]] = Sizes(z, t.history)
    BY <2>1, Zenon DEF Sizes
  <2> QED BY <2>2, Zenon DEF BytesIn
<1>10. /\ t.bytes = BytesIn(log', t.inc, t.history) /\ t.bytes <= RetentionBytes
       /\ t.history = << >> => Charge[kind] > RetentionBytes
  BY <1>2, <1>3, <1>6, <1>9, Zenon DEF Retained
<1>11. NewestRun(t, log')
  BY <1>1, <1>6, <1>7, <1>10, Zenon DEF NewestRun, q
<1> QED
  BY <1>6, <1>11, Zenon DEF t

(* What stream s retains when event n is published: a run that ends before n.  *)
RunBefore(s, n) ==
    \E m \in 0..(n - 1) : /\ s.history = [k \in 1..m |-> n - m + k - 1]
                          /\ s.bytes = HistoryBytes(s.inc, s.history)

LEMMA PublishTable ==
    ASSUME LogOK, LogOK', TableOK, HistoryOK,
           NEW id \in Ids, NEW s \in Streams, NEW kind \in Kinds, NEW n \in Nat,
           NEW table, DOMAIN table \subseteq DOMAIN streams,
           \A x \in DOMAIN table : table[x] = streams[x],
           Grows(id, s.inc, n, kind), Posts(id, s, table, kind, n),
           RunBefore(s, n)
    PROVE  /\ DOMAIN streams' = {id} \cup DOMAIN table
           /\ DOMAIN streams' \subseteq Ids
           /\ \A x \in DOMAIN streams' : /\ streams'[x] \in Streams
                                         /\ streams'[x].inc \in DOMAIN log'
                                         /\ log'[streams'[x].inc].id = x
           /\ streams'[id].inc = s.inc /\ streams'[id].closed = s.closed
           /\ \A x \in DOMAIN table : x # id => streams'[x] = streams[x]
           /\ HistoryOK'
<1> DEFINE i == s.inc
           t == Retain(s, n, Charge[kind])
<1>1. /\ DOMAIN streams' = {id} \cup DOMAIN table
      /\ streams'[id] = t
      /\ \A x \in DOMAIN table : x # id => streams'[x] = streams[x]
  BY Zenon DEF Posts
<1>2. i \in DOMAIN log' /\ log'[i].id = id
  BY Zenon DEF Grows
<1>3. t \in Streams /\ t.inc = i /\ t.closed = s.closed /\ NewestRun(t, log')
  <2>1. PICK m \in 0..(n - 1) : /\ s.history = [k \in 1..m |-> n - m + k - 1]
                                /\ s.bytes = HistoryBytes(s.inc, s.history)
    BY Zenon DEF RunBefore
  <2> QED BY <1>2, <2>1, RetainRun, Zenon
<1> HIDE DEF t
<1>5. DOMAIN streams' \subseteq Ids
  <2>1. DOMAIN streams \subseteq Ids
    BY Zenon DEF TableOK
  <2> QED BY <1>1, <2>1, Zenon
<1>6. ASSUME NEW x \in DOMAIN table, x # id
      PROVE  /\ streams'[x] = streams[x] /\ streams[x] \in Streams
             /\ streams[x].inc \in DOMAIN log' /\ log'[streams[x].inc] = log[streams[x].inc]
             /\ log'[streams[x].inc].id = x
  <2>1. /\ x \in DOMAIN streams /\ streams[x] \in Streams
        /\ streams[x].inc \in DOMAIN log /\ log[streams[x].inc].id = x
    BY Zenon DEF TableOK
  <2>2. streams[x].inc # i
    <3>1. CASE i \in DOMAIN log /\ log[i].id = id
      BY <1>6, <2>1, <3>1, Zenon
    <3>2. CASE i = Len(log) + 1
      <4>1. Len(log) \in Nat /\ DOMAIN log = 1..Len(log)
        BY LogTypes, Zenon DEF LogOK
      <4>2. i \notin DOMAIN log
        BY <3>2, <4>1
      <4> QED BY <2>1, <4>2, Zenon
    <3> QED BY <3>1, <3>2, Zenon DEF Grows
  <2>3. streams[x].inc \in DOMAIN log' /\ log'[streams[x].inc] = log[streams[x].inc]
    BY <2>1, <2>2, Zenon DEF Grows
  <2> QED BY <1>1, <1>6, <2>1, <2>3, Zenon
<1>7. ASSUME NEW x \in DOMAIN streams'
      PROVE  /\ streams'[x] \in Streams /\ streams'[x].inc \in DOMAIN log'
             /\ log'[streams'[x].inc].id = x /\ NewestRun(streams'[x], log')
  <2>1. CASE x = id
    BY <1>1, <1>2, <1>3, <2>1, Zenon
  <2>2. CASE x # id
    <3>1. x \in DOMAIN table
      BY <1>1, <2>2, Zenon
    <3>2. NewestRun(streams[x], log)
      BY <3>1, Zenon DEF HistoryOK
    <3>3. NewestRun(streams[x], log')
      BY <1>6, <2>2, <3>1, <3>2, Zenon DEF NewestRun, BytesIn
    <3> QED BY <1>6, <2>2, <3>1, <3>3, Zenon
  <2> QED BY <2>1, <2>2, Zenon
<1>8. HistoryOK'
  BY <1>7, Zenon DEF HistoryOK
<1> QED
  BY <1>1, <1>3, <1>5, <1>7, <1>8, Zenon

-----------------------------------------------------------------------------
(* Mailboxes: what a queue costs when the log grows, a response is pushed or   *)
(* the first one is taken.                                                     *)

LEMMA EventFields ==
    ASSUME NEW i \in Nat, NEW n \in Nat
    PROVE  /\ Event(i, n) \in Responses
           /\ Event(i, n).tag = "event" /\ Event(i, n).inc = i /\ Event(i, n).seq = n
BY DEF Event, Responses

LEMMA MarkerFields ==
    ASSUME NEW tag \in {"begin", "snapshot", "end"}, NEW i \in Nat
    PROVE  /\ Marker(tag, i) \in Responses
           /\ Marker(tag, i).tag = tag /\ Marker(tag, i).inc = i /\ Marker(tag, i).seq = 0
BY DEF Marker, Responses

LEMMA CostsSeq ==
    ASSUME NEW lg, LogIs(lg), NEW q \in Seq(Responses), Known(lg, q)
    PROVE  /\ Costs(lg, q) \in Seq(Nat) /\ Len(Costs(lg, q)) = Len(q)
           /\ \A k \in 1..Len(q) : /\ Costs(lg, q)[k] = CostIn(lg, q[k])
                                   /\ CostIn(lg, q[k]) \in Nat
<1>1. Len(q) \in Nat /\ DOMAIN q = 1..Len(q)
  OBVIOUS
<1>2. ASSUME NEW k \in 1..Len(q) PROVE CostIn(lg, q[k]) \in Nat
  <2>1. CASE q[k].tag = "event"
    <3>1. lg[q[k].inc].kinds[q[k].seq] \in Kinds
      BY <1>1, <2>1, LogTypes, Zenon DEF Known
    <3>2. Charge[lg[q[k].inc].kinds[q[k].seq]] \in Nat
      BY <3>1, RegistryAssumption, Zenon
    <3> QED BY <2>1, <3>2, Zenon DEF CostIn
  <2>2. CASE q[k].tag # "event"
    BY <2>2 DEF CostIn
  <2> QED BY <2>1, <2>2, Zenon
<1> DEFINE u == Costs(lg, q)
<1>3. DOMAIN u = 1..Len(q) /\ \A k \in 1..Len(q) : u[k] = CostIn(lg, q[k])
  BY <1>1, Zenon DEF Costs
<1>4. u = [k \in 1..Len(q) |-> u[k]]
  BY <1>1 DEF Costs
<1> HIDE DEF u
<1>5. u \in Seq(Nat) /\ Len(u) = Len(q)
  <2>1. \A k \in 1..Len(q) : u[k] \in Nat
    BY <1>2, <1>3, Zenon
  <2> QED BY <1>1, <1>4, <2>1
<1> QED
  BY <1>2, <1>3, <1>5, Zenon DEF u

LEMMA CostsKeep ==
    ASSUME LogOK, Keeps, NEW q, Known(log, q)
    PROVE  Known(log', q) /\ Costs(log', q) = Costs(log, q)
<1>1. ASSUME NEW k \in DOMAIN q, q[k].tag = "event"
      PROVE  /\ q[k].inc \in DOMAIN log' /\ q[k].seq \in 1..Len(log'[q[k].inc].kinds)
             /\ log'[q[k].inc].kinds[q[k].seq] = log[q[k].inc].kinds[q[k].seq]
  <2> DEFINE i == q[k].inc
             n == q[k].seq
  <2>1. i \in DOMAIN log /\ n \in 1..Len(log[i].kinds)
    BY <1>1, Zenon DEF Known
  <2> HIDE DEF i, n
  <2>2. /\ i \in DOMAIN log' /\ Len(log[i].kinds) <= Len(log'[i].kinds)
        /\ log'[i].kinds[n] = log[i].kinds[n]
    BY <2>1, Zenon DEF Keeps
  <2>3. Len(log[i].kinds) \in Nat
    BY <2>1, LogTypes, Zenon DEF LogOK
  <2>4. n \in 1..Len(log'[i].kinds)
    BY <2>1, <2>2, <2>3
  <2> QED BY <2>2, <2>4, Zenon DEF i, n
<1>2. Known(log', q)
  BY <1>1, Zenon DEF Known
<1>3. \A k \in DOMAIN q : CostIn(log', q[k]) = CostIn(log, q[k])
  BY <1>1, Zenon DEF CostIn
<1> QED
  BY <1>2, <1>3, Zenon DEF Costs

LEMMA EmptyBoxes ==
    ASSUME NEW lg
    PROVE  /\ EmptyBox \in Boxes /\ BoxIs(EmptyBox, lg)
           /\ Stopped \in Boxes /\ BoxIs(Stopped, lg)
           /\ Stopped.pending = << >> /\ Stopped.stopped /\ ~EmptyBox.stopped
           /\ EmptyBox.pending = << >>
<1>1. << >> \in Seq(Responses) /\ DOMAIN << >> = {}
  OBVIOUS
<1>2. /\ EmptyBox.pending = << >> /\ EmptyBox.bytes = 0 /\ EmptyBox \in Boxes
      /\ Stopped.pending = << >> /\ Stopped.bytes = 0 /\ Stopped \in Boxes
      /\ Stopped.stopped /\ ~EmptyBox.stopped
  BY <1>1, Zenon DEF EmptyBox, Stopped, Boxes
<1>3. Costs(lg, << >>) = << >> /\ Known(lg, << >>)
  BY <1>1 DEF Costs, Known
<1>4. 0 <= SubscriberBytes
  BY RegistryAssumption
<1> QED
  BY <1>2, <1>3, <1>4, TotalEmpty, Zenon DEF BoxIs

LEMMA Fits ==
    ASSUME NEW limit \in Nat, NEW used \in Nat, NEW size \in Nat,
           ~(size > limit \/ used > limit - size)
    PROVE  used + size \in Nat /\ used + size <= limit
OBVIOUS

LEMMA PushKeeps ==
    ASSUME LogOK, LogOK', Keeps, NEW b \in Boxes, BoxIs(b, log),
           NEW x \in Responses, x.tag = "event", x.inc \in DOMAIN log',
           x.seq \in 1..Len(log'[x.inc].kinds),
           NEW size, size = CostIn(log', x)
    PROVE  Push(b, x, size) \in Boxes /\ BoxIs(Push(b, x, size), log')
<1> DEFINE q == b.pending
           p == Append(q, x)
<1>1. q \in Seq(Responses) /\ b.bytes \in Nat
  BY Zenon DEF Boxes
<1>2. /\ Known(log', q) /\ Costs(log', q) = Costs(log, q)
      /\ b.bytes = Total(Costs(log', q)) /\ b.bytes <= SubscriberBytes
  BY CostsKeep, Zenon DEF BoxIs
<1> HIDE DEF q
<1>3. /\ p \in Seq(Responses) /\ Len(p) = Len(q) + 1 /\ p[Len(q) + 1] = x
      /\ Len(q) \in Nat /\ \A k \in 1..Len(q) : p[k] = q[k]
  BY <1>1
<1> HIDE DEF p
<1>4. DOMAIN p = 1..(Len(q) + 1) /\ DOMAIN q = 1..Len(q)
  BY <1>1, <1>3
<1>5. \A k \in DOMAIN p : k \in DOMAIN q \/ k = Len(q) + 1
  BY <1>3, <1>4
<1>6. Known(log', p)
  BY <1>2, <1>3, <1>4, <1>5, Zenon DEF Known
<1>7. /\ Costs(log', p) \in Seq(Nat) /\ Len(Costs(log', p)) = Len(q) + 1
      /\ \A k \in 1..(Len(q) + 1) : Costs(log', p)[k] = CostIn(log', p[k])
      /\ CostIn(log', p[Len(q) + 1]) \in Nat
  <2>1. LogIs(log')
    BY Zenon DEF LogOK
  <2>2. Len(q) + 1 \in 1..(Len(q) + 1)
    BY <1>3
  <2> QED BY <1>3, <1>6, <2>1, <2>2, CostsSeq, Zenon
<1>8. /\ Costs(log', q) \in Seq(Nat) /\ Len(Costs(log', q)) = Len(q)
      /\ \A k \in 1..Len(q) : Costs(log', q)[k] = CostIn(log', q[k])
  <2>1. LogIs(log')
    BY Zenon DEF LogOK
  <2> QED BY <1>1, <1>2, <2>1, CostsSeq, Zenon
<1>9. size \in Nat
  BY <1>3, <1>7, Zenon
<1>10. Costs(log', p) = Append(Costs(log', q), size)
  <2> DEFINE u == Costs(log', p)
             v == Costs(log', q)
             w == Append(v, size)
  <2>1. /\ w \in Seq(Nat) /\ Len(w) = Len(q) + 1 /\ w[Len(q) + 1] = size
        /\ \A k \in 1..Len(q) : w[k] = v[k]
    <3> HIDE DEF v
    <3> QED BY <1>8, <1>9, <1>3 DEF v
  <2>2. \A k \in 1..(Len(q) + 1) : u[k] = w[k]
    <3> HIDE DEF w
    <3> QED BY <1>3, <1>4, <1>5, <1>7, <1>8, <2>1, Zenon
  <2>3. u \in Seq(Nat) /\ w \in Seq(Nat) /\ Len(u) = Len(w) /\ \A k \in 1..Len(u) : u[k] = w[k]
    BY <1>7, <2>1, <2>2, Zenon
  <2> HIDE DEF u, w
  <2>4. u = w
    BY <2>3, SeqEqual, Zenon
  <2> QED BY <2>4, Zenon DEF u, w
<1>11. Total(Costs(log', p)) = b.bytes + size
  BY <1>2, <1>8, <1>9, <1>10, TotalAppend, Zenon
<1>12. CASE b.stopped
  BY <1>2, <1>12, Zenon DEF Push, BoxIs, q
<1>13. CASE ~b.stopped /\ (size > SubscriberBytes \/ b.bytes > SubscriberBytes - size)
  BY <1>13, EmptyBoxes, Zenon DEF Push
<1>14. CASE ~b.stopped /\ ~(size > SubscriberBytes \/ b.bytes > SubscriberBytes - size)
  <2> DEFINE t == Push(b, x, size)
  <2>1. t = [b EXCEPT !.pending = p, !.bytes = b.bytes + size]
    BY <1>14, Zenon DEF Push, p, q
  <2>2. b.bytes + size \in Nat /\ b.bytes + size <= SubscriberBytes
    BY <1>1, <1>9, <1>14, RegistryAssumption, Fits, Zenon
  <2> HIDE DEF t
  <2>3. t.pending = p /\ t.bytes = b.bytes + size /\ t \in Boxes
    BY <1>3, <2>1, <2>2, Zenon DEF Boxes
  <2> QED BY <1>6, <1>11, <2>2, <2>3, Zenon DEF BoxIs, t
<1> QED
  BY <1>12, <1>13, <1>14, Zenon

LEMMA TakeKeeps ==
    ASSUME LogOK, NEW b \in Boxes, BoxIs(b, log), b.pending # << >>,
           NEW d, d = [b EXCEPT !.pending = Tail(b.pending),
                                !.bytes = b.bytes - Cost(Head(b.pending))]
    PROVE  d \in Boxes /\ BoxIs(d, log)
<1> DEFINE q == b.pending
           t == Tail(q)
           u == Costs(log, q)
           v == Costs(log, t)
<1>1. q \in Seq(Responses) /\ b.bytes \in Nat
  BY Zenon DEF Boxes
<1>2. Known(log, q) /\ b.bytes = Total(u) /\ b.bytes <= SubscriberBytes
  BY Zenon DEF BoxIs
<1>3. q # << >> /\ d = [b EXCEPT !.pending = t, !.bytes = b.bytes - Cost(Head(q))]
  BY Zenon
<1> HIDE DEF q, u
<1>4. /\ Len(q) \in Nat \ {0} /\ DOMAIN q = 1..Len(q) /\ Head(q) = q[1]
      /\ t \in Seq(Responses) /\ Len(t) = Len(q) - 1 /\ DOMAIN t = 1..(Len(q) - 1)
      /\ \A k \in 1..(Len(q) - 1) : t[k] = q[k + 1]
  BY <1>1, <1>3
<1> HIDE DEF t, v
<1>5. \A k \in 1..(Len(q) - 1) : k + 1 \in 1..Len(q)
  BY <1>4
<1>6. Known(log, t)
  <2>1. \A k \in DOMAIN t : k + 1 \in DOMAIN q /\ t[k] = q[k + 1]
    BY <1>4, <1>5, Zenon
  <2> QED BY <1>2, <2>1, Zenon DEF Known
<1>7. /\ u \in Seq(Nat) /\ Len(u) = Len(q)
      /\ \A k \in 1..Len(q) : u[k] = CostIn(log, q[k])
  BY <1>1, <1>2, CostsSeq, Zenon DEF LogOK, u
<1>8. /\ v \in Seq(Nat) /\ Len(v) = Len(q) - 1
      /\ \A k \in 1..(Len(q) - 1) : v[k] = CostIn(log, t[k])
  <2>1. v \in Seq(Nat) /\ Len(v) = Len(t) /\ \A k \in 1..Len(t) : v[k] = CostIn(log, t[k])
    BY <1>4, <1>6, CostsSeq, Zenon DEF LogOK, v
  <2> QED BY <1>4, <2>1, Zenon
<1>9. /\ u # << >> /\ Head(u) = u[1] /\ Tail(u) \in Seq(Nat) /\ Len(Tail(u)) = Len(q) - 1
      /\ \A k \in 1..(Len(q) - 1) : Tail(u)[k] = u[k + 1]
  BY <1>4, <1>7
<1>10. Tail(u) = v
  <2>1. \A k \in 1..(Len(q) - 1) : Tail(u)[k] = v[k]
    BY <1>4, <1>5, <1>7, <1>8, <1>9, Zenon
  <2> DEFINE w == Tail(u)
  <2>2. w \in Seq(Nat) /\ Len(w) = Len(v) /\ \A k \in 1..Len(w) : w[k] = v[k]
    BY <1>8, <1>9, <2>1, Zenon
  <2> HIDE DEF w
  <2>3. w = v
    BY <1>8, <2>2, SeqEqual, Zenon
  <2> QED BY <2>3, Zenon DEF w
<1>11. u[1] = Cost(Head(q)) /\ u[1] \in Nat
  <2>1. 1 \in 1..Len(q)
    BY <1>4
  <2>2. u[1] = CostIn(log, q[1])
    BY <1>7, <2>1, Zenon
  <2>3. u[1] \in Nat
    BY <1>7, <2>1
  <2> QED BY <1>4, <2>2, <2>3, Zenon DEF Cost, CostIn, Kind
<1>12. Total(u) = u[1] + Total(v) /\ Total(v) \in Nat
  BY <1>7, <1>8, <1>9, <1>10, TotalTail, TotalNat, Zenon
<1>13. b.bytes - Cost(Head(q)) = Total(v) /\ Total(v) <= SubscriberBytes
  BY <1>1, <1>2, <1>11, <1>12, RegistryAssumption
<1>14. d.pending = t /\ d.bytes = Total(v) /\ d \in Boxes
  <2>1. d = [b EXCEPT !.pending = t, !.bytes = Total(v)]
    BY <1>3, <1>13, Zenon
  <2> QED BY <1>4, <1>12, <2>1, Zenon DEF Boxes
<1> QED
  BY <1>6, <1>13, <1>14, Zenon DEF BoxIs, v

-----------------------------------------------------------------------------
(* What is queued is what is owed.                                             *)

(* The queue that MailboxIsTheRest is about: q, and before it what is written. *)
Ahead(x, q) == IF x = Nothing THEN q ELSE <<x>> \o q

LEMMA NothingIsNone ==
    Nothing \notin Responses /\ Nothing.tag = "none" /\ Nothing.inc = 0 /\ Nothing.seq = 0
BY DEF Nothing, Marker, Responses

LEMMA AheadSeq ==
    ASSUME NEW x \in Responses \cup {Nothing}, NEW q \in Seq(Responses), NEW lg,
           Known(lg, q), Known(lg, <<x>>)
    PROVE  /\ Ahead(x, q) \in Seq(Responses) /\ Known(lg, Ahead(x, q))
           /\ \A y \in Responses : Ahead(x, Append(q, y)) = Append(Ahead(x, q), y)
<1>1. CASE x = Nothing
  BY <1>1, Zenon DEF Ahead
<1>2. CASE x # Nothing
  <2> DEFINE p == <<x>> \o q
  <2>1. x \in Responses /\ \A r \in Seq(Responses) : Ahead(x, r) = <<x>> \o r
    BY <1>2, Zenon DEF Ahead
  <2>2. /\ p \in Seq(Responses) /\ Len(p) = Len(q) + 1 /\ Len(q) \in Nat
        /\ DOMAIN q = 1..Len(q) /\ DOMAIN p = 1..(Len(q) + 1)
        /\ p[1] = x /\ \A k \in 1..Len(q) : p[k + 1] = q[k]
    BY <2>1
  <2>3. \A k \in DOMAIN p : k = 1 \/ (k - 1 \in DOMAIN q /\ p[k] = q[k - 1])
    BY <2>2
  <2>4. Known(lg, p)
    <3>1. x.tag = "event" => x.inc \in DOMAIN lg /\ x.seq \in 1..Len(lg[x.inc].kinds)
      <4>1. 1 \in DOMAIN <<x>> /\ <<x>>[1] = x
        OBVIOUS
      <4> QED BY <4>1, Zenon DEF Known
    <3>2. \A k \in DOMAIN p : p[k] = x \/ \E j \in DOMAIN q : p[k] = q[j]
      BY <2>2, <2>3, Zenon
    <3> HIDE DEF p
    <3> QED BY <3>1, <3>2, Zenon DEF Known
  <2>5. ASSUME NEW y \in Responses PROVE <<x>> \o Append(q, y) = Append(p, y)
    BY <2>1, <2>5
  <2>6. ASSUME NEW y \in Responses PROVE Ahead(x, Append(q, y)) = Append(p, y)
    <3>1. Append(q, y) \in Seq(Responses)
      BY <2>6
    <3> QED BY <2>1, <2>5, <2>6, <3>1, Zenon
  <2> QED BY <2>1, <2>2, <2>4, <2>6, Zenon
<1> QED
  BY <1>1, <1>2, Zenon

LEMMA AheadTail ==
    ASSUME NEW x \in Responses, NEW q \in Seq(Responses)
    PROVE  /\ Ahead(x, q) # << >> /\ Ahead(x, q)[1] = x /\ Tail(Ahead(x, q)) = q
<1>1. Ahead(x, q) = <<x>> \o q
  BY NothingIsNone, Zenon DEF Ahead
<1> DEFINE p == <<x>> \o q
<1>2. /\ p \in Seq(Responses) /\ Len(p) = Len(q) + 1 /\ p[1] = x
      /\ p # << >> /\ Tail(p) \in Seq(Responses) /\ Len(Tail(p)) = Len(q)
      /\ \A k \in 1..Len(q) : Tail(p)[k] = q[k]
  OBVIOUS
<1> DEFINE t == Tail(p)
<1>3. t \in Seq(Responses) /\ Len(t) = Len(q) /\ \A k \in 1..Len(t) : t[k] = q[k]
  BY <1>2, Zenon
<1> HIDE DEF t
<1>4. t = q
  BY <1>3, SeqEqual, Zenon
<1> QED
  BY <1>1, <1>2, <1>4, Zenon DEF t

(* Each client's part of BoxesOK and SendingOK.                                *)
LEMMA OutgoingSeq ==
    ASSUME BoxesOK, SendingOK, NEW c \in Clients
    PROVE  /\ Outgoing(c) = Ahead(sending[c], box[c].pending)
           /\ box[c].pending \in Seq(Responses) /\ Known(log, box[c].pending)
           /\ sending[c] \in Responses \cup {Nothing} /\ Known(log, <<sending[c]>>)
           /\ Outgoing(c) \in Seq(Responses) /\ Known(log, Outgoing(c))
<1>1. /\ box[c].pending \in Seq(Responses) /\ Known(log, box[c].pending)
  BY Zenon DEF BoxesOK, BoxIs, Boxes
<1>2. sending[c] \in Responses \cup {Nothing} /\ Known(log, <<sending[c]>>)
  BY Zenon DEF SendingOK
<1>3. Outgoing(c) = Ahead(sending[c], box[c].pending)
  BY Zenon DEF Outgoing, Ahead
<1> QED
  BY <1>1, <1>2, <1>3, AheadSeq, Zenon

LEMMA RestFrame ==
    ASSUME NEW q, NEW i, NEW base, NEW c, NEW lg, NEW lf, lf[i] = lg[i],
           RestIs(q, i, lg, base, c)
    PROVE  RestIs(q, i, lf, base, c)
BY Zenon DEF RestIs

LEMMA RestTail ==
    ASSUME NEW lg, LogIs(lg), NEW q \in Seq(Responses), q # << >>, NEW c,
           NEW i \in DOMAIN lg, NEW base \in Nat, RestIs(q, i, lg, base, c)
    PROVE  RestIs(Tail(q), i, lg, IF Queued(q, 1, i) THEN q[1].seq ELSE base, c)
<1> DEFINE t == Tail(q)
           N == Len(q)
           M == Len(lg[i].kinds)
           top == IF Queued(q, 1, i) THEN q[1].seq ELSE base
<1>1. /\ N \in Nat \ {0} /\ DOMAIN q = 1..N /\ DOMAIN t = 1..(N - 1)
      /\ \A k \in 1..(N - 1) : t[k] = q[k + 1]
  OBVIOUS
<1>2. /\ M \in Nat /\ 1 \in DOMAIN q
      /\ \A k \in 1..(N - 1) : k + 1 \in DOMAIN q /\ 1 < k + 1
  BY <1>1, LogTypes
<1>3. \A k \in DOMAIN q : q[k].seq \in Nat
  <2>1. \A k \in DOMAIN q : q[k] \in Responses
    OBVIOUS
  <2> QED BY <2>1 DEF Responses
<1> HIDE DEF t, N, M
<1>4. \A k \in DOMAIN t : Queued(t, k, i) <=> Queued(q, k + 1, i)
  BY <1>1, Zenon DEF Queued
<1>5. ASSUME NEW k \in DOMAIN t, Queued(t, k, i)
      PROVE  /\ t[k].seq \in 1..M /\ t[k].seq > top
             /\ AcceptsKind(c, lg[i].kinds[t[k].seq])
  <2>1. k + 1 \in DOMAIN q /\ 1 < k + 1 /\ t[k] = q[k + 1] /\ Queued(q, k + 1, i)
    BY <1>1, <1>2, <1>4, <1>5, Zenon
  <2>2. /\ q[k + 1].seq \in 1..M /\ q[k + 1].seq > base
        /\ AcceptsKind(c, lg[i].kinds[q[k + 1].seq])
    BY <2>1, Zenon DEF RestIs, M
  <2>3. Queued(q, 1, i) => q[1].seq < q[k + 1].seq
    BY <1>2, <2>1, Zenon DEF RestIs
  <2>4. q[1].seq \in Nat /\ q[k + 1].seq \in Nat
    BY <1>2, <1>3, <2>1, Zenon
  <2>5. q[k + 1].seq > top
    BY <2>2, <2>3, <2>4
  <2> QED BY <2>1, <2>2, <2>5, Zenon
<1>6. ASSUME NEW n \in 1..M, n > top, AcceptsKind(c, lg[i].kinds[n])
      PROVE  \E k \in DOMAIN t : Queued(t, k, i) /\ t[k].seq = n
  <2>1. Queued(q, 1, i) => q[1].seq > base /\ q[1].seq \in Nat
    BY <1>2, <1>3, Zenon DEF RestIs
  <2>2. n > base /\ ~ (Queued(q, 1, i) /\ q[1].seq = n)
    BY <1>2, <1>6, <2>1
  <2>3. PICK h \in DOMAIN q : Queued(q, h, i) /\ q[h].seq = n
    BY <1>6, <2>2, Zenon DEF RestIs, M
  <2>4. h # 1
    BY <2>2, <2>3, Zenon
  <2>5. h - 1 \in DOMAIN t /\ (h - 1) + 1 = h
    BY <1>1, <2>4
  <2> QED BY <1>1, <1>4, <2>3, <2>5, Zenon
<1>7. ASSUME NEW j \in DOMAIN t, NEW k \in DOMAIN t,
             Queued(t, j, i), Queued(t, k, i), j < k
      PROVE  t[j].seq < t[k].seq
  <2>1. /\ j + 1 \in DOMAIN q /\ t[j] = q[j + 1] /\ Queued(q, j + 1, i)
        /\ k + 1 \in DOMAIN q /\ t[k] = q[k + 1] /\ Queued(q, k + 1, i)
    BY <1>1, <1>2, <1>4, <1>7, Zenon
  <2>2. j + 1 < k + 1
    BY <1>1, <1>7
  <2> QED BY <2>1, <2>2, Zenon DEF RestIs
<1> QED
  BY <1>5, <1>6, <1>7, Zenon DEF RestIs, t, M

LEMMA RestPush ==
    ASSUME LogOK, LogIs(log'), NEW id \in Ids, NEW i \in Nat \ {0}, NEW n \in Nat,
           NEW kind \in Kinds, Grows(id, i, n, kind),
           NEW q \in Seq(Responses), Known(log, q), NEW c, NEW j \in DOMAIN log',
           NEW base \in Nat,
           j \in DOMAIN log => base <= Len(log[j].kinds) /\ RestIs(q, j, log, base, c),
           j \notin DOMAIN log => base = 0
    PROVE  /\ AcceptsKind(c, kind) => RestIs(Append(q, Event(i, n)), j, log', base, c)
           /\ ~AcceptsKind(c, kind) \/ j # i => RestIs(q, j, log', base, c)
<1> DEFINE x == Event(i, n)
           p == Append(q, x)
           N == Len(q)
           ks == log'[i].kinds
<1>1. /\ N \in Nat /\ DOMAIN q = 1..N /\ DOMAIN p = 1..(N + 1)
      /\ p[N + 1] = x /\ \A k \in 1..N : p[k] = q[k]
  OBVIOUS
<1>2. \A k \in DOMAIN q : q[k].seq \in Nat
  <2>1. \A k \in DOMAIN q : q[k] \in Responses
    OBVIOUS
  <2> QED BY <2>1 DEF Responses
<1>3. x.tag = "event" /\ x.inc = i /\ x.seq = n
  BY Zenon DEF Event
<1>4. /\ \A k \in 1..N : k \in 1..(N + 1) /\ k < N + 1
      /\ N + 1 \in 1..(N + 1) /\ \A k \in 1..(N + 1) : k \in 1..N \/ k = N + 1
  BY <1>1
<1>5. \A k \in 1..N : Queued(p, k, j) <=> Queued(q, k, j)
  BY <1>1, Zenon DEF Queued
<1>6. Queued(p, N + 1, j) <=> j = i
  BY <1>1, <1>3, Zenon DEF Queued
<1>7. ASSUME j # i
      PROVE  RestIs(q, j, log', base, c) /\ RestIs(p, j, log', base, c)
  <2>1. j \in DOMAIN log /\ log'[j] = log[j]
    BY <1>7, Zenon DEF Grows
  <2>2. RestIs(q, j, log', base, c)
    BY <2>1, RestFrame, Zenon
  <2> HIDE DEF x, p, N
  <2>3. \A k \in DOMAIN p : Queued(p, k, j) => k \in DOMAIN q /\ Queued(q, k, j) /\ p[k] = q[k]
    BY <1>1, <1>4, <1>5, <1>6, <1>7, Zenon
  <2>4. \A k \in DOMAIN q : Queued(q, k, j) => k \in DOMAIN p /\ Queued(p, k, j) /\ p[k] = q[k]
    BY <1>1, <1>4, <1>5, Zenon
  <2>5. RestIs(p, j, log', base, c)
    BY <2>2, <2>3, <2>4, Zenon DEF RestIs
  <2> QED BY <2>2, <2>5, Zenon
<1>8. ASSUME j = i
      PROVE  /\ AcceptsKind(c, kind) => RestIs(p, j, log', base, c)
             /\ ~AcceptsKind(c, kind) => RestIs(q, j, log', base, c)
  <2>1. /\ Len(log'[j].kinds) = n /\ log'[j].kinds[n] = kind /\ n # 0
        /\ \A m \in 1..(n - 1) : log'[j].kinds[m] = log[j].kinds[m]
    <3>1. Len(log'[j].kinds) # 0
      BY LogTypes
    <3> QED BY <1>8, <3>1, Zenon DEF Grows
  <2>2. /\ base <= n - 1
        /\ \A k \in DOMAIN q : Queued(q, k, j) =>
              /\ q[k].seq \in 1..(n - 1) /\ q[k].seq > base
              /\ AcceptsKind(c, log'[j].kinds[q[k].seq])
        /\ \A m \in 1..(n - 1) : m > base /\ AcceptsKind(c, log'[j].kinds[m]) =>
              \E k \in DOMAIN q : Queued(q, k, j) /\ q[k].seq = m
        /\ \A h, k \in DOMAIN q :
              Queued(q, h, j) /\ Queued(q, k, j) /\ h < k => q[h].seq < q[k].seq
    <3>1. CASE j \in DOMAIN log
      <4>1. j # Len(log) + 1 /\ Len(log[j].kinds) \in Nat
        BY <3>1, LogTypes DEF LogOK
      <4>2. n = Len(log[j].kinds) + 1
        BY <1>8, <4>1, Zenon DEF Grows
      <4>3. n - 1 = Len(log[j].kinds)
        BY <4>1, <4>2
      <4>4. RestIs(q, j, log, base, c) /\ base <= n - 1
        BY <3>1, <4>3, Zenon
      <4> QED BY <2>1, <4>3, <4>4, Zenon DEF RestIs
    <3>2. CASE j \notin DOMAIN log
      <4>1. n = 1 /\ base = 0
        BY <1>8, <3>2, Zenon DEF Grows
      <4>2. \A k \in DOMAIN q : ~Queued(q, k, j)
        BY <3>2, Zenon DEF Known, Queued
      <4>3. 1..(n - 1) = {} /\ base <= n - 1
        BY <4>1
      <4> QED BY <4>2, <4>3, Zenon
    <3> QED BY <3>1, <3>2, Zenon
  <2>3. /\ \A m \in 1..(n - 1) : m \in 1..n /\ m < n
        /\ n \in 1..n /\ n > base /\ \A m \in 1..n : m \in 1..(n - 1) \/ m = n
    BY <2>1, <2>2
  <2>4. ASSUME ~AcceptsKind(c, kind) PROVE RestIs(q, j, log', base, c)
    BY <2>1, <2>2, <2>3, <2>4, Zenon DEF RestIs
  <2>5. ASSUME AcceptsKind(c, kind) PROVE RestIs(p, j, log', base, c)
    <3> HIDE DEF x, p, N
    <3>1. ASSUME NEW k \in DOMAIN p, Queued(p, k, j)
          PROVE  /\ p[k].seq \in 1..n /\ p[k].seq > base
                 /\ AcceptsKind(c, log'[j].kinds[p[k].seq])
      <4>1. CASE k \in 1..N
        BY <1>1, <1>5, <2>2, <2>3, <3>1, <4>1, Zenon
      <4>2. CASE k = N + 1
        BY <1>1, <1>3, <2>1, <2>3, <2>5, <4>2, Zenon
      <4> QED BY <1>1, <1>4, <4>1, <4>2, Zenon
    <3>2. ASSUME NEW m \in 1..n, m > base, AcceptsKind(c, log'[j].kinds[m])
          PROVE  \E k \in DOMAIN p : Queued(p, k, j) /\ p[k].seq = m
      <4>1. CASE m = n
        BY <1>1, <1>3, <1>4, <1>6, <1>8, <4>1, Zenon
      <4>2. CASE m \in 1..(n - 1)
        <5>1. PICK k \in DOMAIN q : Queued(q, k, j) /\ q[k].seq = m
          BY <2>2, <3>2, <4>2, Zenon
        <5> QED BY <1>1, <1>4, <1>5, <5>1, Zenon
      <4> QED BY <2>3, <4>1, <4>2, Zenon
    <3>3. ASSUME NEW h \in DOMAIN p, NEW k \in DOMAIN p,
                 Queued(p, h, j), Queued(p, k, j), h < k
          PROVE  p[h].seq < p[k].seq
      <4>1. h \in 1..N
        BY <1>1, <3>3
      <4>2. p[h] = q[h] /\ Queued(q, h, j) /\ h \in DOMAIN q
        BY <1>1, <1>5, <3>3, <4>1, Zenon
      <4>3. CASE k \in 1..N
        <5>1. p[k] = q[k] /\ Queued(q, k, j) /\ k \in DOMAIN q
          BY <1>1, <1>5, <3>3, <4>3, Zenon
        <5> QED BY <2>2, <3>3, <4>2, <5>1, Zenon
      <4>4. CASE k = N + 1
        <5>1. q[h].seq \in 1..(n - 1)
          BY <2>2, <4>2, Zenon
        <5> QED BY <1>1, <1>3, <2>3, <4>2, <4>4, <5>1, Zenon
      <4> QED BY <1>1, <1>4, <4>3, <4>4, Zenon
    <3> QED BY <2>1, <3>1, <3>2, <3>3, Zenon DEF RestIs
  <2> QED BY <2>4, <2>5, Zenon
<1> QED
  BY <1>7, <1>8, Zenon

LEMMA PublishBoxes ==
    ASSUME LogOK, LogOK', Keeps, BoxesOK, SeenOK, SendingOK, RestOK,
           NEW id \in Ids, NEW s, s.inc \in Nat \ {0}, NEW table, NEW kind \in Kinds,
           NEW n \in Nat, Grows(id, s.inc, n, kind), Posts(id, s, table, kind, n),
           running' = running, sending' = sending, seen' = seen
    PROVE  BoxesOK' /\ SeenOK' /\ SendingOK' /\ RestOK'
<1> DEFINE i == s.inc
           x == Event(i, n)
           size == Charge[kind]
           To(c) == c \in running /\ AcceptsId(c, id) /\ AcceptsKind(c, kind)
<1>1. i \in Nat \ {0} /\ Grows(id, i, n, kind) /\ LogIs(log) /\ LogIs(log')
  BY Zenon DEF LogOK
<1>2. box' = [c \in Clients |-> IF To(c) THEN Push(box[c], x, size) ELSE box[c]]
  BY Zenon DEF Posts
<1> HIDE DEF i
<1>3. i \in DOMAIN log' /\ log'[i].id = id /\ Len(log'[i].kinds) = n /\ log'[i].kinds[n] = kind
  BY <1>1, Zenon DEF Grows
<1>4. n \in 1..n
  <2>1. n \in Nat \ {0}
    BY <1>1, <1>3, LogTypes, Zenon
  <2> QED BY <2>1
<1>5. /\ x.tag = "event" /\ x.inc \in DOMAIN log' /\ x.seq \in 1..Len(log'[x.inc].kinds)
      /\ x \in Responses /\ size = CostIn(log', x)
  <2>1. i \in Nat
    BY <1>1
  <2>2. x \in Responses /\ x.tag = "event" /\ x.inc = i /\ x.seq = n
    BY <2>1, EventFields, Zenon
  <2> QED BY <1>3, <1>4, <2>2, Zenon DEF CostIn
<1>6. \A c \in Clients : box[c] \in Boxes /\ BoxIs(box[c], log)
  BY Zenon DEF BoxesOK
<1> HIDE DEF x, size
<1>7. ASSUME NEW c \in Clients
      PROVE  box'[c] \in Boxes /\ BoxIs(box'[c], log')
  <2>1. CASE To(c)
    <3>1. box'[c] = Push(box[c], x, size)
      BY <1>2, <2>1, Zenon
    <3> QED BY <1>5, <1>6, <3>1, PushKeeps, Zenon
  <2>2. CASE ~To(c)
    <3>1. box'[c] = box[c]
      BY <1>2, <2>2, Zenon
    <3>2. /\ Known(log', box[c].pending)
          /\ Costs(log', box[c].pending) = Costs(log, box[c].pending)
      BY <1>6, CostsKeep, Zenon DEF BoxIs
    <3> QED BY <1>6, <3>1, <3>2, Zenon DEF BoxIs
  <2> QED BY <2>1, <2>2, Zenon
<1>8. BoxesOK'
  <2>1. box' \in [Clients -> Boxes]
    BY <1>2, <1>7
  <2> QED BY <1>7, <2>1, Zenon DEF BoxesOK
<1>9. SeenOK'
  <2>1. ASSUME NEW c \in Clients, NEW j \in Incarnations
        PROVE  IF j \in DOMAIN log' THEN seen[c][j] <= Len(log'[j].kinds) ELSE seen[c][j] = 0
    <3>1. seen[c][j] \in Nat /\ (j \in DOMAIN log' => Len(log'[j].kinds) \in Nat)
      BY <1>1, LogTypes DEF SeenOK
    <3>2. CASE j \in DOMAIN log
      <4>1. /\ seen[c][j] <= Len(log[j].kinds) /\ Len(log[j].kinds) <= Len(log'[j].kinds)
            /\ j \in DOMAIN log' /\ Len(log[j].kinds) \in Nat
        BY <1>1, <3>2, LogTypes, Zenon DEF SeenOK, Keeps
      <4> QED BY <3>1, <4>1
    <3>3. CASE j \notin DOMAIN log
      <4>1. seen[c][j] = 0
        BY <3>3, Zenon DEF SeenOK
      <4> QED BY <3>1, <4>1
    <3> QED BY <3>2, <3>3, Zenon
  <2> QED BY <2>1, Zenon DEF SeenOK
<1>a. SendingOK'
  <2>1. \A c \in Clients : Known(log', <<sending[c]>>)
    BY CostsKeep, Zenon DEF SendingOK
  <2> QED BY <2>1, Zenon DEF SendingOK
<1>10. ASSUME NEW c \in running, ~box'[c].stopped, NEW j \in DOMAIN log',
              AcceptsId(c, log'[j].id)
       PROVE  RestIs(Ahead(sending[c], box'[c].pending), j, log', seen[c][j], c)
  <2> DEFINE q == Outgoing(c)
             base == seen[c][j]
  <2>1. c \in Clients /\ j \in Incarnations
    BY <1>1, LogTypes, Zenon DEF BoxesOK
  <2>2. /\ q \in Seq(Responses) /\ Known(log, q) /\ base \in Nat
        /\ box[c].stopped \in BOOLEAN
    <3>1. q \in Seq(Responses) /\ Known(log, q)
      BY <2>1, OutgoingSeq, Zenon
    <3>2. base \in Nat
      BY <2>1, Zenon DEF SeenOK
    <3> QED BY <1>6, <2>1, <3>1, <3>2, Zenon DEF Boxes
  <2>3. j \in DOMAIN log => base <= Len(log[j].kinds)
    BY <2>1, Zenon DEF SeenOK
  <2>4. j \notin DOMAIN log => base = 0
    BY <2>1, Zenon DEF SeenOK
  <2>5. ASSUME j \in DOMAIN log, ~box[c].stopped PROVE RestIs(q, j, log, base, c)
    <3>1. AcceptsId(c, log[j].id)
      BY <1>10, <2>5, Zenon DEF Keeps
    <3> QED BY <2>5, <3>1, Zenon DEF RestOK
  <2> HIDE DEF q, base
  <2>6. ASSUME ~box[c].stopped
        PROVE  /\ AcceptsKind(c, kind) => RestIs(Append(q, x), j, log', base, c)
               /\ ~AcceptsKind(c, kind) \/ j # i => RestIs(q, j, log', base, c)
    BY <1>1, <2>2, <2>3, <2>4, <2>5, <2>6, RestPush, Zenon DEF x
  <2>7. CASE To(c)
    <3>1. box'[c] = Push(box[c], x, size)
      BY <1>2, <2>1, <2>7, Zenon
    <3>2. Stopped.stopped
      BY EmptyBoxes, Zenon
    <3>3. /\ ~box[c].stopped
          /\ box'[c] = [box[c] EXCEPT !.pending = Append(@, x), !.bytes = @ + size]
      BY <1>10, <3>1, <3>2, Zenon DEF Push
    <3>4. box'[c].pending = Append(box[c].pending, x)
      <4>1. box[c] \in Boxes
        BY <1>6, <2>1, Zenon
      <4> QED BY <3>3, <4>1 DEF Boxes
    <3>5. Ahead(sending[c], box'[c].pending) = Append(q, x)
      <4> DEFINE r == box[c].pending
      <4>1. /\ q = Ahead(sending[c], r) /\ r \in Seq(Responses) /\ Known(log, r)
            /\ sending[c] \in Responses \cup {Nothing} /\ Known(log, <<sending[c]>>)
        BY <2>1, OutgoingSeq, Zenon DEF q
      <4>2. box'[c].pending = Append(r, x) /\ x \in Responses
        BY <1>5, <3>4, Zenon
      <4> HIDE DEF r
      <4>3. Ahead(sending[c], Append(r, x)) = Append(Ahead(sending[c], r), x)
        BY <4>1, <4>2, AheadSeq, Zenon
      <4> QED BY <4>1, <4>2, <4>3, Zenon
    <3> QED BY <2>6, <2>7, <3>3, <3>5, Zenon DEF base
  <2>8. CASE ~To(c)
    <3>1. box'[c] = box[c]
      BY <1>2, <2>1, <2>8, Zenon
    <3>2. ~AcceptsKind(c, kind) \/ j # i
      BY <1>3, <1>10, <2>8, Zenon
    <3>3. Ahead(sending[c], box'[c].pending) = q
      BY <2>1, <3>1, OutgoingSeq, Zenon DEF q
    <3> QED BY <1>10, <2>6, <3>1, <3>2, <3>3, Zenon DEF base
  <2> QED BY <2>7, <2>8, Zenon
<1> QED
  BY <1>8, <1>9, <1>a, <1>10, Zenon DEF RestOK, Outgoing, Ahead

-----------------------------------------------------------------------------
(* The actions that publish.                                                   *)

(* After publishing for stream s everything holds but the order of closing.    *)
Published(id, s, table) ==
    /\ LogOK' /\ HistoryOK' /\ BoxesOK' /\ SeenOK' /\ SendingOK' /\ RestOK'
    /\ DOMAIN streams' = {id} \cup DOMAIN table
    /\ DOMAIN streams' \subseteq Ids
    /\ \A x \in DOMAIN streams' : /\ streams'[x] \in Streams
                                  /\ streams'[x].inc \in DOMAIN log'
                                  /\ log'[streams'[x].inc].id = x
    /\ streams'[id].inc = s.inc /\ streams'[id].closed = s.closed
    /\ \A x \in DOMAIN table : x # id => streams'[x] = streams[x]

LEMMA PublishKeeps ==
    ASSUME IInv, NEW id \in Ids, NEW s \in Streams, NEW table, NEW kind \in Kinds,
           DOMAIN table \subseteq DOMAIN streams,
           \A x \in DOMAIN table : table[x] = streams[x],
           \/ s.inc \in DOMAIN log /\ log[s.inc].id = id /\ NewestRun(s, log)
           \/ /\ s.inc = Len(log) + 1 /\ Len(log) < MaxOpens
              /\ s.history = << >> /\ s.bytes = 0,
           Publish(id, s, table, kind), running' = running, sending' = sending, seen' = seen
    PROVE  Published(id, s, table)
<1>1. LogOK /\ TableOK /\ HistoryOK /\ BoxesOK /\ SeenOK /\ SendingOK /\ RestOK
  BY Zenon DEF IInv
<1>2. PICK n \in Nat : /\ Grows(id, s.inc, n, kind)
                       /\ Posts(id, s, table, kind, n)
                       /\ LogOK' /\ Keeps
  BY <1>1, PublishGrows, Zenon
<1>3. Len(log) \in Nat /\ DOMAIN log = 1..Len(log)
  BY <1>1, LogTypes, Zenon DEF LogOK
<1>4. s.inc \in Nat \ {0}
  BY <1>3
<1>5. RunBefore(s, n)
  <2>1. CASE s.inc \in DOMAIN log /\ log[s.inc].id = id /\ NewestRun(s, log)
    <3> DEFINE last == Len(log[s.inc].kinds)
               m == last + 1 - s.first
    <3>1. last \in Nat /\ s.inc # Len(log) + 1
      BY <1>1, <1>3, <2>1, LogTypes DEF LogOK
    <3>2. /\ s.first \in 1..(last + 1) /\ s.history = [k \in 1..m |-> s.first + k - 1]
          /\ s.bytes = HistoryBytes(s.inc, s.history)
      BY <2>1, HistoryBytesIn, Zenon DEF NewestRun
    <3>3. n = last + 1
      BY <1>2, <3>1, Zenon DEF Grows
    <3> HIDE DEF last
    <3>4. m \in 0..(n - 1) /\ n - m = s.first
      BY <3>1, <3>2, <3>3
    <3> HIDE DEF m
    <3>5. s.history = [k \in 1..m |-> n - m + k - 1]
      BY <3>2, <3>4, Zenon
    <3> QED BY <3>2, <3>4, <3>5, Zenon DEF RunBefore
  <2>2. CASE /\ s.inc = Len(log) + 1 /\ Len(log) < MaxOpens
             /\ s.history = << >> /\ s.bytes = 0
    <3>1. Len(log) + 1 \notin DOMAIN log
      BY <1>3
    <3>2. n = 1
      BY <1>2, <2>2, <3>1, Zenon DEF Grows
    <3>3. 0 \in 0..(n - 1) /\ << >> = [k \in 1..0 |-> n - 0 + k - 1]
      BY <3>2
    <3>4. [k \in DOMAIN << >> |-> Charge[Kind(s.inc, << >>[k])]] = << >>
      OBVIOUS
    <3>5. HistoryBytes(s.inc, << >>) = 0
      BY <3>4, TotalEmpty, Zenon DEF HistoryBytes
    <3> QED BY <2>2, <3>3, <3>5, Zenon DEF RunBefore
  <2> QED BY <2>1, <2>2, Zenon
<1>6. BoxesOK' /\ SeenOK' /\ SendingOK' /\ RestOK'
  BY <1>1, <1>2, <1>4, PublishBoxes, Zenon
<1>7. /\ DOMAIN streams' = {id} \cup DOMAIN table
      /\ DOMAIN streams' \subseteq Ids
      /\ \A x \in DOMAIN streams' : /\ streams'[x] \in Streams
                                    /\ streams'[x].inc \in DOMAIN log'
                                    /\ log'[streams'[x].inc].id = x
      /\ streams'[id].inc = s.inc /\ streams'[id].closed = s.closed
      /\ \A x \in DOMAIN table : x # id => streams'[x] = streams[x]
      /\ HistoryOK'
  BY <1>1, <1>2, <1>5, PublishTable, Zenon
<1> QED
  BY <1>2, <1>6, <1>7, Zenon DEF Published

(* A stream leaves the table, or its UUID is taken over by a new incarnation,  *)
(* only when it was the first to close: OldestClosedMakesWay of one step.      *)
MakesWay ==
    \A id \in DOMAIN streams :
        id \notin DOMAIN streams' \/ streams'[id].inc # streams[id].inc =>
           streams[id].closed /\ id = Head(closedAt)

LEMMA OpenKeeps ==
    ASSUME IInv, NEW id \in Ids, Open(id)
    PROVE  IInv' /\ MakesWay
<1> DEFINE left == DOMAIN streams \ Victim
           table == Restrict(streams, left)
           closed == {x \in DOMAIN streams : streams[x].closed}
<1>1. /\ id \notin DOMAIN streams /\ Len(log) < MaxOpens
      /\ Publish(id, NewStream, table, "opened")
      /\ closedAt' = IF Victim = {} THEN closedAt ELSE Tail(closedAt)
      /\ running' = running /\ sending' = sending /\ seen' = seen
  BY Zenon DEF Open
<1>2. DOMAIN table = left /\ \A x \in left : table[x] = streams[x]
  BY Zenon DEF Restrict
<1>3. /\ NewStream \in Streams /\ NewStream.inc = Len(log) + 1
      /\ NewStream.history = << >> /\ NewStream.bytes = 0 /\ ~NewStream.closed
  <2>1. Len(log) \in Nat
    BY LogTypes, Zenon DEF IInv, LogOK
  <2> QED BY <2>1 DEF NewStream, Streams
<1>4. "opened" \in Kinds
  BY DEF Kinds, Lifecycle
<1> HIDE DEF table
<1>5. /\ LogOK' /\ HistoryOK' /\ BoxesOK' /\ SeenOK' /\ SendingOK' /\ RestOK'
      /\ DOMAIN streams' = {id} \cup left
      /\ DOMAIN streams' \subseteq Ids
      /\ \A x \in DOMAIN streams' : /\ streams'[x] \in Streams
                                    /\ streams'[x].inc \in DOMAIN log'
                                    /\ log'[streams'[x].inc].id = x
      /\ streams'[id].closed = NewStream.closed
      /\ \A x \in left : x # id => streams'[x] = streams[x]
  <2>1. DOMAIN table \subseteq DOMAIN streams /\ \A x \in DOMAIN table : table[x] = streams[x]
    BY <1>2, Zenon
  <2>2. ASSUME NEW s, s = NewStream PROVE Published(id, s, table)
    <3>1. /\ s \in Streams /\ s.inc = Len(log) + 1 /\ Len(log) < MaxOpens
          /\ s.history = << >> /\ s.bytes = 0 /\ Publish(id, s, table, "opened")
          /\ running' = running /\ sending' = sending /\ seen' = seen
      BY <1>1, <1>3, <2>2, Zenon
    <3> QED BY <1>4, <2>1, <3>1, PublishKeeps, Zenon
  <2>3. Published(id, NewStream, table)
    BY <2>2, Zenon
  <2> QED BY <1>2, <2>3, Zenon DEF Published
<1>6. closedAt \in Seq(Ids) /\ Listed(closedAt, closed)
  BY Zenon DEF IInv, TableOK, Listed
<1>7. \A x \in left : x # id /\ x \in DOMAIN streams' /\ streams'[x] = streams[x]
  BY <1>1, <1>5, Zenon
<1>8. {x \in DOMAIN streams' : streams'[x].closed} = closed \ Victim
  BY <1>3, <1>5, <1>7, Zenon
<1>9. Victim # {} => closedAt # << >> /\ Victim = {Head(closedAt)}
  BY Zenon DEF Victim
<1> HIDE DEF closed, left
<1>10. closedAt' \in Seq(Ids) /\ Listed(closedAt', closed \ Victim)
  <2>1. CASE Victim = {}
    <3>1. closed \ Victim = closed /\ closedAt' = closedAt
      BY <1>1, <2>1, Zenon
    <3> QED BY <1>6, <3>1, Zenon
  <2>2. CASE Victim # {}
    <3>1. closedAt' = Tail(closedAt) /\ closedAt # << >> /\ Victim = {Head(closedAt)}
      BY <1>1, <1>9, <2>2, Zenon
    <3> QED BY <1>6, <3>1, TailListed, Zenon
  <2> QED BY <2>1, <2>2, Zenon
<1>11. TableOK'
  BY <1>5, <1>8, <1>10, Zenon DEF TableOK, Listed
<1>12. ASSUME NEW x \in DOMAIN streams,
              x \notin DOMAIN streams' \/ streams'[x].inc # streams[x].inc
       PROVE  streams[x].closed /\ x = Head(closedAt)
  <2>1. x \notin left
    BY <1>7, <1>12, Zenon
  <2>2. x \in Victim
    BY <2>1, Zenon DEF left
  <2>3. x = Head(closedAt) /\ closedAt # << >>
    BY <1>9, <2>2, Zenon
  <2>4. Head(closedAt) = closedAt[1] /\ 1 \in DOMAIN closedAt
    BY <1>6, <2>3
  <2>5. x \in closed
    BY <1>6, <2>3, <2>4, Zenon DEF Listed
  <2> QED BY <2>3, <2>5, Zenon DEF closed
<1> QED
  BY <1>5, <1>11, <1>12, Zenon DEF IInv, MakesWay

LEMMA SendKeeps ==
    ASSUME IInv, NEW id \in Ids, NEW kind \in Payloads, Send(id, kind)
    PROVE  IInv' /\ MakesWay
<1> DEFINE s == streams[id]
<1>1. /\ id \in DOMAIN streams /\ ~s.closed /\ Publish(id, s, streams, kind)
      /\ closedAt' = closedAt /\ running' = running /\ sending' = sending /\ seen' = seen
  BY Zenon DEF Send, Active
<1>2. s \in Streams /\ s.inc \in DOMAIN log /\ log[s.inc].id = id /\ NewestRun(s, log)
  BY <1>1, Zenon DEF IInv, TableOK, HistoryOK
<1>3. kind \in Kinds
  BY DEF Kinds
<1> HIDE DEF s
<1>4. /\ LogOK' /\ HistoryOK' /\ BoxesOK' /\ SeenOK' /\ SendingOK' /\ RestOK'
      /\ DOMAIN streams' = {id} \cup DOMAIN streams
      /\ DOMAIN streams' \subseteq Ids
      /\ \A x \in DOMAIN streams' : /\ streams'[x] \in Streams
                                    /\ streams'[x].inc \in DOMAIN log'
                                    /\ log'[streams'[x].inc].id = x
      /\ streams'[id].inc = s.inc /\ streams'[id].closed = s.closed
      /\ \A x \in DOMAIN streams : x # id => streams'[x] = streams[x]
  <2>1. Published(id, s, streams)
    BY <1>1, <1>2, <1>3, PublishKeeps, Zenon
  <2> QED BY <2>1, Zenon DEF Published
<1>5. DOMAIN streams' = DOMAIN streams
  BY <1>1, <1>4, Zenon
<1>6. \A x \in DOMAIN streams : /\ streams'[x].inc = streams[x].inc
                                /\ streams'[x].closed = streams[x].closed
  BY <1>4, Zenon DEF s
<1>7. {x \in DOMAIN streams' : streams'[x].closed} = {x \in DOMAIN streams : streams[x].closed}
  BY <1>5, <1>6, Zenon
<1>8. TableOK'
  <2>1. closedAt \in Seq(Ids) /\ Listed(closedAt, {x \in DOMAIN streams : streams[x].closed})
    BY Zenon DEF IInv, TableOK, Listed
  <2>2. closedAt' \in Seq(Ids) /\ Listed(closedAt', {x \in DOMAIN streams' : streams'[x].closed})
    BY <1>1, <1>7, <2>1, Zenon
  <2> QED BY <1>4, <2>2, Zenon DEF TableOK, Listed
<1> QED
  BY <1>4, <1>5, <1>6, <1>8, Zenon DEF IInv, MakesWay

LEMMA CloseKeeps ==
    ASSUME IInv, NEW id \in Ids, Close(id)
    PROVE  IInv' /\ MakesWay
<1> DEFINE s == streams[id]
           t == [s EXCEPT !.closed = TRUE]
           closed == {x \in DOMAIN streams : streams[x].closed}
<1>1. /\ id \in DOMAIN streams /\ ~s.closed /\ Publish(id, t, streams, "closed")
      /\ closedAt' = Append(closedAt, id) /\ running' = running /\ sending' = sending /\ seen' = seen
  BY Zenon DEF Close, Active
<1>2. s \in Streams /\ s.inc \in DOMAIN log /\ log[s.inc].id = id /\ NewestRun(s, log)
  BY <1>1, Zenon DEF IInv, TableOK, HistoryOK
<1> HIDE DEF s
<1>3. /\ t \in Streams /\ t.inc = s.inc /\ t.history = s.history /\ t.bytes = s.bytes
      /\ t.first = s.first /\ t.closed
  BY <1>2, Zenon DEF Streams
<1>4. "closed" \in Kinds
  BY DEF Kinds, Lifecycle
<1> HIDE DEF t
<1>5. t.inc \in DOMAIN log /\ log[t.inc].id = id /\ NewestRun(t, log)
  BY <1>2, <1>3, Zenon DEF NewestRun
<1>6. /\ LogOK' /\ HistoryOK' /\ BoxesOK' /\ SeenOK' /\ SendingOK' /\ RestOK'
      /\ DOMAIN streams' = {id} \cup DOMAIN streams
      /\ DOMAIN streams' \subseteq Ids
      /\ \A x \in DOMAIN streams' : /\ streams'[x] \in Streams
                                    /\ streams'[x].inc \in DOMAIN log'
                                    /\ log'[streams'[x].inc].id = x
      /\ streams'[id].inc = t.inc /\ streams'[id].closed = t.closed
      /\ \A x \in DOMAIN streams : x # id => streams'[x] = streams[x]
  <2>1. Published(id, t, streams)
    BY <1>1, <1>3, <1>4, <1>5, PublishKeeps, Zenon
  <2> QED BY <2>1, Zenon DEF Published
<1>7. DOMAIN streams' = DOMAIN streams
  BY <1>1, <1>6, Zenon
<1>8. \A x \in DOMAIN streams : streams'[x].inc = streams[x].inc
  BY <1>3, <1>6, Zenon DEF s
<1>9. {x \in DOMAIN streams' : streams'[x].closed} = closed \cup {id}
  BY <1>1, <1>3, <1>6, <1>7, Zenon
<1>10. closedAt \in Seq(Ids) /\ Listed(closedAt, closed)
  BY Zenon DEF IInv, TableOK, Listed
<1>11. id \notin closed
  BY <1>1, Zenon DEF s
<1> HIDE DEF closed
<1>12. closedAt' \in Seq(Ids) /\ Listed(closedAt', closed \cup {id})
  BY <1>1, <1>10, <1>11, AppendListed, Zenon
<1>13. TableOK'
  BY <1>6, <1>9, <1>12, Zenon DEF TableOK, Listed
<1> QED
  BY <1>6, <1>7, <1>8, <1>13, Zenon DEF IInv, MakesWay

-----------------------------------------------------------------------------
(* The subscriber's steps.                                                     *)

(* A step that publishes nothing keeps the log and the table.                  *)
LEMMA SameTable ==
    ASSUME LogOK, TableOK, HistoryOK, log' = log, streams' = streams, closedAt' = closedAt
    PROVE  LogOK' /\ TableOK' /\ HistoryOK'
<1>1. LogOK'
  BY DEF LogOK
<1>2. TableOK'
  BY DEF TableOK
<1>3. HistoryOK'
  BY DEF HistoryOK
<1> QED
  BY <1>1, <1>2, <1>3

LEMMA TakeStepKeeps ==
    ASSUME IInv, NEW c \in Clients, Take(c)
    PROVE  IInv'
<1> DEFINE b == box[c]
           q == b.pending
           x == Head(q)
           d == [b EXCEPT !.pending = Tail(q), !.bytes = b.bytes - Cost(x)]
<1>1. /\ c \in running /\ q # << >> /\ sending[c] = Nothing
      /\ box' = [box EXCEPT ![c].pending = Tail(@), ![c].bytes = @ - Cost(x)]
      /\ sending' = [sending EXCEPT ![c] = x]
      /\ log' = log /\ streams' = streams /\ closedAt' = closedAt
      /\ running' = running /\ seen' = seen
  BY Zenon DEF Take
<1>2. LogOK /\ TableOK /\ HistoryOK /\ BoxesOK /\ SeenOK /\ SendingOK /\ RestOK
  BY Zenon DEF IInv
<1>3. LogOK' /\ TableOK' /\ HistoryOK' /\ SeenOK'
  <2>1. SeenOK'
    BY <1>1, <1>2 DEF SeenOK
  <2> QED BY <1>1, <1>2, <2>1, SameTable, Zenon
<1>4. /\ box \in [Clients -> Boxes] /\ running \subseteq Clients
      /\ \A e \in Clients : box[e] \in Boxes /\ BoxIs(box[e], log)
      /\ sending \in [Clients -> Responses \cup {Nothing}]
  BY <1>2, Zenon DEF BoxesOK, SendingOK
<1>5. box' = [box EXCEPT ![c] = d]
  BY <1>1, <1>4, Zenon
<1>6. d \in Boxes /\ BoxIs(d, log)
  <2>1. b \in Boxes /\ BoxIs(b, log) /\ b.pending # << >>
    BY <1>1, <1>4, Zenon
  <2> HIDE DEF b
  <2> QED BY <1>2, <2>1, TakeKeeps, Zenon
<1>7. d.pending = Tail(q) /\ d.stopped = b.stopped
  <2>1. b \in Boxes
    BY <1>4, Zenon
  <2> HIDE DEF b
  <2> QED BY <2>1 DEF Boxes
<1>8. q \in Seq(Responses) /\ Known(log, q)
  BY <1>4, Zenon DEF Boxes, BoxIs
<1> HIDE DEF d, q
<1>9. 1 \in DOMAIN q /\ x = q[1] /\ x \in Responses /\ <<x>> \o Tail(q) = q
  BY <1>1, <1>8
<1> HIDE DEF x, b
<1>10. Known(log, <<x>>)
  <2>1. \A k \in DOMAIN <<x>> : <<x>>[k] = x
    OBVIOUS
  <2> QED BY <1>8, <1>9, <2>1, Zenon DEF Known
<1>11. /\ box'[c] = d /\ \A e \in Clients : e # c => box'[e] = box[e]
       /\ box' \in [Clients -> Boxes]
  BY <1>4, <1>5, <1>6
<1>12. /\ sending'[c] = x /\ \A e \in Clients : e # c => sending'[e] = sending[e]
       /\ sending' \in [Clients -> Responses \cup {Nothing}]
  BY <1>1, <1>4, <1>9
<1>13. BoxesOK'
  <2>1. \A e \in Clients : BoxIs(box'[e], log')
    BY <1>1, <1>4, <1>6, <1>11, Zenon
  <2> QED BY <1>1, <1>4, <1>11, <2>1, Zenon DEF BoxesOK
<1>14. SendingOK'
  <2>1. \A e \in Clients : Known(log', <<sending'[e]>>)
    BY <1>1, <1>2, <1>10, <1>12, Zenon DEF SendingOK
  <2>2. \A e \in Clients : e \notin running' => sending'[e] = Nothing
    BY <1>1, <1>2, <1>12, Zenon DEF SendingOK
  <2> QED BY <1>12, <2>1, <2>2, Zenon DEF SendingOK
<1>15. ASSUME NEW e \in Clients
       PROVE  /\ Ahead(sending'[e], box'[e].pending) = Outgoing(e)
              /\ box'[e].stopped = box[e].stopped
  <2>1. CASE e = c
    <3>1. Outgoing(c) = q
      BY <1>1, Zenon DEF Outgoing, q, b
    <3>2. Ahead(x, Tail(q)) = q
      BY <1>9, NothingIsNone, Zenon DEF Ahead
    <3> QED BY <1>7, <1>11, <1>12, <2>1, <3>1, <3>2, Zenon DEF b
  <2>2. CASE e # c
    BY <1>2, <1>11, <1>12, <2>2, OutgoingSeq, Zenon
  <2> QED BY <2>1, <2>2, Zenon
<1>16. RestOK'
  <2>1. \A e \in Clients : Outgoing(e)' = Ahead(sending'[e], box'[e].pending)
    BY Zenon DEF Outgoing, Ahead
  <2>2. \A e \in running : e \in Clients
    BY <1>4, Zenon
  <2> QED BY <1>1, <1>2, <1>15, <2>1, <2>2, Zenon DEF RestOK
<1> QED
  BY <1>3, <1>13, <1>14, <1>16, Zenon DEF IInv

LEMMA WrittenKeeps ==
    ASSUME IInv, NEW c \in Clients, Written(c)
    PROVE  IInv'
<1> DEFINE q == box[c].pending
           p == Outgoing(c)
           x == sending[c]
<1>1. /\ c \in running /\ x # Nothing
      /\ seen' = IF x.tag = "event" THEN [seen EXCEPT ![c][x.inc] = x.seq] ELSE seen
      /\ sending' = [sending EXCEPT ![c] = Nothing]
      /\ log' = log /\ streams' = streams /\ closedAt' = closedAt
      /\ running' = running /\ box' = box
  BY Zenon DEF Written
<1>2. LogOK /\ TableOK /\ HistoryOK /\ BoxesOK /\ SeenOK /\ SendingOK /\ RestOK
  BY Zenon DEF IInv
<1>3. LogOK' /\ TableOK' /\ HistoryOK' /\ BoxesOK'
  <2>1. BoxesOK'
    BY <1>1, <1>2 DEF BoxesOK
  <2> QED BY <1>1, <1>2, <2>1, SameTable, Zenon
<1>4. /\ running \subseteq Clients
      /\ sending \in [Clients -> Responses \cup {Nothing}]
      /\ seen \in [Clients -> [Incarnations -> Nat]]
  BY <1>2, Zenon DEF BoxesOK, SeenOK, SendingOK
<1>5. /\ p = Ahead(x, q) /\ q \in Seq(Responses) /\ x \in Responses
      /\ Known(log, <<x>>) /\ p \in Seq(Responses) /\ Known(log, p)
  BY <1>1, <1>2, OutgoingSeq, Zenon
<1> HIDE DEF p, q, x
<1>6. p # << >> /\ p[1] = x /\ Tail(p) = q
  <2>1. ASSUME NEW y \in Responses, NEW r \in Seq(Responses), p = Ahead(y, r)
        PROVE  p # << >> /\ p[1] = y /\ Tail(p) = r
    BY <2>1, AheadTail
  <2> QED BY <1>5, <2>1, Zenon
<1>7. x.inc \in Nat /\ x.seq \in Nat
  BY <1>5 DEF Responses
<1>8. x.tag = "event" => /\ x.inc \in DOMAIN log /\ x.inc \in Incarnations
                         /\ x.seq <= Len(log[x.inc].kinds)
  <2>1. ASSUME x.tag = "event" PROVE x.inc \in DOMAIN log /\ x.seq \in 1..Len(log[x.inc].kinds)
    <3>1. 1 \in DOMAIN <<x>> /\ <<x>>[1] = x
      OBVIOUS
    <3> QED BY <1>5, <2>1, <3>1, Zenon DEF Known
  <2>2. DOMAIN log \subseteq Incarnations /\ \A i \in DOMAIN log : Len(log[i].kinds) \in Nat
    BY <1>2, LogTypes, Zenon DEF LogOK
  <2> QED BY <2>1, <2>2
<1>9. /\ sending'[c] = Nothing /\ \A e \in Clients : e # c => sending'[e] = sending[e]
      /\ sending' \in [Clients -> Responses \cup {Nothing}]
  BY <1>1, <1>4
<1>12. /\ seen' \in [Clients -> [Incarnations -> Nat]]
       /\ \A e \in Clients : e # c => seen'[e] = seen[e]
       /\ \A i \in Incarnations :
             seen'[c][i] = IF x.tag = "event" /\ x.inc = i THEN x.seq ELSE seen[c][i]
  <2>1. CASE x.tag = "event"
    <3>1. seen' = [seen EXCEPT ![c][x.inc] = x.seq] /\ x.inc \in Incarnations /\ x.seq \in Nat
      BY <1>1, <1>7, <1>8, <2>1, Zenon
    <3>2. seen[c] \in [Incarnations -> Nat]
      BY <1>4
    <3>3. seen' = [seen EXCEPT ![c] = [seen[c] EXCEPT ![x.inc] = x.seq]]
      BY <1>4, <3>1
    <3> DEFINE f == [seen[c] EXCEPT ![x.inc] = x.seq]
    <3>4. /\ f \in [Incarnations -> Nat]
          /\ \A i \in Incarnations : f[i] = IF x.inc = i THEN x.seq ELSE seen[c][i]
      BY <3>1, <3>2
    <3> HIDE DEF f
    <3>5. /\ seen' \in [Clients -> [Incarnations -> Nat]] /\ seen'[c] = f
          /\ \A e \in Clients : e # c => seen'[e] = seen[e]
      BY <1>4, <3>3, <3>4 DEF f
    <3> QED BY <2>1, <3>4, <3>5, Zenon
  <2>2. CASE x.tag # "event"
    BY <1>1, <1>4, <2>2, Zenon
  <2> QED BY <2>1, <2>2, Zenon
<1>13. SendingOK'
  <2>1. \A e \in Clients : Known(log', <<sending'[e]>>)
    <3>1. \A k \in DOMAIN <<Nothing>> : <<Nothing>>[k].tag # "event"
      BY NothingIsNone
    <3>2. Known(log, <<Nothing>>)
      BY <3>1, Zenon DEF Known
    <3> QED BY <1>1, <1>2, <1>9, <3>2, Zenon DEF SendingOK
  <2>2. \A e \in Clients : e \notin running' => sending'[e] = Nothing
    BY <1>1, <1>2, <1>9, Zenon DEF SendingOK
  <2> QED BY <1>9, <2>1, <2>2, Zenon DEF SendingOK
<1>14. SeenOK'
  <2>1. ASSUME NEW e \in Clients, NEW i \in Incarnations
        PROVE  IF i \in DOMAIN log THEN seen'[e][i] <= Len(log[i].kinds) ELSE seen'[e][i] = 0
    <3>1. IF i \in DOMAIN log THEN seen[e][i] <= Len(log[i].kinds) ELSE seen[e][i] = 0
      BY <1>2, Zenon DEF SeenOK
    <3>2. CASE e = c /\ x.tag = "event" /\ x.inc = i
      BY <1>8, <1>12, <3>2, Zenon
    <3>3. CASE ~(e = c /\ x.tag = "event" /\ x.inc = i)
      BY <1>12, <3>1, <3>3, Zenon
    <3> QED BY <3>2, <3>3, Zenon
  <2> QED BY <1>1, <1>12, <2>1, Zenon DEF SeenOK
<1>15. ASSUME NEW e \in running, ~box[e].stopped, NEW i \in DOMAIN log,
              AcceptsId(e, log[i].id)
       PROVE  RestIs(Ahead(sending'[e], box[e].pending), i, log, seen'[e][i], e)
  <2>1. e \in Clients /\ i \in Incarnations
    BY <1>2, <1>4, LogTypes, Zenon DEF LogOK
  <2>2. RestIs(Outgoing(e), i, log, seen[e][i], e) /\ seen[e][i] \in Nat
    BY <1>2, <1>15, <2>1, Zenon DEF RestOK, SeenOK
  <2>3. CASE e = c
    <3>1. RestIs(Tail(p), i, log, IF Queued(p, 1, i) THEN p[1].seq ELSE seen[c][i], c)
      BY <1>2, <1>5, <1>6, <2>2, <2>3, RestTail, Zenon DEF LogOK, p
    <3>2. seen'[c][i] = IF Queued(p, 1, i) THEN p[1].seq ELSE seen[c][i]
      BY <1>6, <1>12, <2>1, Zenon DEF Queued
    <3>3. Ahead(sending'[c], box[c].pending) = q
      BY <1>9, Zenon DEF Ahead, q
    <3> QED BY <1>6, <2>3, <3>1, <3>2, <3>3, Zenon
  <2>4. CASE e # c
    <3>1. Ahead(sending'[e], box[e].pending) = Outgoing(e) /\ seen'[e] = seen[e]
      BY <1>2, <1>9, <1>12, <2>1, <2>4, OutgoingSeq, Zenon
    <3> QED BY <2>2, <3>1, Zenon
  <2> QED BY <2>3, <2>4, Zenon
<1>16. RestOK'
  BY <1>1, <1>15, Zenon DEF RestOK, Outgoing, Ahead
<1> QED
  BY <1>3, <1>13, <1>14, <1>16, Zenon DEF IInv

(* Cancel and Return: c is left with a mailbox that is empty, and the RPC of c *)
(* has stopped or is gone.                                                     *)
LEMMA LeaveKeeps ==
    ASSUME IInv, NEW c \in Clients, Cancel(c) \/ Return(c)
    PROVE  IInv'
<1>1. LogOK /\ TableOK /\ HistoryOK /\ BoxesOK /\ SeenOK /\ SendingOK /\ RestOK
  BY Zenon DEF IInv
<1>2. /\ log' = log /\ streams' = streams /\ closedAt' = closedAt /\ seen' = seen
      /\ running' \subseteq running /\ running \subseteq running' \cup {c}
      /\ \E d \in {Stopped, EmptyBox} : box' = [box EXCEPT ![c] = d]
      /\ c \in running' => box' = [box EXCEPT ![c] = Stopped]
  BY Zenon DEF Cancel, Return
<1>a. sending' = [sending EXCEPT ![c] = Nothing]
  <2>1. sending \in [Clients -> Responses \cup {Nothing}]
    BY <1>1, Zenon DEF SendingOK
  <2>2. CASE Cancel(c)
    BY <2>2, Zenon DEF Cancel
  <2>3. CASE Return(c)
    <3>1. sending' = sending /\ sending[c] = Nothing
      BY <2>3, Zenon DEF Return
    <3> QED BY <2>1, <3>1
  <2> QED BY <2>2, <2>3, Zenon
<1>3. PICK d \in {Stopped, EmptyBox} : box' = [box EXCEPT ![c] = d]
  BY <1>2, Zenon
<1>4. /\ d \in Boxes /\ BoxIs(d, log) /\ Stopped.stopped /\ Stopped \in Boxes
  BY <1>3, EmptyBoxes, Zenon
<1>5. /\ box \in [Clients -> Boxes] /\ running \subseteq Clients
      /\ \A e \in Clients : BoxIs(box[e], log)
  BY <1>1, Zenon DEF BoxesOK
<1>6. /\ box'[c] = d /\ \A e \in Clients : e # c => box'[e] = box[e]
      /\ box' \in [Clients -> Boxes]
  BY <1>3, <1>4, <1>5
<1>7. c \in running' => box'[c].stopped
  <2>1. ASSUME c \in running' PROVE box'[c] = Stopped
    BY <1>2, <1>5, <2>1
  <2> QED BY <1>4, <2>1, Zenon
<1>8. LogOK' /\ TableOK' /\ HistoryOK' /\ SeenOK'
  <2>1. SeenOK'
    BY <1>1, <1>2 DEF SeenOK
  <2> QED BY <1>1, <1>2, <2>1, SameTable, Zenon
<1>9. BoxesOK'
  <2>1. \A e \in Clients : BoxIs(box'[e], log')
    BY <1>2, <1>4, <1>5, <1>6, Zenon
  <2> QED BY <1>2, <1>5, <1>6, <2>1, Zenon DEF BoxesOK
<1>b. /\ sending'[c] = Nothing /\ \A e \in Clients : e # c => sending'[e] = sending[e]
      /\ sending' \in [Clients -> Responses \cup {Nothing}]
  <2>1. sending \in [Clients -> Responses \cup {Nothing}]
    BY <1>1, Zenon DEF SendingOK
  <2> QED BY <1>a, <2>1
<1>c. SendingOK'
  <2>1. Known(log, <<Nothing>>)
    <3>1. \A k \in DOMAIN <<Nothing>> : <<Nothing>>[k].tag # "event"
      BY NothingIsNone
    <3> QED BY <3>1, Zenon DEF Known
  <2>2. \A e \in Clients : Known(log', <<sending'[e]>>)
    BY <1>1, <1>2, <1>b, <2>1, Zenon DEF SendingOK
  <2>3. \A e \in Clients : e \notin running' => sending'[e] = Nothing
    BY <1>1, <1>2, <1>b, Zenon DEF SendingOK
  <2> QED BY <1>b, <2>2, <2>3, Zenon DEF SendingOK
<1>10. RestOK'
  <2>1. ASSUME NEW e \in running', ~box'[e].stopped
        PROVE  e \in running /\ box'[e] = box[e] /\ sending'[e] = sending[e]
    BY <1>2, <1>5, <1>6, <1>7, <1>b, <2>1, Zenon
  <2> QED BY <1>1, <1>2, <2>1, Zenon DEF RestOK, Outgoing
<1> QED
  BY <1>8, <1>9, <1>c, <1>10, Zenon DEF IInv

-----------------------------------------------------------------------------
(* Hydration.                                                                  *)

(* Event n of incarnation i is replayed to c.                                  *)
Given(c, i, n, resume) ==
    /\ i \in DOMAIN log
    /\ log[i].id \in DOMAIN streams
    /\ streams[log[i].id].inc = i
    /\ AcceptsId(c, log[i].id)
    /\ n \in streams[log[i].id].first..Len(log[i].kinds)
    /\ log[i].id \in resume => n > CursorOf(c, log[i].id).seq
    /\ AcceptsKind(c, log[i].kinds[n])

(* No two entries are at the same place: the place tells what is there.        *)
TagAt(i, n) ==
    IF i = 0 THEN "begin" ELSE IF i = MaxOpens + 1 THEN "end"
    ELSE IF n = 0 THEN "snapshot" ELSE "event"

LEMMA RetainedRange ==
    ASSUME IInv, NEW id \in DOMAIN streams
    PROVE  LET s == streams[id]
           IN  /\ s.inc \in DOMAIN log /\ log[s.inc].id = id
               /\ s.inc \in 1..MaxOpens
               /\ s.first \in 1..(Len(log[s.inc].kinds) + 1)
               /\ Len(log[s.inc].kinds) \in Nat
               /\ Range(s.history) = s.first..Len(log[s.inc].kinds)
<1> DEFINE s == streams[id]
           last == Len(log[s.inc].kinds)
           m == last + 1 - s.first
<1>1. s.inc \in DOMAIN log /\ log[s.inc].id = id /\ NewestRun(s, log)
  BY Zenon DEF IInv, TableOK, HistoryOK
<1>2. s.inc \in 1..MaxOpens /\ last \in Nat
  BY <1>1, LogTypes, Zenon DEF IInv, LogOK, Incarnations
<1>3. s.first \in 1..(last + 1) /\ s.history = [k \in 1..m |-> s.first + k - 1]
  BY <1>1, Zenon DEF NewestRun
<1> HIDE DEF s, last
<1>4. m \in Nat
  BY <1>2, <1>3
<1>5. \A k \in 1..m : s.first + k - 1 \in s.first..last
  BY <1>2, <1>3
<1>6. \A n \in s.first..last : n - s.first + 1 \in 1..m /\ s.first + (n - s.first + 1) - 1 = n
  BY <1>2, <1>3
<1> HIDE DEF m
<1>7. Range(s.history) = {s.first + k - 1 : k \in 1..m}
  BY <1>3, Zenon DEF Range
<1>8. {s.first + k - 1 : k \in 1..m} = s.first..last
  BY <1>5, <1>6, Zenon
<1> QED
  BY <1>1, <1>2, <1>3, <1>7, <1>8, Zenon DEF s, last

LEMMA ReplayGiven ==
    ASSUME IInv, NEW c, NEW resume, NEW id \in Selected(c), NEW n,
           n \in Range(streams[id].history),
           id \in resume => n > CursorOf(c, id).seq,
           AcceptsKind(c, Kind(streams[id].inc, n))
    PROVE  Given(c, streams[id].inc, n, resume) /\ n \in Nat \ {0}
<1>1. id \in DOMAIN streams /\ AcceptsId(c, id)
  BY Zenon DEF Selected
<1>2. /\ streams[id].inc \in DOMAIN log /\ log[streams[id].inc].id = id
      /\ n \in streams[id].first..Len(log[streams[id].inc].kinds)
      /\ streams[id].first \in 1..(Len(log[streams[id].inc].kinds) + 1)
      /\ Len(log[streams[id].inc].kinds) \in Nat
  BY <1>1, RetainedRange, Zenon
<1>3. n \in Nat \ {0}
  BY <1>2
<1> QED
  BY <1>1, <1>2, <1>3, Zenon DEF Given, Kind

LEMMA EntryPlace ==
    ASSUME IInv, NEW c, NEW metadata, NEW retained, NEW resume,
           NEW x \in Entries(c, metadata, retained, resume)
    PROVE  /\ x \in Responses /\ x.tag = TagAt(x.inc, x.seq)
           /\ x.tag = "event" => retained /\ Given(c, x.inc, x.seq, resume)
<1>1. MaxOpens \in Nat
  BY RegistryAssumption
<1>2. CASE x = Marker("begin", 0)
  <2>1. x \in Responses /\ x.tag = "begin" /\ x.inc = 0
    BY <1>2, MarkerFields
  <2> QED BY <2>1 DEF TagAt
<1>3. CASE x = Marker("end", MaxOpens + 1)
  <2>1. x \in Responses /\ x.tag = "end" /\ x.inc = MaxOpens + 1
    <3>1. MaxOpens + 1 \in Nat
      BY <1>1
    <3> QED BY <1>3, <3>1, MarkerFields
  <2> QED BY <1>1, <2>1 DEF TagAt
<1>4. CASE metadata /\ \E id \in Selected(c) : x = Marker("snapshot", streams[id].inc)
  <2>1. PICK id \in Selected(c) : x = Marker("snapshot", streams[id].inc)
    BY <1>4, Zenon
  <2>2. streams[id].inc \in 1..MaxOpens
    BY RetainedRange, Zenon DEF Selected
  <2>3. /\ streams[id].inc \in Nat /\ streams[id].inc # 0
        /\ streams[id].inc # MaxOpens + 1
    BY <1>1, <2>2
  <2>4. x \in Responses /\ x.tag = "snapshot" /\ x.inc = streams[id].inc /\ x.seq = 0
    BY <2>1, <2>3, MarkerFields
  <2> QED BY <2>3, <2>4 DEF TagAt
<1>5. CASE retained /\ \E id \in Selected(c) : x \in Replay(c, id, resume)
  <2>1. PICK id \in Selected(c) : x \in Replay(c, id, resume)
    BY <1>5, Zenon
  <2>2. PICK n : /\ n \in Range(streams[id].history) /\ x = Event(streams[id].inc, n)
                 /\ id \in resume => n > CursorOf(c, id).seq
                 /\ AcceptsKind(c, Kind(streams[id].inc, n))
    BY <2>1, Zenon DEF Replay
  <2>3. streams[id].inc \in 1..MaxOpens
    BY RetainedRange, Zenon DEF Selected
  <2>4. Given(c, streams[id].inc, n, resume) /\ n \in Nat \ {0}
    BY <2>2, ReplayGiven, Zenon
  <2>5. /\ streams[id].inc \in Nat /\ streams[id].inc # 0 /\ n \in Nat
        /\ streams[id].inc # MaxOpens + 1 /\ n # 0
    BY <1>1, <2>3, <2>4
  <2>6. x \in Responses /\ x.tag = "event" /\ x.inc = streams[id].inc /\ x.seq = n
    BY <2>2, <2>5, EventFields, Zenon
  <2> QED BY <1>5, <2>4, <2>5, <2>6, Zenon DEF TagAt
<1> QED
  BY <1>2, <1>3, <1>4, <1>5, Zenon DEF Entries

(* Each two responses have their places in the order.                         *)
Comparable(S) ==
    /\ \A x \in S : x.inc \in Nat /\ x.seq \in Nat
    /\ \A x, y \in S : x # y => Before(x, y) \/ Before(y, x)

LEMMA EntriesComparable ==
    ASSUME IInv, NEW c, NEW metadata, NEW retained, NEW resume
    PROVE  Comparable(Entries(c, metadata, retained, resume))
<1> DEFINE S == Entries(c, metadata, retained, resume)
<1>1. \A x \in S : x \in Responses /\ x.tag = TagAt(x.inc, x.seq)
  BY EntryPlace, Zenon
<1> HIDE DEF S
<1>2. \A x \in S : x.inc \in Nat /\ x.seq \in Nat
  BY <1>1 DEF Responses
<1>3. ASSUME NEW x \in S, NEW y \in S, x.inc = y.inc, x.seq = y.seq
      PROVE  x = y
  <2>1. x.tag = y.tag /\ x \in Responses /\ y \in Responses
    BY <1>1, <1>3, Zenon
  <2> QED BY <1>3, <2>1 DEF Responses
<1>4. ASSUME NEW x \in S, NEW y \in S, x # y
      PROVE  Before(x, y) \/ Before(y, x)
  <2>1. ~(x.inc = y.inc /\ x.seq = y.seq)
    BY <1>3, <1>4, Zenon
  <2>2. /\ x.inc \in Nat /\ y.inc \in Nat /\ x.seq \in Nat /\ y.seq \in Nat
    BY <1>2, Zenon
  <2> QED BY <2>1, <2>2 DEF Before
<1> QED
  BY <1>2, <1>4, Zenon DEF Comparable, S

(* Queue q has the replayed events, each once, and those of a stream in order. *)
Hydrates(q, c, retained, resume) ==
    /\ q \in Seq(Responses)
    /\ \A k \in DOMAIN q : q[k].tag = "event" =>
          retained /\ Given(c, q[k].inc, q[k].seq, resume)
    /\ \A i, n : retained /\ Given(c, i, n, resume) =>
          \E k \in DOMAIN q : Queued(q, k, i) /\ q[k].seq = n
    /\ \A j, k \in DOMAIN q : j < k /\ q[j].inc = q[k].inc => q[j].seq < q[k].seq

(* The cursor of a client that resumes is the last event it has seen of the    *)
(* incarnation the stream has now.                                             *)
LEMMA ResumedCursor ==
    ASSUME IInv, NEW c, NEW id, Resumable(c, id)
    PROVE  LET i == streams[id].inc
           IN  /\ id \in DOMAIN streams
               /\ CursorOf(c, id).seq = seen[c][i]
               /\ seen[c][i] >= streams[id].first - 1
<1> DEFINE i == streams[id].inc
           known == {j \in DOMAIN log : log[j].id = id /\ seen[c][j] > 0}
<1>1. /\ id \in DOMAIN streams /\ CursorOf(c, id).inc = i
      /\ CursorOf(c, id).seq >= streams[id].first - 1
  BY Zenon DEF Resumable, Selected
<1>2. i # 0
  <2>1. i \in 1..MaxOpens
    BY <1>1, RetainedRange, Zenon
  <2> QED BY <2>1
<1>3. CursorOf(c, id) = IF known = {} THEN [inc |-> 0, seq |-> 0]
                        ELSE [inc |-> Max(known), seq |-> seen[c][Max(known)]]
  BY Zenon DEF CursorOf
<1> HIDE DEF known, i
<1>4. known # {}
  BY <1>1, <1>2, <1>3
<1>5. CursorOf(c, id) = [inc |-> Max(known), seq |-> seen[c][Max(known)]]
  BY <1>3, <1>4, Zenon
<1>6. CursorOf(c, id).inc = Max(known) /\ CursorOf(c, id).seq = seen[c][Max(known)]
  BY <1>5
<1>7. CursorOf(c, id).seq = seen[c][i]
  BY <1>1, <1>6, Zenon
<1> QED
  BY <1>1, <1>7, Zenon DEF i

LEMMA GivenKnown ==
    ASSUME IInv, NEW c, NEW i, NEW n, NEW resume, Given(c, i, n, resume)
    PROVE  n \in 1..Len(log[i].kinds)
<1>1. /\ log[i].id \in DOMAIN streams /\ streams[log[i].id].inc = i
      /\ n \in streams[log[i].id].first..Len(log[i].kinds)
  BY Zenon DEF Given
<1>2. streams[log[i].id].first \in 1..(Len(log[i].kinds) + 1) /\ Len(log[i].kinds) \in Nat
  BY <1>1, RetainedRange, Zenon
<1> QED
  BY <1>1, <1>2

(* A new subscription starts with what its client still wants of the past.     *)
LEMMA HydrationIsTheRest ==
    ASSUME IInv, NEW c \in Clients, NEW metadata \in BOOLEAN, NEW retained \in BOOLEAN,
           NEW resume, resume # {} => retained, \A id \in resume : Resumable(c, id),
           Hydrates(Hydration(c, metadata, retained, resume), c, retained, resume),
           NEW i \in DOMAIN log
    PROVE  /\ Baseline(c, retained, resume)[i] \in 0..Len(log[i].kinds)
           /\ AcceptsId(c, log[i].id) =>
                 RestIs(Hydration(c, metadata, retained, resume), i, log,
                        Baseline(c, retained, resume)[i], c)
<1> DEFINE q == Hydration(c, metadata, retained, resume)
           base == Baseline(c, retained, resume)[i]
           id == log[i].id
           current == id \in DOMAIN streams /\ streams[id].inc = i
           first == streams[id].first
           last == Len(log[i].kinds)
           Got(n) == retained /\ Given(c, i, n, resume)
<1>1. /\ last \in Nat /\ i \in Incarnations
      /\ seen[c][i] \in 0..last
  <2>1. last \in Nat /\ i \in Incarnations
    BY LogTypes, Zenon DEF IInv, LogOK
  <2>2. seen[c][i] \in Nat /\ seen[c][i] <= last
    BY <2>1, Zenon DEF IInv, SeenOK
  <2> QED BY <2>1, <2>2
<1>2. base = IF current /\ id \in resume THEN seen[c][i]
             ELSE IF current /\ retained THEN first - 1 ELSE last
  BY <1>1, Zenon DEF Baseline
<1>3. current => first \in 1..(last + 1)
  BY RetainedRange, Zenon
<1>4. ASSUME current, id \in resume
      PROVE  retained /\ CursorOf(c, id).seq = seen[c][i] /\ seen[c][i] >= first - 1
  <2>1. Resumable(c, id) /\ retained
    BY <1>4, Zenon
  <2>2. CursorOf(c, id).seq = seen[c][streams[id].inc] /\ seen[c][streams[id].inc] >= first - 1
    BY <2>1, ResumedCursor, Zenon
  <2> QED BY <1>4, <2>1, <2>2, Zenon
<1>a. Hydrates(q, c, retained, resume)
  OBVIOUS
<1> HIDE DEF q
<1>5. \A k \in DOMAIN q : Queued(q, k, i) => Got(q[k].seq)
  BY <1>a, Zenon DEF Queued, Hydrates
<1>6. \A n : Got(n) => \E k \in DOMAIN q : Queued(q, k, i) /\ q[k].seq = n
  BY <1>a, Zenon DEF Hydrates
<1>7. \A j, k \in DOMAIN q :
         Queued(q, j, i) /\ Queued(q, k, i) /\ j < k => q[j].seq < q[k].seq
  <2>1. \A j, k \in DOMAIN q : j < k /\ q[j].inc = q[k].inc => q[j].seq < q[k].seq
    BY <1>a, Zenon DEF Hydrates
  <2>2. \A k \in DOMAIN q : Queued(q, k, i) => q[k].inc = i
    BY Zenon DEF Queued
  <2> QED BY <2>1, <2>2, Zenon
<1>8. \A n : Got(n) <=> /\ retained /\ current /\ AcceptsId(c, id) /\ n \in first..last
                        /\ id \in resume => n > CursorOf(c, id).seq
                        /\ AcceptsKind(c, log[i].kinds[n])
  BY Zenon DEF Given
<1> HIDE DEF base, id, current, first, last, Got
<1>9. base \in 0..last
  <2>1. CASE current /\ id \in resume
    BY <1>1, <1>2, <2>1
  <2>2. CASE ~(current /\ id \in resume) /\ current /\ retained
    BY <1>1, <1>2, <1>3, <2>2
  <2>3. CASE ~(current /\ id \in resume) /\ ~(current /\ retained)
    BY <1>1, <1>2, <2>3
  <2> QED BY <2>1, <2>2, <2>3, Zenon
<1>10. ASSUME NEW n, AcceptsId(c, id)
       PROVE  Got(n) <=> n \in 1..last /\ n > base /\ AcceptsKind(c, log[i].kinds[n])
  <2>1. CASE current /\ id \in resume
    <3>1. base = seen[c][i] /\ retained /\ CursorOf(c, id).seq = base /\ base >= first - 1
      BY <1>2, <1>4, <2>1, Zenon
    <3>2. n \in first..last /\ n > base <=> n \in 1..last /\ n > base
      BY <1>1, <1>3, <1>9, <2>1, <3>1
    <3> QED BY <1>8, <1>10, <2>1, <3>1, <3>2, Zenon
  <2>2. CASE ~(current /\ id \in resume) /\ current /\ retained
    <3>1. base = first - 1
      BY <1>2, <2>2, Zenon
    <3>2. n \in first..last <=> n \in 1..last /\ n > base
      BY <1>1, <1>3, <2>2, <3>1
    <3> QED BY <1>8, <1>10, <2>2, <3>2, Zenon
  <2>3. CASE ~(current /\ id \in resume) /\ ~(current /\ retained)
    <3>1. base = last
      BY <1>2, <2>3, Zenon
    <3>2. ~(n \in 1..last /\ n > base)
      BY <1>1, <3>1
    <3> QED BY <1>8, <1>10, <2>3, <3>2, Zenon
  <2> QED BY <2>1, <2>2, <2>3, Zenon
<1>11. ASSUME AcceptsId(c, id) PROVE RestIs(q, i, log, base, c)
  BY <1>5, <1>6, <1>7, <1>10, <1>11, Zenon DEF RestIs, last
<1> QED
  BY <1>9, <1>11, Zenon DEF q, base, id, last

LEMMA SubscribeKeeps ==
    ASSUME IInv, NEW c \in Clients, NEW metadata \in BOOLEAN, NEW retained \in BOOLEAN,
           NEW resume \in SUBSET Ids, Subscribe(c, metadata, retained, resume),
           Hydrates(Hydration(c, metadata, retained, resume), c, retained, resume)
    PROVE  IInv'
<1> DEFINE q == Hydration(c, metadata, retained, resume)
           bs == Baseline(c, retained, resume)
           b == [pending |-> q, bytes |-> TotalCost(q), stopped |-> FALSE]
<1>1. /\ resume # {} => retained
      /\ \A id \in resume : Resumable(c, id)
      /\ TotalCost(q) <= SubscriberBytes
      /\ running' = running \cup {c}
      /\ box' = [box EXCEPT ![c] = b] /\ seen' = [seen EXCEPT ![c] = bs]
      /\ log' = log /\ streams' = streams /\ closedAt' = closedAt
      /\ c \notin running /\ sending' = sending
  BY Zenon DEF Subscribe
<1>2. LogOK /\ TableOK /\ HistoryOK /\ BoxesOK /\ SeenOK /\ SendingOK /\ RestOK
  BY Zenon DEF IInv
<1>3. LogOK' /\ TableOK' /\ HistoryOK'
  BY <1>1, <1>2, SameTable, Zenon
<1>4. q \in Seq(Responses) /\ Known(log, q)
  <2>1. q \in Seq(Responses) /\ \A k \in DOMAIN q : q[k].tag = "event" =>
                                   Given(c, q[k].inc, q[k].seq, resume)
    <3>1. Hydrates(q, c, retained, resume)
      OBVIOUS
    <3> HIDE DEF q
    <3> QED BY <3>1, Zenon DEF Hydrates
  <2> HIDE DEF q
  <2>2. \A k \in DOMAIN q : q[k].tag = "event" =>
           q[k].inc \in DOMAIN log /\ q[k].seq \in 1..Len(log[q[k].inc].kinds)
    BY <2>1, GivenKnown, Zenon DEF Given
  <2> QED BY <2>1, <2>2, Zenon DEF Known
<1>5. /\ bs \in [Incarnations -> Nat]
      /\ \A i \in Incarnations :
            IF i \in DOMAIN log THEN bs[i] <= Len(log[i].kinds) ELSE bs[i] = 0
  <2>1. bs = [i \in Incarnations |-> bs[i]]
    BY Zenon DEF Baseline
  <2>2. ASSUME NEW i \in Incarnations, i \notin DOMAIN log PROVE bs[i] = 0
    BY <2>2, Zenon DEF Baseline
  <2>3. ASSUME NEW i \in DOMAIN log PROVE bs[i] \in 0..Len(log[i].kinds)
    BY <1>1, HydrationIsTheRest, Zenon
  <2> HIDE DEF bs
  <2>4. \A i \in DOMAIN log : Len(log[i].kinds) \in Nat
    BY <1>2, LogTypes, Zenon DEF LogOK
  <2>5. ASSUME NEW i \in Incarnations
        PROVE  bs[i] \in Nat /\ IF i \in DOMAIN log THEN bs[i] <= Len(log[i].kinds)
                                ELSE bs[i] = 0
    BY <2>2, <2>3, <2>4
  <2>6. bs \in [Incarnations -> Nat]
    BY <2>1, <2>5, Zenon
  <2> QED BY <2>5, <2>6, Zenon
<1>6. ASSUME NEW i \in DOMAIN log, AcceptsId(c, log[i].id)
      PROVE  RestIs(q, i, log, bs[i], c)
  BY <1>1, <1>6, HydrationIsTheRest, Zenon
<1> HIDE DEF q, bs
<1>7. b \in Boxes /\ BoxIs(b, log) /\ b.pending = q
  <2>1. TotalCost(q) = Total(Costs(log, q))
    BY Zenon DEF TotalCost, Costs, Cost, CostIn, Kind
  <2>2. Total(Costs(log, q)) \in Nat
    BY <1>2, <1>4, CostsSeq, TotalNat, Zenon DEF LogOK
  <2>3. b.pending = q /\ b.bytes = TotalCost(q) /\ b \in Boxes
    BY <1>4, <2>1, <2>2 DEF Boxes
  <2> QED BY <1>1, <1>4, <2>1, <2>3, Zenon DEF BoxIs
<1> HIDE DEF b
<1>8. /\ box \in [Clients -> Boxes] /\ running \subseteq Clients
      /\ \A d \in Clients : BoxIs(box[d], log)
      /\ seen \in [Clients -> [Incarnations -> Nat]]
  BY <1>2, Zenon DEF BoxesOK, SeenOK
<1>9. /\ box'[c] = b /\ \A d \in Clients : d # c => box'[d] = box[d]
      /\ seen'[c] = bs /\ \A d \in Clients : d # c => seen'[d] = seen[d]
      /\ box' \in [Clients -> Boxes] /\ seen' \in [Clients -> [Incarnations -> Nat]]
  BY <1>1, <1>5, <1>7, <1>8
<1>10. BoxesOK'
  <2>1. \A d \in Clients : BoxIs(box'[d], log')
    BY <1>1, <1>7, <1>8, <1>9, Zenon
  <2>2. running' \subseteq Clients
    BY <1>1, <1>8, Zenon
  <2> QED BY <1>9, <2>1, <2>2, Zenon DEF BoxesOK
<1>11. SeenOK'
  BY <1>1, <1>2, <1>5, <1>9, Zenon DEF SeenOK
<1>a. SendingOK'
  BY <1>1, <1>2, Zenon DEF SendingOK
<1>12. ASSUME NEW d \in running', ~box'[d].stopped, NEW i \in DOMAIN log,
              AcceptsId(d, log[i].id)
       PROVE  RestIs(Ahead(sending[d], box'[d].pending), i, log, seen'[d][i], d)
  <2>1. CASE d = c
    <3>1. Ahead(sending[c], box'[c].pending) = q
      BY <1>1, <1>2, <1>7, <1>9, Zenon DEF SendingOK, Ahead
    <3> QED BY <1>6, <1>9, <1>12, <2>1, <3>1, Zenon
  <2>2. CASE d # c
    <3>1. d \in running /\ d \in Clients
      BY <1>1, <1>8, <2>2, Zenon
    <3>2. Ahead(sending[d], box'[d].pending) = Outgoing(d)
      BY <1>2, <1>9, <2>2, <3>1, OutgoingSeq, Zenon
    <3> QED BY <1>2, <1>9, <1>12, <2>2, <3>1, <3>2, Zenon DEF RestOK
  <2> QED BY <2>1, <2>2, Zenon
<1>13. RestOK'
  BY <1>1, <1>12, Zenon DEF RestOK, Outgoing, Ahead
<1> QED
  BY <1>3, <1>10, <1>11, <1>a, <1>13, Zenon DEF IInv

-----------------------------------------------------------------------------
(* The first state.                                                            *)

LEMMA InitInv ==
    Init => IInv
<1> SUFFICES ASSUME Init PROVE IInv
  OBVIOUS
<1>1. /\ log = << >> /\ streams = << >> /\ closedAt = << >> /\ running = {}
      /\ box = [c \in Clients |-> EmptyBox]
      /\ sending = [c \in Clients |-> Nothing]
      /\ seen = [c \in Clients |-> [i \in Incarnations |-> 0]]
  BY Zenon DEF Init
<1>2. DOMAIN << >> = {} /\ << >> \in Seq([id : Ids, kinds : Seq(Kinds)]) /\ << >> \in Seq(Ids)
      /\ Len(<< >>) = 0
  OBVIOUS
<1>3. LogOK
  BY <1>1, <1>2, RegistryAssumption DEF LogOK, LogIs
<1>4. TableOK /\ HistoryOK
  BY <1>1, <1>2, Zenon DEF TableOK, HistoryOK
<1>5. BoxesOK
  <2>1. EmptyBox \in Boxes /\ BoxIs(EmptyBox, log)
    BY EmptyBoxes, Zenon
  <2> QED BY <1>1, <2>1, Zenon DEF BoxesOK
<1>6. SeenOK
  <2>1. DOMAIN log = {}
    BY <1>1, <1>2, Zenon
  <2>2. seen \in [Clients -> [Incarnations -> Nat]]
    BY <1>1
  <2>3. \A c \in Clients, i \in Incarnations : seen[c][i] = 0
    BY <1>1, Zenon
  <2> QED BY <2>1, <2>2, <2>3, Zenon DEF SeenOK
<1>7. RestOK
  BY <1>1, Zenon DEF RestOK
<1>8. SendingOK
  <2>1. \A k \in DOMAIN <<Nothing>> : <<Nothing>>[k].tag # "event"
    BY NothingIsNone
  <2>2. Known(log, <<Nothing>>)
    BY <2>1, Zenon DEF Known
  <2>3. /\ sending \in [Clients -> Responses \cup {Nothing}]
        /\ \A c \in Clients : sending[c] = Nothing
    BY <1>1
  <2> QED BY <2>2, <2>3, Zenon DEF SendingOK
<1> QED
  BY <1>3, <1>4, <1>5, <1>6, <1>7, <1>8, Zenon DEF IInv

-----------------------------------------------------------------------------
(* InOrder, the responses of a set in the order of their cursors.              *)

INSTANCE FiniteSetTheorems

LEMMA ImageFinite ==
    ASSUME NEW f, IsFiniteSet(DOMAIN f)
    PROVE  IsFiniteSet({f[x] : x \in DOMAIN f})
<1> DEFINE T == {f[x] : x \in DOMAIN f}
           g == [x \in DOMAIN f |-> f[x]]
<1>1. g \in Surjection(DOMAIN f, T)
  BY DEF Surjection
<1> QED
  BY <1>1, FS_Surjection

LEMMA InOrderProperties ==
    ASSUME NEW S, IsFiniteSet(S), Comparable(S)
    PROVE  /\ InOrder(S) \in Seq(S)
           /\ \A x \in S : \E k \in DOMAIN InOrder(S) : InOrder(S)[k] = x
           /\ \A j, k \in DOMAIN InOrder(S) :
                 j < k => Before(InOrder(S)[j], InOrder(S)[k])
<1> DEFINE R(x) == {y \in S : Before(y, x)}
           N == Cardinality(S)
           r == [x \in S |-> Cardinality(R(x))]
           q == InOrder(S)
<1>1. N \in Nat
  BY FS_CardinalityType
<1>2. ASSUME NEW x \in S PROVE IsFiniteSet(R(x)) /\ r[x] \in 0..(N - 1)
  <2>1. R(x) \subseteq S /\ x \notin R(x)
    BY DEF Comparable, Before
  <2>2. IsFiniteSet(R(x)) /\ Cardinality(R(x)) <= N /\ Cardinality(R(x)) # N
    <3> HIDE DEF R
    <3> QED BY <2>1, FS_Subset
  <2>3. Cardinality(R(x)) \in Nat
    BY <2>2, FS_CardinalityType
  <2> QED BY <1>1, <2>2, <2>3
<1>a. ASSUME NEW x \in S PROVE IsFiniteSet(R(x)) /\ r[x] \in Nat
  <2>1. 0..(N - 1) \subseteq Nat
    BY <1>1
  <2> QED BY <1>2, <2>1, Zenon
<1>3. ASSUME NEW x \in S, NEW y \in S, Before(x, y) PROVE r[x] < r[y]
  <2>1. R(x) \subseteq R(y) /\ x \in R(y) /\ x \notin R(x)
    <3>1. \A z \in S : z.inc \in Nat /\ z.seq \in Nat
      BY DEF Comparable
    <3>2. ASSUME NEW z \in S, Before(z, x) PROVE Before(z, y)
      BY <1>3, <3>1, <3>2 DEF Before
    <3>3. ~ Before(x, x)
      BY <3>1 DEF Before
    <3> QED BY <1>3, <3>2, <3>3, Zenon
  <2>2. IsFiniteSet(R(y)) /\ r[x] \in Nat /\ r[y] \in Nat
    BY <1>a, Zenon
  <2>3. Cardinality(R(x)) <= Cardinality(R(y)) /\ Cardinality(R(x)) # Cardinality(R(y))
    <3> HIDE DEF R
    <3> QED BY <2>1, <2>2, FS_Subset
  <2> QED BY <2>2, <2>3
<1>4. r \in Injection(S, 0..(N - 1))
  <2>1. r \in [S -> 0..(N - 1)]
    BY <1>2, Zenon
  <2>2. ASSUME NEW x \in S, NEW y \in S, r[x] = r[y] PROVE x = y
    <3> SUFFICES ASSUME x # y PROVE FALSE
      OBVIOUS
    <3>1. Before(x, y) \/ Before(y, x)
      BY DEF Comparable
    <3>2. r[x] \in Nat /\ r[y] \in Nat
      BY <1>a, Zenon
    <3> HIDE DEF r
    <3> QED BY <1>3, <2>2, <3>1, <3>2
  <2> QED BY <2>1, <2>2, Zenon DEF Injection, IsInjective
<1>5. r \in Surjection(S, 0..(N - 1))
  <2>1. IsFiniteSet(0..(N - 1)) /\ Cardinality(0..(N - 1)) = N
    BY <1>1, FS_Interval
  <2> QED BY <1>4, <2>1, FS_Injection
<1>6. DOMAIN q = 1..N
  BY DEF InOrder
<1>7. ASSUME NEW k \in 1..N PROVE q[k] \in S /\ r[q[k]] = k - 1
  <2>1. k - 1 \in 0..(N - 1)
    BY <1>1
  <2>2. PICK x \in S : r[x] = k - 1
    BY <1>5, <2>1, Zenon DEF Surjection
  <2>3. q[k] = CHOOSE z \in S : Cardinality(R(z)) = k - 1
    BY ZenonT(60) DEF InOrder
  <2>4. Cardinality(R(x)) = k - 1
    BY <2>2
  <2>5. q[k] \in S /\ Cardinality(R(q[k])) = k - 1
    BY <2>3, <2>4, Zenon
  <2> QED BY <2>5
<1> HIDE DEF q, r, R
<1>8. q \in Seq(S)
  <2> DEFINE e(k) == CHOOSE x \in S : Cardinality({y \in S : Before(y, x)}) = k - 1
  <2>1. q = [k \in 1..N |-> e(k)]
    BY Zenon DEF InOrder, q
  <2> HIDE DEF e
  <2>2. \A k \in 1..N : e(k) \in S
    BY <1>7, <2>1
  <2>3. q \in [1..N -> S]
    BY <2>1, <2>2, Zenon
  <2> QED BY <1>1, <2>3
<1>9. ASSUME NEW x \in S PROVE \E k \in 1..N : q[k] = x
  <2>1. r[x] \in 0..(N - 1) /\ r[x] + 1 \in 1..N /\ r[x] + 1 - 1 = r[x]
    BY <1>1, <1>2
  <2>2. q[r[x] + 1] \in S /\ r[q[r[x] + 1]] = r[x]
    BY <1>7, <2>1
  <2>3. q[r[x] + 1] = x
    BY <1>4, <2>2, Zenon DEF Injection, IsInjective
  <2> QED BY <2>1, <2>3, Zenon
<1>10. ASSUME NEW j \in 1..N, NEW k \in 1..N, j < k PROVE Before(q[j], q[k])
  <2>1. q[j] \in S /\ q[k] \in S /\ r[q[j]] = j - 1 /\ r[q[k]] = k - 1
    BY <1>7, Zenon
  <2>2. q[j] # q[k] /\ ~ (r[q[k]] < r[q[j]])
    BY <2>1, <1>10
  <2>3. Before(q[j], q[k]) \/ Before(q[k], q[j])
    BY <2>1, <2>2, Zenon DEF Comparable
  <2> QED BY <1>3, <2>1, <2>2, <2>3, Zenon
<1> QED
  BY <1>6, <1>8, <1>9, <1>10, Zenon DEF q

LEMMA EntriesFinite ==
    ASSUME IInv, NEW c, NEW metadata, NEW retained, NEW resume
    PROVE  IsFiniteSet(Entries(c, metadata, retained, resume))
<1> DEFINE ids == Selected(c)
           A == {Marker("begin", 0), Marker("end", MaxOpens + 1)}
           f == [id \in ids |-> Marker("snapshot", streams[id].inc)]
           g == [id \in ids |-> Replay(c, id, resume)]
           B == {f[id] : id \in DOMAIN f}
           C == {g[id] : id \in DOMAIN g}
<1>1. IsFiniteSet(ids) /\ ids \subseteq DOMAIN streams
  <2> DEFINE n == [i \in DOMAIN log |-> log[i].id]
  <2>1. IsFiniteSet(DOMAIN log)
    <3>1. Len(log) \in Nat /\ DOMAIN log = 1..Len(log)
      BY LogTypes, Zenon DEF IInv, LogOK
    <3>2. IsFiniteSet(1..Len(log))
      BY <3>1, FS_Interval
    <3> QED BY <3>1, <3>2, Zenon
  <2>2. DOMAIN n = DOMAIN log /\ \A i \in DOMAIN log : n[i] = log[i].id
    BY Zenon
  <2> HIDE DEF n
  <2>3. IsFiniteSet({n[i] : i \in DOMAIN n})
    BY <2>1, <2>2, ImageFinite, Zenon
  <2>4. ids \subseteq DOMAIN streams
    BY Zenon DEF Selected
  <2>5. ASSUME NEW x \in DOMAIN streams PROVE x \in {n[i] : i \in DOMAIN n}
    <3>1. streams[x].inc \in DOMAIN log /\ log[streams[x].inc].id = x
      BY Zenon DEF IInv, TableOK
    <3> QED BY <2>2, <3>1, Zenon
  <2> QED BY <2>3, <2>4, <2>5, FS_Subset
<1>2. IsFiniteSet(A)
  <2>1. IsFiniteSet({Marker("begin", 0)}) /\ IsFiniteSet({Marker("end", MaxOpens + 1)})
    BY FS_Singleton, Zenon
  <2>2. A = {Marker("begin", 0)} \cup {Marker("end", MaxOpens + 1)}
    BY Zenon
  <2> QED BY <2>1, <2>2, FS_Union, Zenon
<1>3. DOMAIN f = ids /\ DOMAIN g = ids
  BY Zenon
<1>4. B = {Marker("snapshot", streams[id].inc) : id \in ids}
  BY Zenon
<1>5. C = {Replay(c, id, resume) : id \in ids}
  BY Zenon
<1> HIDE DEF f, g
<1>6. IsFiniteSet(B) /\ IsFiniteSet(C)
  BY <1>1, <1>3, ImageFinite, Zenon
<1> HIDE DEF B, C
<1>7. ASSUME NEW T \in C PROVE IsFiniteSet(T)
  <2>1. PICK id \in ids : T = Replay(c, id, resume)
    BY <1>5, Zenon
  <2> DEFINE h == streams[id].history
             e == [k \in DOMAIN h |-> Event(streams[id].inc, h[k])]
             E == {e[k] : k \in DOMAIN e}
  <2>2. IsFiniteSet(DOMAIN h)
    <3>1. streams[id] \in Streams
      BY <1>1, Zenon DEF IInv, TableOK
    <3>2. Len(h) \in Nat /\ DOMAIN h = 1..Len(h)
      BY <3>1 DEF Streams
    <3>3. IsFiniteSet(1..Len(h))
      BY <3>2, FS_Interval
    <3> QED BY <3>2, <3>3, Zenon
  <2>3. DOMAIN e = DOMAIN h /\ \A k \in DOMAIN h : e[k] = Event(streams[id].inc, h[k])
    BY Zenon
  <2>4. T \subseteq E
    BY <2>1, <2>3, Zenon DEF Replay, Range
  <2> HIDE DEF e, h
  <2>5. IsFiniteSet(E)
    BY <2>2, <2>3, ImageFinite, Zenon
  <2> HIDE DEF E
  <2> QED BY <2>4, <2>5, FS_Subset
<1>8. IsFiniteSet(UNION C)
  BY <1>6, <1>7, FS_UNION, Zenon
<1> HIDE DEF A
<1>9. IsFiniteSet(A \cup B) /\ IsFiniteSet((A \cup B) \cup UNION C)
  BY <1>2, <1>6, <1>8, FS_Union, Zenon
<1>10. Entries(c, metadata, retained, resume) \subseteq (A \cup B) \cup UNION C
  BY <1>4, <1>5, Zenon DEF Entries, A
<1> QED
  BY <1>9, <1>10, FS_Subset

LEMMA HydrationProperties ==
    ASSUME IInv, NEW c, NEW metadata \in BOOLEAN, NEW retained \in BOOLEAN, NEW resume,
           NEW q, q = Hydration(c, metadata, retained, resume)
    PROVE  Hydrates(q, c, retained, resume)
<1> DEFINE S == Entries(c, metadata, retained, resume)
<1>1. CASE ~metadata /\ ~retained
  <2>1. q = << >>
    BY <1>1, Zenon DEF Hydration
  <2>2. q \in Seq(Responses) /\ DOMAIN q = {}
    BY <2>1
  <2> QED BY <1>1, <2>2, Zenon DEF Hydrates
<1>2. CASE metadata \/ retained
  <2>1. q = InOrder(S)
    BY <1>2, Zenon DEF Hydration
  <2>2. IsFiniteSet(S) /\ Comparable(S)
    BY EntriesFinite, EntriesComparable, Zenon
  <2>3. \A x \in S : /\ x \in Responses /\ x.inc \in Nat /\ x.seq \in Nat
                     /\ x.tag = "event" => retained /\ Given(c, x.inc, x.seq, resume)
    BY <2>2, EntryPlace, Zenon DEF Comparable
  <2>4. ASSUME NEW i, NEW n, retained /\ Given(c, i, n, resume)
        PROVE  \E x \in S : x.tag = "event" /\ x.inc = i /\ x.seq = n
    <3> DEFINE id == log[i].id
    <3>1. id \in Selected(c) /\ streams[id].inc = i /\ id \in DOMAIN streams
      BY <2>4, Zenon DEF Given, Selected
    <3>2. Range(streams[id].history) = streams[id].first..Len(log[streams[id].inc].kinds)
      BY <3>1, RetainedRange, Zenon
    <3>3. /\ n \in Range(streams[id].history) /\ AcceptsKind(c, Kind(i, n))
          /\ id \in resume => n > CursorOf(c, id).seq
      BY <2>4, <3>1, <3>2, Zenon DEF Given, Kind
    <3>4. Event(i, n) \in Replay(c, id, resume)
      BY <3>1, <3>3, Zenon DEF Replay
    <3>5. Event(i, n) \in S
      BY <2>4, <3>1, <3>4, Zenon DEF Entries
    <3>6. Event(i, n).tag = "event" /\ Event(i, n).inc = i /\ Event(i, n).seq = n
      BY Zenon DEF Event
    <3> QED BY <3>5, <3>6, Zenon
  <2> HIDE DEF S
  <2>5. /\ q \in Seq(S)
        /\ \A x \in S : \E k \in DOMAIN q : q[k] = x
        /\ \A j, k \in DOMAIN q : j < k => Before(q[j], q[k])
    BY <2>1, <2>2, InOrderProperties, Zenon
  <2>6. \A k \in DOMAIN q : q[k] \in S
    BY <2>5
  <2>7. q \in Seq(Responses)
    BY <2>3, <2>5
  <2>8. \A k \in DOMAIN q : q[k].tag = "event" =>
           retained /\ Given(c, q[k].inc, q[k].seq, resume)
    BY <2>3, <2>6, Zenon
  <2>9. ASSUME NEW i, NEW n, retained /\ Given(c, i, n, resume)
        PROVE  \E k \in DOMAIN q : Queued(q, k, i) /\ q[k].seq = n
    <3>1. PICK x \in S : x.tag = "event" /\ x.inc = i /\ x.seq = n
      BY <2>4, <2>9
    <3>2. PICK k \in DOMAIN q : q[k] = x
      BY <2>5, Zenon
    <3> QED BY <3>1, <3>2, Zenon DEF Queued
  <2>10. ASSUME NEW j \in DOMAIN q, NEW k \in DOMAIN q, j < k, q[j].inc = q[k].inc
         PROVE  q[j].seq < q[k].seq
    <3>1. Before(q[j], q[k]) /\ q[j].inc \in Nat
      BY <2>3, <2>5, <2>6, <2>10, Zenon
    <3>2. ~(q[j].inc < q[k].inc)
      BY <2>10, <3>1
    <3> QED BY <3>1, <3>2, Zenon DEF Before
  <2> QED BY <2>7, <2>8, <2>9, <2>10, Zenon DEF Hydrates
<1> QED
  BY <1>1, <1>2, Zenon

-----------------------------------------------------------------------------
(* The invariant holds.                                                        *)

LEMMA NextInv ==
    IInv /\ [Next]_vars => IInv' /\ (MakesWay \/ UNCHANGED vars)
<1> SUFFICES ASSUME IInv, [Next]_vars PROVE IInv' /\ (MakesWay \/ UNCHANGED vars)
  OBVIOUS
<1>1. CASE UNCHANGED vars
  <2>1. /\ log' = log /\ streams' = streams /\ closedAt' = closedAt
        /\ running' = running /\ box' = box /\ sending' = sending /\ seen' = seen
    BY <1>1, Zenon DEF vars
  <2>2. LogOK' /\ TableOK' /\ HistoryOK'
    BY <2>1, SameTable, Zenon DEF IInv
  <2>3. BoxesOK' /\ SeenOK' /\ SendingOK'
    BY <2>1 DEF IInv, BoxesOK, SeenOK, SendingOK
  <2>4. RestOK'
    BY <2>1 DEF IInv, RestOK, Outgoing
  <2> QED BY <1>1, <2>2, <2>3, <2>4, Zenon DEF IInv
<1>2. ASSUME NEW id \in Ids, Open(id) \/ Close(id) \/ \E k \in Payloads : Send(id, k)
      PROVE  IInv' /\ MakesWay
  BY <1>2, OpenKeeps, CloseKeeps, SendKeeps, Zenon
<1>3. ASSUME NEW c \in Clients,
             \/ \E metadata, retained \in BOOLEAN, resume \in SUBSET Ids :
                   Subscribe(c, metadata, retained, resume)
             \/ Take(c) \/ Written(c) \/ Cancel(c) \/ Return(c)
      PROVE  IInv' /\ MakesWay
  <2>1. IInv'
    <3>1. ASSUME NEW metadata \in BOOLEAN, NEW retained \in BOOLEAN, NEW resume \in SUBSET Ids,
                 Subscribe(c, metadata, retained, resume)
          PROVE  IInv'
      BY <3>1, HydrationProperties, SubscribeKeeps, Zenon
    <3> QED BY <1>3, <3>1, TakeStepKeeps, WrittenKeeps, LeaveKeeps, Zenon
  <2>2. streams' = streams
    BY <1>3, Zenon DEF Subscribe, Take, Written, Cancel, Return
  <2> QED BY <2>1, <2>2, Zenon DEF MakesWay
<1> QED
  BY <1>1, <1>2, <1>3, Zenon DEF Next

(* The registry, its publishers and its subscribers never leave IInv.          *)
THEOREM RegistryInv ==
    Spec => []IInv
<1>1. IInv /\ [Next]_vars => IInv'
  BY NextInv, Zenon
<1> QED
  BY InitInv, <1>1, PTL DEF Spec

(* For every number of streams, subscribers, kinds and bytes: what a stream    *)
(* retains (publish, registry.cpp) is an unbroken run of its newest events     *)
(* within retention_bytes, and first_retained_sequence announces it.           *)
THEOREM HistoryStaysNewestRun ==
    Spec => []HistoryIsNewestRun
<1>1. IInv => HistoryIsNewestRun
  BY HistoryBytesIn, Zenon DEF IInv, HistoryOK, NewestRun, HistoryIsNewestRun, Kind
<1> QED
  BY <1>1, RegistryInv, PTL

(* Every mailbox stays within subscriber_bytes, and its counter is what its    *)
(* queue costs (Subscription::push and next), in a registry that keeps its     *)
(* types: each closed stream is listed once, in the order of closing.          *)
THEOREM MailboxStaysWithinBudget ==
    Spec => []MailboxWithinBudget
<1> SUFFICES ASSUME IInv PROVE MailboxWithinBudget
  BY RegistryInv, PTL
<1>1. TypeOK
  <2>1. Responses \cup {Nothing} \subseteq [tag : Tags, inc : Nat, seq : Nat]
    BY DEF Responses, Nothing, Marker, Tags
  <2>2. sending \in [Clients -> [tag : Tags, inc : Nat, seq : Nat]]
    BY <2>1 DEF IInv, SendingOK
  <2> QED BY <2>2, Zenon DEF IInv, LogOK, LogIs, TableOK, BoxesOK, SeenOK, TypeOK
<1>2. ASSUME NEW c \in Clients
      PROVE  /\ box[c].bytes = TotalCost(box[c].pending)
             /\ box[c].bytes <= SubscriberBytes
  <2>1. BoxIs(box[c], log)
    BY Zenon DEF IInv, BoxesOK
  <2>2. TotalCost(box[c].pending) = Total(Costs(log, box[c].pending))
    BY Zenon DEF TotalCost, Costs, Cost, CostIn, Kind
  <2> QED BY <2>1, <2>2, Zenon DEF BoxIs
<1> QED
  BY <1>1, <1>2, Zenon DEF MailboxWithinBudget

(* A live mailbox, with the response in Write, holds in order and once each    *)
(* event its client wants and has not got: no event is lost, doubled or        *)
(* reordered between the hydration of subscribe() and the pushes of publish(), *)
(* whatever is evicted, reopened or resumed meanwhile.                         *)
THEOREM MailboxHoldsTheRest ==
    Spec => []MailboxIsTheRest
<1> SUFFICES ASSUME IInv PROVE MailboxIsTheRest
  BY RegistryInv, PTL
<1>1. ASSUME NEW c \in running, ~box[c].stopped, NEW i \in DOMAIN log,
             AcceptsId(c, log[i].id)
      PROVE  LET queue  == Outgoing(c)
                 queued == {k \in DOMAIN queue : queue[k].tag = "event" /\ queue[k].inc = i}
                 owed   == {n \in 1..Len(log[i].kinds) : /\ n > seen[c][i]
                                                         /\ AcceptsKind(c, Kind(i, n))}
             IN  /\ {queue[k].seq : k \in queued} = owed
                 /\ \A j, k \in queued : j < k => queue[j].seq < queue[k].seq
  <2>1. RestIs(Outgoing(c), i, log, seen[c][i], c)
    BY <1>1, Zenon DEF IInv, RestOK
  <2> QED BY <2>1, Zenon DEF RestIs, Queued, Kind
<1> QED
  BY <1>1, Zenon DEF MailboxIsTheRest

(* Only the stream that closed first is evicted to make room for another       *)
(* (open, registry.cpp): a stream in use keeps its identity.                   *)
THEOREM OnlyOldestClosedMakesWay ==
    Spec => OldestClosedMakesWay
<1>1. IInv /\ [Next]_vars =>
         [\A id \in DOMAIN streams :
             id \notin DOMAIN streams' \/ streams'[id].inc # streams[id].inc =>
                /\ streams[id].closed
                /\ id = Head(closedAt)]_vars
  BY NextInv, Zenon DEF MakesWay
<1> QED
  BY <1>1, RegistryInv, PTL DEF Spec, OldestClosedMakesWay
=============================================================================
