--------------------------- MODULE NoticesProofs ---------------------------
(***************************************************************************)
(* Alerts for any number of watched things, rows, readings and restarts,   *)
(* and the watchdog for any threshold and any number of faults.            *)
(***************************************************************************)
EXTENDS MCNotices, FiniteSetTheorems, SequenceTheorems, WellFoundedInduction, TLAPS

-----------------------------------------------------------------------------
(* Functions defined step by step.                                         *)

\* A set of indices that holds 0 and, with one, the next, holds all.
LEMMA AllIndices ==
    ASSUME NEW N \in Nat, NEW G, 0 \in G, \A n \in 1..N : n - 1 \in G => n \in G
    PROVE  0..N \subseteq G
  <1> DEFINE R == OpToRel(<, Nat)
             bad == (0..N) \ G
  <1>1. IsWellFoundedOn(R, Nat)
    BY NatLessThanWellFounded
  <1>2. \A u, v \in Nat : <<v, u>> \in R <=> v < u
    BY DEF OpToRel
  <1> HIDE DEF R
  <1>3. SUFFICES ASSUME bad # {} PROVE FALSE
    OBVIOUS
  <1>4. bad \subseteq Nat
    OBVIOUS
  <1>5. PICK x \in bad : \A y \in bad : ~(<<y, x>> \in R)
    BY <1>1, <1>3, <1>4, WFMin
  <1>6. x \in 1..N /\ x \notin G
    BY <1>5
  <1>7. x - 1 \in bad
    BY <1>6
  <1>8. x \in Nat /\ x - 1 \in Nat /\ x - 1 < x
    BY <1>6
  <1> QED
    BY <1>2, <1>5, <1>7, <1>8

\* h starts with a and goes on by F.
StepByStep(h, N, U, a, F) ==
    h \in [0..N -> U] /\ h[0] = a /\ \A n \in 1..N : h[n] = F[h[n - 1]][n]

\* A function that is given at 0, and at n from its value at n - 1, exists.
LEMMA StepsExist ==
    ASSUME NEW N \in Nat, NEW U, NEW a \in U, NEW F \in [U -> [1..N -> U]]
    PROVE  \E h : StepByStep(h, N, U, a, F)
  <1> DEFINE Upto(m, h) == h[0] = a /\ \A n \in 1..m : h[n] = F[h[n - 1]][n]
             G == {m \in 0..N : \E h \in [0..m -> U] : Upto(m, h)}
  <1>g. ASSUME NEW m \in 0..N, NEW h \in [0..m -> U], Upto(m, h) PROVE m \in G
    BY <1>g
  <1>p. ASSUME NEW m \in G PROVE m \in 0..N /\ \E h \in [0..m -> U] : Upto(m, h)
    OBVIOUS
  <1> HIDE DEF G
  <1>1. 0 \in G
    <2> DEFINE h == [n \in 0..0 |-> a]
    <2>1. h \in [0..0 -> U] /\ Upto(0, h) /\ 0 \in 0..N
      OBVIOUS
    <2> HIDE DEF Upto, h
    <2> QED
      BY <2>1, <1>g
  <1>2. ASSUME NEW n \in 1..N, n - 1 \in G PROVE n \in G
    <2>1. PICK h \in [0..(n - 1) -> U] : Upto(n - 1, h)
      BY <1>2, <1>p
    <2> DEFINE g == [m \in 0..n |-> IF m = n THEN F[h[n - 1]][n] ELSE h[m]]
    <2>2. h[n - 1] \in U /\ F[h[n - 1]][n] \in U
      <3>1. n - 1 \in 0..(n - 1)
        OBVIOUS
      <3>2. h[n - 1] \in U
        BY <3>1
      <3> QED
        BY <3>2
    <2>3. g \in [0..n -> U]
      <3>1. ASSUME NEW m \in 0..n, m # n PROVE h[m] \in U
        BY <3>1
      <3> QED
        BY <3>1, <2>2
    <2>4. g[0] = a
      BY <2>1
    <2>5. ASSUME NEW m \in 1..n PROVE g[m] = F[g[m - 1]][m]
      <3>1. CASE m = n
        <4>1. g[m] = F[h[n - 1]][n] /\ g[m - 1] = h[n - 1]
          BY <3>1
        <4> QED
          BY <4>1, <3>1
      <3>2. CASE m # n
        <4>1. m \in 1..(n - 1) /\ g[m] = h[m] /\ g[m - 1] = h[m - 1]
          BY <3>2
        <4> QED
          BY <4>1, <2>1
      <3> QED
        BY <3>1, <3>2
    <2> HIDE DEF g
    <2>6. Upto(n, g)
      BY <2>4, <2>5
    <2>7. n \in 0..N
      OBVIOUS
    <2> HIDE DEF Upto
    <2> QED
      BY <2>3, <2>6, <2>7, <1>g
  <1>3. 0..N \subseteq G
    BY <1>1, <1>2, AllIndices
  <1>4. N \in 0..N
    OBVIOUS
  <1> QED
    BY <1>3, <1>4, <1>p DEF StepByStep
-----------------------------------------------------------------------------
(* The rows.                                                               *)

Of(rs) == {rs[n] : n \in DOMAIN rs}
Apart(rs) == \A m, n \in DOMAIN rs : rs[m] = rs[n] => m = n

\* ResolveAlertsFor gives up rows of K and no others, and keeps the order.
LEMMA ResolvedRows ==
    ASSUME NEW rs \in Seq(Keys), NEW K, Apart(rs)
    PROVE  /\ ResolveAlertsFor(rs, K) \in Seq(Keys)
           /\ Len(ResolveAlertsFor(rs, K)) <= Len(rs)
           /\ Apart(ResolveAlertsFor(rs, K))
           /\ Of(ResolveAlertsFor(rs, K)) \subseteq Of(rs) \ K
  <1> DEFINE N == Len(rs)
             kept[n \in 0..Len(rs)] ==
               IF n = 0 THEN <<>>
               ELSE IF rs[n] \in K THEN kept[n - 1] ELSE Append(kept[n - 1], rs[n])
             F == [x \in Seq(Keys) |-> [n \in 1..N |-> IF rs[n] \in K THEN x ELSE Append(x, rs[n])]]
  <1>1. ResolveAlertsFor(rs, K) = kept[N]
    BY DEF ResolveAlertsFor
  <1>2. N \in Nat /\ <<>> \in Seq(Keys) /\ \A n \in 1..N : rs[n] \in Keys
    OBVIOUS
  <1>3. F \in [Seq(Keys) -> [1..N -> Seq(Keys)]]
    <2> SUFFICES ASSUME NEW x \in Seq(Keys), NEW n \in 1..N
                 PROVE  (IF rs[n] \in K THEN x ELSE Append(x, rs[n])) \in Seq(Keys)
      OBVIOUS
    <2> QED
      BY <1>2
  <1>4. PICK h \in [0..N -> Seq(Keys)] : h[0] = <<>> /\ \A n \in 1..N : h[n] = F[h[n - 1]][n]
    <2> DEFINE U == Seq(Keys)
               none == <<>>
    <2>1. N \in Nat /\ none \in U /\ F \in [U -> [1..N -> U]]
      BY <1>2, <1>3
    <2> HIDE DEF F, N, U, none
    <2>2. \E h : StepByStep(h, N, U, none, F)
      BY <2>1, StepsExist
    <2> QED
      BY <2>2 DEF U, none, StepByStep
  <1>5. h = [n \in 0..N |-> IF n = 0 THEN <<>>
                            ELSE IF rs[n] \in K THEN h[n - 1] ELSE Append(h[n - 1], rs[n])]
    <2>1. ASSUME NEW n \in 1..N
          PROVE  h[n] = IF rs[n] \in K THEN h[n - 1] ELSE Append(h[n - 1], rs[n])
      <3>1. n - 1 \in 0..N
        BY <1>2
      <3>2. h[n - 1] \in Seq(Keys)
        BY <3>1, <1>4
      <3>3. h[n] = F[h[n - 1]][n]
        BY <1>4
      <3> QED
        BY <3>2, <3>3
    <2>2. h[0] = <<>> /\ h = [n \in 0..N |-> h[n]] /\ N \in Nat
      BY <1>2, <1>4
    <2> HIDE DEF N, F
    <2>3. \A n \in 0..N : n = 0 \/ n \in 1..N
      BY <2>2
    <2> QED
      BY <2>1, <2>2, <2>3
  <1>6. kept = [n \in 0..N |-> IF n = 0 THEN <<>>
                            ELSE IF rs[n] \in K THEN kept[n - 1] ELSE Append(kept[n - 1], rs[n])]
    BY <1>5
  <1> HIDE DEF kept
  <1>r. Len(rs) \in Nat /\ DOMAIN rs = 1..Len(rs)
    OBVIOUS
  <1>7. kept[0] = <<>> /\ \A n \in 1..N : kept[n] = IF rs[n] \in K THEN kept[n - 1]
                                                   ELSE Append(kept[n - 1], rs[n])
    <2> HIDE DEF N
    <2>1. 0 \in 0..N /\ \A n \in 1..N : n \in 0..N /\ n # 0
      BY <1>2
    <2> QED
      BY <1>6, <2>1
  <1> DEFINE Good(k, n) == /\ k \in Seq(Keys) /\ Len(k) <= n /\ Apart(k)
                           /\ \A j \in 1..Len(k) : k[j] \notin K /\ \E m \in 1..n : k[j] = rs[m]
             G == {n \in 0..N : Good(kept[n], n)}
  <1>8. 0 \in G
    <2>1. Good(<<>>, 0)
      BY <1>2 DEF Apart
    <2>2. 0 \in 0..N
      BY <1>2
    <2> HIDE DEF Good
    <2> QED
      BY <1>7, <2>1, <2>2
  <1>9. ASSUME NEW n \in 1..N, n - 1 \in G PROVE n \in G
    <2> DEFINE k == kept[n - 1]
    <2>1. Good(k, n - 1) /\ n - 1 \in Nat /\ n \in Nat /\ rs[n] \in Keys /\ n \in 0..N
      BY <1>2, <1>9
    <2>2. kept[n] = IF rs[n] \in K THEN k ELSE Append(k, rs[n])
      BY <1>7
    <2> HIDE DEF k
    <2>3. ASSUME rs[n] \in K PROVE Good(kept[n], n)
      BY <2>1, <2>2, <2>3
    <2>4. ASSUME rs[n] \notin K PROVE Good(kept[n], n)
      <3> DEFINE a == Append(k, rs[n])
      <3>1. a \in Seq(Keys) /\ Len(a) = Len(k) + 1 /\ a[Len(k) + 1] = rs[n] /\ \A j \in 1..Len(k) : a[j] = k[j]
        BY <2>1
      <3>2. ASSUME NEW j \in 1..Len(k) PROVE k[j] # rs[n]
        <4>1. PICK m \in 1..(n - 1) : k[j] = rs[m]
          BY <2>1
        <4>2. m \in DOMAIN rs /\ n \in DOMAIN rs /\ m # n
          BY <2>1
        <4> QED
          BY <4>1, <4>2 DEF Apart
      <3>3. Len(k) \in Nat /\ Len(a) <= n
        BY <3>1, <2>1
      <3> HIDE DEF a
      <3>4. DOMAIN a = 1..(Len(k) + 1) /\ DOMAIN k = 1..Len(k)
        BY <3>1, <2>1
      <3>5. Apart(a)
        <4> SUFFICES ASSUME NEW i \in 1..(Len(k) + 1), NEW j \in 1..(Len(k) + 1), a[i] = a[j] PROVE i = j
          BY <3>4 DEF Apart
        <4>1. CASE i = Len(k) + 1
          <5>1. j = Len(k) + 1 \/ j \in 1..Len(k)
            BY <3>3
          <5> QED
            BY <4>1, <5>1, <3>1, <3>2
        <4>2. CASE j = Len(k) + 1
          <5>1. i = Len(k) + 1 \/ i \in 1..Len(k)
            BY <3>3
          <5> QED
            BY <4>2, <5>1, <3>1, <3>2
        <4>3. CASE i # Len(k) + 1 /\ j # Len(k) + 1
          <5>l. PICK l \in Nat : l = Len(k)
            BY <3>3
          <5>1. i \in 1..Len(k) /\ j \in 1..Len(k)
            BY <4>3, <5>l
          <5> QED
            BY <5>1, <3>1, <3>4, <2>1 DEF Apart
        <4> QED
          BY <4>1, <4>2, <4>3
      <3>6. ASSUME NEW j \in 1..Len(a) PROVE a[j] \notin K /\ \E m \in 1..n : a[j] = rs[m]
        <4>1. CASE j = Len(k) + 1
          BY <4>1, <3>1, <2>4
        <4>2. CASE j # Len(k) + 1
          <5>1. j \in 1..Len(k)
            BY <4>2, <3>1, <3>3
          <5>2. PICK m \in 1..(n - 1) : k[j] = rs[m]
            BY <5>1, <2>1
          <5>3. m \in 1..n /\ k[j] \notin K /\ a[j] = k[j]
            BY <5>1, <2>1, <3>1
          <5> QED
            BY <5>2, <5>3
        <4> QED
          BY <4>1, <4>2
      <3>7. kept[n] = a
        BY <2>2, <2>4 DEF a
      <3> QED
        BY <3>1, <3>3, <3>5, <3>6, <3>7
    <2> HIDE DEF Good
    <2> QED
      BY <2>1, <2>3, <2>4
  <1> HIDE DEF G
  <1>10. 0..N \subseteq G
    BY <1>2, <1>8, <1>9, AllIndices
  <1>11. Good(kept[N], N)
    BY <1>2, <1>10 DEF G
  <1>12. Of(kept[N]) \subseteq Of(rs) \ K
    <2> DEFINE k == kept[N]
    <2>1. k \in Seq(Keys) /\ \A j \in 1..Len(k) : k[j] \notin K /\ \E m \in 1..N : k[j] = rs[m]
      BY <1>11
    <2> HIDE DEF k
    <2>2. DOMAIN k = 1..Len(k)
      BY <2>1
    <2> QED
      BY <2>1, <2>2, <1>r DEF Of, k
  <1> QED
    BY <1>1, <1>11, <1>12

\* AddAlert adds a row, and lets the oldest go when there are too many.
LEMMA AddedRow ==
    ASSUME NEW rs \in Seq(Keys), NEW k \in Keys, Apart(rs), k \notin Of(rs), Len(rs) <= MaxAlerts
    PROVE  /\ AddAlert(rs, k) \in Seq(Keys)
           /\ Len(AddAlert(rs, k)) <= MaxAlerts
           /\ Apart(AddAlert(rs, k))
           /\ Of(AddAlert(rs, k)) \subseteq Of(rs) \cup {k}
  <1>1. PICK l \in Nat : l = Len(rs) /\ DOMAIN rs = 1..l
    OBVIOUS
  <1>2. ASSUME NEW t \in Seq(Keys), NEW d \in Nat, NEW m \in Nat, m = Len(t), m + d = l,
               \A j \in 1..m : t[j] = rs[j + d]
        PROVE  /\ Append(t, k) \in Seq(Keys) /\ Len(Append(t, k)) = m + 1
               /\ Apart(Append(t, k)) /\ Of(Append(t, k)) \subseteq Of(rs) \cup {k}
    <2> DEFINE a == Append(t, k)
    <2>1. a \in Seq(Keys) /\ DOMAIN a = 1..(m + 1) /\ a[m + 1] = k /\ \A j \in 1..m : a[j] = t[j]
      BY <1>2
    <2>l. Len(a) = m + 1
      BY <1>2
    <2> HIDE DEF a
    <2>2. ASSUME NEW j \in 1..m PROVE j + d \in DOMAIN rs /\ a[j] = rs[j + d] /\ a[j] # k
      <3>1. j + d \in DOMAIN rs
        BY <1>1, <1>2
      <3>2. a[j] = rs[j + d]
        BY <1>2, <2>1
      <3> QED
        BY <3>1, <3>2 DEF Of
    <2>3. ASSUME NEW j \in 1..(m + 1) PROVE j = m + 1 \/ j \in 1..m
      BY <1>2
    <2>4. Apart(a)
      <3> SUFFICES ASSUME NEW i \in 1..(m + 1), NEW j \in 1..(m + 1), a[i] = a[j] PROVE i = j
        BY <2>1 DEF Apart
      <3>1. ASSUME i \in 1..m, j \in 1..m PROVE i = j
        <4>1. i + d = j + d
          BY <3>1, <2>2 DEF Apart
        <4> QED
          BY <4>1, <1>2
      <3> QED
        BY <3>1, <2>1, <2>2, <2>3
    <2>5. Of(a) \subseteq Of(rs) \cup {k}
      BY <2>1, <2>2, <2>3 DEF Of
    <2> QED
      BY <2>1, <2>l, <2>4, <2>5 DEF a
  <1>3. CASE l < MaxAlerts
    <2>1. AddAlert(rs, k) = Append(rs, k)
      BY <1>1, <1>3 DEF AddAlert
    <2>2. /\ Append(rs, k) \in Seq(Keys) /\ Len(Append(rs, k)) = l + 1
          /\ Apart(Append(rs, k)) /\ Of(Append(rs, k)) \subseteq Of(rs) \cup {k}
      BY <1>2, <1>1
    <2> QED
      BY <2>1, <2>2, <1>3, NoticesAssumption
  <1>4. CASE ~(l < MaxAlerts)
    <2>1. l = MaxAlerts /\ l > 0
      BY <1>1, <1>4, NoticesAssumption
    <2>2. AddAlert(rs, k) = Append(Tail(rs), k)
      BY <1>1, <1>4 DEF AddAlert
    <2>r. rs # <<>>
      BY <1>1, <2>1
    <2>h. /\ Tail(rs) \in Seq(Keys) /\ Len(Tail(rs)) = Len(rs) - 1
          /\ \A i \in 1..Len(Tail(rs)) : Tail(rs)[i] = rs[i + 1]
      BY <2>r, HeadTailProperties
    <2>4. PICK m \in Nat : m = l - 1
      BY <2>1
    <2>t. PICK t : t = Tail(rs)
      OBVIOUS
    <2>3. t \in Seq(Keys) /\ m = Len(t) /\ m + 1 = l /\ \A j \in 1..m : t[j] = rs[j + 1]
      <3>1. t \in Seq(Keys) /\ Len(t) = l - 1 /\ \A j \in 1..Len(t) : t[j] = rs[j + 1]
        BY <1>1, <2>h, <2>t
      <3> QED
        BY <3>1, <2>4
    <2>5. /\ Append(t, k) \in Seq(Keys) /\ Len(Append(t, k)) = m + 1
          /\ Apart(Append(t, k)) /\ Of(Append(t, k)) \subseteq Of(rs) \cup {k}
      BY <1>2, <2>3, <2>4
    <2> QED
      BY <2>1, <2>2, <2>t, <2>4, <2>5
  <1> QED
    BY <1>3, <1>4

\* A row resolved by hand leaves the others as they are.
LEMMA RowGone ==
    ASSUME NEW rs \in Seq(Keys), Apart(rs), NEW n \in DOMAIN rs,
           NEW r, r = SubSeq(rs, 1, n - 1) \o SubSeq(rs, n + 1, Len(rs))
    PROVE  r \in Seq(Keys) /\ Len(r) <= Len(rs) /\ Apart(r) /\ Of(r) \subseteq Of(rs)
  <1>1. PICK l \in Nat : l = Len(rs)
    OBVIOUS
  <1>s. SubSeq(rs, n + 1, Len(rs)) = SubSeq(rs, n + 1, l)
    BY <1>1
  <1>d. DOMAIN rs = 1..l /\ n \in 1..l /\ \A j \in 1..l : rs[j] \in Keys
    BY <1>1
  <1>i. PICK i \in Nat : i = n - 1
    BY <1>d
  <1>2. PICK u : u = SubSeq(rs, 1, i)
    OBVIOUS
  <1>3. PICK v : v = SubSeq(rs, n + 1, l)
    OBVIOUS
  <1>4. u \in Seq(Keys) /\ Len(u) = i /\ \A j \in 1..i : u[j] = rs[j]
    <2>1. 1 \in Int /\ i \in Int /\ \A j \in 1..i : rs[j] \in Keys
      BY <1>d, <1>i
    <2>2. /\ SubSeq(rs, 1, i) \in Seq(Keys) /\ Len(SubSeq(rs, 1, i)) = IF 1 <= i THEN i - 1 + 1 ELSE 0
          /\ \A j \in 1..(i - 1 + 1) : SubSeq(rs, 1, i)[j] = rs[1 + j - 1]
      BY <2>1, SubSeqProperties
    <2>3. (i - 1) + 1 = i /\ \A j \in 1..i : 1 + j - 1 = j
      OBVIOUS
    <2>4. (IF 1 <= i THEN i - 1 + 1 ELSE 0) = i
      OBVIOUS
    <2> QED
      BY <1>2, <2>2, <2>3, <2>4
  <1>5. v \in Seq(Keys) /\ Len(v) = l - n /\ \A j \in 1..(l - n) : v[j] = rs[n + j]
    <2>1. n + 1 \in Int /\ l \in Int /\ \A j \in (n + 1)..l : rs[j] \in Keys
      BY <1>d
    <2>2. /\ SubSeq(rs, n + 1, l) \in Seq(Keys)
          /\ Len(SubSeq(rs, n + 1, l)) = IF n + 1 <= l THEN l - (n + 1) + 1 ELSE 0
          /\ \A j \in 1..(l - (n + 1) + 1) : SubSeq(rs, n + 1, l)[j] = rs[(n + 1) + j - 1]
      BY <2>1, SubSeqProperties
    <2>3. l - (n + 1) + 1 = l - n /\ \A j \in 1..(l - n) : (n + 1) + j - 1 = n + j
      BY <1>d
    <2>4. (IF n + 1 <= l THEN l - (n + 1) + 1 ELSE 0) = l - n
      BY <1>d
    <2> QED
      BY <1>3, <2>2, <2>3, <2>4
  <1>6. /\ r \in Seq(Keys) /\ Len(r) = Len(u) + Len(v)
        /\ \A j \in 1..(Len(u) + Len(v)) : r[j] = IF j <= Len(u) THEN u[j] ELSE v[j - Len(u)]
    <2>1. r = u \o v
      BY <1>s, <1>i, <1>2, <1>3
    <2>2. /\ u \o v \in Seq(Keys) /\ Len(u \o v) = Len(u) + Len(v)
          /\ \A j \in 1..(Len(u) + Len(v)) : (u \o v)[j] = IF j <= Len(u) THEN u[j] ELSE v[j - Len(u)]
      <3>1. u \in Seq(Keys) /\ v \in Seq(Keys)
        BY <1>4, <1>5
      <3> QED
        BY ONLY <3>1, ConcatProperties
    <2> QED
      BY ONLY <2>1, <2>2
  <1>l. PICK m \in Nat : m = l - 1
    BY <1>d
  <1>7. Len(u) + Len(v) = m
    BY <1>4, <1>5, <1>i, <1>l, <1>d
  <1>8. DOMAIN r = 1..m /\ Len(r) = m
    BY <1>6, <1>7
  <1> DEFINE at(j) == IF j <= i THEN j ELSE j + 1
  <1>9. ASSUME NEW j \in 1..m PROVE r[j] = rs[at(j)] /\ at(j) \in 1..l
    <2>0. r[j] = IF j <= i THEN u[j] ELSE v[j - i]
      BY <1>4, <1>6, <1>7
    <2>1. CASE j <= i
      <3>1. j \in 1..i /\ j \in 1..l
        BY <2>1, <1>d, <1>i
      <3> QED
        BY <3>1, <2>0, <2>1, <1>4
    <2>2. CASE ~(j <= i)
      <3>1. j - i \in 1..(l - n) /\ n + (j - i) = j + 1 /\ j + 1 \in 1..l
        BY <2>2, <1>d, <1>i, <1>l
      <3>2. v[j - i] = rs[n + (j - i)]
        BY <3>1, <1>5
      <3> QED
        BY <3>1, <3>2, <2>0, <2>2
    <2> QED
      BY <2>1, <2>2
  <1>10. Apart(r)
    <2> SUFFICES ASSUME NEW p \in 1..m, NEW q \in 1..m, r[p] = r[q] PROVE p = q
      BY <1>8 DEF Apart
    <2>1. at(p) = at(q)
      <3>1. rs[at(p)] = rs[at(q)] /\ at(p) \in DOMAIN rs /\ at(q) \in DOMAIN rs
        <4> HIDE DEF at
        <4> QED
          BY <1>d, <1>9
      <3> HIDE DEF at
      <3> QED
        BY <3>1 DEF Apart
    <2> QED
      BY <2>1, <1>i
  <1> HIDE DEF at
  <1>11. Of(r) \subseteq Of(rs)
    <2> SUFFICES ASSUME NEW j \in DOMAIN r PROVE r[j] \in Of(rs)
      BY Zenon DEF Of
    <2>1. j \in 1..m
      BY <1>8
    <2>2. PICK k : k \in DOMAIN rs /\ r[j] = rs[k]
      BY <2>1, <1>9, <1>d
    <2> QED
      BY <2>2, Zenon DEF Of
  <1> QED
    BY <1>1, <1>l, <1>6, <1>8, <1>10, <1>11, SMTT(30)

\* Rows that are apart are as many as the keys they hold.
LEMMA RowsCount ==
    ASSUME NEW rs \in Seq(Keys), Apart(rs)
    PROVE  Cardinality(Of(rs)) = Len(rs)
  <1>1. Len(rs) \in Nat /\ DOMAIN rs = 1..Len(rs)
    OBVIOUS
  <1>2. rs \in Bijection(1..Len(rs), Of(rs))
    <2>1. rs \in [1..Len(rs) -> Of(rs)]
      BY <1>1 DEF Of
    <2>2. \A t \in Of(rs) : \E s \in 1..Len(rs) : rs[s] = t
      BY <1>1 DEF Of
    <2>3. \A m, n \in 1..Len(rs) : rs[m] = rs[n] => m = n
      BY <1>1 DEF Apart
    <2> QED
      BY <2>1, <2>2, <2>3 DEF Bijection, Injection, Surjection, IsInjective
  <1>3. ExistsBijection(1..Len(rs), Of(rs))
    BY <1>2 DEF ExistsBijection
  <1> QED
    BY <1>1, <1>3, FS_CountingElements

-----------------------------------------------------------------------------
(* An evaluation.                                                          *)

RunStates == [active : SUBSET Keys, rows : Seq(Keys), fired : SUBSET Keys]

\* The engine and its rows in the course of an evaluation: the rows are of
\* active alerts and apart; the alerts of T, not over, stay active and are not
\* fired; what was fired is active unless it is over, in R.
RunOK(s, T, R) ==
    /\ s \in RunStates
    /\ Len(s.rows) <= MaxAlerts /\ Apart(s.rows) /\ Of(s.rows) \subseteq s.active
    /\ T \subseteq s.active /\ s.fired \cap T = {} /\ s.fired \ R \subseteq s.active

\* A step fires one key, or clears keys that are over.
StepsOf(R) ==
    {[op |-> "fire", keys |-> {k}] : k \in Keys} \cup {[op |-> "clear", keys |-> K] : K \in SUBSET R}

\* fire and clear keep the engine and its rows in step.
LEMMA DoKeeps ==
    ASSUME NEW T, NEW R, R \subseteq Keys, T \cap R = {}, NEW s, RunOK(s, T, R), NEW step \in StepsOf(R)
    PROVE  RunOK(Do(s, step), T, R)
  <1>1. PICK a, r, f : s = [active |-> a, rows |-> r, fired |-> f] /\ a = s.active /\ r = s.rows /\ f = s.fired
    BY DEF RunOK, RunStates
  <1>2. /\ a \subseteq Keys /\ r \in Seq(Keys) /\ f \subseteq Keys /\ Len(r) <= MaxAlerts
        /\ Apart(r) /\ Of(r) \subseteq a /\ T \subseteq a /\ f \cap T = {} /\ f \ R \subseteq a
    BY <1>1 DEF RunOK, RunStates
  <1>3. ASSUME NEW k \in Keys, step = [op |-> "fire", keys |-> {k}] PROVE RunOK(Do(s, step), T, R)
    <2>1. step.op = "fire" /\ step.keys = {k} /\ (CHOOSE x \in step.keys : TRUE) = k
      BY <1>3
    <2>2. CASE k \in a
      <3>1. Do(s, step) = s
        BY <1>1, <2>1, <2>2 DEF Do
      <3> QED
        BY <3>1
    <2>3. CASE k \notin a
      <3>1. PICK n : n = AddAlert(r, k)
        OBVIOUS
      <3>2. Do(s, step) = [active |-> a \cup {k}, rows |-> n, fired |-> f \cup {k}]
        BY <1>1, <2>1, <2>3, <3>1 DEF Do
      <3>3. n \in Seq(Keys) /\ Len(n) <= MaxAlerts /\ Apart(n) /\ Of(n) \subseteq Of(r) \cup {k}
        <4>1. k \notin Of(r)
          BY <1>2, <2>3
        <4> QED
          BY <4>1, <1>2, <3>1, AddedRow
      <3>4. /\ a \cup {k} \subseteq Keys /\ f \cup {k} \subseteq Keys
            /\ Of(n) \subseteq a \cup {k} /\ T \subseteq a \cup {k}
            /\ (f \cup {k}) \cap T = {} /\ (f \cup {k}) \ R \subseteq a \cup {k}
        BY <1>2, <3>3, <2>3
      <3> QED
        BY <3>2, <3>3, <3>4 DEF RunOK, RunStates
    <2> QED
      BY <2>2, <2>3
  <1>4. ASSUME NEW K \in SUBSET R, step = [op |-> "clear", keys |-> K] PROVE RunOK(Do(s, step), T, R)
    <2>1. step.op = "clear" /\ step.keys = K
      BY <1>4
    <2>2. PICK n : n = ResolveAlertsFor(r, K \cap a)
      OBVIOUS
    <2>3. Do(s, step) = [active |-> a \ K, rows |-> n, fired |-> f]
      BY <1>1, <2>1, <2>2 DEF Do
    <2>4. n \in Seq(Keys) /\ Len(n) <= Len(r) /\ Apart(n) /\ Of(n) \subseteq Of(r) \ (K \cap a)
      BY <1>2, <2>2, ResolvedRows
    <2>5. Len(n) <= MaxAlerts
      <3>1. Len(n) \in Nat /\ Len(r) \in Nat
        BY <1>2, <2>4
      <3> QED
        BY <3>1, <2>4, <1>2, NoticesAssumption
    <2>6. a \ K \subseteq Keys /\ Of(n) \subseteq a \ K /\ T \subseteq a \ K /\ f \ R \subseteq a \ K
      BY <1>2, <2>4
    <2> QED
      BY <2>3, <2>4, <2>5, <2>6, <1>2 DEF RunOK, RunStates
  <1> QED
    BY <1>3, <1>4 DEF StepsOf

\* An evaluation, step by step.
LEMMA RunKeeps ==
    ASSUME NEW T, NEW R, R \subseteq Keys, T \cap R = {}, RunOK(State, T, R), NEW steps \in Seq(StepsOf(R))
    PROVE  RunOK(Run(steps), T, R)
  <1> DEFINE N == Len(steps)
             U == {s \in RunStates : RunOK(s, T, R)}
             after[n \in 0..Len(steps)] == IF n = 0 THEN State ELSE Do(after[n - 1], steps[n])
             F == [s \in U |-> [n \in 1..N |-> Do(s, steps[n])]]
  <1>1. Run(steps) = after[N]
    BY DEF Run
  <1>2. N \in Nat /\ State \in U /\ \A n \in 1..N : steps[n] \in StepsOf(R)
    BY DEF RunOK
  <1>3. ASSUME NEW s \in U, NEW n \in 1..N PROVE Do(s, steps[n]) \in U
    <2>1. RunOK(Do(s, steps[n]), T, R)
      BY <1>2, DoKeeps
    <2> QED
      BY <2>1 DEF RunOK
  <1> HIDE DEF U
  <1>4. F \in [U -> [1..N -> U]]
    BY <1>3
  <1>5. PICK h : StepByStep(h, N, U, State, F)
    <2> HIDE DEF N, F
    <2> QED
      BY <1>2, <1>4, StepsExist
  <1>6. h[0] = State /\ \A n \in 1..N : h[n] = Do(h[n - 1], steps[n])
    <2>1. ASSUME NEW n \in 1..N PROVE h[n] = Do(h[n - 1], steps[n])
      <3>1. n - 1 \in 0..N
        BY <1>2
      <3>2. h[n - 1] \in U /\ h[n] = F[h[n - 1]][n]
        BY <3>1, <1>5 DEF StepByStep
      <3> QED
        BY <3>2
    <2> QED
      BY <2>1, <1>5 DEF StepByStep
  <1> HIDE DEF N, F
  <1>i. 0 \in 0..N /\ (\A n \in 0..N : n = 0 \/ n \in 1..N) /\ (\A n \in 1..N : n \in 0..N /\ n # 0)
    BY <1>2
  <1>7. h = [n \in 0..N |-> IF n = 0 THEN State ELSE Do(h[n - 1], steps[n])]
    <2>1. h = [n \in 0..N |-> h[n]]
      BY <1>5 DEF StepByStep
    <2> QED
      BY <2>1, <1>6, <1>i
  <1>8. after = [n \in 0..N |-> IF n = 0 THEN State ELSE Do(after[n - 1], steps[n])]
    BY <1>7 DEF N
  <1> HIDE DEF after
  <1>9. after[0] = State /\ \A n \in 1..N : after[n] = Do(after[n - 1], steps[n])
    BY <1>8, <1>i
  <1> DEFINE G == {n \in 0..N : after[n] \in U}
  <1>10. 0 \in G
    BY <1>2, <1>9, <1>i
  <1>11. ASSUME NEW n \in 1..N, n - 1 \in G PROVE n \in G
    BY <1>11, <1>3, <1>9, <1>i
  <1> HIDE DEF G
  <1>12. 0..N \subseteq G
    BY <1>2, <1>10, <1>11, AllIndices
  <1>13. after[N] \in U
    BY <1>2, <1>12 DEF G
  <1> QED
    BY <1>1, <1>13 DEF U

-----------------------------------------------------------------------------
(* What an evaluation clears is over.                                      *)

Ended == {k \in Keys : Relieves(k, reading[k.item])}
Planned == Seq(StepsOf(Ended))

\* The steps an evaluation is put together from.
LEMMA PlannedSteps ==
    /\ None \in Planned
    /\ \A k \in Keys : Fires(k) \in Planned
    /\ \A K \in SUBSET Ended : Clears(K) \in Planned
    /\ \A s, t \in Planned : s \o t \in Planned
  <1>1. None \in Planned /\ \A s, t \in Planned : s \o t \in Planned
    BY DEF None, Planned
  <1>2. ASSUME NEW k \in Keys PROVE Fires(k) \in Planned
    <2>1. [op |-> "fire", keys |-> {k}] \in StepsOf(Ended)
      BY DEF StepsOf
    <2> HIDE DEF StepsOf
    <2> QED
      BY <2>1 DEF Fires, Planned
  <1>3. ASSUME NEW K \in SUBSET Ended PROVE Clears(K) \in Planned
    <2>1. [op |-> "clear", keys |-> K] \in StepsOf(Ended)
      BY DEF StepsOf
    <2> QED
      BY <2>1 DEF Clears, Planned
  <1> QED
    BY <1>1, <1>2, <1>3

\* Every kind of item: what its evaluation clears, its reading has relieved.
LEMMA EvaluatePlanned ==
    ASSUME NEW i \in Items, reading[i] \in Readings[kind[i]]
    PROVE  Evaluate(i) \in Planned
  <1>k. \A l \in Levels : Key(i, l) \in Keys /\ Key(i, l).item = i /\ Key(i, l).level = l
    BY DEF Key, Keys
  <1>e. ASSUME NEW l \in Levels, Relieves(Key(i, l), reading[i]) PROVE Key(i, l) \in Ended
    BY <1>e, <1>k DEF Ended
  <1>r. ASSUME NEW l \in Levels, reading[i] \in {"low", "ok", "running", "bounced"} PROVE Key(i, l) \in Ended
    BY <1>e, <1>r DEF Relieves
  <1>c. ASSUME NEW l \in Levels, kind[i] \in {"cert", "metric"}, reading[i] \in (Levels \ {l}) \cup {"gone"}
        PROVE  Key(i, l) \in Ended
    <2>1. Relieves(Key(i, l), reading[i])
      BY <1>c, <1>k DEF Relieves
    <2> QED
      BY <2>1, <1>e
  <1>l. {"high", "crash", "restart", "error", "warn", "crit", "expired"} \subseteq Levels
    BY DEF Levels
  <1>1. EvaluateLoad(i) \in Planned /\ EvaluateDisk(i) \in Planned /\ EvaluateProxy(i) \in Planned
    <2>1. {"high", "error"} \subseteq Levels
      BY <1>l
    <2>2. \A l \in {"high", "error"} : Fires(Key(i, l)) \in Planned /\ None \in Planned
      BY <2>1, <1>k, PlannedSteps
    <2>3. ASSUME NEW l \in {"high", "error"}, reading[i] \in {"low", "ok"} PROVE Clears({Key(i, l)}) \in Planned
      <3>1. {Key(i, l)} \in SUBSET Ended
        BY <2>1, <2>3, <1>r
      <3> QED
        BY <3>1, PlannedSteps
    <2>4. EvaluateLoad(i) \in Planned
      BY <2>2, <2>3 DEF EvaluateLoad
    <2>5. EvaluateDisk(i) \in Planned
      BY <2>2, <2>3 DEF EvaluateDisk
    <2>6. EvaluateProxy(i) \in Planned
      BY <2>2, <2>3 DEF EvaluateProxy
    <2> QED
      BY <2>4, <2>5, <2>6
  <1>2. EvaluateContainer(i) \in Planned
    <2>1. {"crash", "restart"} \subseteq Levels
      BY <1>l
    <2>2. \A l \in {"crash", "restart"} : Fires(Key(i, l)) \in Planned /\ None \in Planned
      BY <2>1, <1>k, PlannedSteps
    <2>3. ASSUME reading[i] \in {"running", "bounced"}
          PROVE  Clears({Key(i, "crash"), Key(i, "restart")}) \in Planned
      <3>1. {Key(i, "crash"), Key(i, "restart")} \in SUBSET Ended
        BY <2>1, <2>3, <1>r
      <3> QED
        BY <3>1, PlannedSteps
    <2>4. ASSUME NEW A, NEW B, NEW C, Fires(Key(i, "crash")) \in Planned, Fires(Key(i, "restart")) \in Planned,
                 A = (IF prev[i] \in {"running", "bounced"} /\ reading[i] = "crashed"
                      THEN Fires(Key(i, "crash")) ELSE None),
                 B = (IF reading[i] \in {"bounced", "restarting"} /\ prev[i] # reading[i]
                      THEN Fires(Key(i, "restart")) ELSE None),
                 C = (IF reading[i] \in {"running", "bounced"}
                      THEN Clears({Key(i, "crash"), Key(i, "restart")}) ELSE None)
          PROVE  A \o B \o C \in Planned
      <3>1. A \in Planned /\ B \in Planned /\ C \in Planned
        BY <2>2, <2>3, <2>4
      <3>2. A \o B \in Planned
        BY <3>1, PlannedSteps
      <3> QED
        BY <3>1, <3>2, PlannedSteps
    <2> QED
      BY <2>2, <2>4 DEF EvaluateContainer
  <1>3. ASSUME NEW L \in SUBSET Levels, kind[i] \in {"cert", "metric"},
               reading[i] \in Levels \cup {"low", "ok", "gone"}
        PROVE  ClearOthers(i, L) \in Planned
    <2>1. ASSUME NEW l \in L \ {reading[i]} PROVE Key(i, l) \in Ended
      <3>1. l \in Levels /\ l # reading[i]
        BY <2>1
      <3>2. CASE reading[i] \in {"low", "ok"}
        BY <3>1, <3>2, <1>r
      <3>3. CASE reading[i] \in Levels \cup {"gone"}
        <4>1. reading[i] \in (Levels \ {l}) \cup {"gone"}
          BY <3>1, <3>3
        <4> QED
          BY <3>1, <4>1, <1>3, <1>c
      <3> QED
        BY <3>2, <3>3, <1>3
    <2>2. {Key(i, l) : l \in L \ {reading[i]}} \in SUBSET Ended
      BY <2>1
    <2> QED
      BY <2>2, PlannedSteps DEF ClearOthers
  <1>4. ASSUME kind[i] = "cert" PROVE EvaluateCert(i) \in Planned
    <2>1. reading[i] \in Levels \cup {"low", "ok", "gone"} /\ certLevels \in SUBSET Levels
      BY <1>4, <1>l DEF Readings, certLevels
    <2>2. ClearOthers(i, certLevels) \in Planned
      BY <2>1, <1>3, <1>4
    <2>3. (IF reading[i] \in certLevels THEN Fires(Key(i, reading[i])) ELSE None) \in Planned
      BY <2>1, <1>k, PlannedSteps
    <2> QED
      BY <2>2, <2>3, PlannedSteps DEF EvaluateCert
  <1>5. ASSUME kind[i] = "metric" PROVE EvaluateMetric(i) \in Planned
    <2>1. reading[i] \in {"low", "mid", "warn", "crit", "gone"} /\ {"warn", "crit"} \in SUBSET Levels
      BY <1>5, <1>l DEF Readings
    <2>2. reading[i] # "mid" => ClearOthers(i, {"warn", "crit"}) \in Planned
      BY <2>1, <1>3, <1>5
    <2>3. Sustained(i) => reading[i] \in {"warn", "crit"} /\ Fires(Key(i, reading[i])) \in Planned
      <3>1. Sustained(i) => reading[i] \in {"warn", "crit"}
        BY <1>5 DEF Sustained, Over
      <3> QED
        BY <3>1, <2>1, <1>k, PlannedSteps
    <2> QED
      BY <2>1, <2>2, <2>3, PlannedSteps DEF EvaluateMetric
  <1> QED
    BY <1>1, <1>2, <1>4, <1>5, PlannedSteps DEF Evaluate

-----------------------------------------------------------------------------
(* The alerts.                                                             *)

\* The items, as TypeOK has them.
ItemsOK ==
    /\ kind \in [Items -> DOMAIN Readings] /\ DOMAIN reading = Items
    /\ \A i \in Items : /\ reading[i] \in Readings[kind[i]]
                        /\ prev[i] \in Readings[kind[i]] \cup {Unknown}
    /\ since \in [Items -> Ages]
    /\ users \in 0..MaxUser /\ restarts \in 0..MaxRestarts

\* The engine and its rows: every row is of an active alert, no two are of the
\* same, and what was told and is not over is active, so that it is not fired.
EngineOK ==
    /\ active \subseteq Keys /\ told \subseteq active /\ again = FALSE
    /\ rows \in Seq(Keys) /\ Len(rows) <= MaxAlerts /\ Apart(rows) /\ Of(rows) \subseteq active

AlertsInv == ItemsOK /\ EngineOK

\* What a run from the present state ends in, given which alerts are over.
LEMMA EngineAfter ==
    ASSUME EngineOK, NEW R, R \subseteq Keys
    PROVE  RunOK(State, told \ R, R)
  BY DEF EngineOK, RunOK, RunStates, State

\* Frame runs planned steps.
LEMMA FramePlanned ==
    ASSUME ItemsOK, Frame
    PROVE  \E steps \in Planned : Apply(steps)
  <1> DEFINE N == NumItems
             upTo[n \in 0..NumItems] == IF n = 0 THEN None ELSE upTo[n - 1] \o Evaluate(n)
             F == [s \in Planned |-> [n \in 1..N |-> s \o Evaluate(n)]]
             U == Planned
  <1>1. Apply(upTo[N])
    BY DEF Frame
  <1>2. N \in Nat /\ None \in U
    BY NoticesAssumption, PlannedSteps
  <1>3. \A n \in 1..N : Evaluate(n) \in Planned
    BY EvaluatePlanned DEF ItemsOK, Items
  <1>4. F \in [U -> [1..N -> U]]
    BY <1>3, PlannedSteps
  <1>5. PICK h : StepByStep(h, N, U, None, F)
    <2> HIDE DEF N, F, U
    <2> QED
      BY <1>2, <1>4, StepsExist
  <1>6. h[0] = None /\ \A n \in 1..N : h[n] = h[n - 1] \o Evaluate(n)
    <2>1. ASSUME NEW n \in 1..N PROVE h[n] = h[n - 1] \o Evaluate(n)
      <3>1. n - 1 \in 0..N
        BY <1>2
      <3>2. h[n - 1] \in U /\ h[n] = F[h[n - 1]][n]
        BY <3>1, <1>5 DEF StepByStep
      <3> QED
        BY <3>2
    <2> QED
      BY <2>1, <1>5 DEF StepByStep
  <1> HIDE DEF F
  <1>i. 0 \in 0..N /\ (\A n \in 0..N : n = 0 \/ n \in 1..N) /\ (\A n \in 1..N : n \in 0..N /\ n # 0)
    BY <1>2
  <1>7. h = [n \in 0..N |-> IF n = 0 THEN None ELSE h[n - 1] \o Evaluate(n)]
    <2>1. h = [n \in 0..N |-> h[n]]
      BY <1>5 DEF StepByStep
    <2> QED
      BY <2>1, <1>6, <1>i
  <1>8. upTo = [n \in 0..N |-> IF n = 0 THEN None ELSE upTo[n - 1] \o Evaluate(n)]
    BY <1>7
  <1> HIDE DEF upTo
  <1>9. upTo[0] = None /\ \A n \in 1..N : upTo[n] = upTo[n - 1] \o Evaluate(n)
    BY <1>8, <1>i
  <1> DEFINE G == {n \in 0..N : upTo[n] \in Planned}
  <1>10. 0 \in G
    BY <1>2, <1>9, <1>i
  <1>11. ASSUME NEW n \in 1..N, n - 1 \in G PROVE n \in G
    BY <1>11, <1>3, <1>9, <1>i, PlannedSteps
  <1> HIDE DEF G
  <1>12. 0..N \subseteq G
    BY <1>2, <1>10, <1>11, AllIndices
  <1>13. N \in 0..N
    BY <1>2
  <1> QED
    BY <1>1, <1>12, <1>13 DEF G

\* The end of an evaluation is a good state of the engine.
LEMMA EngineStep ==
    ASSUME NEW s, NEW T, NEW R, RunOK(s, T, R), again = FALSE,
           active' = s.active, rows' = s.rows,
           told' \subseteq T \cup (s.fired \ R), again' = (again \/ s.fired \cap T # {})
    PROVE  EngineOK'
  <1>1. /\ s.active \subseteq Keys /\ s.rows \in Seq(Keys) /\ Len(s.rows) <= MaxAlerts
        /\ Apart(s.rows) /\ Of(s.rows) \subseteq s.active
        /\ T \subseteq s.active /\ s.fired \cap T = {} /\ s.fired \ R \subseteq s.active
    BY DEF RunOK, RunStates
  <1>2. again' = FALSE
    BY <1>1
  <1>3. Apart(rows)' /\ (Of(rows) \subseteq active)'
    BY <1>1 DEF Apart, Of
  <1> QED
    BY <1>1, <1>2, <1>3 DEF EngineOK, Keys, Items

\* Init.
LEMMA AlertsStart ==
    ASSUME Init
    PROVE  AlertsInv
  <1>1. ItemsOK
    <2>1. kind \in [Items -> DOMAIN Readings]
      BY NoticesAssumption DEF Init
    <2>2. NotOver \in Ages
      BY NoticesAssumption DEF NotOver, Ages
    <2>3. since \in [Items -> Ages] /\ users \in 0..MaxUser /\ restarts \in 0..MaxRestarts
      BY <2>2, NoticesAssumption DEF Init
    <2>4. DOMAIN reading = Items /\ \A i \in Items : reading[i] \in Readings[kind[i]] /\ prev[i] = Unknown
      BY DEF Init
    <2> QED
      BY <2>1, <2>3, <2>4 DEF ItemsOK
  <1>2. EngineOK
    BY NoticesAssumption DEF Init, EngineOK, Apart, Of
  <1> QED
    BY <1>1, <1>2 DEF AlertsInv

\* One firing or clearing, from the present state.
LEMMA OneStep ==
    ASSUME EngineOK, NEW R, R \subseteq Keys, NEW step \in StepsOf(R)
    PROVE  RunOK(Do(State, step), told \ R, R)
  <1>1. (told \ R) \cap R = {}
    OBVIOUS
  <1> QED
    BY <1>1, EngineAfter, DoKeeps

\* Every action keeps the engine and its rows in step.
LEMMA EngineNext ==
    ASSUME AlertsInv, [Next]_vars
    PROVE  EngineOK'
  <1>a. EngineOK /\ ItemsOK /\ again = FALSE /\ told \subseteq Keys
    BY DEF AlertsInv, EngineOK
  <1>1. ASSUME UNCHANGED <<active, rows, told, again>> PROVE EngineOK'
    BY <1>1, <1>a DEF EngineOK, Of, Apart
  <1>2. CASE Frame
    <2>1. PICK steps \in Planned : Apply(steps)
      BY <1>2, <1>a, FramePlanned
    <2>2. PICK R : R = Ended
      OBVIOUS
    <2>3. R \subseteq Keys /\ (told \ R) \cap R = {} /\ steps \in Seq(StepsOf(R))
      BY <2>1, <2>2 DEF Ended, Planned
    <2>4. PICK s : s = Run(steps)
      OBVIOUS
    <2>5. RunOK(s, told \ R, R)
      BY <1>a, <2>3, <2>4, EngineAfter, RunKeeps
    <2>6. s.fired \subseteq Keys
      BY <2>5 DEF RunOK, RunStates
    <2>7. {k \in told : ~Relieves(k, reading[k.item])} = told \ R
      BY <2>2, <1>a DEF Ended
    <2>8. {k \in s.fired : ~Relieves(k, reading[k.item])} = s.fired \ R
      BY <2>2, <2>6 DEF Ended
    <2>9. /\ active' = s.active /\ rows' = s.rows
          /\ told' = (told \ R) \cup (s.fired \ R) /\ again' = (again \/ s.fired \cap (told \ R) # {})
      BY <2>1, <2>4, <2>7, <2>8 DEF Apply
    <2> QED
      BY <2>5, <2>9, <1>a, EngineStep
  <1>3. CASE Tick
    BY <1>1, <1>3 DEF Tick
  <1>4. ASSUME NEW i \in Items, Changes(i) PROVE EngineOK'
    BY <1>1, <1>4 DEF Changes
  <1>5. ASSUME NEW i \in Items, RaisePlugin(i) PROVE EngineOK'
    <2>1. PICK s : s = Do(State, Fires(Key(i, "raised"))[1])
      OBVIOUS
    <2>2. Fires(Key(i, "raised"))[1] = [op |-> "fire", keys |-> {Key(i, "raised")}]
      BY DEF Fires
    <2>3. Key(i, "raised") \in Keys
      BY DEF Key, Keys, Levels
    <2>4. Fires(Key(i, "raised"))[1] \in StepsOf({})
      BY <2>2, <2>3 DEF StepsOf
    <2>5. RunOK(s, told \ {}, {})
      BY <1>a, <2>1, <2>4, OneStep
    <2>6. told \ {} = told /\ s.fired \ {} = s.fired
      OBVIOUS
    <2>7. active' = s.active /\ rows' = s.rows /\ told' = told \cup s.fired
          /\ again' = (again \/ s.fired \cap told # {})
      BY <1>5, <2>1 DEF RaisePlugin
    <2> QED
      BY <2>5, <2>6, <2>7, <1>a, EngineStep
  <1>6. ASSUME NEW R, R \subseteq Keys, active' = Do(State, Clears(R)[1]).active, rows' = Do(State, Clears(R)[1]).rows,
               told' = told \ R, again' = again
        PROVE  EngineOK'
    <2>1. PICK s : s = Do(State, Clears(R)[1])
      OBVIOUS
    <2>2. Clears(R)[1] = [op |-> "clear", keys |-> R]
      BY DEF Clears
    <2>3. Clears(R)[1] \in StepsOf(R)
      BY <2>2 DEF StepsOf
    <2>4. RunOK(s, told \ R, R)
      BY <1>a, <1>6, <2>1, <2>3, OneStep
    <2>5. s.fired \cap (told \ R) = {}
      BY <2>4 DEF RunOK
    <2>6. again' = (again \/ s.fired \cap (told \ R) # {})
      BY <2>5, <1>6, <1>a
    <2> QED
      BY <2>1, <2>4, <2>6, <1>6, <1>a, EngineStep
  <1>7. ASSUME NEW i \in Items, ResolvePlugin(i) PROVE EngineOK'
    <2>1. {Key(i, "raised")} \subseteq Keys
      BY DEF Key, Keys, Levels
    <2> QED
      BY <2>1, <1>6, <1>7 DEF ResolvePlugin
  <1>8. CASE ResolvePluginAll
    <2>1. PICK own : own = {k \in Keys : kind[k.item] \in {"plugin", "metric"}}
      OBVIOUS
    <2>2. own \subseteq Keys
      BY <2>1
    <2> QED
      BY <2>1, <2>2, <1>6, <1>8 DEF ResolvePluginAll
  <1>9. CASE Restart
    <2>1. active' = Of(rows) /\ told' = told \cap Of(rows) /\ rows' = rows /\ again' = again
      BY <1>9 DEF Restart, Adopted, Listed, Of
    <2>2. Of(rows)' = Of(rows) /\ Apart(rows)' = Apart(rows)
      BY <2>1 DEF Of, Apart
    <2>3. Of(rows) \subseteq Keys
      BY <1>a DEF EngineOK
    <2> QED
      BY <2>1, <2>2, <2>3, <1>a DEF EngineOK
  <1>10. ASSUME NEW n \in 1..MaxAlerts, ResolveAlert(n) PROVE EngineOK'
    <2>1. PICK r : r = SubSeq(rows, 1, n - 1) \o SubSeq(rows, n + 1, Len(rows))
      OBVIOUS
    <2>2. n \in DOMAIN rows /\ rows' = r /\ active' = active /\ told' = told /\ again' = again
      BY <1>10, <2>1 DEF ResolveAlert
    <2>3. r \in Seq(Keys) /\ Len(r) <= Len(rows) /\ Apart(r) /\ Of(r) \subseteq Of(rows)
      BY <1>a, <2>1, <2>2, RowGone DEF EngineOK
    <2>4. Len(r) <= MaxAlerts
      <3>1. Len(r) \in Nat /\ Len(rows) \in Nat /\ Len(rows) <= MaxAlerts
        BY <2>3, <1>a DEF EngineOK
      <3> QED
        BY <3>1, <2>3, NoticesAssumption
    <2>5. Of(rows)' = Of(r) /\ Apart(rows)' = Apart(r)
      BY <2>2 DEF Of, Apart
    <2> QED
      BY <2>2, <2>3, <2>4, <2>5, <1>a DEF EngineOK
  <1>11. CASE UNCHANGED vars
    BY <1>1, <1>11 DEF vars
  <1> QED
    BY <1>2, <1>3, <1>4, <1>5, <1>7, <1>8, <1>9, <1>10, <1>11 DEF Next

\* Every action keeps the items' types.
LEMMA ItemsNext ==
    ASSUME AlertsInv, [Next]_vars
    PROVE  ItemsOK'
  <1>a. ItemsOK
    BY DEF AlertsInv
  <1>n. NotOver \in Ages /\ 0 \in Ages
    BY NoticesAssumption DEF NotOver, Ages
  <1>1. ASSUME UNCHANGED <<kind, reading, prev, since, users, restarts>> PROVE ItemsOK'
    BY <1>1, <1>a DEF ItemsOK
  <1>2. CASE Frame
    <2>1. \A i \in Items : SinceAfter(i) \in Ages
      BY <1>a, <1>n DEF SinceAfter, ItemsOK
    <2>2. since' \in [Items -> Ages] /\ UNCHANGED <<kind, reading, users, restarts>>
      BY <1>2, <2>1 DEF Frame
    <2>3. \A i \in Items : prev'[i] = reading[i] \/ prev'[i] = prev[i]
      BY <1>2 DEF Frame
    <2> QED
      BY <2>2, <2>3, <1>a DEF ItemsOK
  <1>3. CASE Tick
    <2>1. ASSUME NEW i \in Items PROVE (IF since[i] < Window THEN since[i] + 1 ELSE since[i]) \in Ages
      BY <1>a, NoticesAssumption DEF ItemsOK, Ages, NotOver
    <2> QED
      BY <1>3, <2>1, <1>a DEF Tick, ItemsOK
  <1>4. ASSUME NEW i \in Items, Changes(i) PROVE ItemsOK'
    <2>1. PICK r \in Readings[kind[i]] : reading' = [reading EXCEPT ![i] = r]
      BY <1>4 DEF Changes
    <2>2. UNCHANGED <<kind, prev, since, users, restarts>>
      BY <1>4 DEF Changes
    <2>3. DOMAIN reading' = Items /\ \A j \in Items : reading'[j] = reading[j] \/ (j = i /\ reading'[j] = r)
      BY <2>1, <1>a DEF ItemsOK
    <2> QED
      BY <2>2, <2>3, <1>a DEF ItemsOK
  <1>5. ASSUME NEW i \in Items, RaisePlugin(i) \/ ResolvePlugin(i) PROVE ItemsOK'
    <2>1. UNCHANGED <<kind, prev, since, users, restarts>> /\ kind[i] = "plugin"
      BY <1>5 DEF RaisePlugin, ResolvePlugin
    <2>r. PICK r \in {"ok", "raised"} : reading' = [reading EXCEPT ![i] = r]
      BY <1>5 DEF RaisePlugin, ResolvePlugin
    <2>2. DOMAIN reading' = Items
          /\ \A j \in Items : reading'[j] = reading[j] \/ (j = i /\ reading'[j] \in {"ok", "raised"})
      BY <2>r, <1>a DEF ItemsOK
    <2>3. Readings["plugin"] = {"ok", "raised"}
      BY DEF Readings
    <2> QED
      BY <2>1, <2>2, <2>3, <1>a DEF ItemsOK
  <1>6. CASE ResolvePluginAll
    <2>1. UNCHANGED <<kind, prev, since, users, restarts>>
      BY <1>6 DEF ResolvePluginAll
    <2>2. ASSUME NEW j \in Items
          PROVE  \/ reading'[j] = reading[j]
                 \/ (kind[j] = "plugin" /\ reading'[j] = "ok")
                 \/ (kind[j] = "metric" /\ reading'[j] = "gone")
      <3>1. reading' = [i \in Items |-> IF kind[i] = "plugin" THEN "ok"
                                       ELSE IF kind[i] = "metric" THEN "gone" ELSE reading[i]]
        BY <1>6 DEF ResolvePluginAll
      <3>2. PICK v : v = reading'[j]
        OBVIOUS
      <3>3. ASSUME kind[j] = "plugin" PROVE v = "ok"
        BY <3>1, <3>2, <3>3
      <3>4. ASSUME kind[j] = "metric" PROVE v = "gone"
        BY <3>1, <3>2, <3>4
      <3>5. ASSUME kind[j] # "plugin", kind[j] # "metric" PROVE v = reading[j]
        BY <3>1, <3>2, <3>5
      <3> QED
        BY <3>2, <3>3, <3>4, <3>5
    <2>d. DOMAIN reading' = Items
      BY <1>6 DEF ResolvePluginAll
    <2>3. "ok" \in Readings["plugin"] /\ "gone" \in Readings["metric"]
      BY DEF Readings
    <2> QED
      BY <2>1, <2>2, <2>3, <2>d, <1>a DEF ItemsOK
  <1>7. CASE Restart
    BY <1>7, <1>a, <1>n, NoticesAssumption DEF Restart, ItemsOK
  <1>8. ASSUME NEW n \in 1..MaxAlerts, ResolveAlert(n) PROVE ItemsOK'
    BY <1>8, <1>a, NoticesAssumption DEF ResolveAlert, ItemsOK
  <1>9. CASE UNCHANGED vars
    BY <1>1, <1>9 DEF vars
  <1> QED
    BY <1>2, <1>3, <1>4, <1>5, <1>6, <1>7, <1>8, <1>9 DEF Next

\* What the invariant gives of the three properties.
LEMMA AlertsAre ==
    ASSUME AlertsInv
    PROVE  TypeOK /\ OneRow /\ NoRepeat
  <1>1. TypeOK
    <2>1. rows \in Seq(Keys) /\ active \subseteq Keys /\ told \subseteq Keys /\ again = FALSE /\ Len(rows) <= MaxAlerts
      BY DEF AlertsInv, EngineOK
    <2>2. \A n \in DOMAIN rows : rows[n] \in Keys
      BY <2>1
    <2> QED
      BY <2>1, <2>2 DEF AlertsInv, ItemsOK, TypeOK
  <1>2. OneRow
    <2>1. Listed = Of(rows)
      BY DEF Listed, Of
    <2> QED
      BY <2>1, RowsCount DEF AlertsInv, EngineOK, OneRow
  <1>3. NoRepeat
    BY DEF AlertsInv, EngineOK, NoRepeat
  <1> QED
    BY <1>1, <1>2, <1>3

-----------------------------------------------------------------------------
(* The watchdog.                                                           *)

Fleet == {alpha, beta, gamma}
Flags == [Fleet -> BOOLEAN]
Counts == [Fleet -> 0..DownAfter]

\* What a tick can have left of the peers, and which peers those are.
Lefts == {<<beta, gamma>>, <<gamma>>, <<>>}
Waiting(l) == IF l = <<beta, gamma>> THEN {beta, gamma} ELSE IF l = <<gamma>> THEN {gamma} ELSE {}
Pcs == {"idle", "peers", "sending", "panel"}
Scans == [pc : Pcs, wc : Watch!Configs, conn : BOOLEAN, up : SUBSET Fleet, left : Lefts]

WorldOK == /\ alive \in Flags /\ line \in Flags /\ tun \in Flags
           /\ panelUp \in BOOLEAN /\ faults \in 0..MaxFaults
ConfigOK == /\ pair \in (Fleet \cup {NoServer}) \X (Fleet \cup {NoServer})
            /\ push \subseteq {alpha} /\ cfg \in [{alpha} -> Watch!Configs]
ScanOK == scan \in [{alpha} -> Scans]
CountsOK == down \in [{alpha} -> Counts] /\ run \in [{alpha} -> Counts]
MarksOK == announced \in [{alpha} -> Flags] /\ noted \in [{alpha} -> Flags]
PanelOK == /\ isolated \in [{alpha} -> BOOLEAN] /\ noticed \in [{alpha} -> BOOLEAN]
           /\ lost \in [{alpha} -> 0..(Quiet + 1)]

\* The failures counted against a peer are among the ticks of its run: down
\* is at most run, and for a silent peer still to be taken one more.
Earned ==
    /\ scan[alpha].pc \in {"idle", "panel"} => scan[alpha].left = <<>>
    /\ scan[alpha].pc \in {"peers", "sending"} => scan[alpha].left # <<>>
    /\ scan[alpha].pc = "sending" => /\ Head(scan[alpha].left) \notin scan[alpha].up
                                     /\ run[alpha][Head(scan[alpha].left)] = DownAfter
    /\ \A p \in {beta, gamma} \ Waiting(scan[alpha].left) : down[alpha][p] <= run[alpha][p]
    /\ \A p \in Waiting(scan[alpha].left) \ scan[alpha].up :
         Watch!UpTo(down[alpha][p] + 1, DownAfter) <= run[alpha][p]

WatchInv == WorldOK /\ ConfigOK /\ ScanOK /\ CountsOK /\ MarksOK /\ PanelOK /\ Earned

\* The peers of alpha.
LEMMA OthersAre ==
    Watch!Others(alpha) = <<beta, gamma>> /\ Len(Watch!Others(alpha)) = 2
  <1> DEFINE P == <<alpha, beta, gamma>>
  <1>1. DOMAIN P = 1..3 /\ P[1] = alpha /\ P[2] = beta /\ P[3] = gamma /\ Len(P) = 3
    OBVIOUS
  <1>2. (CHOOSE n \in DOMAIN P : P[n] = alpha) = 1
    <2>1. \A n \in DOMAIN P : P[n] = alpha <=> n = 1
      BY <1>1, NoticesAssumption
    <2> QED
      BY <2>1, <1>1
  <1>3. SubSeq(P, 1, 0) = <<>> /\ SubSeq(P, 2, Len(P)) = <<beta, gamma>>
    <2>1. P \in Seq(Fleet) /\ P # <<>> /\ Tail(P) = <<beta, gamma>>
      BY DEF Fleet
    <2>2. SubSeq(P, 2, Len(P)) = Tail(P)
      <3> HIDE DEF P
      <3> QED
        BY <2>1, TailIsSubSeq
    <2>3. SubSeq(P, 1, 0) = <<>>
      BY SubSeqEmpty
    <2> QED
      BY <2>1, <2>2, <2>3
  <1>4. Watch!Others(alpha) = SubSeq(P, 1, 1 - 1) \o SubSeq(P, 1 + 1, Len(P))
    BY <1>2 DEF Watch!Others, Watch!RemoveAt
  <1>5. 1 - 1 = 0 /\ 1 + 1 = 2 /\ <<>> \o <<beta, gamma>> = <<beta, gamma>> /\ Len(<<beta, gamma>>) = 2
    OBVIOUS
  <1> HIDE DEF P
  <1> QED
    BY <1>3, <1>4, <1>5

\* Taking one peer after the other.
LEMMA LeftsAre ==
    ASSUME NEW l \in Lefts, l # <<>>
    PROVE  /\ Tail(l) \in Lefts /\ Head(l) \in Waiting(l) /\ Head(l) \in Fleet
           /\ Waiting(Tail(l)) = Waiting(l) \ {Head(l)}
           /\ Len(l) = 1 <=> Tail(l) = <<>>
  <1>1. /\ Tail(<<beta, gamma>>) = <<gamma>> /\ Head(<<beta, gamma>>) = beta /\ Len(<<beta, gamma>>) = 2
        /\ Tail(<<gamma>>) = <<>> /\ Head(<<gamma>>) = gamma /\ Len(<<gamma>>) = 1
    OBVIOUS
  <1>2. <<beta, gamma>> # <<gamma>> /\ <<gamma>> # <<>> /\ <<beta, gamma>> # <<>>
    OBVIOUS
  <1>3. /\ Waiting(<<beta, gamma>>) = {beta, gamma} /\ Waiting(<<gamma>>) = {gamma} /\ Waiting(<<>>) = {}
    BY <1>2 DEF Waiting
  <1>4. CASE l = <<beta, gamma>>
    BY <1>1, <1>2, <1>3, <1>4, NoticesAssumption DEF Lefts, Fleet
  <1>5. CASE l = <<gamma>>
    BY <1>1, <1>2, <1>3, <1>5, NoticesAssumption DEF Lefts, Fleet
  <1> QED
    BY <1>4, <1>5 DEF Lefts

\* What is waited for at the start of a tick, and at its end.
LEMMA LeftEnds ==
    /\ Waiting(<<>>) = {} /\ Waiting(<<beta, gamma>>) = {beta, gamma}
    /\ <<>> \in Lefts /\ <<beta, gamma>> \in Lefts /\ <<beta, gamma>> # <<>>
  <1>1. <<beta, gamma>> # <<gamma>> /\ <<gamma>> # <<>> /\ <<beta, gamma>> # <<>>
    OBVIOUS
  <1> QED
    BY <1>1 DEF Waiting, Lefts

\* The types of the watchdog's own module.
LEMMA WatchTypes ==
    ASSUME WatchInv
    PROVE  Watch!TypeOK
  <1>1. scan[alpha] \in Scans
    BY DEF WatchInv, ScanOK
  <1>2. \E n \in 1..3 : scan[alpha].left = SubSeq(<<beta, gamma>>, n, 2)
    <2> DEFINE Q == <<beta, gamma>>
    <2>1. Q \in Seq(Fleet) /\ Q # <<>> /\ Tail(Q) = <<gamma>> /\ Len(Q) = 2
      BY DEF Fleet
    <2>2. scan[alpha].left \in {Q, Tail(Q), <<>>}
      BY <1>1, <2>1 DEF Scans, Lefts
    <2> HIDE DEF Q
    <2>3. SubSeq(Q, 1, 2) = Q
      BY <2>1, SubSeqFull
    <2>4. SubSeq(Q, 2, 2) = Tail(Q)
      BY <2>1, TailIsSubSeq
    <2>5. SubSeq(Q, 3, 2) = <<>>
      BY SubSeqEmpty
    <2>6. \E n \in 1..3 : scan[alpha].left = SubSeq(Q, n, 2)
      <3>1. 1 \in 1..3 /\ 2 \in 1..3 /\ 3 \in 1..3
        OBVIOUS
      <3>2. CASE scan[alpha].left = Q
        BY <3>1, <3>2, <2>3
      <3>3. CASE scan[alpha].left = Tail(Q)
        BY <3>1, <3>3, <2>4
      <3>4. CASE scan[alpha].left = <<>>
        BY <3>1, <3>4, <2>5
      <3> QED
        BY <2>2, <3>2, <3>3, <3>4
    <2> QED
      BY <2>6 DEF Q
  <1>3. Len(<<alpha, beta, gamma>>) = 3
    OBVIOUS
  <1>4. \E n \in 1..Len(<<alpha, beta, gamma>>) :
          scan[alpha].left = SubSeq(Watch!Others(alpha), n, Len(Watch!Others(alpha)))
    BY <1>2, <1>3, OthersAre
  <1>5. /\ scan[alpha].pc \in Pcs /\ scan[alpha].wc \in Watch!Configs
        /\ scan[alpha].conn \in BOOLEAN /\ scan[alpha].up \subseteq Fleet
    BY <1>1 DEF Scans
  <1>6. /\ alive \in [Fleet -> BOOLEAN] /\ line \in [Fleet -> BOOLEAN] /\ tun \in [Fleet -> BOOLEAN]
        /\ panelUp \in BOOLEAN /\ faults \in 0..MaxFaults
    BY DEF WatchInv, WorldOK, Flags
  <1>7. /\ down \in [{alpha} -> [Fleet -> 0..DownAfter]] /\ run \in [{alpha} -> [Fleet -> 0..DownAfter]]
        /\ announced \in [{alpha} -> [Fleet -> BOOLEAN]] /\ noted \in [{alpha} -> [Fleet -> BOOLEAN]]
    BY DEF WatchInv, CountsOK, MarksOK, Flags, Counts
  <1> QED
    BY <1>4, <1>5, <1>6, <1>7, Zenon DEF WatchInv, ConfigOK, PanelOK, Watch!TypeOK, Fleet, Pcs

\* Init of the watchdog.
LEMMA WatchStart ==
    ASSUME Watch!Init
    PROVE  WatchInv
  <1>0. 0 \in 0..DownAfter /\ 0 \in 0..MaxFaults /\ 0 \in 0..(Quiet + 1)
    BY NoticesAssumption
  <1>1. WorldOK
    BY <1>0 DEF Watch!Init, Watch!All, WorldOK, Flags, Fleet
  <1>2. Watch!Off \in Watch!Configs
    BY DEF Watch!Off, Watch!Configs
  <1>3. ConfigOK
    BY <1>2 DEF Watch!Init, ConfigOK, Fleet
  <1>4. Watch!Resting \in Scans
    BY <1>2, LeftEnds DEF Watch!Resting, Scans, Pcs
  <1>5. ScanOK
    BY <1>4 DEF Watch!Init, ScanOK
  <1>6. CountsOK
    BY <1>0 DEF Watch!Init, Watch!All, CountsOK, Counts, Fleet
  <1>7. MarksOK
    BY DEF Watch!Init, Watch!All, MarksOK, Flags, Fleet
  <1>8. PanelOK
    BY <1>0 DEF Watch!Init, PanelOK
  <1>9. Earned
    <2>1. scan[alpha] = Watch!Resting
      BY DEF Watch!Init
    <2>2. scan[alpha].pc = "idle" /\ scan[alpha].left = <<>>
      BY <2>1 DEF Watch!Resting
    <2>3. \A p \in Fleet : down[alpha][p] = 0 /\ run[alpha][p] = 0
      BY DEF Watch!Init, Watch!All, Fleet
    <2> QED
      BY <2>2, <2>3, LeftEnds DEF Earned, Fleet
  <1> QED
    BY <1>1, <1>3, <1>5, <1>6, <1>7, <1>8, <1>9 DEF WatchInv

\* A notice that fails over a working line is a fault.
LEMMA SentOK ==
    ASSUME WorldOK, NEW ok, Watch!Sent(alpha, ok)
    PROVE  faults' \in 0..MaxFaults
  <1>1. faults' = faults \/ (faults < MaxFaults /\ faults' = faults + 1)
    BY DEF Watch!Sent
  <1> QED
    BY <1>1, NoticesAssumption DEF WorldOK

\* The world and the faults.
LEMMA WorldNext ==
    ASSUME WatchInv, [Watch!Next]_watchVars
    PROVE  WorldOK'
  <1>a. WorldOK /\ alpha \in Fleet
    BY DEF WatchInv, Fleet
  <1>f. ASSUME UNCHANGED <<alive, line, tun, panelUp>>, faults' \in 0..MaxFaults PROVE WorldOK'
    BY <1>f, <1>a DEF WorldOK
  <1>s. ASSUME UNCHANGED <<alive, line, tun, panelUp, faults>> PROVE WorldOK'
    BY <1>s, <1>a DEF WorldOK
  <1>x. ASSUME Watch!Fault PROVE faults' \in 0..MaxFaults
    BY <1>x, <1>a, NoticesAssumption DEF Watch!Fault, WorldOK
  <1>1. CASE Watch!SyncWatchers
    BY <1>1, <1>s DEF Watch!SyncWatchers, Watch!world
  <1>2. CASE Watch!PanelCloses
    <2>1. tun' \in Flags
      BY <1>2 DEF Watch!PanelCloses, Watch!All, Flags, Fleet
    <2>2. faults' \in 0..MaxFaults /\ panelUp' = FALSE /\ alive' = alive /\ line' = line
      BY <1>2, <1>x DEF Watch!PanelCloses
    <2> QED
      BY <2>1, <2>2, <1>a DEF WorldOK
  <1>3. CASE Watch!PanelOpens
    BY <1>3, <1>a DEF Watch!PanelOpens, WorldOK
  <1>4. CASE Watch!SetConfig(alpha) \/ Watch!PushLost(alpha)
    BY <1>4, <1>s DEF Watch!SetConfig, Watch!PushLost, Watch!world
  <1>5. CASE Watch!Probe(alpha) \/ Watch!PeerSilent(alpha) \/ Watch!PanelBack(alpha)
    BY <1>5, <1>s DEF Watch!Probe, Watch!PeerSilent, Watch!PanelBack, Watch!world
  <1>6. CASE Watch!PeerAnswers(alpha) \/ Watch!DownNotice(alpha) \/ Watch!PanelQuiet(alpha)
    <2>1. UNCHANGED <<alive, line, tun, panelUp>>
      BY <1>6 DEF Watch!PeerAnswers, Watch!DownNotice, Watch!PanelQuiet, Watch!world
    <2>2. faults' = faults \/ \E ok \in BOOLEAN : Watch!Sent(alpha, ok)
      BY <1>6 DEF Watch!PeerAnswers, Watch!DownNotice, Watch!PanelQuiet
    <2>3. faults' \in 0..MaxFaults
      BY <2>2, <1>a, SentOK DEF WorldOK
    <2> QED
      BY <2>1, <2>3, <1>f
  <1>7. ASSUME NEW s \in Fleet, Watch!TunnelUp(s) \/ Watch!TunnelDown(s) PROVE WorldOK'
    <2>1. tun' \in Flags /\ alive' = alive /\ line' = line /\ panelUp' = panelUp
      BY <1>7, <1>a DEF Watch!TunnelUp, Watch!TunnelDown, WorldOK, Flags
    <2>2. faults' \in 0..MaxFaults
      BY <1>7, <1>x, <1>a DEF Watch!TunnelUp, Watch!TunnelDown, WorldOK
    <2> QED
      BY <2>1, <2>2, <1>a DEF WorldOK
  <1>8. ASSUME NEW s \in Fleet, Watch!LineDown(s) \/ Watch!LineUp(s) PROVE WorldOK'
    <2>1. line' \in Flags /\ alive' = alive /\ panelUp' = panelUp
      BY <1>8, <1>a DEF Watch!LineDown, Watch!LineUp, WorldOK, Flags
    <2>2. tun' \in Flags
      BY <1>8, <1>a DEF Watch!LineDown, Watch!LineUp, WorldOK, Flags
    <2>3. faults' \in 0..MaxFaults
      BY <1>8, <1>x, <1>a DEF Watch!LineDown, Watch!LineUp, WorldOK
    <2> QED
      BY <2>1, <2>2, <2>3, <1>a DEF WorldOK
  <1>9. ASSUME NEW s \in Fleet, Watch!ServerDown(s) \/ Watch!ServerUp(s) PROVE WorldOK'
    <2>1. alive' \in Flags /\ line' = line /\ panelUp' = panelUp
      BY <1>9, <1>a DEF Watch!ServerDown, Watch!ServerUp, WorldOK, Flags
    <2>2. tun' \in Flags
      BY <1>9, <1>a DEF Watch!ServerDown, Watch!ServerUp, WorldOK, Flags
    <2>3. faults' \in 0..MaxFaults
      BY <1>9, <1>x, <1>a DEF Watch!ServerDown, Watch!ServerUp, WorldOK
    <2> QED
      BY <2>1, <2>2, <2>3, <1>a DEF WorldOK
  <1>10. CASE UNCHANGED watchVars
    BY <1>10, <1>s DEF watchVars
  <1> QED
    BY <1>1, <1>2, <1>3, <1>4, <1>5, <1>6, <1>7, <1>8, <1>9, <1>10 DEF Watch!Next, Watch!Tick, Fleet

\* The configuration.
LEMMA ConfigNext ==
    ASSUME WatchInv, [Watch!Next]_watchVars
    PROVE  ConfigOK'
  <1>a. ConfigOK /\ WorldOK /\ alpha \in Fleet
    BY DEF WatchInv, Fleet
  <1>s. ASSUME UNCHANGED <<pair, push, cfg>> PROVE ConfigOK'
    BY <1>s, <1>a DEF ConfigOK
  <1>1. CASE Watch!SyncWatchers
    <2>1. Watch!Candidates \subseteq {alpha}
      BY DEF Watch!Candidates
    <2>2. pair' \in (Watch!Candidates \cup {NoServer}) \X (Watch!Candidates \cup {NoServer})
      BY <1>1 DEF Watch!SyncWatchers, Watch!Elections
    <2>3. pair' \in (Fleet \cup {NoServer}) \X (Fleet \cup {NoServer})
      BY <2>1, <2>2 DEF Fleet
    <2>4. push' \subseteq {alpha} /\ cfg' = cfg
      BY <1>1, <2>1 DEF Watch!SyncWatchers
    <2> QED
      BY <2>3, <2>4, <1>a DEF ConfigOK
  <1>2. CASE Watch!PanelCloses
    BY <1>2, <1>a DEF Watch!PanelCloses, ConfigOK
  <1>3. CASE Watch!SetConfig(alpha)
    <2>1. Watch!Elected(alpha) \in Watch!Configs
      <3>1. pair[1] \in Fleet \cup {NoServer}
        BY <1>a DEF ConfigOK
      <3> QED
        BY <3>1 DEF Watch!Elected, Watch!Configs, Watch!Off, Fleet
    <2>2. cfg' = [cfg EXCEPT ![alpha] = Watch!Elected(alpha)] /\ push' = push \ {alpha} /\ pair' = pair
      BY <1>3 DEF Watch!SetConfig
    <2>3. cfg' \in [{alpha} -> Watch!Configs]
      BY <2>1, <2>2, <1>a DEF ConfigOK
    <2> QED
      BY <2>2, <2>3, <1>a DEF ConfigOK
  <1>4. CASE Watch!PushLost(alpha)
    BY <1>4, <1>a DEF Watch!PushLost, ConfigOK
  <1>5. CASE Watch!Tick(alpha)
    BY <1>5, <1>s DEF Watch!Tick, Watch!Probe, Watch!PeerSilent, Watch!PanelBack, Watch!PeerAnswers,
                      Watch!DownNotice, Watch!PanelQuiet, Watch!config
  <1>6. CASE Watch!PanelOpens
    BY <1>6, <1>s DEF Watch!PanelOpens, Watch!config
  <1>7. ASSUME NEW s \in Fleet, Watch!TunnelUp(s) \/ Watch!TunnelDown(s) \/ Watch!LineDown(s) \/ Watch!LineUp(s)
                                \/ Watch!ServerDown(s) \/ Watch!ServerUp(s)
        PROVE  ConfigOK'
    BY <1>7, <1>s DEF Watch!TunnelUp, Watch!TunnelDown, Watch!LineDown, Watch!LineUp, Watch!ServerDown,
                      Watch!ServerUp, Watch!config
  <1>8. CASE UNCHANGED watchVars
    BY <1>8, <1>s DEF watchVars
  <1> QED
    BY <1>1, <1>2, <1>3, <1>4, <1>5, <1>6, <1>7, <1>8 DEF Watch!Next, Fleet

\* The steps that leave the watcher's own state alone.
LEMMA WatcherMoves ==
    ASSUME [Watch!Next]_watchVars
    PROVE  \/ UNCHANGED <<scan, down, announced, noted, run, isolated, lost, noticed>>
           \/ Watch!SetConfig(alpha) \/ Watch!Tick(alpha) \/ Watch!ServerDown(alpha)
  <1> DEFINE Goal == \/ UNCHANGED <<scan, down, announced, noted, run, isolated, lost, noticed>>
                     \/ Watch!SetConfig(alpha) \/ Watch!Tick(alpha) \/ Watch!ServerDown(alpha)
  <1> SUFFICES Goal
    OBVIOUS
  <1>1. CASE Watch!SyncWatchers \/ Watch!PanelCloses \/ Watch!PanelOpens \/ Watch!PushLost(alpha)
    BY <1>1 DEF Watch!SyncWatchers, Watch!PanelCloses, Watch!PanelOpens, Watch!PushLost, Watch!peers, Watch!panelState
  <1>2. ASSUME NEW s \in Fleet, Watch!TunnelUp(s) \/ Watch!TunnelDown(s) \/ Watch!LineDown(s) \/ Watch!LineUp(s)
                                \/ Watch!ServerUp(s)
        PROVE  Goal
    BY <1>2 DEF Watch!TunnelUp, Watch!TunnelDown, Watch!LineDown, Watch!LineUp, Watch!ServerUp, Watch!peers,
                Watch!panelState
  <1>3. ASSUME NEW s \in Fleet, Watch!ServerDown(s) PROVE Goal
    <2>1. CASE s = alpha
      BY <1>3, <2>1
    <2>2. CASE s # alpha
      BY <1>3, <2>2 DEF Watch!ServerDown
    <2> QED
      BY <2>1, <2>2
  <1>4. CASE UNCHANGED watchVars
    BY <1>4 DEF watchVars
  <1>5. CASE Watch!SetConfig(alpha) \/ Watch!Tick(alpha)
    BY <1>5
  <1> HIDE DEF Goal
  <1> QED
    BY <1>1, <1>2, <1>3, <1>4, <1>5 DEF Watch!Next, Fleet

\* The next peer is taken.
LEMMA NextPeerIs ==
    ASSUME ScanOK, Watch!NextPeer(alpha), scan[alpha].left # <<>>
    PROVE  /\ scan'[alpha].left = Tail(scan[alpha].left) /\ scan'[alpha].up = scan[alpha].up
           /\ scan'[alpha].pc = (IF Tail(scan[alpha].left) = <<>> THEN "panel" ELSE "peers")
           /\ scan' \in [{alpha} -> Scans]
  <1>1. PICK c, w, k, u, l : /\ scan[alpha] = [pc |-> c, wc |-> w, conn |-> k, up |-> u, left |-> l]
                             /\ c \in Pcs /\ w \in Watch!Configs /\ k \in BOOLEAN /\ u \in SUBSET Fleet /\ l \in Lefts
    BY DEF ScanOK, Scans
  <1>2. PICK d : d = IF Len(l) = 1 THEN "panel" ELSE "peers"
    OBVIOUS
  <1>3. /\ scan'[alpha] = [pc |-> d, wc |-> w, conn |-> k, up |-> u, left |-> Tail(l)]
        /\ scan' = [scan EXCEPT ![alpha] = scan'[alpha]]
    <2>1. scan' = [scan EXCEPT ![alpha].left = Tail(@), ![alpha].pc = IF Len(scan[alpha].left) = 1 THEN "panel" ELSE "peers"]
      BY DEF Watch!NextPeer
    <2>2. scan[alpha].left = l /\ alpha \in DOMAIN scan
      BY <1>1 DEF ScanOK
    <2>3. scan' = [scan EXCEPT ![alpha] = [pc |-> d, wc |-> w, conn |-> k, up |-> u, left |-> Tail(l)]]
      <3>1. scan' = [scan EXCEPT ![alpha].left = Tail(@), ![alpha].pc = d]
        BY <1>2, <2>1, <2>2
      <3>2. scan' = [scan EXCEPT ![alpha] = [[scan[alpha] EXCEPT !.left = Tail(scan[alpha].left)] EXCEPT !.pc = d]]
        BY <3>1, <2>2 DEF ScanOK
      <3>3. [[scan[alpha] EXCEPT !.left = Tail(scan[alpha].left)] EXCEPT !.pc = d]
               = [pc |-> d, wc |-> w, conn |-> k, up |-> u, left |-> Tail(l)]
        <4>1. PICK t : t = Tail(l)
          OBVIOUS
        <4>2. [scan[alpha] EXCEPT !.left = Tail(scan[alpha].left)]
                 = [pc |-> c, wc |-> w, conn |-> k, up |-> u, left |-> t]
          <5>1. [[pc |-> c, wc |-> w, conn |-> k, up |-> u, left |-> l] EXCEPT !.left = t]
                   = [pc |-> c, wc |-> w, conn |-> k, up |-> u, left |-> t]
            OBVIOUS
          <5>2. Tail(scan[alpha].left) = t
            BY <2>2, <4>1
          <5> QED
            BY ONLY <5>1, <5>2, <1>1
        <4>3. [[pc |-> c, wc |-> w, conn |-> k, up |-> u, left |-> t] EXCEPT !.pc = d]
                 = [pc |-> d, wc |-> w, conn |-> k, up |-> u, left |-> t]
          OBVIOUS
        <4> QED
          BY <4>1, <4>2, <4>3
      <3> QED
        BY <3>2, <3>3
    <2> QED
      BY <2>3, <2>2
  <1>4. Tail(l) \in Lefts /\ (Len(l) = 1 <=> Tail(l) = <<>>)
    BY <1>1, LeftsAre
  <1>5. d \in Pcs /\ d = IF Tail(l) = <<>> THEN "panel" ELSE "peers"
    BY <1>2, <1>4 DEF Pcs
  <1>6. scan'[alpha] \in Scans
    BY <1>1, <1>3, <1>4, <1>5 DEF Scans
  <1>7. scan' \in [{alpha} -> Scans]
    BY <1>3, <1>6 DEF ScanOK
  <1> QED
    BY <1>1, <1>3, <1>5, <1>7

\* The end of a tick, and a restart of the agent.
LEMMA RestingIs ==
    ASSUME ScanOK, scan' = [scan EXCEPT ![alpha] = Watch!Resting]
    PROVE  scan'[alpha].pc = "idle" /\ scan'[alpha].left = <<>> /\ scan' \in [{alpha} -> Scans]
  <1>1. Watch!Resting \in Scans
    BY LeftEnds DEF Watch!Resting, Scans, Pcs, Watch!Off, Watch!Configs
  <1>2. scan'[alpha] = Watch!Resting /\ scan' \in [{alpha} -> Scans]
    BY <1>1 DEF ScanOK
  <1> QED
    BY <1>2 DEF Watch!Resting

\* A down notice is about to be sent.
LEMMA SendingIs ==
    ASSUME ScanOK, scan' = [scan EXCEPT ![alpha].pc = "sending"]
    PROVE  /\ scan'[alpha].pc = "sending" /\ scan'[alpha].left = scan[alpha].left
           /\ scan'[alpha].up = scan[alpha].up /\ scan' \in [{alpha} -> Scans]
  BY DEF ScanOK, Scans, Pcs

\* The servers that answer, and whether the watcher is the one cut off.
Answering == {p \in Fleet \ {alpha} : Watch!Reach(alpha, p)}

\* The start of a tick.
LEMMA ProbeIs ==
    ASSUME ScanOK, ConfigOK, WorldOK, Watch!Probe(alpha)
    PROVE  /\ scan' \in [{alpha} -> Scans] /\ scan[alpha].pc = "idle"
           /\ scan'[alpha].up = Answering
           /\ Answering = {} => /\ scan'[alpha].pc = "panel" /\ scan'[alpha].left = <<>>
                                /\ down' = [down EXCEPT ![alpha] = Watch!All(0)]
           /\ Answering # {} => /\ scan'[alpha].pc = "peers" /\ scan'[alpha].left = <<beta, gamma>>
                                /\ down' = down
           /\ run' = [run EXCEPT ![alpha] =
                        [p \in Fleet |-> IF p = alpha \/ p \in Answering \/ Answering = {}
                                         THEN 0 ELSE Watch!UpTo(run[alpha][p] + 1, DownAfter)]]
           /\ isolated' = [isolated EXCEPT ![alpha] = (Answering = {})]
  <1>1. PICK u : u = Answering
    OBVIOUS
  <1>2. {p \in Fleet \ {alpha} : Watch!Reach(alpha, p)} = u
    BY <1>1 DEF Answering
  <1>3. (Watch!CutOff(alpha, u) <=> u = {}) /\ (Watch!Blind(alpha, u) <=> u = {})
    BY OthersAre DEF Watch!CutOff, Watch!Blind
  <1>4. PICK sc : sc = [pc |-> IF u = {} THEN "panel" ELSE "peers", wc |-> cfg[alpha], conn |-> tun[alpha], up |-> u,
                        left |-> IF u = {} THEN <<>> ELSE <<beta, gamma>>]
    OBVIOUS
  <1>5. scan' = [scan EXCEPT ![alpha] = sc] /\ scan[alpha].pc = "idle"
    BY <1>2, <1>3, <1>4, OthersAre DEF Watch!Probe, Fleet
  <1>6. isolated' = [isolated EXCEPT ![alpha] = (u = {})]
    <2>1. isolated' = [isolated EXCEPT ![alpha] = Watch!CutOff(alpha, u)]
      BY <1>2 DEF Watch!Probe, Fleet
    <2>2. Watch!CutOff(alpha, u) = (u = {})
      BY OthersAre DEF Watch!CutOff
    <2> QED
      BY <2>1, <2>2
  <1>7. (u = {} => down' = [down EXCEPT ![alpha] = Watch!All(0)]) /\ (u # {} => down' = down)
    BY <1>2, <1>3 DEF Watch!Probe, Watch!Uncounted, Fleet
  <1>8. run' = [run EXCEPT ![alpha] = [p \in Fleet |-> IF p = alpha \/ p \in u \/ u = {}
                                         THEN 0 ELSE Watch!UpTo(run[alpha][p] + 1, DownAfter)]]
    BY <1>2, <1>3 DEF Watch!Probe, Fleet
  <1>9. sc \in Scans
    <2>1. u \in SUBSET Fleet
      BY <1>2
    <2>2. cfg[alpha] \in Watch!Configs /\ tun[alpha] \in BOOLEAN
      BY DEF ConfigOK, WorldOK, Flags, Fleet
    <2>3. (IF u = {} THEN "panel" ELSE "peers") \in Pcs /\ (IF u = {} THEN <<>> ELSE <<beta, gamma>>) \in Lefts
      BY LeftEnds DEF Pcs
    <2> QED
      BY <1>4, <2>1, <2>2, <2>3 DEF Scans
  <1>10. scan'[alpha] = sc /\ scan' \in [{alpha} -> Scans]
    BY <1>5, <1>9 DEF ScanOK
  <1>11. /\ sc.up = u /\ (u = {} => sc.pc = "panel" /\ sc.left = <<>>)
         /\ (u # {} => sc.pc = "peers" /\ sc.left = <<beta, gamma>>)
    BY <1>4
  <1> QED
    BY <1>1, <1>5, <1>6, <1>7, <1>8, <1>10, <1>11

\* Where the tick stands.
LEMMA ScanNext ==
    ASSUME WatchInv, [Watch!Next]_watchVars
    PROVE  ScanOK'
  <1>a. ScanOK /\ ConfigOK /\ WorldOK /\ Earned
    BY DEF WatchInv
  <1>s. ASSUME scan' = scan PROVE ScanOK'
    BY <1>s, <1>a DEF ScanOK
  <1>r. ASSUME scan' = [scan EXCEPT ![alpha] = Watch!Resting] PROVE ScanOK'
    BY <1>r, <1>a, RestingIs DEF ScanOK
  <1>n. ASSUME Watch!NextPeer(alpha), scan[alpha].pc \in {"peers", "sending"} PROVE ScanOK'
    <2>1. scan[alpha].left # <<>>
      BY <1>a, <1>n DEF Earned
    <2> QED
      BY <2>1, <1>a, <1>n, NextPeerIs DEF ScanOK
  <1>1. CASE Watch!SetConfig(alpha)
    BY <1>1, <1>s DEF Watch!SetConfig
  <1>2. CASE Watch!ServerDown(alpha)
    BY <1>2, <1>r DEF Watch!ServerDown
  <1>3. CASE Watch!Probe(alpha)
    BY <1>3, <1>a, ProbeIs DEF ScanOK
  <1>4. CASE Watch!PeerAnswers(alpha) \/ Watch!DownNotice(alpha)
    BY <1>4, <1>n DEF Watch!PeerAnswers, Watch!DownNotice
  <1>5. CASE Watch!PeerSilent(alpha)
    <2>1. Watch!NextPeer(alpha) \/ scan' = [scan EXCEPT ![alpha].pc = "sending"]
      BY <1>5 DEF Watch!PeerSilent
    <2>2. scan[alpha].pc = "peers"
      BY <1>5 DEF Watch!PeerSilent
    <2> QED
      BY <2>1, <2>2, <1>a, <1>n, SendingIs DEF ScanOK
  <1>6. CASE Watch!PanelBack(alpha) \/ Watch!PanelQuiet(alpha)
    BY <1>6, <1>r DEF Watch!PanelBack, Watch!PanelQuiet, Watch!EndTick
  <1>7. CASE UNCHANGED <<scan, down, announced, noted, run, isolated, lost, noticed>>
    BY <1>7, <1>s
  <1> QED
    BY <1>1, <1>2, <1>3, <1>4, <1>5, <1>6, <1>7, WatcherMoves DEF Watch!Tick

\* The marks and what was told.
LEMMA MarksNext ==
    ASSUME WatchInv, [Watch!Next]_watchVars
    PROVE  MarksOK'
  <1>a. MarksOK
    BY DEF WatchInv
  <1>l. Watch!All(FALSE) \in Flags
    BY DEF Watch!All, Flags, Fleet
  <1>s. ASSUME announced' = announced, noted' = noted PROVE MarksOK'
    BY <1>s, <1>a DEF MarksOK
  <1>r. ASSUME announced' = [announced EXCEPT ![alpha] = Watch!All(FALSE)], noted' = noted PROVE MarksOK'
    BY <1>r, <1>a, <1>l DEF MarksOK
  <1>b. ASSUME NEW f, f \in [{alpha} -> Flags], NEW p, NEW v \in BOOLEAN
        PROVE  [f EXCEPT ![alpha][p] = v] \in [{alpha} -> Flags]
    BY <1>b DEF Flags
  <1>1. CASE Watch!SetConfig(alpha)
    BY <1>1, <1>s, <1>r DEF Watch!SetConfig
  <1>2. CASE Watch!ServerDown(alpha)
    BY <1>2, <1>r DEF Watch!ServerDown
  <1>3. CASE Watch!Probe(alpha) \/ Watch!PeerSilent(alpha) \/ Watch!PanelBack(alpha) \/ Watch!PanelQuiet(alpha)
    BY <1>3, <1>s DEF Watch!Probe, Watch!PeerSilent, Watch!PanelBack, Watch!PanelQuiet, Watch!peers
  <1>4. CASE Watch!PeerAnswers(alpha)
    <2>1. PICK p : p = Head(scan[alpha].left)
      OBVIOUS
    <2>2. announced' = [announced EXCEPT ![alpha][p] = FALSE]
      BY <1>4, <2>1 DEF Watch!PeerAnswers
    <2>3. noted' = noted \/ \E ok \in BOOLEAN : noted' = [noted EXCEPT ![alpha][p] = @ /\ ~ok]
      BY <1>4, <2>1 DEF Watch!PeerAnswers
    <2>4. ASSUME NEW ok \in BOOLEAN, noted' = [noted EXCEPT ![alpha][p] = @ /\ ~ok] PROVE noted' \in [{alpha} -> Flags]
      <3>1. PICK v \in BOOLEAN : v = (noted[alpha][p] /\ ~ok)
        OBVIOUS
      <3>2. noted' = [noted EXCEPT ![alpha][p] = v]
        BY <2>4, <3>1
      <3> QED
        BY <3>2, <1>b, <1>a DEF MarksOK
    <2> QED
      BY <2>2, <2>3, <2>4, <1>a, <1>b DEF MarksOK
  <1>5. CASE Watch!DownNotice(alpha)
    <2>1. PICK p : p = Head(scan[alpha].left)
      OBVIOUS
    <2>2. \/ announced' = announced /\ noted' = noted
          \/ announced' = [announced EXCEPT ![alpha][p] = TRUE] /\ noted' = [noted EXCEPT ![alpha][p] = TRUE]
      BY <1>5, <2>1 DEF Watch!DownNotice
    <2>3. CASE announced' = announced /\ noted' = noted
      BY <2>3, <1>s
    <2>4. CASE announced' = [announced EXCEPT ![alpha][p] = TRUE] /\ noted' = [noted EXCEPT ![alpha][p] = TRUE]
      <3>1. announced' \in [{alpha} -> Flags] /\ noted' \in [{alpha} -> Flags]
        BY <2>4, <1>a, <1>b DEF MarksOK
      <3> QED
        BY <3>1 DEF MarksOK
    <2> QED
      BY <2>2, <2>3, <2>4
  <1>6. CASE UNCHANGED <<scan, down, announced, noted, run, isolated, lost, noticed>>
    BY <1>6, <1>s
  <1> QED
    BY <1>1, <1>2, <1>3, <1>4, <1>5, <1>6, WatcherMoves DEF Watch!Tick

\* What the watcher knows of the panel.
LEMMA PanelNext ==
    ASSUME WatchInv, [Watch!Next]_watchVars
    PROVE  PanelOK'
  <1>a. PanelOK /\ ScanOK /\ ConfigOK /\ WorldOK
    BY DEF WatchInv
  <1>q. 0 \in 0..(Quiet + 1)
    BY NoticesAssumption
  <1>s. ASSUME isolated' = isolated, lost' = lost, noticed' = noticed PROVE PanelOK'
    BY <1>s, <1>a DEF PanelOK
  <1>1. CASE Watch!SetConfig(alpha) \/ Watch!PeerSilent(alpha) \/ Watch!PeerAnswers(alpha) \/ Watch!DownNotice(alpha)
    BY <1>1, <1>s DEF Watch!SetConfig, Watch!PeerSilent, Watch!PeerAnswers, Watch!DownNotice, Watch!panelState
  <1>2. CASE Watch!ServerDown(alpha)
    BY <1>2, <1>a, <1>q DEF Watch!ServerDown, PanelOK
  <1>3. CASE Watch!Probe(alpha)
    <2>1. isolated' = [isolated EXCEPT ![alpha] = (Answering = {})]
      BY <1>3, <1>a, ProbeIs
    <2>2. lost' = lost /\ noticed' = noticed
      BY <1>3 DEF Watch!Probe
    <2> QED
      BY <2>1, <2>2, <1>a DEF PanelOK
  <1>4. CASE Watch!PanelBack(alpha)
    BY <1>4, <1>a, <1>q DEF Watch!PanelBack, PanelOK
  <1>5. CASE Watch!PanelQuiet(alpha)
    <2>1. Watch!UpTo(lost[alpha] + 1, Quiet + 1) \in 0..(Quiet + 1)
      BY <1>a, NoticesAssumption DEF Watch!UpTo, PanelOK
    <2>2. lost' = [lost EXCEPT ![alpha] = Watch!UpTo(lost[alpha] + 1, Quiet + 1)] /\ isolated' = isolated
      BY <1>5 DEF Watch!PanelQuiet
    <2>3. noticed' = noticed \/ \E ok \in BOOLEAN : noticed' = [noticed EXCEPT ![alpha] = ok]
      BY <1>5 DEF Watch!PanelQuiet
    <2>4. noticed' \in [{alpha} -> BOOLEAN]
      BY <2>3, <1>a DEF PanelOK
    <2>5. lost' \in [{alpha} -> 0..(Quiet + 1)]
      BY <2>1, <2>2, <1>a DEF PanelOK
    <2> QED
      BY <2>2, <2>4, <2>5, <1>a DEF PanelOK
  <1>6. CASE UNCHANGED <<scan, down, announced, noted, run, isolated, lost, noticed>>
    BY <1>6, <1>s
  <1> QED
    BY <1>1, <1>2, <1>3, <1>4, <1>5, <1>6, WatcherMoves DEF Watch!Tick

\* Counting up to a bound.
LEMMA UpToIs ==
    ASSUME NEW n \in 0..DownAfter
    PROVE  /\ Watch!UpTo(n + 1, DownAfter) \in 0..DownAfter /\ n <= Watch!UpTo(n + 1, DownAfter)
           /\ Watch!UpTo(0 + 1, DownAfter) <= Watch!UpTo(n + 1, DownAfter)
           /\ \A m \in 0..DownAfter : n <= m => Watch!UpTo(n + 1, DownAfter) <= Watch!UpTo(m + 1, DownAfter)
  BY NoticesAssumption DEF Watch!UpTo

\* What a step does to the failures counted against the peers: nothing, all
\* forgotten, or one peer's set.
LEMMA CountMoves ==
    ASSUME WatchInv, [Watch!Next]_watchVars
    PROVE  \/ down' = down
           \/ down' = [down EXCEPT ![alpha] = Watch!All(0)]
           \/ Watch!PeerAnswers(alpha) /\ down' = [down EXCEPT ![alpha][Head(scan[alpha].left)] = 0]
           \/ /\ Watch!PeerSilent(alpha)
              /\ down' = [down EXCEPT ![alpha][Head(scan[alpha].left)] =
                            Watch!UpTo(down[alpha][Head(scan[alpha].left)] + 1, DownAfter)]
  <1>a. ScanOK /\ ConfigOK /\ WorldOK
    BY DEF WatchInv
  <1>1. CASE Watch!SetConfig(alpha)
    BY <1>1 DEF Watch!SetConfig
  <1>2. CASE Watch!ServerDown(alpha)
    BY <1>2 DEF Watch!ServerDown
  <1>3. CASE Watch!Probe(alpha)
    BY <1>3, <1>a, ProbeIs
  <1>4. CASE Watch!PeerAnswers(alpha)
    BY <1>4 DEF Watch!PeerAnswers
  <1>5. CASE Watch!PeerSilent(alpha)
    BY <1>5 DEF Watch!PeerSilent, Watch!Failures
  <1>6. CASE Watch!DownNotice(alpha) \/ Watch!PanelBack(alpha) \/ Watch!PanelQuiet(alpha)
    BY <1>6 DEF Watch!DownNotice, Watch!PanelBack, Watch!PanelQuiet, Watch!peers
  <1>7. CASE UNCHANGED <<scan, down, announced, noted, run, isolated, lost, noticed>>
    BY <1>7
  <1> QED
    BY <1>1, <1>2, <1>3, <1>4, <1>5, <1>6, <1>7, WatcherMoves DEF Watch!Tick

\* What a step does to the history of failed ticks: only the start of a tick
\* and a restart change it.
LEMMA RunMoves ==
    ASSUME WatchInv, [Watch!Next]_watchVars
    PROVE  run' = run \/ Watch!Probe(alpha) \/ Watch!ServerDown(alpha)
  <1>1. CASE Watch!SetConfig(alpha)
    BY <1>1 DEF Watch!SetConfig
  <1>2. CASE Watch!PeerAnswers(alpha) \/ Watch!PeerSilent(alpha) \/ Watch!DownNotice(alpha)
             \/ Watch!PanelBack(alpha) \/ Watch!PanelQuiet(alpha)
    BY <1>2 DEF Watch!PeerAnswers, Watch!PeerSilent, Watch!DownNotice, Watch!PanelBack, Watch!PanelQuiet, Watch!peers
  <1> QED
    BY <1>1, <1>2, WatcherMoves DEF Watch!Tick

\* The counts are of their type.
LEMMA CountsNext ==
    ASSUME WatchInv, [Watch!Next]_watchVars
    PROVE  CountsOK'
  <1>a. CountsOK /\ ScanOK /\ ConfigOK /\ WorldOK /\ Earned
    BY DEF WatchInv
  <1>z. Watch!All(0) \in Counts
    BY NoticesAssumption DEF Watch!All, Counts, Fleet
  <1>1. down' \in [{alpha} -> Counts]
    <2>1. PICK p : p = Head(scan[alpha].left)
      OBVIOUS
    <2>2. ASSUME NEW v \in 0..DownAfter, down' = [down EXCEPT ![alpha][p] = v] PROVE down' \in [{alpha} -> Counts]
      BY <2>2, <1>a DEF CountsOK, Counts
    <2>3. CASE down' = down \/ down' = [down EXCEPT ![alpha] = Watch!All(0)]
      BY <2>3, <1>a, <1>z DEF CountsOK
    <2>4. CASE down' = [down EXCEPT ![alpha][p] = 0]
      <3>1. 0 \in 0..DownAfter
        BY NoticesAssumption
      <3> QED
        BY <2>2, <2>4, <3>1
    <2>5. CASE Watch!PeerSilent(alpha) /\ down' = [down EXCEPT ![alpha][p] = Watch!UpTo(down[alpha][p] + 1, DownAfter)]
      <3>1. p \in Fleet
        <4>1. scan[alpha].left # <<>> /\ scan[alpha].left \in Lefts
          BY <2>5, <1>a DEF Watch!PeerSilent, Earned, ScanOK, Scans
        <4> QED
          BY <4>1, <2>1, LeftsAre
      <3>2. down[alpha][p] \in 0..DownAfter
        BY <3>1, <1>a DEF CountsOK, Counts
      <3> QED
        BY <3>2, <2>2, <2>5, UpToIs
    <2> QED
      BY <2>1, <2>3, <2>4, <2>5, CountMoves
  <1>2. run' \in [{alpha} -> Counts]
    <2>1. CASE run' = run
      BY <2>1, <1>a DEF CountsOK
    <2>2. CASE Watch!Probe(alpha)
      <3> DEFINE f == [p \in Fleet |-> IF p = alpha \/ p \in Answering \/ Answering = {}
                                       THEN 0 ELSE Watch!UpTo(run[alpha][p] + 1, DownAfter)]
      <3>1. run' = [run EXCEPT ![alpha] = f]
        BY <2>2, <1>a, ProbeIs
      <3>2. ASSUME NEW p \in Fleet PROVE f[p] \in 0..DownAfter
        <4>1. run[alpha][p] \in 0..DownAfter /\ 0 \in 0..DownAfter
          BY <1>a, NoticesAssumption DEF CountsOK, Counts
        <4>2. Watch!UpTo(run[alpha][p] + 1, DownAfter) \in 0..DownAfter
          BY <4>1, UpToIs
        <4> QED
          BY <4>1, <4>2
      <3>3. f \in Counts
        BY <3>2 DEF Counts
      <3> HIDE DEF f
      <3> QED
        BY <3>1, <3>3, <1>a DEF CountsOK
    <2>3. CASE Watch!ServerDown(alpha)
      BY <2>3, <1>a, <1>z DEF Watch!ServerDown, CountsOK
    <2> QED
      BY <2>1, <2>2, <2>3, RunMoves
  <1> QED
    BY <1>1, <1>2 DEF CountsOK

\* No failure is counted that is not in the run: the invariant behind
\* NoticeEarned.
LEMMA EarnedNext ==
    ASSUME WatchInv, [Watch!Next]_watchVars
    PROVE  Earned'
  <1>a. CountsOK /\ ScanOK /\ ConfigOK /\ WorldOK /\ Earned
    BY DEF WatchInv
  <1>l. scan[alpha].left \in Lefts /\ scan[alpha].pc \in Pcs /\ scan'[alpha].left \in Lefts /\ scan'[alpha].pc \in Pcs
    BY <1>a, ScanNext DEF ScanOK, Scans
  <1>c. \A p \in Fleet : /\ down[alpha][p] \in 0..DownAfter /\ run[alpha][p] \in 0..DownAfter
                         /\ down'[alpha][p] \in 0..DownAfter /\ run'[alpha][p] \in 0..DownAfter
    BY <1>a, CountsNext DEF CountsOK, Counts
  <1>w. \A q \in Lefts : Waiting(q) \subseteq Fleet
    BY DEF Waiting, Fleet
  <1>f. alpha \in DOMAIN down /\ alpha \in DOMAIN run /\ DOMAIN down[alpha] = Fleet
    BY <1>a DEF CountsOK, Counts
  <1>n. DownAfter \in Nat
    BY NoticesAssumption
  \* The scan rests, with the counts as they were or forgotten.
  <1>r. ASSUME scan' = [scan EXCEPT ![alpha] = Watch!Resting],
               \A p \in {beta, gamma} : down'[alpha][p] <= run'[alpha][p]
        PROVE  Earned'
    <2>1. scan'[alpha].pc = "idle" /\ scan'[alpha].left = <<>>
      BY <1>r, <1>a, RestingIs
    <2> QED
      BY <2>1, <1>r, LeftEnds DEF Earned
  <1>1. ASSUME scan' = scan, run' = run, down' = down \/ down' = [down EXCEPT ![alpha] = Watch!All(0)] PROVE Earned'
    <2>1. CASE down' = down
      BY <2>1, <1>1, <1>a DEF Earned
    <2>2. CASE down' = [down EXCEPT ![alpha] = Watch!All(0)]
      <3>1. \A p \in Fleet : down'[alpha][p] = 0
        BY <2>2, <1>f DEF Watch!All, Fleet
      <3>2. ASSUME NEW p \in Waiting(scan[alpha].left) \ scan[alpha].up
            PROVE  Watch!UpTo(down'[alpha][p] + 1, DownAfter) <= run[alpha][p]
        <4>1. p \in Fleet
          BY <1>l, <1>w
        <4>2. PICK d \in 0..DownAfter : d = down[alpha][p]
          BY <4>1, <1>c
        <4>3. /\ Watch!UpTo(d + 1, DownAfter) <= run[alpha][p] /\ down'[alpha][p] = 0
              /\ run[alpha][p] \in 0..DownAfter
          BY <4>1, <4>2, <3>1, <1>a, <1>c DEF Earned
        <4>4. /\ Watch!UpTo(0 + 1, DownAfter) <= Watch!UpTo(d + 1, DownAfter)
              /\ Watch!UpTo(d + 1, DownAfter) \in 0..DownAfter
          BY UpToIs
        <4>5. Watch!UpTo(0 + 1, DownAfter) \in 0..DownAfter
          BY <1>n DEF Watch!UpTo
        <4> QED
          BY <4>3, <4>4, <4>5, <1>n
      <3>3. \A p \in {beta, gamma} : down'[alpha][p] <= run[alpha][p]
        BY <3>1, <1>c DEF Fleet
      <3> QED
        BY <3>2, <3>3, <1>1, <1>a DEF Earned
    <2> QED
      BY <1>1, <2>1, <2>2
  <1>2. CASE Watch!SetConfig(alpha)
    <2>1. scan' = scan /\ run' = run /\ (down' = down \/ down' = [down EXCEPT ![alpha] = Watch!All(0)])
      BY <1>2 DEF Watch!SetConfig
    <2> QED
      BY <2>1, <1>1
  <1>3. CASE Watch!ServerDown(alpha)
    <2>1. /\ scan' = [scan EXCEPT ![alpha] = Watch!Resting] /\ down' = [down EXCEPT ![alpha] = Watch!All(0)]
          /\ run' = [run EXCEPT ![alpha] = Watch!All(0)]
      BY <1>3 DEF Watch!ServerDown
    <2>2. \A p \in Fleet : down'[alpha][p] = 0 /\ run'[alpha][p] = 0
      BY <2>1, <1>f DEF Watch!All, Fleet
    <2>3. \A p \in {beta, gamma} : down'[alpha][p] <= run'[alpha][p]
      BY <2>2 DEF Fleet
    <2> QED
      BY <2>1, <2>3, <1>r
  <1>4. CASE Watch!PanelBack(alpha) \/ Watch!PanelQuiet(alpha)
    <2>1. /\ scan' = [scan EXCEPT ![alpha] = Watch!Resting] /\ down' = down /\ run' = run /\ scan[alpha].pc = "panel"
      BY <1>4 DEF Watch!PanelBack, Watch!PanelQuiet, Watch!EndTick, Watch!peers
    <2>2. \A p \in {beta, gamma} : down[alpha][p] <= run[alpha][p]
      BY <2>1, <1>a, LeftEnds DEF Earned
    <2> QED
      BY <2>1, <2>2, <1>r
  <1>5. CASE Watch!Probe(alpha)
    <2>0. scan[alpha].pc = "idle" /\ scan'[alpha].up = Answering
      BY <1>5, <1>a, ProbeIs
    <2>1. \A p \in {beta, gamma} : down[alpha][p] <= run[alpha][p]
      BY <2>0, <1>a, LeftEnds DEF Earned
    <2>2. CASE Answering = {}
      <3>1. /\ scan'[alpha].pc = "panel" /\ scan'[alpha].left = <<>> /\ down' = [down EXCEPT ![alpha] = Watch!All(0)]
        BY <1>5, <2>2, <1>a, ProbeIs
      <3>2. \A p \in Fleet : down'[alpha][p] = 0
        BY <3>1, <1>f DEF Watch!All, Fleet
      <3>3. \A p \in {beta, gamma} : down'[alpha][p] <= run'[alpha][p]
        BY <3>2, <1>c DEF Fleet
      <3> QED
        BY <3>1, <3>3, LeftEnds DEF Earned
    <2>3. CASE Answering # {}
      <3>1. /\ scan'[alpha].pc = "peers" /\ scan'[alpha].left = <<beta, gamma>> /\ down' = down
        BY <1>5, <2>3, <1>a, ProbeIs
      <3>2. ASSUME NEW p \in {beta, gamma} \ Answering
            PROVE  Watch!UpTo(down[alpha][p] + 1, DownAfter) <= run'[alpha][p]
        <4>1. p \in Fleet /\ p # alpha
          BY NoticesAssumption DEF Fleet
        <4>2. run' = [run EXCEPT ![alpha] =
                        [q \in Fleet |-> IF q = alpha \/ q \in Answering \/ Answering = {}
                                         THEN 0 ELSE Watch!UpTo(run[alpha][q] + 1, DownAfter)]]
          BY <1>5, <1>a, ProbeIs
        <4>3. run'[alpha][p] = Watch!UpTo(run[alpha][p] + 1, DownAfter)
          BY <4>1, <4>2, <2>3, <1>f
        <4>4. down[alpha][p] \in 0..DownAfter /\ run[alpha][p] \in 0..DownAfter /\ down[alpha][p] <= run[alpha][p]
          BY <4>1, <2>1, <1>c
        <4> QED
          BY <4>3, <4>4, UpToIs
      <3> QED
        BY <3>1, <3>2, <2>0, LeftEnds DEF Earned
    <2> QED
      BY <2>2, <2>3
  \* The peer at the head is done with: what is left keeps its counts.
  <1>6. ASSUME Watch!NextPeer(alpha), scan[alpha].pc \in {"peers", "sending"}, run' = run,
               NEW h, h = Head(scan[alpha].left), \A p \in Fleet \ {h} : down'[alpha][p] = down[alpha][p],
               down'[alpha][h] <= run[alpha][h]
        PROVE  Earned'
    <2>1. scan[alpha].left # <<>>
      BY <1>6, <1>a DEF Earned
    <2>2. /\ scan'[alpha].left = Tail(scan[alpha].left) /\ scan'[alpha].up = scan[alpha].up
          /\ scan'[alpha].pc = (IF Tail(scan[alpha].left) = <<>> THEN "panel" ELSE "peers")
      BY <1>6, <1>a, <2>1, NextPeerIs
    <2>3. PICK t : t = Tail(scan[alpha].left)
      OBVIOUS
    <2>4. h \in Fleet /\ Waiting(t) = Waiting(scan[alpha].left) \ {h}
      BY <1>6, <1>l, <2>1, <2>3, LeftsAre
    <2>5. scan'[alpha].left = t /\ scan'[alpha].pc = IF t = <<>> THEN "panel" ELSE "peers"
      BY <2>2, <2>3
    <2>6. ASSUME NEW p \in {beta, gamma} \ Waiting(t) PROVE down'[alpha][p] <= run'[alpha][p]
      <3>1. CASE p = h
        BY <3>1, <1>6
      <3>2. CASE p # h
        <4>1. p \in {beta, gamma} \ Waiting(scan[alpha].left) /\ p \in Fleet
          BY <2>4, <3>2 DEF Fleet
        <4> QED
          BY <4>1, <3>2, <1>6, <1>a DEF Earned
      <3> QED
        BY <3>1, <3>2
    <2>7. ASSUME NEW p \in Waiting(t) \ scan[alpha].up
          PROVE  Watch!UpTo(down'[alpha][p] + 1, DownAfter) <= run'[alpha][p]
      <3>1. p \in Waiting(scan[alpha].left) \ scan[alpha].up /\ p # h /\ p \in Fleet
        BY <2>4, <1>l, <1>w
      <3> QED
        BY <3>1, <1>6, <1>a DEF Earned
    <2>8. /\ scan'[alpha].pc \in {"idle", "panel"} => t = <<>>
          /\ scan'[alpha].pc \in {"peers", "sending"} => t # <<>>
          /\ scan'[alpha].pc # "sending"
      BY <2>5
    <2> QED
      BY <2>2, <2>5, <2>6, <2>7, <2>8 DEF Earned
  <1>h. ASSUME scan[alpha].pc \in {"peers", "sending"}
        PROVE  Head(scan[alpha].left) \in Fleet /\ Head(scan[alpha].left) \in Waiting(scan[alpha].left)
    <2>1. scan[alpha].left # <<>>
      BY <1>h, <1>a DEF Earned
    <2> QED
      BY <2>1, <1>l, LeftsAre
  <1>7. CASE Watch!PeerAnswers(alpha)
    <2>1. PICK h : h = Head(scan[alpha].left)
      OBVIOUS
    <2>2. /\ scan[alpha].pc = "peers" /\ Watch!NextPeer(alpha) /\ run' = run
          /\ down' = [down EXCEPT ![alpha][h] = 0]
      BY <1>7, <2>1 DEF Watch!PeerAnswers
    <2>3. h \in Fleet
      BY <2>1, <2>2, <1>h
    <2>4. down'[alpha][h] = 0 /\ \A p \in Fleet \ {h} : down'[alpha][p] = down[alpha][p]
      BY <2>2, <2>3, <1>f
    <2>5. down'[alpha][h] <= run[alpha][h]
      BY <2>3, <2>4, <1>c
    <2> QED
      BY <2>1, <2>2, <2>4, <2>5, <1>6
  <1>8. CASE Watch!DownNotice(alpha)
    <2>1. PICK h : h = Head(scan[alpha].left)
      OBVIOUS
    <2>2. scan[alpha].pc = "sending" /\ Watch!NextPeer(alpha) /\ run' = run /\ down' = down
      BY <1>8 DEF Watch!DownNotice
    <2>3. h \in Fleet /\ run[alpha][h] = DownAfter
      BY <2>1, <2>2, <1>h, <1>a DEF Earned
    <2>4. down'[alpha][h] <= run[alpha][h] /\ \A p \in Fleet \ {h} : down'[alpha][p] = down[alpha][p]
      BY <2>2, <2>3, <1>c
    <2> QED
      BY <2>1, <2>2, <2>4, <1>6
  <1>9. CASE Watch!PeerSilent(alpha)
    <2>1. PICK h : h = Head(scan[alpha].left)
      OBVIOUS
    <2>2. /\ scan[alpha].pc = "peers" /\ run' = run /\ h \notin scan[alpha].up
          /\ down' = [down EXCEPT ![alpha][h] = Watch!UpTo(down[alpha][h] + 1, DownAfter)]
      BY <1>9, <2>1 DEF Watch!PeerSilent, Watch!Failures
    <2>3. h \in Fleet /\ h \in Waiting(scan[alpha].left)
      BY <2>1, <2>2, <1>h
    <2>4. /\ down'[alpha][h] = Watch!UpTo(down[alpha][h] + 1, DownAfter)
          /\ \A p \in Fleet \ {h} : down'[alpha][p] = down[alpha][p]
      BY <2>2, <2>3, <1>f
    <2>5. down'[alpha][h] <= run[alpha][h]
      BY <2>2, <2>3, <2>4, <1>a DEF Earned
    <2>6. CASE Watch!NextPeer(alpha)
      BY <2>1, <2>2, <2>4, <2>5, <2>6, <1>6
    <2>7. CASE Watch!DownDue(alpha, h) /\ scan' = [scan EXCEPT ![alpha].pc = "sending"]
      <3>1. /\ scan'[alpha].pc = "sending" /\ scan'[alpha].left = scan[alpha].left
            /\ scan'[alpha].up = scan[alpha].up
        BY <2>7, <1>a, SendingIs
      <3>2. Watch!UpTo(down[alpha][h] + 1, DownAfter) >= DownAfter
        BY <2>7 DEF Watch!DownDue, Watch!Failures
      <3>3. down'[alpha][h] \in 0..DownAfter /\ run[alpha][h] \in 0..DownAfter
        BY <2>3, <1>c
      <3>4. run[alpha][h] = DownAfter
        BY <3>2, <3>3, <2>4, <2>5, <1>n
      <3>5. ASSUME NEW p \in {beta, gamma} \ Waiting(scan[alpha].left) PROVE down'[alpha][p] <= run[alpha][p]
        <4>1. p \in Fleet \ {h}
          BY <2>3 DEF Fleet
        <4> QED
          BY <4>1, <2>4, <1>a DEF Earned
      <3>6. ASSUME NEW p \in Waiting(scan[alpha].left) \ scan[alpha].up
            PROVE  Watch!UpTo(down'[alpha][p] + 1, DownAfter) <= run[alpha][p]
        <4>1. p \in Fleet
          BY <1>l, <1>w
        <4>2. CASE p = h
          <5>1. Watch!UpTo(down'[alpha][h] + 1, DownAfter) \in 0..DownAfter
            BY <3>3, UpToIs
          <5> QED
            BY <4>2, <5>1, <3>4, <1>n
        <4>3. CASE p # h
          BY <4>1, <4>3, <2>4, <1>a DEF Earned
        <4> QED
          BY <4>2, <4>3
      <3>7. scan[alpha].left # <<>>
        BY <2>2, <1>a DEF Earned
      <3> QED
        BY <3>1, <3>4, <3>5, <3>6, <3>7, <2>1, <2>2 DEF Earned
    <2> QED
      BY <2>1, <2>6, <2>7, <1>9 DEF Watch!PeerSilent
  <1>10. CASE UNCHANGED <<scan, down, announced, noted, run, isolated, lost, noticed>>
    BY <1>10, <1>1
  <1> QED
    BY <1>2, <1>3, <1>4, <1>5, <1>7, <1>8, <1>9, <1>10, WatcherMoves DEF Watch!Tick

-----------------------------------------------------------------------------
(* Both parts together.                                                    *)

NoticesInv == AlertsInv /\ WatchInv

\* Types, the rows and the engine in step, and the counts of the watchdog:
\* the inductive invariant behind the theorems below (alerts.go, store.go,
\* watchdog.go).
THEOREM NoticesInvariant == NoticesSpec => []NoticesInv
  <1>1. NoticesInit => NoticesInv
    BY AlertsStart, WatchStart DEF NoticesInit, NoticesInv
  <1>2. ASSUME NoticesInv, [NoticesNext]_<<focus, vars, watchVars>> PROVE NoticesInv'
    <2>1. [Next]_vars /\ [Watch!Next]_watchVars
      BY <1>2 DEF NoticesNext
    <2>2. AlertsInv'
      BY <2>1, <1>2, EngineNext, ItemsNext DEF NoticesInv, AlertsInv
    <2>3. WatchInv'
      BY <2>1, <1>2, WorldNext, ConfigNext, ScanNext, CountsNext, MarksNext, PanelNext, EarnedNext
         DEF NoticesInv, WatchInv
    <2> QED
      BY <2>2, <2>3 DEF NoticesInv
  <1> QED
    BY <1>1, <1>2, PTL DEF NoticesSpec

\* A condition has one open row that the engine knows of, also over a restart
\* of the panel and when the list is full, and is not raised again while it
\* lasts (AlertEngine.fire and clear, AddAlert, NewAlertEngine).
THEOREM AlertsAreSound == NoticesSpec => []AlertsSound
  <1>1. NoticesInv => AlertsSound
    BY AlertsAre, WatchTypes DEF NoticesInv, AlertsSound
  <1> QED
    BY <1>1, NoticesInvariant, PTL

\* A down notice follows a full run of failures in which the watcher was not
\* cut off, and a mark is only lost to a restart, a change of role or the
\* peer's answer (probePeers, setConfig), whatever the world does.
THEOREM NoticesAreSound == NoticesSpec => NoticesSound
  <1>1. ASSUME NoticesInv, [NoticesNext]_<<focus, vars, watchVars>>
        PROVE  [\A w \in {alpha}, p \in Fleet : ~noted[w][p] /\ noted'[w][p] => run[w][p] >= DownAfter]_(Watch!vars)
    <2>a. MarksOK /\ ScanOK /\ Earned /\ WatchInv
      BY <1>1 DEF NoticesInv, WatchInv
    <2>1. [Watch!Next]_watchVars
      BY <1>1 DEF NoticesNext
    <2> SUFFICES ASSUME NEW p \in Fleet, ~noted[alpha][p], noted'[alpha][p] PROVE run[alpha][p] >= DownAfter
      OBVIOUS
    <2>2. CASE Watch!DownNotice(alpha)
      <3>1. PICK h : h = Head(scan[alpha].left)
        OBVIOUS
      <3>2. noted' = noted \/ noted' = [noted EXCEPT ![alpha][h] = TRUE]
        BY <2>2, <3>1 DEF Watch!DownNotice
      <3>3. p = h
        BY <3>2, <2>a DEF MarksOK, Flags
      <3>4. run[alpha][h] = DownAfter
        BY <2>2, <3>1, <2>a DEF Watch!DownNotice, Earned
      <3> QED
        BY <3>3, <3>4, NoticesAssumption
    <2>3. CASE Watch!PeerAnswers(alpha)
      <3>1. PICK h : h = Head(scan[alpha].left)
        OBVIOUS
      <3>2. noted' = noted \/ \E ok \in BOOLEAN : noted' = [noted EXCEPT ![alpha][h] = @ /\ ~ok]
        BY <2>3, <3>1 DEF Watch!PeerAnswers
      <3>3. ASSUME NEW ok \in BOOLEAN, noted' = [noted EXCEPT ![alpha][h] = @ /\ ~ok] PROVE FALSE
        <4>1. PICK v \in BOOLEAN : v = (noted[alpha][h] /\ ~ok)
          OBVIOUS
        <4>2. noted' = [noted EXCEPT ![alpha][h] = v]
          BY <3>3, <4>1
        <4>3. CASE p = h
          <5>1. noted'[alpha][p] = v
            BY <4>2, <4>3, <2>a DEF MarksOK, Flags
          <5> QED
            BY <5>1, <4>1, <4>3, Zenon
        <4>4. CASE p # h
          BY <4>2, <4>4, <2>a DEF MarksOK, Flags
        <4> QED
          BY <4>3, <4>4
      <3> QED
        BY <3>2, <3>3
    <2>4. ASSUME noted' = noted PROVE FALSE
      BY <2>4
    <2>5. CASE Watch!SetConfig(alpha) \/ Watch!ServerDown(alpha) \/ Watch!Probe(alpha) \/ Watch!PeerSilent(alpha)
               \/ Watch!PanelBack(alpha) \/ Watch!PanelQuiet(alpha)
               \/ UNCHANGED <<scan, down, announced, noted, run, isolated, lost, noticed>>
      BY <2>4, <2>5 DEF Watch!SetConfig, Watch!ServerDown, Watch!Probe, Watch!PeerSilent, Watch!PanelBack,
                        Watch!PanelQuiet, Watch!peers
    <2> QED
      BY <2>1, <2>2, <2>3, <2>5, WatcherMoves DEF Watch!Tick
  <1>2. ASSUME NoticesInv, [NoticesNext]_<<focus, vars, watchVars>>
        PROVE  [\A w \in {alpha}, p \in Fleet :
                  announced[w][p] /\ ~announced'[w][p]
                    => \/ cfg'[w].role # cfg[w].role \/ ~alive'[w]
                       \/ p \in scan[w].up]_(Watch!vars)
    <2>a. MarksOK /\ ScanOK /\ WorldOK /\ ConfigOK /\ WatchInv
      BY <1>2 DEF NoticesInv, WatchInv
    <2>1. [Watch!Next]_watchVars
      BY <1>2 DEF NoticesNext
    <2> DEFINE Goal(p) == cfg'[alpha].role # cfg[alpha].role \/ ~alive'[alpha] \/ p \in scan[alpha].up
    <2> SUFFICES ASSUME NEW p \in Fleet, announced[alpha][p], ~announced'[alpha][p] PROVE Goal(p)
      OBVIOUS
    <2>4. ASSUME announced' = announced PROVE FALSE
      BY <2>4
    <2>2. CASE Watch!DownNotice(alpha)
      <3>1. PICK h : h = Head(scan[alpha].left)
        OBVIOUS
      <3>2. announced' = announced \/ announced' = [announced EXCEPT ![alpha][h] = TRUE]
        BY <2>2, <3>1 DEF Watch!DownNotice
      <3> QED
        BY <3>2, <2>4, <2>a DEF MarksOK, Flags
    <2>3. CASE Watch!PeerAnswers(alpha)
      <3>1. PICK h : h = Head(scan[alpha].left)
        OBVIOUS
      <3>2. announced' = [announced EXCEPT ![alpha][h] = FALSE] /\ h \in scan[alpha].up
        BY <2>3, <3>1 DEF Watch!PeerAnswers
      <3>3. p = h
        BY <3>2, <2>a DEF MarksOK, Flags
      <3> QED
        BY <3>2, <3>3
    <2>5. CASE Watch!SetConfig(alpha)
      <3>1. Watch!RoleChanges(alpha) /\ cfg' = [cfg EXCEPT ![alpha] = Watch!Elected(alpha)]
        BY <2>4, <2>5 DEF Watch!SetConfig
      <3>2. cfg'[alpha] = Watch!Elected(alpha)
        BY <3>1, <2>a DEF ConfigOK
      <3> QED
        BY <3>1, <3>2 DEF Watch!RoleChanges
    <2>6. CASE Watch!ServerDown(alpha)
      <3>1. alive' = [alive EXCEPT ![alpha] = FALSE]
        BY <2>6 DEF Watch!ServerDown
      <3>2. alive'[alpha] = FALSE
        BY <3>1, <2>a DEF WorldOK, Flags, Fleet
      <3> QED
        BY <3>2
    <2>7. CASE Watch!Probe(alpha) \/ Watch!PeerSilent(alpha) \/ Watch!PanelBack(alpha) \/ Watch!PanelQuiet(alpha)
               \/ UNCHANGED <<scan, down, announced, noted, run, isolated, lost, noticed>>
      BY <2>4, <2>7 DEF Watch!Probe, Watch!PeerSilent, Watch!PanelBack, Watch!PanelQuiet, Watch!peers
    <2> HIDE DEF Goal
    <2> QED
      BY <2>1, <2>2, <2>3, <2>5, <2>6, <2>7, WatcherMoves DEF Watch!Tick
  <1>3. NoticesSpec => Watch!NoticeEarned
    BY <1>1, NoticesInvariant, PTL DEF NoticesSpec, Watch!NoticeEarned, Fleet
  <1>4. NoticesSpec => Watch!MarkKept
    BY <1>2, NoticesInvariant, PTL DEF NoticesSpec, Watch!MarkKept, Fleet
  <1> QED
    BY <1>3, <1>4 DEF NoticesSound
=============================================================================
