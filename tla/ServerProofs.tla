---------------------------- MODULE ServerProofs ----------------------------
(***************************************************************************)
(* Theorems about what the web server keeps beside the articles, for any   *)
(* accounts, articles, administrators, pages, CVEs and bounds.  Each part  *)
(* has an inductive invariant of its own, which its module states.         *)
(***************************************************************************)
EXTENDS Server, FiniteSetTheorems, FunctionTheorems, SequenceTheorems, WellFoundedInduction, TLAPS

-----------------------------------------------------------------------------
(* Arithmetic and sequences *)

\* A set of naturals has a least member.
LEMMA LeastOf ==
  ASSUME NEW T, T \subseteq Nat, T # {}
  PROVE  \E x \in T : \A y \in T : x <= y
  <1> DEFINE Less == {ss \in Nat \X Nat : ss[1] < ss[2]}
  <1>1. IsWellFoundedOn(Less, Nat)
    BY NatLessThanWellFounded DEF OpToRel
  <1>2. \A x, y \in Nat : <<y, x>> \in Less <=> y < x
    OBVIOUS
  <1> HIDE DEF Less
  <1>3. PICK x \in T : \A y \in T : ~ (<<y, x>> \in Less)
    BY <1>1, WFMin
  <1>4. ASSUME NEW y \in T
        PROVE  x <= y
    <2>1. x \in Nat /\ y \in Nat /\ ~ (y < x)
      BY <1>2, <1>3
    <2>2. QED
      BY <2>1
  <1>5. QED
    BY <1>4

\* The rest of a sequence of naturals after its first m elements.
LEMMA RestOf ==
  ASSUME NEW s \in Seq(Nat), NEW m \in Nat, NEW d \in Nat, m + d <= Len(s)
  PROVE  /\ [i \in 1 .. d |-> s[m + i]] \in Seq(Nat)
         /\ Len([i \in 1 .. d |-> s[m + i]]) = d
         /\ \A i \in 1 .. d : [j \in 1 .. d |-> s[m + j]][i] = s[m + i]
  <1>1. \A i \in 1 .. d : s[m + i] \in Nat
    OBVIOUS
  <1>2. [i \in 1 .. d |-> s[m + i]] \in Seq(Nat)
    BY <1>1
  <1>3. QED
    BY <1>2

-----------------------------------------------------------------------------
(* The limiter *)

LEMMA LimiterFacts ==
  ASSUME LimiterInv, NEW k \in Key
  PROVE  /\ buckets[k] \in Seq(Nat) /\ granted[k] \in Seq(Nat)
         /\ now \in Nat /\ now - Window \in Int /\ Limit \in Nat /\ Limit > 0
         /\ \A i, j \in DOMAIN buckets[k] : i <= j => buckets[k][i] <= buckets[k][j]
  <1>1. /\ buckets[k] \in Seq(Nat) /\ granted[k] \in Seq(Nat)
        /\ now \in Nat /\ now - Window \in Int /\ Limit \in Nat /\ Limit > 0
    BY LimiterAssumption DEF LimiterInv
  <1> DEFINE lost == Len(granted[k]) - Len(buckets[k])
  <1>2. /\ lost \in Nat
        /\ \A i \in DOMAIN buckets[k] : /\ lost + i \in DOMAIN granted[k]
                                        /\ buckets[k][i] = granted[k][lost + i]
    BY <1>1 DEF LimiterInv, BucketIsTheRest
  <1>3. \A i, j \in DOMAIN granted[k] : i <= j => granted[k][i] <= granted[k][j]
    BY DEF LimiterInv, GrantedInOrder
  <1>4. ASSUME NEW i \in DOMAIN buckets[k], NEW j \in DOMAIN buckets[k], i <= j
        PROVE  buckets[k][i] <= buckets[k][j]
    <2>1. i \in Nat /\ j \in Nat
      BY <1>1
    <2>2. lost + i <= lost + j
      BY <1>2, <1>4, <2>1
    <2>3. QED
      BY <1>2, <1>3, <2>2
  <1>5. QED
    BY <1>1, <1>4

\* What is kept of a bucket is a rest of it: the loop over its entries, which
\* are in order, keeps none up to some entry and all after it.
LEMMA LiveIsARest ==
  ASSUME LimiterInv, NEW k \in Key
  PROVE  \E m \in 0 .. Len(buckets[k]) :
           /\ Live(k) = [i \in 1 .. Len(buckets[k]) - m |-> buckets[k][m + i]]
           /\ \A i \in 1 .. m : buckets[k][i] <= now - Window
  <1> DEFINE b == buckets[k]
             c == now - Window
  <1>1. /\ b \in Seq(Nat) /\ c \in Int
        /\ \A i, j \in DOMAIN b : i <= j => b[i] <= b[j]
    BY LimiterFacts
  <1>2. PICK m \in 0 .. Len(b) : \A i \in 1 .. Len(b) : b[i] > c <=> i > m
    <2> DEFINE T == {i \in 1 .. Len(b) : b[i] > c}
    <2>1. CASE T = {}
      <3>1. \A i \in 1 .. Len(b) : ~ (b[i] > c) /\ ~ (i > Len(b))
        BY <1>1, <2>1
      <3>2. Len(b) \in 0 .. Len(b)
        BY <1>1
      <3>3. QED
        BY <3>1, <3>2
    <2>2. CASE T # {}
      <3>1. T \subseteq Nat
        BY <1>1
      <3>2. PICK t \in T : \A j \in T : t <= j
        BY <2>2, <3>1, LeastOf
      <3>3. t - 1 \in 0 .. Len(b)
        BY <1>1, <3>2
      <3>4. ASSUME NEW i \in 1 .. Len(b)
            PROVE  b[i] > c <=> i > t - 1
        <4>1. t \in 1 .. Len(b) /\ b[t] > c /\ Len(b) \in Nat
          BY <1>1, <3>2
        <4>2. b[i] \in Nat /\ b[t] \in Nat
          BY <1>1, <4>1
        <4>3. b[i] > c => t <= i
          BY <3>2
        <4>4. t <= i => b[t] <= b[i]
          BY <1>1, <4>1
        <4>5. QED
          BY <1>1, <4>1, <4>2, <4>3, <4>4
      <3>5. QED
        BY <3>3, <3>4
    <2>3. QED
      BY <2>1, <2>2
  <1> DEFINE Rest(n) == IF n <= m THEN << >> ELSE [i \in 1 .. n - m |-> b[m + i]]
             keeps(f) == [n \in 0 .. Len(b) |->
                            IF n = 0 THEN << >>
                            ELSE IF b[n] > c THEN Append(f[n - 1], b[n]) ELSE f[n - 1]]
             g == [n \in 0 .. Len(b) |-> Rest(n)]
  <1>0. ASSUME NEW p \in 0 .. Len(b), p >= m
        PROVE  /\ Rest(p) \in Seq(Nat) /\ Len(Rest(p)) = p - m
               /\ \A i \in 1 .. p - m : Rest(p)[i] = b[m + i]
    <2>1. p \in Nat /\ m \in Nat /\ Len(b) \in Nat
      BY <1>1
    <2>2. p - m \in Nat /\ m + (p - m) <= Len(b)
      BY <1>0, <2>1
    <2>3. CASE p = m
      <3>1. p - m = 0 /\ Rest(p) = << >> /\ 1 .. 0 = {}
        BY <2>1, <2>3
      <3> HIDE DEF Rest, b
      <3>2. Rest(p) \in Seq(Nat) /\ Len(Rest(p)) = 0
        BY <3>1
      <3>3. QED
        BY <3>1, <3>2
    <2>4. CASE p # m
      <3>1. Rest(p) = [i \in 1 .. p - m |-> b[m + i]]
        BY <1>0, <2>1, <2>4
      <3> HIDE DEF Rest, b
      <3>2. QED
        BY <1>1, <2>1, <2>2, <3>1, RestOf
    <2>5. QED
      BY <2>3, <2>4
  <1>3. ASSUME NEW n \in 1 .. Len(b)
        PROVE  Rest(n) = IF b[n] > c THEN Append(Rest(n - 1), b[n]) ELSE Rest(n - 1)
    <2>1. n \in Nat /\ m \in Nat /\ Len(b) \in Nat /\ b[n] \in Nat
      BY <1>1
    <2>2. CASE n <= m
      BY <1>2, <2>1, <2>2
    <2>3. CASE n > m
      <3>1. b[n] > c
        BY <1>2, <2>3
      <3>2. /\ Rest(n - 1) \in Seq(Nat) /\ Len(Rest(n - 1)) = n - 1 - m
            /\ \A i \in 1 .. n - 1 - m : Rest(n - 1)[i] = b[m + i]
        <4>1. n - 1 \in 0 .. Len(b) /\ n - 1 >= m
          BY <2>1, <2>3
        <4> HIDE DEF Rest, b
        <4>2. QED
          BY <1>0, <4>1
      <3>3. /\ Rest(n) \in Seq(Nat) /\ Len(Rest(n)) = n - m
            /\ \A i \in 1 .. n - m : Rest(n)[i] = b[m + i]
        <4>1. n \in 0 .. Len(b) /\ n >= m
          BY <2>1, <2>3
        <4> HIDE DEF Rest, b
        <4>2. QED
          BY <1>0, <4>1
      <3> DEFINE more == Append(Rest(n - 1), b[n])
      <3>4. more \in Seq(Nat) /\ Len(more) = n - m
            /\ \A i \in 1 .. n - m : more[i] = IF i <= n - 1 - m THEN Rest(n - 1)[i] ELSE b[n]
        BY <2>1, <2>3, <3>2
      <3> HIDE DEF more, Rest, b
      <3>5. ASSUME NEW i \in 1 .. n - m
            PROVE  more[i] = Rest(n)[i]
        <4>1. CASE i <= n - 1 - m
          BY <2>1, <2>3, <3>2, <3>3, <3>4, <4>1
        <4>2. CASE ~ (i <= n - 1 - m)
          <5>1. m + i = n
            BY <2>1, <4>2
          <5>2. QED
            BY <3>3, <3>4, <4>2, <5>1
        <4>3. QED
          BY <4>1, <4>2
      <3>6. more = Rest(n)
        BY <3>3, <3>4, <3>5, SeqEqual
      <3>7. QED
        BY <3>1, <3>6 DEF more
    <2>4. QED
      BY <2>1, <2>2, <2>3
  <1>4. g = keeps(g)
    <2>1. Rest(0) = << >>
      BY <1>1
    <2>2. \A n \in 0 .. Len(b) : n # 0 => n \in 1 .. Len(b) /\ n - 1 \in 0 .. Len(b)
      BY <1>1
    <2> HIDE DEF b, c, Rest
    <2>3. QED
      BY <1>3, <2>1, <2>2
  <1>5. ASSUME NEW f, f = keeps(f)
        PROVE  f = g
    <2>1. DOMAIN f = 0 .. Len(b) /\ f = [n \in 0 .. Len(b) |-> f[n]]
      BY <1>5
    <2> DEFINE T == {n \in 0 .. Len(b) : f[n] # g[n]}
    <2>2. T = {}
      <3>1. SUFFICES ASSUME T # {} PROVE FALSE
        OBVIOUS
      <3>2. PICK t \in T : \A n \in T : t <= n
        <4>1. T \subseteq Nat
          OBVIOUS
        <4>2. QED
          BY <3>1, <4>1, LeastOf
      <3>3. f[0] = << >> /\ g[0] = << >> /\ 0 \in 0 .. Len(b)
        <4>1. 0 \in 0 .. Len(b)
          BY <1>1
        <4> HIDE DEF b, c, Rest
        <4>2. QED
          BY <1>4, <1>5, <4>1
      <3>4. t \in 1 .. Len(b) /\ t - 1 \in 0 .. Len(b) /\ t - 1 \notin T
        <4>1. Len(b) \in Nat
          BY <1>1
        <4> HIDE DEF g, b
        <4>2. t \in 0 .. Len(b) /\ t # 0
          BY <3>2, <3>3
        <4>3. t \in 1 .. Len(b) /\ t - 1 \in 0 .. Len(b) /\ ~ (t <= t - 1)
          BY <4>1, <4>2
        <4>4. QED
          BY <3>2, <4>3
      <3>5. f[t - 1] = g[t - 1]
        BY <3>4
      <3>6. \A h : h = keeps(h) =>
              h[t] = IF b[t] > c THEN Append(h[t - 1], b[t]) ELSE h[t - 1]
        <4>1. t \in 0 .. Len(b) /\ t # 0
          BY <3>4
        <4> HIDE DEF b, c
        <4>2. QED
          BY <4>1
      <3> HIDE DEF keeps, g, b, c
      <3>7. f[t] = g[t]
        BY <1>4, <1>5, <3>5, <3>6
      <3>8. QED
        BY <3>2, <3>7
    <2>3. \A n \in 0 .. Len(b) : f[n] = g[n]
      BY <2>2
    <2> HIDE DEF keeps, b, c, Rest
    <2>4. QED
      BY <2>1, <2>3
  <1>6. Live(k) = g[Len(b)]
    <2>1. Live(k) = (CHOOSE f : f = keeps(f))[Len(b)]
      BY DEF Live
    <2> HIDE DEF keeps, g, b, c
    <2>2. (CHOOSE f : f = keeps(f)) = g
      BY <1>4, <1>5
    <2>3. QED
      BY <2>1, <2>2
  <1>7. Live(k) = [i \in 1 .. Len(b) - m |-> b[m + i]]
    <2>1. Len(b) \in Nat /\ g[Len(b)] = Rest(Len(b))
      BY <1>1
    <2>2. Len(b) <= m => 1 .. Len(b) - m = {}
      BY <1>1
    <2>3. QED
      BY <1>6, <2>1, <2>2
  <1>8. \A i \in 1 .. m : buckets[k][i] <= now - Window
    <2>1. ASSUME NEW i \in 1 .. m
          PROVE  b[i] <= c
      <3>1. i \in 1 .. Len(b) /\ ~ (i > m)
        BY <1>1
      <3>2. ~ (b[i] > c) /\ b[i] \in Nat /\ c \in Int
        <4> HIDE DEF c
        <4>1. QED
          BY <1>1, <1>2, <3>1
      <3>3. QED
        BY <3>2
    <2>2. QED
      BY <2>1
  <1>9. QED
    <2>1. m \in 0 .. Len(buckets[k])
      OBVIOUS
    <2>2. Live(k) = [i \in 1 .. Len(buckets[k]) - m |-> buckets[k][m + i]]
      BY <1>7
    <2> HIDE DEF b, c, Rest, keeps, g
    <2>3. QED
      BY <1>8, <2>1, <2>2

\* What LimiterInv says of a key that was granted g and whose bucket is b.
KeyInv(g, b, t) ==
  /\ g \in Seq(Nat) /\ b \in Seq(Nat)
  /\ \A i, j \in DOMAIN g : g[i] \in 0 .. t /\ (i <= j => g[i] <= g[j])
  /\ Len(g) - Len(b) >= 0
  /\ \A i \in 1 .. Len(g) - Len(b) : g[i] <= t - Window
  /\ \A i \in DOMAIN b : b[i] = g[Len(g) - Len(b) + i]
  /\ \A i \in DOMAIN g : i + Limit \in DOMAIN g => g[i + Limit] - g[i] >= Window

LEMMA LimiterByKey ==
  /\ LimiterInv <=> /\ now \in Nat /\ {buckets, granted} \subseteq [Key -> Seq(Nat)]
                    /\ \A k \in Key : KeyInv(granted[k], buckets[k], now)
  /\ LimiterInv' <=> /\ now' \in Nat /\ {buckets', granted'} \subseteq [Key -> Seq(Nat)]
                     /\ \A k \in Key : KeyInv(granted'[k], buckets'[k], now')
  BY DEF LimiterInv, GrantedInOrder, BucketIsTheRest, WindowHolds, KeyInv

LEMMA KeyStarts ==
  ASSUME NEW t \in Nat
  PROVE  KeyInv(<< >>, << >>, t)
  BY DEF KeyInv

LEMMA KeyLater ==
  ASSUME NEW g, NEW b, NEW t \in Nat, KeyInv(g, b, t), NEW later \in Nat, later >= t
  PROVE  KeyInv(g, b, later)
  <1>1. \A i \in DOMAIN g : g[i] \in Nat
    BY DEF KeyInv
  <1>2. QED
    BY <1>1, LimiterAssumption DEF KeyInv

\* l is the rest of g after d expired times.
IsRest(l, g, d, t) ==
  /\ l \in Seq(Nat) /\ d \in Nat /\ Len(l) + d = Len(g)
  /\ \A i \in 1 .. d : g[i] <= t - Window
  /\ \A i \in DOMAIN l : l[i] = g[d + i]

LEMMA KeyKeepsRest ==
  ASSUME NEW g, NEW b, NEW t \in Nat, KeyInv(g, b, t), NEW l, NEW d, IsRest(l, g, d, t)
  PROVE  KeyInv(g, l, t)
  <1>1. Len(g) - Len(l) = d /\ d \in Nat /\ d >= 0
    BY DEF KeyInv, IsRest
  <1>2. /\ l \in Seq(Nat) /\ \A i \in 1 .. d : g[i] <= t - Window
        /\ \A i \in DOMAIN l : l[i] = g[d + i]
    BY DEF IsRest
  <1>3. /\ Len(g) - Len(l) >= 0
        /\ \A i \in 1 .. Len(g) - Len(l) : g[i] <= t - Window
        /\ \A i \in DOMAIN l : l[i] = g[Len(g) - Len(l) + i]
    BY <1>1, <1>2, Zenon
  <1>4. QED
    BY <1>2, <1>3, Zenon DEF KeyInv

LEMMA AppendFacts ==
  ASSUME NEW s \in Seq(Nat), NEW e \in Nat
  PROVE  /\ Append(s, e) \in Seq(Nat) /\ Len(Append(s, e)) = Len(s) + 1
         /\ Append(s, e)[Len(s) + 1] = e
         /\ \A i \in 1 .. Len(s) : Append(s, e)[i] = s[i]
  OBVIOUS

LEMMA KeyGrants ==
  ASSUME NEW g, NEW b, NEW t \in Nat, KeyInv(g, b, t), NEW l, NEW d, IsRest(l, g, d, t),
         Len(l) < Limit
  PROVE  KeyInv(Append(g, t), Append(l, t), t)
  <1> DEFINE G == Append(g, t)
             L == Append(l, t)
  <1>1. /\ g \in Seq(Nat) /\ l \in Seq(Nat) /\ d \in Nat /\ Limit \in Nat /\ Limit > 0
        /\ Len(g) \in Nat /\ Len(l) \in Nat /\ Len(g) = Len(l) + d /\ Window \in Nat
    BY LimiterAssumption DEF KeyInv, IsRest
  <1>2. /\ G \in Seq(Nat) /\ Len(G) = Len(g) + 1 /\ G[Len(g) + 1] = t
        /\ \A i \in 1 .. Len(g) : G[i] = g[i]
    BY <1>1, AppendFacts, Zenon
  <1>3. /\ L \in Seq(Nat) /\ Len(L) = Len(l) + 1 /\ L[Len(l) + 1] = t
        /\ \A i \in 1 .. Len(l) : L[i] = l[i]
    BY <1>1, AppendFacts, Zenon
  <1>4. /\ Len(G) - Len(L) = d
        /\ DOMAIN G = 1 .. Len(g) + 1 /\ DOMAIN L = 1 .. Len(l) + 1
        /\ DOMAIN g = 1 .. Len(g) /\ DOMAIN l = 1 .. Len(l)
    BY <1>1, <1>2, <1>3
  <1> HIDE DEF G, L
  <1>5. \A n \in DOMAIN G : n \in 1 .. Len(g) \/ n = Len(g) + 1
    <2>1. \A z \in Nat : \A n \in 1 .. z + 1 : n \in 1 .. z \/ n = z + 1
      OBVIOUS
    <2>2. QED
      BY <1>1, <1>4, <2>1, Zenon
  <1>6. ASSUME NEW i \in DOMAIN G, NEW j \in DOMAIN G
        PROVE  G[i] \in 0 .. t /\ (i <= j => G[i] <= G[j])
    <2>1. \A n \in 1 .. Len(g) : g[n] \in 0 .. t
      BY <1>4 DEF KeyInv
    <2>2. \A n \in DOMAIN G : n \in 1 .. Len(g) \/ n = Len(g) + 1
      BY <1>5
    <2>3. G[i] \in 0 .. t /\ G[j] \in 0 .. t
      <3>1. t \in 0 .. t
        OBVIOUS
      <3>2. QED
        BY <1>2, <2>1, <2>2, <3>1, Zenon
    <2>4. CASE i \in 1 .. Len(g) /\ j \in 1 .. Len(g)
      BY <1>2, <1>4, <2>3, <2>4 DEF KeyInv
    <2>5. CASE j = Len(g) + 1
      BY <1>2, <2>3, <2>5
    <2>6. CASE i = Len(g) + 1 /\ j \in 1 .. Len(g)
      BY <1>1, <2>3, <2>6
    <2>7. QED
      BY <2>2, <2>4, <2>5, <2>6
  <1>7. \A i \in 1 .. d : G[i] <= t - Window
    <2>1. \A i \in 1 .. d : i \in 1 .. Len(g)
      BY <1>1
    <2>2. QED
      BY <1>2, <2>1 DEF IsRest
  <1>8. ASSUME NEW i \in DOMAIN L
        PROVE  L[i] = G[d + i]
    <2>1. CASE i \in 1 .. Len(l)
      <3>1. d + i \in 1 .. Len(g)
        <4>1. \A y, z \in Nat : \A n \in 1 .. z : y + n \in 1 .. z + y
          OBVIOUS
        <4>2. QED
          BY <1>1, <2>1, <4>1, Zenon
      <3>2. QED
        BY <1>2, <1>3, <1>4, <2>1, <3>1 DEF IsRest
    <2>2. CASE i = Len(l) + 1
      <3>1. d + i = Len(g) + 1
        BY <1>1, <2>2
      <3>2. QED
        BY <1>2, <1>3, <2>2, <3>1
    <2>3. QED
      BY <1>1, <1>4, <2>1, <2>2
  <1>9. ASSUME NEW i \in DOMAIN G, i + Limit \in DOMAIN G
        PROVE  G[i + Limit] - G[i] >= Window
    <2>1. i \in 1 .. Len(g)
      BY <1>1, <1>4, <1>9
    <2>2. CASE i + Limit \in 1 .. Len(g)
      <3>1. g[i + Limit] - g[i] >= Window
        BY <1>4, <2>1, <2>2 DEF KeyInv
      <3>2. QED
        BY <1>2, <2>1, <2>2, <3>1, Zenon
    <2>3. CASE i + Limit = Len(g) + 1
      <3>1. i \in 1 .. d
        BY <1>1, <2>1, <2>3
      <3>2. G[i] <= t - Window /\ G[i] \in Nat /\ G[i + Limit] = t
        BY <1>2, <1>6, <1>7, <2>1, <2>3, <3>1
      <3>3. QED
        BY <1>1, <3>2
    <2>4. i + Limit \in 1 .. Len(g) \/ i + Limit = Len(g) + 1
      BY <1>9, <1>5
    <2>5. QED
      BY <2>2, <2>3, <2>4
  <1>10. KeyInv(G, L, t)
    BY <1>1, <1>2, <1>3, <1>4, <1>6, <1>7, <1>8, <1>9 DEF KeyInv
  <1>11. QED
    BY <1>10 DEF G, L

\* What is live of a bucket is a rest of what was granted.
LEMMA LiveOfGranted ==
  ASSUME LimiterInv, NEW k \in Key
  PROVE  \E d : IsRest(Live(k), granted[k], d, now)
  <1> DEFINE b == buckets[k]
             g == granted[k]
  <1>1. /\ b \in Seq(Nat) /\ g \in Seq(Nat) /\ Len(b) \in Nat /\ Len(g) \in Nat
        /\ KeyInv(g, b, now) /\ now \in Nat /\ Window \in Nat
    BY LimiterByKey, LimiterAssumption
  <1>2. PICK m \in 0 .. Len(b) : /\ Live(k) = [i \in 1 .. Len(b) - m |-> b[m + i]]
                                 /\ \A i \in 1 .. m : b[i] <= now - Window
    BY LiveIsARest
  <1> DEFINE lost == Len(g) - Len(b)
  <1>3. /\ lost \in Nat /\ m \in Nat /\ Len(b) - m \in Nat /\ m + (Len(b) - m) <= Len(b)
        /\ Len(b) - m + (lost + m) = Len(g)
    <2>1. Len(g) - Len(b) >= 0
      BY <1>1 DEF KeyInv
    <2>2. m \in Nat /\ m <= Len(b)
      BY <1>1
    <2> HIDE DEF b, g
    <2>3. QED
      BY <1>1, <2>1, <2>2
  <1>4. Live(k) \in Seq(Nat) /\ Len(Live(k)) = Len(b) - m
        /\ \A i \in 1 .. Len(b) - m : Live(k)[i] = b[m + i]
    <2> HIDE DEF b
    <2> DEFINE rest == [i \in 1 .. Len(b) - m |-> b[m + i]]
    <2>1. /\ rest \in Seq(Nat) /\ Len(rest) = Len(b) - m
          /\ \A i \in 1 .. Len(b) - m : rest[i] = b[m + i]
      BY <1>1, <1>3, RestOf
    <2>2. QED
      BY <1>2, <2>1, Zenon
  <1>5. \A i \in 1 .. Len(b) : b[i] = g[lost + i]
    <2>1. DOMAIN b = 1 .. Len(b) /\ \A i \in DOMAIN b : b[i] = g[Len(g) - Len(b) + i]
      BY <1>1 DEF KeyInv
    <2> HIDE DEF b, g
    <2>2. QED
      BY <2>1, Zenon
  <1>6. ASSUME NEW i \in 1 .. lost + m
        PROVE  g[i] <= now - Window
    <2>1. CASE i \in 1 .. lost
      BY <1>1, <2>1 DEF KeyInv
    <2>2. CASE i - lost \in 1 .. m
      <3> HIDE DEF b, g, lost
      <3>1. i - lost \in 1 .. Len(b) /\ lost + (i - lost) = i
        BY <1>1, <1>3, <2>2
      <3>2. g[i] = b[i - lost]
        BY <1>5, <3>1
      <3>3. QED
        BY <1>2, <2>2, <3>2
    <2>3. QED
      BY <1>3, <2>1, <2>2
  <1>7. ASSUME NEW i \in 1 .. Len(b) - m
        PROVE  Live(k)[i] = g[lost + m + i]
    <2> HIDE DEF b, g, lost
    <2>1. m + i \in 1 .. Len(b) /\ lost + (m + i) = lost + m + i
      BY <1>1, <1>3
    <2>2. QED
      BY <1>4, <1>5, <2>1
  <1>8. IsRest(Live(k), g, lost + m, now)
    <2> HIDE DEF b, g, lost
    <2>1. lost + m \in Nat /\ DOMAIN Live(k) = 1 .. Len(b) - m /\ Len(Live(k)) + (lost + m) = Len(g)
      BY <1>3, <1>4
    <2>2. QED
      BY <1>4, <1>6, <1>7, <2>1 DEF IsRest
  <1>9. QED
    BY <1>8

LEMMA StepLimiter == LimiterInv /\ [EnrichmentNext]_enrVars => LimiterInv'
  <1> SUFFICES ASSUME LimiterInv, [EnrichmentNext]_enrVars PROVE LimiterInv'
    OBVIOUS
  <1>1. /\ now \in Nat /\ buckets \in [Key -> Seq(Nat)] /\ granted \in [Key -> Seq(Nat)]
        /\ \A k \in Key : KeyInv(granted[k], buckets[k], now)
    BY LimiterByKey
  <1>2. \A k \in Key : Live(k) \in Seq(Nat) /\ \E d : IsRest(Live(k), granted[k], d, now)
    BY LiveOfGranted DEF IsRest
  <1>3. CASE UNCHANGED <<now, limVars>>
    BY <1>1, <1>3, LimiterByKey DEF limVars
  <1>4. ASSUME NEW r \in Request, Admit(r)
        PROVE  LimiterInv'
    <2>1. /\ Route \in Key /\ Len(Live(Route)) < Limit /\ now' = now
          /\ buckets' = [buckets EXCEPT ![Route] = Append(Live(Route), now)]
          /\ granted' = [granted EXCEPT ![Route] = Append(granted[Route], now)]
      BY <1>4, EnrichmentAssumption DEF Admit, Allow
    <2>2. KeyInv(Append(granted[Route], now), Append(Live(Route), now), now)
      BY <1>1, <1>2, <2>1, KeyGrants
    <2>3. ASSUME NEW k \in Key
          PROVE  KeyInv(granted'[k], buckets'[k], now)
      BY <1>1, <2>1, <2>2
    <2>4. buckets' \in [Key -> Seq(Nat)] /\ granted' \in [Key -> Seq(Nat)]
      <3>1. Append(Live(Route), now) \in Seq(Nat) /\ Append(granted[Route], now) \in Seq(Nat)
        BY <1>1, <1>2, <2>1
      <3>2. QED
        BY <1>1, <2>1, <3>1
    <2>5. QED
      BY <1>1, <2>1, <2>3, <2>4, LimiterByKey
  <1>5. ASSUME NEW r \in Request, TooMany(r)
        PROVE  LimiterInv'
    <2>1. /\ Route \in Key /\ now' = now /\ granted' = granted
          /\ buckets' = [buckets EXCEPT ![Route] = Live(Route)]
      BY <1>5, EnrichmentAssumption DEF TooMany, Refuse
    <2>2. KeyInv(granted[Route], Live(Route), now)
      BY <1>1, <1>2, <2>1, KeyKeepsRest
    <2>3. ASSUME NEW k \in Key
          PROVE  KeyInv(granted'[k], buckets'[k], now)
      BY <1>1, <2>1, <2>2
    <2>4. buckets' \in [Key -> Seq(Nat)]
      BY <1>1, <1>2, <2>1
    <2>5. QED
      BY <1>1, <2>1, <2>3, <2>4, LimiterByKey
  <1>6. CASE SweepBuckets
    <2>1. /\ now' = now /\ granted' = granted
          /\ buckets' = [k \in Key |-> IF Live(k) = << >> THEN << >> ELSE buckets[k]]
      BY <1>6 DEF SweepBuckets, Sweep
    <2>2. ASSUME NEW k \in Key
          PROVE  KeyInv(granted'[k], buckets'[k], now)
      <3>1. CASE Live(k) = << >>
        <4>1. KeyInv(granted[k], Live(k), now)
          BY <1>1, <1>2, KeyKeepsRest
        <4>2. QED
          BY <2>1, <3>1, <4>1
      <3>2. CASE Live(k) # << >>
        BY <1>1, <2>1, <3>2
      <3>3. QED
        BY <3>1, <3>2
    <2>3. buckets' \in [Key -> Seq(Nat)]
      <3>1. << >> \in Seq(Nat)
        OBVIOUS
      <3>2. QED
        BY <1>1, <2>1, <3>1
    <2>4. QED
      BY <1>1, <2>1, <2>2, <2>3, LimiterByKey
  <1>7. CASE Restart
    <2>1. /\ now' = now /\ granted' = [k \in Key |-> << >>] /\ buckets' = [k \in Key |-> << >>]
      BY <1>7 DEF Restart
    <2>2. \A k \in Key : KeyInv(granted'[k], buckets'[k], now')
      BY <1>1, <2>1, KeyStarts
    <2>3. {buckets', granted'} \subseteq [Key -> Seq(Nat)]
      <3>1. << >> \in Seq(Nat)
        OBVIOUS
      <3>2. QED
        BY <2>1, <3>1
    <2>4. QED
      BY <1>1, <2>1, <2>2, <2>3, LimiterByKey
  <1>8. CASE TimePasses
    <2>1. now' = now + 1 /\ granted' = granted /\ buckets' = buckets
      BY <1>8 DEF TimePasses, limVars
    <2>2. now' \in Nat /\ now' >= now
      BY <1>1, <2>1
    <2>3. \A k \in Key : KeyInv(granted'[k], buckets'[k], now')
      BY <1>1, <2>1, <2>2, KeyLater
    <2>4. QED
      BY <1>1, <2>1, <2>2, <2>3, LimiterByKey
  <1>9. \/ UNCHANGED <<now, limVars>> \/ SweepBuckets \/ Restart \/ TimePasses
        \/ \E r \in Request : Admit(r) \/ TooMany(r)
    BY DEF EnrichmentNext, enrVars, AskModal, GetCVEExplanation, Begin, Hit, TakeTick, Queue,
           WriteCache, WriteError, ReadPulses, WritePulses, PulsesFail, PutCVEExplanation,
           ExplainFails, CleanupCaches
  <1>10. QED
    BY <1>3, <1>4, <1>5, <1>6, <1>7, <1>8, <1>9

-----------------------------------------------------------------------------
(* The requests *)

Points == {"limit", "lookup", "waiting", "fetching", "pulses", "calling", "paying"}

\* Nothing but request r is touched, which keeps what it was started with.
Moved(r, pc) ==
  /\ reqs' \in [Request -> {Idle} \cup Requested] /\ reqs'[r] \in Requested
  /\ reqs'[r].pc = pc /\ reqs'[r].cve = reqs[r].cve /\ reqs'[r].kind = reqs[r].kind
  /\ reqs'[r].began = reqs[r].began
  /\ \A s \in Request : s # r => reqs'[s] = reqs[s]

Ended(r) ==
  /\ reqs' \in [Request -> {Idle} \cup Requested] /\ reqs'[r] = Idle
  /\ \A s \in Request : s # r => reqs'[s] = reqs[s]

LEMMA RequestFacts ==
  ASSUME EnrichmentShape, NEW r \in Request
  PROVE  /\ Busy(r) => /\ reqs[r] \in Requested /\ reqs[r].cve \in CVE
                       /\ reqs[r].pc \in Points /\ reqs[r].began \in 0 .. MaxTime
                       /\ reqs[r].began <= now /\ reqs[r].before \in Nat
         /\ ~ Busy(r) => reqs[r] = Idle
         /\ \A pc \in Points : At(r, pc) => Busy(r)
         /\ now \in 0 .. MaxTime /\ now \in Nat
  <1>1. reqs[r] \in {Idle} \cup Requested /\ (Busy(r) => reqs[r].began <= now) /\ now \in 0 .. MaxTime
    BY DEF EnrichmentShape, EnrichmentTypeOK
  <1>2. Idle.pc = "idle" /\ \A q \in Requested : q.pc # "idle"
    BY DEF Idle, Requested
  <1>3. now \in Nat
    BY <1>1, EnrichmentAssumption
  <1>4. Busy(r) => reqs[r] \in Requested
    BY <1>1, <1>2 DEF Busy
  <1>5. QED
    BY <1>1, <1>2, <1>3, <1>4 DEF Busy, At, Points, Requested

LEMMA GoMoves ==
  ASSUME EnrichmentShape, NEW r \in Request, Busy(r), NEW pc \in Points, Go(r, pc)
  PROVE  Moved(r, pc) /\ reqs'[r].excused = reqs[r].excused
  <1>1. reqs \in [Request -> {Idle} \cup Requested] /\ reqs[r] \in Requested
    BY RequestFacts DEF EnrichmentShape
  <1> DEFINE q == [reqs[r] EXCEPT !.pc = pc]
  <1>2. /\ q \in Requested /\ q.pc = pc /\ q.cve = reqs[r].cve /\ q.kind = reqs[r].kind
        /\ q.began = reqs[r].began /\ q.excused = reqs[r].excused
    BY <1>1 DEF Requested, Points
  <1>3. reqs' = [reqs EXCEPT ![r] = q]
    BY DEF Go
  <1> HIDE DEF q
  <1>4. QED
    BY <1>1, <1>2, <1>3 DEF Moved

LEMMA DoneEnds ==
  ASSUME EnrichmentShape, NEW r \in Request, Done(r)
  PROVE  Ended(r)
  BY DEF Done, Ended, EnrichmentShape

\* What a step changes: the clock and the queue for NVD, the tables, one request.
Calm == UNCHANGED <<now, nvdVars>>
TablesStay == UNCHANGED <<tableVars, answered, settled>>

BeginStep(r, c, kind) ==
  /\ ~ Busy(r) /\ (kind = "explain" => ~ explained[c]) /\ Calm /\ TablesStay
  /\ reqs' \in [Request -> {Idle} \cup Requested] /\ reqs'[r] \in Requested
  /\ reqs'[r].pc \in {"limit", "lookup"} /\ reqs'[r].cve = c /\ reqs'[r].kind = kind
  /\ reqs'[r].began = now /\ \A s \in Request : s # r => reqs'[s] = reqs[s]

MoveStep(r, pc) ==
  /\ Busy(r) /\ ~ At(r, "waiting") /\ (pc = "lookup" => At(r, "limit"))
  /\ Moved(r, pc) /\ Calm /\ TablesStay

EndStep(r) ==
  /\ Busy(r) /\ ~ At(r, "waiting") /\ Ended(r) /\ Calm
  /\ \/ details' = details
     \/ At(r, "fetching") /\ details' = [details EXCEPT ![reqs[r].cve] = "error"]
  /\ \/ UNCHANGED <<pulses, answered>>
     \/ /\ pulses' = [pulses EXCEPT ![reqs[r].cve] = now]
        /\ answered' = [answered EXCEPT ![reqs[r].cve] = now]
  /\ \/ UNCHANGED <<explained, settled>>
     \/ /\ explained' = [explained EXCEPT ![reqs[r].cve] = TRUE]
        /\ settled' = IF Asking(reqs[r].cve) = {r} THEN settled \cup {reqs[r].cve} ELSE settled

QueueStep(r) ==
  /\ At(r, "lookup") /\ queue' = Append(queue, r) /\ UNCHANGED <<now, tick, took, starved>>
  /\ TablesStay /\ Moved(r, "waiting") /\ reqs'[r].before = Len(queue)
  /\ (details[reqs[r].cve] = "detail" => reqs'[r].excused)

TickStep(r) ==
  /\ Turn(r) /\ tick' = FALSE /\ queue' = Tail(queue) /\ took' = Append(took, now) /\ now' = now
  /\ starved' = IF InTime(r) THEN starved ELSE starved \cup {reqs[r].before}
  /\ TablesStay /\ Moved(r, "fetching") /\ reqs'[r].excused = reqs[r].excused

CacheStep(r) ==
  /\ At(r, "fetching") /\ details' = [details EXCEPT ![reqs[r].cve] = "detail"] /\ Calm
  /\ UNCHANGED <<pulses, explained, answered, settled>>
  /\ reqs' \in [Request -> {Idle} \cup Requested]
  /\ reqs'[r] \in Requested /\ reqs'[r].pc \in {"pulses", "paying"}
  /\ \A s \in Request :
       /\ s # r => reqs'[s].pc = reqs[s].pc
       /\ Busy(s) => /\ reqs'[s].cve = reqs[s].cve /\ reqs'[s].kind = reqs[s].kind
                     /\ reqs'[s].began = reqs[s].began /\ reqs'[s].before = reqs[s].before
       /\ s # r /\ Busy(s) =>
            \/ reqs[s].cve = reqs[r].cve /\ reqs'[s].excused
            \/ reqs[s].cve # reqs[r].cve /\ reqs'[s] = reqs[s]

RestStep ==
  /\ Calm /\ UNCHANGED <<reqs, explained, answered, settled>>
  /\ \/ UNCHANGED <<details, pulses>>
     \/ \E c \in CVE : CleanupCaches(c)

LEMMA CacheSteps ==
  ASSUME EnrichmentShape, NEW r \in Request, WriteCache(r)
  PROVE  CacheStep(r)
  <1> DEFINE c == reqs[r].cve
             mine == [reqs[r] EXCEPT !.pc = Found(r)]
             others(s) == [reqs[s] EXCEPT !.excused = TRUE]
  <1>1. /\ At(r, "fetching") /\ details' = [details EXCEPT ![c] = "detail"] /\ Calm
        /\ UNCHANGED <<pulses, explained, answered, settled>>
        /\ reqs' = [s \in Request |-> IF s = r THEN mine
                                      ELSE IF s \in Asking(c) THEN others(s) ELSE reqs[s]]
    BY DEF WriteCache, Calm
  <1>2. Busy(r) /\ reqs[r] \in Requested
    BY <1>1, RequestFacts DEF Points
  <1>3. Found(r) \in {"pulses", "paying"}
    BY DEF Found
  <1>4. /\ mine \in Requested /\ mine.pc = Found(r) /\ mine.cve = c /\ mine.kind = reqs[r].kind
        /\ mine.began = reqs[r].began /\ mine.before = reqs[r].before
    BY <1>2, <1>3 DEF Requested
  <1>5. ASSUME NEW s \in Request, Busy(s)
        PROVE  /\ others(s) \in Requested /\ others(s).pc = reqs[s].pc
               /\ others(s).cve = reqs[s].cve /\ others(s).kind = reqs[s].kind
               /\ others(s).began = reqs[s].began /\ others(s).before = reqs[s].before
               /\ others(s).excused = TRUE
    <2>1. reqs[s] \in Requested
      BY <1>5, RequestFacts
    <2>2. QED
      BY <2>1 DEF Requested
  <1>6. \A s \in Request : s \in Asking(c) <=> Busy(s) /\ reqs[s].cve = c
    BY DEF Asking
  <1>7. \A s \in Request : reqs[s] \in {Idle} \cup Requested
    BY DEF EnrichmentShape
  <1> HIDE DEF c, mine, others
  <1>8. reqs' \in [Request -> {Idle} \cup Requested]
    BY <1>1, <1>4, <1>5, <1>6, <1>7
  <1>9. reqs'[r] = mine /\ \A s \in Request : s # r =>
          reqs'[s] = IF Busy(s) /\ reqs[s].cve = c THEN others(s) ELSE reqs[s]
    BY <1>1, <1>6
  <1>10. reqs'[r] \in Requested /\ reqs'[r].pc \in {"pulses", "paying"}
    BY <1>3, <1>4, <1>9
  <1>11. ASSUME NEW s \in Request
         PROVE  /\ s # r => reqs'[s].pc = reqs[s].pc
                /\ Busy(s) => /\ reqs'[s].cve = reqs[s].cve /\ reqs'[s].kind = reqs[s].kind
                              /\ reqs'[s].began = reqs[s].began /\ reqs'[s].before = reqs[s].before
                /\ s # r /\ Busy(s) =>
                     \/ reqs[s].cve = c /\ reqs'[s].excused
                     \/ reqs[s].cve # c /\ reqs'[s] = reqs[s]
    <2>1. CASE s = r
      BY <1>4, <1>9, <2>1 DEF c
    <2>2. CASE s # r
      BY <1>5, <1>9, <2>2
    <2>3. QED
      BY <2>1, <2>2
  <1>12. QED
    BY <1>1, <1>8, <1>10, <1>11 DEF CacheStep, c

LEMMA QueueSteps ==
  ASSUME EnrichmentShape, NEW r \in Request, NEW failed \in BOOLEAN, Queue(r, failed)
  PROVE  QueueStep(r)
  <1> DEFINE q == [reqs[r] EXCEPT !.pc = "waiting", !.before = Len(queue), !.excused = failed]
  <1>1. /\ At(r, "lookup") /\ queue' = Append(queue, r) /\ UNCHANGED <<now, tick, took, starved>>
        /\ TablesStay /\ (failed <=> ReadCache(reqs[r].cve))
        /\ reqs' = [reqs EXCEPT ![r] = q]
    BY DEF Queue, TablesStay
  <1>2. reqs[r] \in Requested /\ Len(queue) \in Nat /\ reqs \in [Request -> {Idle} \cup Requested]
    BY <1>1, RequestFacts DEF EnrichmentShape, Points
  <1>3. /\ q \in Requested /\ q.pc = "waiting" /\ q.cve = reqs[r].cve /\ q.kind = reqs[r].kind
        /\ q.began = reqs[r].began /\ q.before = Len(queue) /\ q.excused = failed
    BY <1>2 DEF Requested
  <1> HIDE DEF q
  <1>4. Moved(r, "waiting") /\ reqs'[r] = q
    BY <1>1, <1>2, <1>3 DEF Moved
  <1>5. details[reqs[r].cve] = "detail" => reqs'[r].excused
    BY <1>1, <1>3, <1>4 DEF ReadCache
  <1>6. reqs'[r].before = Len(queue)
    BY <1>3, <1>4
  <1>7. QED
    BY <1>1, <1>4, <1>5, <1>6 DEF QueueStep

LEMMA BeginSteps ==
  ASSUME EnrichmentShape, NEW r \in Request, NEW c \in CVE, NEW kind \in {"modal", "explain"},
         Begin(r, c, kind), kind = "explain" => ~ explained[c]
  PROVE  BeginStep(r, c, kind)
  <1> DEFINE q == [pc |-> IF kind = "modal" THEN "lookup" ELSE "limit", cve |-> c, kind |-> kind,
                   began |-> now, before |-> 0, excused |-> FALSE]
  <1>1. /\ ~ Busy(r) /\ reqs' = [reqs EXCEPT ![r] = q] /\ Calm /\ TablesStay
    BY DEF Begin, Calm, TablesStay
  <1>2. now \in 0 .. MaxTime /\ reqs \in [Request -> {Idle} \cup Requested]
    BY DEF EnrichmentShape, EnrichmentTypeOK
  <1>3. /\ q \in Requested /\ q.pc \in {"limit", "lookup"} /\ q.cve = c /\ q.kind = kind
        /\ q.began = now
    BY <1>2 DEF Requested
  <1> HIDE DEF q
  <1>4. reqs'[r] = q /\ reqs' \in [Request -> {Idle} \cup Requested]
        /\ \A s \in Request : s # r => reqs'[s] = reqs[s]
    BY <1>1, <1>2, <1>3
  <1>5. QED
    BY <1>1, <1>3, <1>4 DEF BeginStep

LEMMA MoveSteps ==
  ASSUME EnrichmentShape, NEW r \in Request,
         Admit(r) \/ Hit(r) \/ (ReadPulses(r) /\ ~ Fresh(reqs[r].cve))
  PROVE  \E pc \in Points \ {"limit", "waiting", "fetching"} : MoveStep(r, pc)
  <1>1. \A pc \in Points : At(r, pc) => Busy(r)
    BY RequestFacts
  <1>2. CASE Admit(r)
    <2>1. At(r, "limit") /\ Go(r, "lookup") /\ Calm /\ TablesStay
      BY <1>2 DEF Admit, Calm, TablesStay, tableVars
    <2>2. Busy(r) /\ ~ At(r, "waiting") /\ Moved(r, "lookup")
      BY <1>1, <2>1, GoMoves DEF Points, At
    <2>3. QED
      BY <2>1, <2>2 DEF MoveStep, Points
  <1>3. CASE Hit(r)
    <2>1. At(r, "lookup") /\ Go(r, Found(r)) /\ Calm /\ TablesStay
      BY <1>3 DEF Hit, Calm, TablesStay
    <2>2. Found(r) \in {"pulses", "paying"}
      BY DEF Found
    <2>3. Busy(r) /\ ~ At(r, "waiting") /\ Moved(r, Found(r))
      BY <1>1, <2>1, <2>2, GoMoves DEF Points, At
    <2>4. QED
      BY <2>1, <2>2, <2>3 DEF MoveStep, Points
  <1>4. CASE ReadPulses(r) /\ ~ Fresh(reqs[r].cve)
    <2>1. At(r, "pulses") /\ Go(r, "calling") /\ Calm /\ TablesStay
      BY <1>4 DEF ReadPulses, Calm, TablesStay
    <2>2. Busy(r) /\ ~ At(r, "waiting") /\ Moved(r, "calling")
      BY <1>1, <2>1, GoMoves DEF Points, At
    <2>3. QED
      BY <2>1, <2>2 DEF MoveStep, Points
  <1>5. QED
    BY <1>2, <1>3, <1>4

LEMMA EndSteps ==
  ASSUME EnrichmentShape, NEW r \in Request,
         \/ TooMany(r) \/ WriteError(r) \/ (ReadPulses(r) /\ Fresh(reqs[r].cve))
         \/ WritePulses(r) \/ PulsesFail(r) \/ PutCVEExplanation(r) \/ ExplainFails(r)
  PROVE  EndStep(r)
  <1>1. Done(r) /\ Calm /\ \E pc \in Points \ {"waiting"} : At(r, pc)
    BY DEF TooMany, WriteError, ReadPulses, WritePulses, PulsesFail, PutCVEExplanation,
           ExplainFails, Calm, Points
  <1>2. Busy(r) /\ ~ At(r, "waiting") /\ Ended(r)
    BY <1>1, RequestFacts, DoneEnds DEF At
  <1>3. \/ details' = details
        \/ At(r, "fetching") /\ details' = [details EXCEPT ![reqs[r].cve] = "error"]
    BY DEF TooMany, WriteError, ReadPulses, WritePulses, PulsesFail, PutCVEExplanation,
           ExplainFails, tableVars
  <1>4. \/ UNCHANGED <<pulses, answered>>
        \/ /\ pulses' = [pulses EXCEPT ![reqs[r].cve] = now]
           /\ answered' = [answered EXCEPT ![reqs[r].cve] = now]
    BY DEF TooMany, WriteError, ReadPulses, WritePulses, PulsesFail, PutCVEExplanation,
           ExplainFails, tableVars
  <1>5. \/ UNCHANGED <<explained, settled>>
        \/ /\ explained' = [explained EXCEPT ![reqs[r].cve] = TRUE]
           /\ settled' = IF Asking(reqs[r].cve) = {r} THEN settled \cup {reqs[r].cve} ELSE settled
    BY DEF TooMany, WriteError, ReadPulses, WritePulses, PulsesFail, PutCVEExplanation,
           ExplainFails, tableVars
  <1>6. QED
    BY <1>1, <1>2, <1>3, <1>4, <1>5 DEF EndStep

LEMMA TickSteps ==
  ASSUME EnrichmentShape, NEW r \in Request, TakeTick(r)
  PROVE  TickStep(r)
  <1>1. /\ Turn(r) /\ tick' = FALSE /\ queue' = Tail(queue) /\ took' = Append(took, now) /\ now' = now
        /\ starved' = IF InTime(r) THEN starved ELSE starved \cup {reqs[r].before}
        /\ TablesStay /\ Go(r, "fetching")
    BY DEF TakeTick, TablesStay
  <1>2. Busy(r)
    BY <1>1, RequestFacts DEF Turn, Points
  <1>3. Moved(r, "fetching") /\ reqs'[r].excused = reqs[r].excused
    BY <1>1, <1>2, GoMoves DEF Points
  <1>4. QED
    BY <1>1, <1>3 DEF TickStep

LEMMA EnrichmentSteps ==
  ASSUME EnrichmentShape, [EnrichmentNext]_enrVars
  PROVE  \/ \E r \in Request :
              \/ \E c \in CVE, kind \in {"modal", "explain"} : BeginStep(r, c, kind)
              \/ \E pc \in Points \ {"limit", "waiting", "fetching"} : MoveStep(r, pc)
              \/ EndStep(r) \/ QueueStep(r) \/ TickStep(r) \/ CacheStep(r)
         \/ RestStep \/ Restart \/ TimePasses
  <1>1. ASSUME NEW r \in Request, NEW c \in CVE, AskModal(r, c) \/ GetCVEExplanation(r, c)
        PROVE  \E kind \in {"modal", "explain"} : BeginStep(r, c, kind)
    <2>1. \E kind \in {"modal", "explain"} : Begin(r, c, kind) /\ (kind = "explain" => ~ explained[c])
      BY <1>1 DEF AskModal, GetCVEExplanation
    <2>2. QED
      BY <2>1, BeginSteps
  <1>2. ASSUME NEW r \in Request, ReadPulses(r)
        PROVE  \/ EndStep(r)
               \/ \E pc \in Points \ {"limit", "waiting", "fetching"} : MoveStep(r, pc)
    BY <1>2, MoveSteps, EndSteps
  <1>3. ASSUME NEW r \in Request, Admit(r) \/ Hit(r)
        PROVE  \E pc \in Points \ {"limit", "waiting", "fetching"} : MoveStep(r, pc)
    BY <1>3, MoveSteps
  <1>4. ASSUME NEW r \in Request, \/ TooMany(r) \/ WriteError(r) \/ WritePulses(r) \/ PulsesFail(r)
                                  \/ PutCVEExplanation(r) \/ ExplainFails(r)
        PROVE  EndStep(r)
    BY <1>4, EndSteps
  <1>5. ASSUME NEW r \in Request, NEW failed \in BOOLEAN, Queue(r, failed)
        PROVE  QueueStep(r)
    BY <1>5, QueueSteps
  <1>6. ASSUME NEW r \in Request, TakeTick(r)
        PROVE  TickStep(r)
    BY <1>6, TickSteps
  <1>7. ASSUME NEW r \in Request, WriteCache(r)
        PROVE  CacheStep(r)
    BY <1>7, CacheSteps
  <1>8. ASSUME \/ \E c \in CVE : CleanupCaches(c)
               \/ SweepBuckets \/ UNCHANGED enrVars
        PROVE  RestStep
    BY <1>8 DEF RestStep, Calm, CleanupCaches, SweepBuckets, enrVars, tableVars
  <1>9. QED
    BY <1>1, <1>2, <1>3, <1>4, <1>5, <1>6, <1>7, <1>8 DEF EnrichmentNext

\* The members of a queue, in which nobody stands twice.
In(q) == {q[i] : i \in DOMAIN q}
NoTwice(q) == \A i, j \in DOMAIN q : q[i] = q[j] => i = j

LEMMA QueueGrows ==
  ASSUME NEW q \in Seq(Request), NoTwice(q), NEW r \in Request, r \notin In(q)
  PROVE  /\ Append(q, r) \in Seq(Request) /\ NoTwice(Append(q, r))
         /\ In(Append(q, r)) = In(q) \cup {r}
  <1> DEFINE Q == Append(q, r)
  <1>1. /\ Q \in Seq(Request) /\ Len(Q) = Len(q) + 1 /\ Q[Len(q) + 1] = r /\ Len(q) \in Nat
        /\ DOMAIN q = 1 .. Len(q) /\ DOMAIN Q = 1 .. Len(Q) /\ \A i \in 1 .. Len(q) : Q[i] = q[i]
    OBVIOUS
  <1>2. \A i \in DOMAIN Q : i \in DOMAIN q \/ i = Len(q) + 1
    <2>1. \A z \in Nat : \A n \in 1 .. z + 1 : n \in 1 .. z \/ n = z + 1
      OBVIOUS
    <2>2. QED
      BY <1>1, <2>1, Zenon
  <1>3. Len(q) + 1 \in DOMAIN Q /\ DOMAIN q \subseteq DOMAIN Q
    <2>1. \A z \in Nat : z + 1 \in 1 .. z + 1 /\ 1 .. z \subseteq 1 .. z + 1
      OBVIOUS
    <2>2. QED
      BY <1>1, <2>1, Zenon
  <1> HIDE DEF Q
  <1>4. NoTwice(Q)
    BY <1>1, <1>2 DEF NoTwice, In
  <1>5. In(Q) = In(q) \cup {r}
    BY <1>1, <1>2, <1>3 DEF In
  <1>6. QED
    BY <1>1, <1>4, <1>5 DEF Q

LEMMA QueueShrinks ==
  ASSUME NEW q \in Seq(Request), NoTwice(q), q # << >>
  PROVE  /\ Tail(q) \in Seq(Request) /\ NoTwice(Tail(q)) /\ In(Tail(q)) = In(q) \ {Head(q)}
         /\ Head(q) = q[1] /\ 1 \in DOMAIN q
         /\ \A i \in DOMAIN Tail(q) : i + 1 \in DOMAIN q /\ Tail(q)[i] = q[i + 1]
  <1> DEFINE Q == Tail(q)
  <1>1. /\ Q \in Seq(Request) /\ Len(Q) = Len(q) - 1 /\ Len(q) \in Nat /\ Len(q) >= 1
        /\ DOMAIN q = 1 .. Len(q) /\ DOMAIN Q = 1 .. Len(Q) /\ Head(q) = q[1]
        /\ \A i \in 1 .. Len(q) - 1 : Q[i] = q[i + 1]
    OBVIOUS
  <1>2. \A i \in DOMAIN Q : i \in Nat /\ i + 1 \in DOMAIN q /\ i + 1 # 1 /\ Q[i] = q[i + 1]
    <2>1. \A z \in Nat : \A n \in 1 .. z - 1 : n \in Nat /\ n + 1 \in 1 .. z /\ n + 1 # 1
      OBVIOUS
    <2>2. QED
      BY <1>1, <2>1, Zenon
  <1>3. \A i \in DOMAIN q : i # 1 => i - 1 \in DOMAIN Q /\ i - 1 + 1 = i
    <2>1. \A z \in Nat : \A n \in 1 .. z : n # 1 => n - 1 \in 1 .. z - 1 /\ n - 1 + 1 = n
      OBVIOUS
    <2>2. QED
      BY <1>1, <2>1, Zenon
  <1>4. 1 \in DOMAIN q
    BY <1>1
  <1> HIDE DEF Q
  <1>5. NoTwice(Q)
    <2>1. \A i, j \in Nat : i + 1 = j + 1 => i = j
      OBVIOUS
    <2>2. ASSUME NEW i \in DOMAIN Q, NEW j \in DOMAIN Q, Q[i] = Q[j]
          PROVE  i = j
      <3>1. i + 1 \in DOMAIN q /\ j + 1 \in DOMAIN q /\ q[i + 1] = q[j + 1]
        BY <1>2, <2>2, Zenon
      <3>2. i + 1 = j + 1
        BY <3>1, Zenon DEF NoTwice
      <3>3. QED
        BY <1>2, <2>1, <3>2, Zenon
    <2>3. QED
      BY <2>2, Zenon DEF NoTwice
  <1>6. In(Q) \subseteq In(q) \ {Head(q)}
    <2>1. ASSUME NEW i \in DOMAIN Q
          PROVE  Q[i] \in In(q) /\ Q[i] # q[1]
      BY <1>2, <1>4, Zenon DEF NoTwice, In
    <2>2. QED
      BY <1>1, <2>1, Zenon DEF In
  <1>7. In(q) \ {Head(q)} \subseteq In(Q)
    <2>1. ASSUME NEW i \in DOMAIN q, q[i] # q[1]
          PROVE  q[i] \in In(Q)
      <3>1. i # 1 /\ i - 1 \in DOMAIN Q /\ Q[i - 1] = q[i]
        BY <1>2, <1>3, <2>1, Zenon
      <3>2. QED
        BY <3>1, Zenon DEF In
    <2>2. QED
      BY <1>1, <2>1, Zenon DEF In
  <1>8. QED
    BY <1>1, <1>2, <1>4, <1>5, <1>6, <1>7 DEF Q

\* Whoever waits stands in the queue, once.
LEMMA QueueFacts ==
  ASSUME EnrichmentShape
  PROVE  /\ queue \in Seq(Request) /\ NoTwice(queue)
         /\ \A r \in Request : r \in In(queue) <=> At(r, "waiting")
         /\ In(queue) \subseteq Request
  BY DEF EnrichmentShape, EnrichmentTypeOK, NoTwice, In

LEMMA StepQueue ==
  ASSUME EnrichmentShape, [EnrichmentNext]_enrVars
  PROVE  /\ queue' \in Seq(Request) /\ NoTwice(queue')
         /\ In(queue') = {r \in Request : At(r, "waiting")'}
  <1>1. /\ queue \in Seq(Request) /\ NoTwice(queue)
        /\ \A r \in Request : r \in In(queue) <=> reqs[r].pc = "waiting"
        /\ In(queue) \subseteq Request
    BY QueueFacts DEF At
  <1>2. ASSUME queue' = queue,
               \A r \in Request : reqs'[r].pc = "waiting" <=> reqs[r].pc = "waiting"
        PROVE  /\ queue' \in Seq(Request) /\ NoTwice(queue')
               /\ In(queue') = {r \in Request : At(r, "waiting")'}
    <2>1. In(queue') = In(queue)
      BY <1>2
    <2>2. \A r \in Request : r \in In(queue) <=> reqs'[r].pc = "waiting"
      BY <1>1, <1>2
    <2>3. NoTwice(queue')
      BY <1>1, <1>2
    <2>4. QED
      BY <1>1, <1>2, <2>1, <2>2, <2>3 DEF At
  <1>3. ASSUME NEW r \in Request,
               \/ \E c \in CVE, kind \in {"modal", "explain"} : BeginStep(r, c, kind)
               \/ \E pc \in Points \ {"limit", "waiting", "fetching"} : MoveStep(r, pc)
               \/ EndStep(r) \/ CacheStep(r)
        PROVE  queue' = queue /\ \A s \in Request : reqs'[s].pc = "waiting" <=> reqs[s].pc = "waiting"
    <2>1. Idle.pc = "idle"
      BY DEF Idle
    <2>2. queue' = queue
      BY <1>3 DEF BeginStep, MoveStep, EndStep, CacheStep, Calm, nvdVars
    <2>3. ASSUME NEW c \in CVE, NEW kind \in {"modal", "explain"}, BeginStep(r, c, kind), NEW s \in Request
          PROVE  reqs'[s].pc = "waiting" <=> reqs[s].pc = "waiting"
      BY <2>3 DEF BeginStep, Busy
    <2>4. ASSUME NEW pc \in Points \ {"limit", "waiting", "fetching"}, MoveStep(r, pc), NEW s \in Request
          PROVE  reqs'[s].pc = "waiting" <=> reqs[s].pc = "waiting"
      BY <2>4 DEF MoveStep, Moved, At
    <2>5. ASSUME EndStep(r), NEW s \in Request
          PROVE  reqs'[s].pc = "waiting" <=> reqs[s].pc = "waiting"
      BY <2>1, <2>5 DEF EndStep, Ended, At
    <2>6. ASSUME CacheStep(r), NEW s \in Request
          PROVE  reqs'[s].pc = "waiting" <=> reqs[s].pc = "waiting"
      BY <2>6 DEF CacheStep, At
    <2>7. QED
      BY <1>3, <2>2, <2>3, <2>4, <2>5, <2>6
  <1>4. ASSUME NEW r \in Request, QueueStep(r)
        PROVE  /\ queue' \in Seq(Request) /\ NoTwice(queue')
               /\ In(queue') = {s \in Request : At(s, "waiting")'}
    <2>1. /\ queue' = Append(queue, r) /\ reqs[r].pc = "lookup" /\ reqs'[r].pc = "waiting"
          /\ \A s \in Request : s # r => reqs'[s] = reqs[s]
      BY <1>4 DEF QueueStep, Moved, At
    <2>2. r \notin In(queue)
      BY <1>1, <2>1
    <2>3. /\ Append(queue, r) \in Seq(Request) /\ NoTwice(Append(queue, r))
          /\ In(Append(queue, r)) = In(queue) \cup {r}
      BY <1>1, <2>2, QueueGrows
    <2>4. \A s \in Request : s \in In(queue) \cup {r} <=> reqs'[s].pc = "waiting"
      BY <1>1, <2>1
    <2>5. QED
      BY <1>1, <2>1, <2>3, <2>4 DEF At
  <1>5. ASSUME NEW r \in Request, TickStep(r)
        PROVE  /\ queue' \in Seq(Request) /\ NoTwice(queue')
               /\ In(queue') = {s \in Request : At(s, "waiting")'}
    <2>1. /\ queue' = Tail(queue) /\ reqs[r].pc = "waiting" /\ r = Head(queue)
          /\ reqs'[r].pc = "fetching" /\ \A s \in Request : s # r => reqs'[s] = reqs[s]
      BY <1>5 DEF TickStep, Turn, Moved, At
    <2>2. queue # << >>
      BY <1>1, <2>1 DEF In
    <2>3. Tail(queue) \in Seq(Request) /\ NoTwice(Tail(queue)) /\ In(Tail(queue)) = In(queue) \ {r}
      BY <1>1, <2>1, <2>2, QueueShrinks
    <2>4. \A s \in Request : s \in In(queue) \ {r} <=> reqs'[s].pc = "waiting"
      BY <1>1, <2>1
    <2>5. QED
      BY <1>1, <2>1, <2>3, <2>4 DEF At
  <1>6. CASE RestStep \/ TimePasses
    BY <1>2, <1>6 DEF RestStep, TimePasses, Calm, nvdVars
  <1>7. CASE Restart
    <2>1. queue' = << >> /\ \A r \in Request : reqs'[r].pc = "idle"
      BY <1>7 DEF Restart, Idle
    <2>2. In(<< >>) = {} /\ NoTwice(<< >>) /\ << >> \in Seq(Request)
      BY DEF In, NoTwice
    <2>3. QED
      BY <2>1, <2>2 DEF At
  <1>8. QED
    BY <1>2, <1>3, <1>4, <1>5, <1>6, <1>7, EnrichmentSteps

LEMMA StepTables ==
  ASSUME EnrichmentShape, [EnrichmentNext]_enrVars
  PROVE  /\ details' \in [CVE -> {"none", "error", "detail"}]
         /\ {pulses', answered'} \subseteq [CVE -> {Never} \cup 0 .. MaxTime]
         /\ explained' \in [CVE -> BOOLEAN] /\ settled' \subseteq CVE
  <1>1. /\ details \in [CVE -> {"none", "error", "detail"}]
        /\ {pulses, answered} \subseteq [CVE -> {Never} \cup 0 .. MaxTime]
        /\ explained \in [CVE -> BOOLEAN] /\ settled \subseteq CVE /\ now \in 0 .. MaxTime
    BY DEF EnrichmentShape, EnrichmentTypeOK
  <1>2. \A r \in Request : Busy(r) => reqs[r].cve \in CVE
    BY RequestFacts
  <1>3. \A r \in Request : At(r, "fetching") => Busy(r)
    BY DEF At, Busy
  <1>4. CASE TablesStay
    BY <1>1, <1>4 DEF TablesStay, tableVars
  <1>5. ASSUME NEW r \in Request, EndStep(r)
        PROVE  /\ details' \in [CVE -> {"none", "error", "detail"}]
               /\ {pulses', answered'} \subseteq [CVE -> {Never} \cup 0 .. MaxTime]
               /\ explained' \in [CVE -> BOOLEAN] /\ settled' \subseteq CVE
    <2>1. reqs[r].cve \in CVE
      BY <1>2, <1>5 DEF EndStep
    <2>2. details' \in [CVE -> {"none", "error", "detail"}]
      BY <1>1, <1>5 DEF EndStep
    <2>3. {pulses', answered'} \subseteq [CVE -> {Never} \cup 0 .. MaxTime]
      BY <1>1, <1>5 DEF EndStep
    <2>4. explained' \in [CVE -> BOOLEAN] /\ settled' \subseteq CVE
      BY <1>1, <1>5, <2>1 DEF EndStep
    <2>5. QED
      BY <2>2, <2>3, <2>4
  <1>6. ASSUME NEW r \in Request, CacheStep(r)
        PROVE  /\ details' \in [CVE -> {"none", "error", "detail"}]
               /\ {pulses', answered'} \subseteq [CVE -> {Never} \cup 0 .. MaxTime]
               /\ explained' \in [CVE -> BOOLEAN] /\ settled' \subseteq CVE
    BY <1>1, <1>6 DEF CacheStep
  <1>7. CASE RestStep
    BY <1>1, <1>7 DEF RestStep, CleanupCaches
  <1>8. CASE Restart \/ TimePasses
    BY <1>4, <1>8 DEF Restart, TimePasses, TablesStay
  <1>9. QED
    BY <1>4, <1>5, <1>6, <1>7, <1>8, EnrichmentSteps DEF BeginStep, MoveStep, QueueStep, TickStep

LEMMA StepRequests ==
  ASSUME EnrichmentShape, [EnrichmentNext]_enrVars
  PROVE  /\ reqs' \in [Request -> {Idle} \cup Requested] /\ now' \in 0 .. MaxTime
         /\ tick' \in BOOLEAN /\ took' \in Seq(0 .. MaxTime) /\ starved' \subseteq Nat
         /\ \A r \in Request : Busy(r)' => reqs'[r].began <= now'
  <1>1. /\ reqs \in [Request -> {Idle} \cup Requested] /\ now \in 0 .. MaxTime /\ now \in Nat
        /\ tick \in BOOLEAN /\ took \in Seq(0 .. MaxTime) /\ starved \subseteq Nat /\ MaxTime \in Nat
        /\ \A r \in Request : Busy(r) => reqs[r].began <= now /\ reqs[r].began \in Nat /\ reqs[r].before \in Nat
    BY EnrichmentAssumption DEF EnrichmentShape, EnrichmentTypeOK, Requested, Busy, Idle
  <1>2. Idle.pc = "idle"
    BY DEF Idle
  <1> DEFINE Good == /\ reqs' \in [Request -> {Idle} \cup Requested] /\ now' \in 0 .. MaxTime
                     /\ tick' \in BOOLEAN /\ took' \in Seq(0 .. MaxTime) /\ starved' \subseteq Nat
                     /\ \A s \in Request : Busy(s)' => reqs'[s].began <= now'
  <1> USE DEF Busy
  <1>3. ASSUME NEW r \in Request, NEW c \in CVE, NEW kind \in {"modal", "explain"}, BeginStep(r, c, kind)
        PROVE  Good
    BY <1>1, <1>3 DEF BeginStep, Calm, nvdVars
  <1>4. ASSUME NEW r \in Request, NEW pc \in Points \ {"limit", "waiting", "fetching"}, MoveStep(r, pc)
        PROVE  Good
    BY <1>1, <1>4 DEF MoveStep, Moved, Calm, nvdVars
  <1>5. ASSUME NEW r \in Request, EndStep(r)
        PROVE  Good
    BY <1>1, <1>2, <1>5 DEF EndStep, Ended, Calm, nvdVars
  <1>6. ASSUME NEW r \in Request, QueueStep(r)
        PROVE  Good
    BY <1>1, <1>6 DEF QueueStep, At, Moved
  <1>7. ASSUME NEW r \in Request, TickStep(r)
        PROVE  Good
    <2>1. /\ Moved(r, "fetching") /\ At(r, "waiting") /\ tick' = FALSE /\ took' = Append(took, now) /\ now' = now
          /\ starved' \subseteq starved \cup {reqs[r].before}
      BY <1>7 DEF TickStep, Turn
    <2>2. took' \in Seq(0 .. MaxTime) /\ starved' \subseteq Nat /\ tick' \in BOOLEAN
      <3>1. reqs[r].before \in Nat
        BY <1>1, <2>1 DEF At
      <3>2. Append(took, now) \in Seq(0 .. MaxTime)
        BY <1>1
      <3>3. starved \cup {reqs[r].before} \subseteq Nat
        BY <1>1, <3>1
      <3>4. QED
        BY <2>1, <3>2, <3>3
    <2>3. QED
      BY <1>1, <2>1, <2>2 DEF Moved, At
  <1>8. ASSUME NEW r \in Request, CacheStep(r)
        PROVE  Good
    BY <1>1, <1>8 DEF CacheStep, Calm, nvdVars, At
  <1>9. ASSUME RestStep PROVE Good
    BY <1>1, <1>9 DEF RestStep, Calm, nvdVars
  <1>10. ASSUME Restart PROVE Good
    <2>1. /\ reqs' = [r \in Request |-> Idle] /\ took' = << >> /\ tick' = FALSE
          /\ now' = now /\ starved' = starved
      BY <1>10 DEF Restart
    <2>2. reqs' \in [Request -> {Idle} \cup Requested] /\ << >> \in Seq(0 .. MaxTime)
      BY <2>1
    <2>3. \A s \in Request : reqs'[s].pc = "idle"
      BY <1>2, <2>1
    <2>4. QED
      BY <1>1, <2>1, <2>2, <2>3
  <1>11. ASSUME TimePasses PROVE Good
    BY <1>1, <1>11 DEF TimePasses
  <1> HIDE DEF Busy, Good
  <1>12. Good
    BY <1>3, <1>4, <1>5, <1>6, <1>7, <1>8, <1>9, <1>10, <1>11, EnrichmentSteps
  <1>13. QED
    BY <1>12 DEF Good

LEMMA StepShape == EnrichmentShape /\ [EnrichmentNext]_enrVars => EnrichmentShape'
  BY StepQueue, StepTables, StepRequests DEF EnrichmentShape, EnrichmentTypeOK, NoTwice, In

LEMMA StepDetail ==
  ASSUME EnrichmentShape, DetailIsKnown, [EnrichmentNext]_enrVars
  PROVE  DetailIsKnown'
  <1>1. /\ details \in [CVE -> {"none", "error", "detail"}]
        /\ \A r \in Request : Busy(r) => reqs[r].cve \in CVE
        /\ \A r \in Request : reqs[r].pc \in {"waiting", "fetching"} => Busy(r)
    BY RequestFacts DEF EnrichmentShape, EnrichmentTypeOK, Busy
  <1>2. \A r \in Request : reqs[r].pc \in {"waiting", "fetching"} /\ details[reqs[r].cve] = "detail"
                           => reqs[r].excused
    BY DEF DetailIsKnown, At
  <1>3. Idle.pc = "idle"
    BY DEF Idle
  <1> DEFINE Known(r) == reqs'[r].pc \in {"waiting", "fetching"} /\ details'[reqs'[r].cve] = "detail"
                         => reqs'[r].excused
  <1>4. ASSUME \A c \in CVE : details'[c] = "detail" => details[c] = "detail",
               NEW s \in Request, reqs'[s] = reqs[s]
        PROVE  Known(s)
    BY <1>1, <1>2, <1>4
  <1>5. ASSUME NEW r \in Request, NEW c \in CVE, NEW kind \in {"modal", "explain"}, BeginStep(r, c, kind),
               NEW s \in Request
        PROVE  Known(s)
    <2>1. details' = details /\ reqs'[r].pc \in {"limit", "lookup"} /\ (s # r => reqs'[s] = reqs[s])
      BY <1>5 DEF BeginStep, TablesStay, tableVars
    <2>2. QED
      BY <1>4, <2>1
  <1>6. ASSUME NEW r \in Request, NEW pc \in Points \ {"limit", "waiting", "fetching"}, MoveStep(r, pc),
               NEW s \in Request
        PROVE  Known(s)
    <2>1. details' = details /\ reqs'[r].pc = pc /\ (s # r => reqs'[s] = reqs[s])
      BY <1>6 DEF MoveStep, Moved, TablesStay, tableVars
    <2>2. QED
      BY <1>4, <2>1
  <1>7. ASSUME NEW r \in Request, EndStep(r), NEW s \in Request
        PROVE  Known(s)
    <2>1. /\ reqs'[r].pc = "idle" /\ (s # r => reqs'[s] = reqs[s])
          /\ details' = details \/ details' = [details EXCEPT ![reqs[r].cve] = "error"]
      BY <1>3, <1>7 DEF EndStep, Ended
    <2>2. \A c \in CVE : details'[c] = "detail" => details[c] = "detail"
      BY <1>1, <2>1
    <2>3. QED
      BY <1>4, <2>1, <2>2
  <1>8. ASSUME NEW r \in Request, QueueStep(r), NEW s \in Request
        PROVE  Known(s)
    <2>1. /\ details' = details /\ (s # r => reqs'[s] = reqs[s]) /\ reqs'[r].cve = reqs[r].cve
          /\ (details[reqs[r].cve] = "detail" => reqs'[r].excused)
      BY <1>8 DEF QueueStep, Moved, TablesStay, tableVars
    <2>2. QED
      BY <1>4, <2>1
  <1>9. ASSUME NEW r \in Request, TickStep(r), NEW s \in Request
        PROVE  Known(s)
    <2>1. /\ details' = details /\ (s # r => reqs'[s] = reqs[s]) /\ reqs'[r].cve = reqs[r].cve
          /\ reqs[r].pc = "waiting" /\ reqs'[r].excused = reqs[r].excused
      BY <1>9 DEF TickStep, Turn, At, Moved, TablesStay, tableVars
    <2>2. QED
      BY <1>2, <1>4, <2>1
  <1>10. ASSUME NEW r \in Request, CacheStep(r), NEW s \in Request
         PROVE  Known(s)
    <2>1. /\ details' = [details EXCEPT ![reqs[r].cve] = "detail"] /\ reqs'[r].pc \in {"pulses", "paying"}
          /\ (s # r => reqs'[s].pc = reqs[s].pc)
          /\ (s # r /\ Busy(s) => \/ reqs[s].cve = reqs[r].cve /\ reqs'[s].excused
                                  \/ reqs[s].cve # reqs[r].cve /\ reqs'[s] = reqs[s])
      BY <1>10 DEF CacheStep
    <2>2. CASE s = r \/ ~ Busy(s)
      BY <1>1, <2>1, <2>2
    <2>3. CASE s # r /\ Busy(s) /\ reqs[s].cve # reqs[r].cve
      BY <1>1, <1>2, <2>1, <2>3
    <2>4. QED
      BY <2>1, <2>2, <2>3
  <1>11. ASSUME RestStep \/ TimePasses, NEW s \in Request
         PROVE  Known(s)
    <2>1. reqs' = reqs /\ \A c \in CVE : details'[c] = "detail" => details[c] = "detail"
      BY <1>1, <1>11 DEF RestStep, CleanupCaches, TimePasses, tableVars
    <2>2. QED
      BY <1>4, <2>1
  <1>12. ASSUME Restart, NEW s \in Request
         PROVE  Known(s)
    BY <1>3, <1>12 DEF Restart
  <1> HIDE DEF Known
  <1>13. \A s \in Request : Known(s)
    BY <1>5, <1>6, <1>7, <1>8, <1>9, <1>10, <1>11, <1>12, EnrichmentSteps
  <1>14. QED
    BY <1>13 DEF Known, DetailIsKnown, At

\* The step form of DetailKept.
LEMMA StepDetailKept ==
  ASSUME EnrichmentShape, DetailIsKnown, [EnrichmentNext]_enrVars,
         NEW c \in CVE, details[c] = "detail", details'[c] = "error"
  PROVE  \E r \in Asking(c) : reqs[r].excused
  <1>1. /\ details \in [CVE -> {"none", "error", "detail"}]
        /\ \A r \in Request : Busy(r) => reqs[r].cve \in CVE
    BY RequestFacts DEF EnrichmentShape, EnrichmentTypeOK
  <1>2. ASSUME NEW r \in Request, EndStep(r)
        PROVE  \E q \in Asking(c) : reqs[q].excused
    <2>1. /\ Busy(r) /\ At(r, "fetching") /\ details' = [details EXCEPT ![reqs[r].cve] = "error"]
      BY <1>2 DEF EndStep
    <2>2. reqs[r].cve = c
      BY <1>1, <2>1
    <2>3. r \in Asking(c) /\ reqs[r].excused
      BY <2>1, <2>2 DEF Asking, DetailIsKnown
    <2>4. QED
      BY <2>3
  <1>3. ASSUME NEW r \in Request, CacheStep(r)
        PROVE  FALSE
    <2>1. details' = [details EXCEPT ![reqs[r].cve] = "detail"]
      BY <1>3 DEF CacheStep
    <2>2. QED
      BY <1>1, <2>1
  <1>4. ASSUME RestStep
        PROVE  FALSE
    BY <1>1, <1>4 DEF RestStep, CleanupCaches
  <1>5. ASSUME details' = details
        PROVE  FALSE
    BY <1>5
  <1>6. ASSUME NEW r \in Request,
               \/ \E d \in CVE, kind \in {"modal", "explain"} : BeginStep(r, d, kind)
               \/ \E pc \in Points \ {"limit", "waiting", "fetching"} : MoveStep(r, pc)
               \/ QueueStep(r) \/ TickStep(r)
        PROVE  details' = details
    BY <1>6 DEF BeginStep, MoveStep, QueueStep, TickStep, TablesStay, tableVars
  <1>7. ASSUME Restart \/ TimePasses
        PROVE  details' = details
    BY <1>7 DEF Restart, TimePasses, tableVars
  <1>8. QED
    BY <1>2, <1>3, <1>4, <1>5, <1>6, <1>7, EnrichmentSteps

LEMMA StepSettled ==
  ASSUME EnrichmentShape, SettledIsExplained, [EnrichmentNext]_enrVars
  PROVE  SettledIsExplained'
  <1>1. /\ explained \in [CVE -> BOOLEAN] /\ settled \subseteq CVE
        /\ \A r \in Request : Busy(r) => reqs[r].cve \in CVE
    BY RequestFacts DEF EnrichmentShape, EnrichmentTypeOK
  <1>2. /\ \A c \in settled : explained[c]
        /\ \A r \in Request : Busy(r) /\ reqs[r].cve \in settled => reqs[r].kind = "modal"
    BY DEF SettledIsExplained, Asking
  <1>3. Idle.pc = "idle"
    BY DEF Idle
  <1> DEFINE Good == /\ \A c \in settled' : explained'[c]
                     /\ \A r \in Request : reqs'[r].pc # "idle" /\ reqs'[r].cve \in settled'
                                            => reqs'[r].kind = "modal"
  <1>4. ASSUME UNCHANGED <<explained, settled>>,
               \A s \in Request : reqs'[s].pc # "idle" =>
                 Busy(s) /\ reqs'[s].cve = reqs[s].cve /\ reqs'[s].kind = reqs[s].kind
        PROVE  Good
    BY <1>2, <1>4
  <1>5. ASSUME NEW r \in Request, NEW c \in CVE, NEW kind \in {"modal", "explain"}, BeginStep(r, c, kind)
        PROVE  Good
    <2>1. /\ UNCHANGED <<explained, settled>> /\ reqs'[r].cve = c /\ reqs'[r].kind = kind
          /\ \A s \in Request : s # r => reqs'[s] = reqs[s]
          /\ (kind = "explain" => ~ explained[c])
      BY <1>5 DEF BeginStep, TablesStay, tableVars
    <2>2. QED
      BY <1>2, <2>1 DEF Busy
  <1>6. ASSUME NEW r \in Request,
               \/ \E pc \in Points \ {"limit", "waiting", "fetching"} : MoveStep(r, pc)
               \/ QueueStep(r) \/ TickStep(r)
        PROVE  Good
    <2>1. /\ UNCHANGED <<explained, settled>> /\ Busy(r)
          /\ reqs'[r].cve = reqs[r].cve /\ reqs'[r].kind = reqs[r].kind
          /\ \A s \in Request : s # r => reqs'[s] = reqs[s]
      BY <1>6 DEF MoveStep, QueueStep, TickStep, Turn, At, Busy, Moved, TablesStay, tableVars
    <2>2. QED
      BY <1>4, <2>1 DEF Busy
  <1>7. ASSUME NEW r \in Request, EndStep(r)
        PROVE  Good
    <2>1. /\ Busy(r) /\ reqs'[r].pc = "idle" /\ \A s \in Request : s # r => reqs'[s] = reqs[s]
      BY <1>3, <1>7 DEF EndStep, Ended
    <2>2. CASE UNCHANGED <<explained, settled>>
      BY <1>4, <2>1, <2>2 DEF Busy
    <2>3. CASE /\ explained' = [explained EXCEPT ![reqs[r].cve] = TRUE]
               /\ settled' = IF Asking(reqs[r].cve) = {r} THEN settled \cup {reqs[r].cve} ELSE settled
      <3>1. \A c \in settled' : explained'[c]
        BY <1>1, <1>2, <2>1, <2>3
      <3>2. ASSUME NEW s \in Request, reqs'[s].pc # "idle", reqs'[s].cve \in settled'
            PROVE  reqs'[s].kind = "modal"
        <4>1. s # r /\ reqs'[s] = reqs[s] /\ Busy(s)
          BY <2>1, <3>2 DEF Busy
        <4>2. reqs[s].cve \in settled
          BY <2>3, <3>2, <4>1 DEF Asking
        <4>3. QED
          BY <1>2, <4>1, <4>2
      <3>3. QED
        BY <3>1, <3>2
    <2>4. QED
      BY <1>7, <2>2, <2>3 DEF EndStep
  <1>8. ASSUME NEW r \in Request, CacheStep(r)
        PROVE  Good
    <2>1. Busy(r)
      BY <1>8 DEF CacheStep, At, Busy
    <2>2. /\ UNCHANGED <<explained, settled>>
          /\ \A s \in Request : /\ s # r => reqs'[s].pc = reqs[s].pc
                                /\ Busy(s) => reqs'[s].cve = reqs[s].cve /\ reqs'[s].kind = reqs[s].kind
      BY <1>8 DEF CacheStep
    <2>3. ASSUME NEW s \in Request, reqs'[s].pc # "idle"
          PROVE  Busy(s) /\ reqs'[s].cve = reqs[s].cve /\ reqs'[s].kind = reqs[s].kind
      <3>1. Busy(s)
        BY <2>1, <2>2, <2>3 DEF Busy
      <3>2. QED
        BY <2>2, <3>1
    <2> HIDE DEF Good
    <2>4. QED
      BY <1>4, <2>2, <2>3
  <1>9. ASSUME RestStep \/ TimePasses
        PROVE  Good
    BY <1>4, <1>9 DEF RestStep, TimePasses, tableVars, Busy
  <1>10. ASSUME Restart
         PROVE  Good
    <2>1. UNCHANGED <<explained, settled>> /\ \A s \in Request : reqs'[s].pc = "idle"
      BY <1>3, <1>10 DEF Restart, tableVars
    <2>2. QED
      BY <1>4, <2>1
  <1> HIDE DEF Good
  <1>11. Good
    BY <1>5, <1>6, <1>7, <1>8, <1>9, <1>10, EnrichmentSteps
  <1>12. QED
    BY <1>11 DEF Good, SettledIsExplained, Asking, Busy

LEMMA StepPulses ==
  ASSUME EnrichmentShape, PulsesKept, [EnrichmentNext]_enrVars
  PROVE  PulsesKept'
  <1>1. /\ {pulses, answered} \subseteq [CVE -> {Never} \cup 0 .. MaxTime]
        /\ now \in Int /\ PulseTTL \in Int /\ MaxTime \in Nat /\ Never \in Int
    BY EnrichmentAssumption DEF EnrichmentShape, EnrichmentTypeOK, Never
  <1>2. \A c \in CVE : pulses[c] \in Int /\ answered[c] \in Int
    BY <1>1
  <1>3. \A c \in CVE : now - answered[c] <= PulseTTL => pulses[c] = answered[c]
    BY DEF PulsesKept
  <1> DEFINE Good == \A c \in CVE : now' - answered'[c] <= PulseTTL => pulses'[c] = answered'[c]
  <1>4. ASSUME UNCHANGED <<now, pulses, answered>>
        PROVE  Good
    BY <1>3, <1>4
  <1>5. ASSUME NEW r \in Request, EndStep(r)
        PROVE  Good
    <2>1. /\ now' = now
          /\ \/ UNCHANGED <<pulses, answered>>
             \/ /\ pulses' = [pulses EXCEPT ![reqs[r].cve] = now]
                /\ answered' = [answered EXCEPT ![reqs[r].cve] = now]
      BY <1>5 DEF EndStep, Calm
    <2>2. QED
      BY <1>1, <1>3, <2>1
  <1>6. ASSUME NEW d \in CVE, CleanupCaches(d)
        PROVE  Good
    <2>1. /\ now' = now /\ answered' = answered /\ pulses' = [pulses EXCEPT ![d] = Never]
          /\ ~ (now - pulses[d] <= PulseTTL)
      BY <1>6 DEF CleanupCaches, Fresh
    <2>2. ~ (now - answered[d] <= PulseTTL)
      BY <1>3, <2>1
    <2>3. QED
      BY <1>1, <1>3, <2>1, <2>2
  <1>7. ASSUME TimePasses
        PROVE  Good
    <2>1. now' = now + 1 /\ UNCHANGED <<pulses, answered>>
      BY <1>7 DEF TimePasses, tableVars
    <2>2. ASSUME NEW c \in CVE, now' - answered'[c] <= PulseTTL
          PROVE  now - answered[c] <= PulseTTL
      <3>1. now + 1 - answered[c] <= PulseTTL
        BY <1>1, <1>2, <2>1, <2>2
      <3>2. QED
        BY <1>1, <1>2, <3>1
    <2>3. QED
      BY <1>3, <2>1, <2>2
  <1>8. ASSUME NEW r \in Request,
               \/ \E c \in CVE, kind \in {"modal", "explain"} : BeginStep(r, c, kind)
               \/ \E pc \in Points \ {"limit", "waiting", "fetching"} : MoveStep(r, pc)
               \/ QueueStep(r) \/ TickStep(r) \/ CacheStep(r)
        PROVE  UNCHANGED <<now, pulses, answered>>
    BY <1>8 DEF BeginStep, MoveStep, QueueStep, TickStep, CacheStep, Calm, TablesStay, tableVars
  <1>9. ASSUME RestStep \/ Restart
        PROVE  UNCHANGED <<now, pulses, answered>> \/ \E c \in CVE : CleanupCaches(c)
    BY <1>9 DEF RestStep, Restart, Calm, tableVars
  <1> HIDE DEF Good
  <1>10. Good
    BY <1>4, <1>5, <1>6, <1>7, <1>8, <1>9, EnrichmentSteps
  <1>11. QED
    BY <1>10 DEF Good, PulsesKept

LEMMA StepSlots ==
  ASSUME EnrichmentShape, SlotsAreApart, BandHolds, [EnrichmentNext]_enrVars
  PROVE  SlotsAreApart' /\ BandHolds'
  <1>1. /\ took \in Seq(0 .. MaxTime) /\ now \in Nat /\ MaxTime \in Nat /\ tick \in BOOLEAN
        /\ Len(took) \in Nat /\ DOMAIN took = 1 .. Len(took) /\ \A i \in DOMAIN took : took[i] \in Nat
    BY EnrichmentAssumption DEF EnrichmentShape, EnrichmentTypeOK
  <1>2. \A i \in DOMAIN took : Len(took) - i + (IF tick THEN 1 ELSE 0) <= now - took[i]
    BY DEF SlotsAreApart
  <1>3. \A i, j \in DOMAIN took : i <= j => j - i <= took[j] - took[i]
    BY DEF BandHolds
  <1> DEFINE Good == /\ \A i \in DOMAIN took' : Len(took') - i + (IF tick' THEN 1 ELSE 0) <= now' - took'[i]
                     /\ \A i, j \in DOMAIN took' : i <= j => j - i <= took'[j] - took'[i]
  <1>4. ASSUME UNCHANGED <<now, tick, took>>
        PROVE  Good
    BY <1>2, <1>3, <1>4
  <1>5. ASSUME NEW r \in Request, TickStep(r)
        PROVE  Good
    <2>1. /\ took' = Append(took, now) /\ now' = now /\ tick' = FALSE /\ tick
      BY <1>5 DEF TickStep, Turn
    <2> DEFINE n == Len(took)
               T == Append(took, now)
    <2>2. /\ n \in Nat /\ Len(T) = n + 1 /\ T[n + 1] = now /\ DOMAIN T = 1 .. Len(T)
          /\ \A i \in 1 .. n : T[i] = took[i] /\ took[i] \in Nat
      BY <1>1
    <2>3. \A i \in DOMAIN T : i \in 1 .. n \/ i = n + 1
      <3>1. \A z \in Nat : \A i \in 1 .. z + 1 : i \in 1 .. z \/ i = z + 1
        OBVIOUS
      <3>2. QED
        BY <2>2, <3>1, Zenon
    <2>4. \A i \in 1 .. n : n - i + 1 <= now - took[i]
      BY <1>1, <1>2, <2>1
    <2>5. \A i, j \in 1 .. n : i <= j => j - i <= took[j] - took[i]
      BY <1>1, <1>3
    <2> HIDE DEF n, T
    <2>6. ASSUME NEW i \in DOMAIN T
          PROVE  n + 1 - i <= now - T[i]
      <3>1. CASE i \in 1 .. n
        BY <1>1, <2>2, <2>4, <3>1
      <3>2. CASE i = n + 1
        BY <1>1, <2>2, <3>2
      <3>3. QED
        BY <2>3, <3>1, <3>2
    <2>7. ASSUME NEW i \in DOMAIN T, NEW j \in DOMAIN T, i <= j
          PROVE  j - i <= T[j] - T[i]
      <3>1. CASE j = n + 1
        BY <2>2, <2>6, <3>1
      <3>2. CASE i \in 1 .. n /\ j \in 1 .. n
        BY <2>2, <2>5, <2>7, <3>2
      <3>3. CASE i = n + 1 /\ j \in 1 .. n
        BY <2>2, <2>7, <3>3
      <3>4. QED
        BY <2>3, <3>1, <3>2, <3>3
    <2>8. ASSUME NEW i \in DOMAIN took'
          PROVE  Len(took') - i + (IF tick' THEN 1 ELSE 0) <= now' - took'[i]
      <3>1. i \in Int
        BY <2>1, <2>2, <2>3 DEF T
      <3>2. took' = T /\ Len(took') = n + 1 /\ n + 1 - i <= now - T[i] /\ n \in Nat
        BY <2>1, <2>2, <2>6 DEF T
      <3>3. QED
        BY <2>1, <3>1, <3>2
    <2>9. QED
      BY <2>1, <2>7, <2>8 DEF T
  <1>6. ASSUME TimePasses
        PROVE  Good
    <2>1. now' = now + 1 /\ took' = took /\ tick' = TRUE
      BY <1>6 DEF TimePasses
    <2>2. ASSUME NEW i \in DOMAIN took
          PROVE  Len(took) - i + 1 <= now + 1 - took[i]
      <3>1. i \in Nat /\ took[i] \in Nat
        BY <1>1
      <3>2. Len(took) - i <= now - took[i]
        <4>1. CASE tick
          <5>1. Len(took) - i + 1 <= now - took[i]
            BY <1>2, <4>1
          <5>2. QED
            BY <1>1, <3>1, <5>1
        <4>2. CASE ~ tick
          <5>1. Len(took) - i + 0 <= now - took[i]
            BY <1>2, <4>2
          <5>2. QED
            BY <1>1, <3>1, <5>1
        <4>3. QED
          BY <4>1, <4>2
      <3>3. QED
        BY <1>1, <3>1, <3>2
    <2>3. ASSUME NEW i \in DOMAIN took'
          PROVE  Len(took') - i + (IF tick' THEN 1 ELSE 0) <= now' - took'[i]
      BY <1>1, <2>1, <2>2
    <2>4. QED
      BY <1>3, <2>1, <2>3
  <1>7. ASSUME Restart
        PROVE  Good
    BY <1>7 DEF Restart
  <1>8. ASSUME NEW r \in Request,
               \/ \E c \in CVE, kind \in {"modal", "explain"} : BeginStep(r, c, kind)
               \/ \E pc \in Points \ {"limit", "waiting", "fetching"} : MoveStep(r, pc)
               \/ EndStep(r) \/ QueueStep(r) \/ CacheStep(r)
        PROVE  UNCHANGED <<now, tick, took>>
    BY <1>8 DEF BeginStep, MoveStep, EndStep, QueueStep, CacheStep, Calm, nvdVars
  <1>9. ASSUME RestStep
        PROVE  UNCHANGED <<now, tick, took>>
    BY <1>9 DEF RestStep, Calm, nvdVars
  <1> HIDE DEF Good
  <1>10. Good
    BY <1>4, <1>5, <1>6, <1>7, <1>8, <1>9, EnrichmentSteps
  <1>11. QED
    BY <1>10 DEF Good, SlotsAreApart, BandHolds

LEMMA StepWaiting ==
  ASSUME EnrichmentShape, QueueMoves, [EnrichmentNext]_enrVars
  PROVE  QueueMoves'
  <1> DEFINE T == IF tick THEN 1 ELSE 0
             Early(s) == reqs[s].pc \in {"limit", "lookup"} => reqs[s].began = now
             Place(i) == now - reqs[queue[i]].began <= reqs[queue[i]].before + 1 - i + T
             Good == /\ \A s \in Request : reqs'[s].pc \in {"limit", "lookup"} => reqs'[s].began = now'
                     /\ \A i \in DOMAIN queue' :
                          now' - reqs'[queue'[i]].began
                            <= reqs'[queue'[i]].before + 1 - i + (IF tick' THEN 1 ELSE 0)
  <1>1. (\A s \in Request : Early(s)) /\ \A i \in DOMAIN queue : Place(i)
    BY DEF QueueMoves, At
  <1>2. /\ queue \in Seq(Request) /\ NoTwice(queue) /\ now \in Nat /\ tick \in BOOLEAN
        /\ \A i \in DOMAIN queue : queue[i] \in Request /\ i \in Nat
        /\ \A i \in DOMAIN queue : reqs[queue[i]].pc = "waiting"
        /\ \A s \in Request : Busy(s) => reqs[s].began \in Nat /\ reqs[s].before \in Nat
    <2>1. \A i \in DOMAIN queue : queue[i] \in In(queue)
      BY DEF In
    <2>2. MaxTime \in Nat /\ tick \in BOOLEAN
      BY EnrichmentAssumption DEF EnrichmentShape, EnrichmentTypeOK
    <2>3. \A s \in Request : Busy(s) => reqs[s].began \in Nat /\ reqs[s].before \in Nat
      BY <2>2, RequestFacts
    <2>4. now \in Nat
      BY <2>2 DEF EnrichmentShape, EnrichmentTypeOK
    <2>5. QED
      BY <2>1, <2>2, <2>3, <2>4, QueueFacts DEF At
  <1>3. \A i \in DOMAIN queue : reqs[queue[i]].began \in Nat /\ reqs[queue[i]].before \in Nat
    BY <1>2 DEF Busy
  <1>4. Idle.pc = "idle"
    BY DEF Idle
  <1>5. ASSUME UNCHANGED <<now, tick, queue>>,
               \A s \in Request : reqs'[s].pc \in {"limit", "lookup"} => reqs'[s].began = now,
               \A s \in Request : reqs[s].pc = "waiting" =>
                 reqs'[s].began = reqs[s].began /\ reqs'[s].before = reqs[s].before
        PROVE  Good
    <2>1. ASSUME NEW i \in DOMAIN queue
          PROVE  now - reqs'[queue[i]].began <= reqs'[queue[i]].before + 1 - i + T
      <3>1. /\ reqs'[queue[i]].began = reqs[queue[i]].began
            /\ reqs'[queue[i]].before = reqs[queue[i]].before
        BY <1>2, <1>5
      <3>2. QED
        BY <1>1, <3>1
    <2>2. QED
      BY <1>5, <2>1
  <1>6. ASSUME NEW r \in Request, NEW c \in CVE, NEW kind \in {"modal", "explain"}, BeginStep(r, c, kind)
        PROVE  Good
    <2>1. /\ UNCHANGED <<now, tick, queue>> /\ reqs'[r].began = now /\ reqs[r].pc = "idle"
          /\ \A s \in Request : s # r => reqs'[s] = reqs[s]
      BY <1>6 DEF BeginStep, Calm, nvdVars, Busy
    <2>2. QED
      BY <1>1, <1>5, <2>1
  <1>7. ASSUME NEW r \in Request, NEW pc \in Points \ {"limit", "waiting", "fetching"}, MoveStep(r, pc)
        PROVE  Good
    <2>1. /\ UNCHANGED <<now, tick, queue>> /\ reqs'[r].began = reqs[r].began /\ reqs[r].pc # "waiting"
          /\ reqs'[r].pc = pc /\ (pc = "lookup" => reqs[r].pc = "limit")
          /\ \A s \in Request : s # r => reqs'[s] = reqs[s]
      BY <1>7 DEF MoveStep, Moved, Calm, nvdVars, At
    <2>2. pc # "limit"
      OBVIOUS
    <2>3. QED
      BY <1>1, <1>5, <2>1, <2>2
  <1>8. ASSUME NEW r \in Request, EndStep(r)
        PROVE  Good
    <2>1. /\ UNCHANGED <<now, tick, queue>> /\ reqs[r].pc # "waiting" /\ reqs'[r].pc = "idle"
          /\ \A s \in Request : s # r => reqs'[s] = reqs[s]
      BY <1>4, <1>8 DEF EndStep, Ended, Calm, nvdVars, At
    <2>2. QED
      BY <1>1, <1>5, <2>1
  <1>9. ASSUME NEW r \in Request, CacheStep(r)
        PROVE  Good
    <2>1. /\ UNCHANGED <<now, tick, queue>> /\ reqs[r].pc = "fetching" /\ reqs'[r].pc \in {"pulses", "paying"}
          /\ \A s \in Request : s # r => reqs'[s].pc = reqs[s].pc
          /\ \A s \in Request : Busy(s) => reqs'[s].began = reqs[s].began /\ reqs'[s].before = reqs[s].before
      BY <1>9 DEF CacheStep, Calm, nvdVars, At
    <2>2. \A s \in Request : reqs'[s].pc \in {"limit", "lookup"} => reqs'[s].began = now
      <3>1. ASSUME NEW s \in Request, reqs'[s].pc \in {"limit", "lookup"}
            PROVE  reqs'[s].began = now
        <4>1. s # r /\ reqs[s].pc = reqs'[s].pc
          BY <2>1, <3>1
        <4>2. Busy(s) /\ reqs[s].began = now
          BY <1>1, <3>1, <4>1 DEF Busy
        <4>3. QED
          BY <2>1, <4>2
      <3>2. QED
        BY <3>1
    <2>3. \A s \in Request : reqs[s].pc = "waiting" => Busy(s)
      BY DEF Busy
    <2> HIDE DEF Good
    <2>4. QED
      BY <1>5, <2>1, <2>2, <2>3
  <1>10. ASSUME RestStep
         PROVE  Good
    <2>1. UNCHANGED <<now, tick, queue, reqs>>
      BY <1>10 DEF RestStep, Calm, nvdVars
    <2>2. QED
      BY <1>1, <1>5, <2>1
  <1>11. ASSUME Restart
         PROVE  Good
    <2>1. queue' = << >> /\ \A s \in Request : reqs'[s].pc = "idle"
      BY <1>4, <1>11 DEF Restart
    <2>2. QED
      BY <2>1
  <1>12. ASSUME NEW r \in Request, QueueStep(r)
         PROVE  Good
    <2>1. /\ UNCHANGED <<now, tick>> /\ queue' = Append(queue, r) /\ reqs[r].pc = "lookup"
          /\ reqs'[r].pc = "waiting" /\ reqs'[r].began = reqs[r].began /\ reqs'[r].before = Len(queue)
          /\ \A s \in Request : s # r => reqs'[s] = reqs[s]
      BY <1>12 DEF QueueStep, Moved, At
    <2>2. reqs[r].began = now
      BY <1>1, <2>1
    <2> DEFINE n == Len(queue)
               Q == Append(queue, r)
    <2>3. n \in Nat /\ DOMAIN Q = 1 .. n + 1 /\ Q[n + 1] = r /\ \A i \in 1 .. n : Q[i] = queue[i]
      BY <1>2
    <2>4. \A i \in DOMAIN Q : i \in 1 .. n \/ i = n + 1
      <3>1. \A z \in Nat : \A i \in 1 .. z + 1 : i \in 1 .. z \/ i = z + 1
        OBVIOUS
      <3>2. QED
        BY <2>3, <3>1, Zenon
    <2>5. DOMAIN queue = 1 .. n
      BY <1>2
    <2> HIDE DEF n, Q, Good
    <2>6. ASSUME NEW i \in DOMAIN Q
          PROVE  now - reqs'[Q[i]].began <= reqs'[Q[i]].before + 1 - i + T
      <3>1. CASE i \in 1 .. n
        <4>1. Q[i] = queue[i] /\ queue[i] # r /\ queue[i] \in Request /\ Place(i)
          BY <1>1, <1>2, <2>1, <2>3, <2>5, <3>1
        <4>2. reqs'[queue[i]] = reqs[queue[i]]
          BY <2>1, <4>1
        <4>3. QED
          BY <4>1, <4>2
      <3>2. CASE i = n + 1
        <4>1. Q[i] = r /\ reqs'[r].began = now /\ reqs'[r].before = n
          BY <2>1, <2>2, <2>3, <3>2 DEF n
        <4>2. 0 <= n + 1 - (n + 1) + T /\ now - now = 0
          BY <1>2, <2>3
        <4>3. QED
          BY <3>2, <4>1, <4>2
      <3>3. QED
        BY <2>4, <3>1, <3>2
    <2>7. \A s \in Request : reqs'[s].pc \in {"limit", "lookup"} => reqs'[s].began = now
      BY <1>1, <2>1
    <2>8. queue' = Q /\ now' = now /\ tick' = tick
      BY <2>1 DEF Q
    <2>9. QED
      BY <2>6, <2>7, <2>8 DEF Good
  <1>13. ASSUME NEW r \in Request, TickStep(r)
         PROVE  Good
    <2>1. /\ tick' = FALSE /\ tick /\ now' = now /\ queue' = Tail(queue) /\ r = Head(queue)
          /\ reqs[r].pc = "waiting" /\ reqs'[r].pc = "fetching"
          /\ \A s \in Request : s # r => reqs'[s] = reqs[s]
      BY <1>13 DEF TickStep, Turn, Moved, At
    <2>2. queue # << >>
      <3>1. r \in In(queue)
        BY <2>1, QueueFacts DEF At
      <3>2. QED
        BY <3>1 DEF In
    <2>3. /\ Head(queue) = queue[1] /\ 1 \in DOMAIN queue
          /\ \A i \in DOMAIN Tail(queue) : i + 1 \in DOMAIN queue /\ Tail(queue)[i] = queue[i + 1]
          /\ Tail(queue) \in Seq(Request)
      BY <1>2, <2>2, QueueShrinks
    <2>4. ASSUME NEW i \in DOMAIN Tail(queue)
          PROVE  now - reqs'[Tail(queue)[i]].began <= reqs'[Tail(queue)[i]].before + 1 - i
      <3> DEFINE s == queue[i + 1]
      <3>1. i \in Nat /\ i + 1 # 1 /\ i + 1 \in DOMAIN queue /\ Tail(queue)[i] = s
        BY <2>3
      <3>2. s \in Request /\ s # r
        BY <1>2, <2>1, <2>3, <3>1 DEF NoTwice
      <3>3. reqs'[s] = reqs[s] /\ now - reqs[s].began <= reqs[s].before + 1 - (i + 1) + 1
        BY <1>1, <2>1, <3>1, <3>2
      <3>4. reqs[s].began \in Nat /\ reqs[s].before \in Nat
        BY <1>3, <3>1
      <3> HIDE DEF s
      <3>5. now - reqs[s].began <= reqs[s].before + 1 - i
        BY <1>2, <3>1, <3>3, <3>4
      <3>6. QED
        BY <3>1, <3>3, <3>5
    <2>5. ASSUME NEW i \in DOMAIN queue'
          PROVE  now' - reqs'[queue'[i]].began <= reqs'[queue'[i]].before + 1 - i + (IF tick' THEN 1 ELSE 0)
      <3>1. /\ Tail(queue)[i] \in Request /\ Tail(queue)[i] # r /\ i \in Nat
        BY <1>2, <2>1, <2>3, <2>5 DEF NoTwice
      <3>2. reqs'[Tail(queue)[i]] = reqs[Tail(queue)[i]] /\ reqs[Tail(queue)[i]].before \in Nat
        BY <1>3, <2>1, <2>3, <2>5, <3>1
      <3>3. reqs'[Tail(queue)[i]].before + 1 - i + 0 = reqs'[Tail(queue)[i]].before + 1 - i
        <4>1. \A m, n \in Nat : m + 1 - n + 0 = m + 1 - n
          OBVIOUS
        <4>2. reqs'[Tail(queue)[i]].before \in Nat
          BY <3>2
        <4>3. QED
          BY <3>1, <4>1, <4>2, Zenon
      <3>4. QED
        BY <2>1, <2>4, <2>5, <3>3
    <2>6. \A s \in Request : reqs'[s].pc \in {"limit", "lookup"} => reqs'[s].began = now'
      BY <1>1, <2>1
    <2>7. QED
      BY <2>5, <2>6
  <1>14. ASSUME TimePasses
         PROVE  Good
    <2>1. /\ now' = now + 1 /\ tick' = TRUE /\ queue' = queue /\ reqs' = reqs
          /\ \A s \in Request : reqs[s].pc # "limit" /\ reqs[s].pc # "lookup" /\ ~ Turn(s)
      BY <1>14 DEF TimePasses, At
    <2>2. CASE tick
      <3>1. queue = << >>
        <4>1. SUFFICES ASSUME queue # << >> PROVE FALSE
          OBVIOUS
        <4>2. Head(queue) = queue[1] /\ 1 \in DOMAIN queue
          BY <1>2, <4>1, QueueShrinks
        <4>3. Turn(queue[1])
          BY <1>2, <2>2, <4>2 DEF Turn, At
        <4>4. QED
          BY <1>2, <2>1, <4>2, <4>3
      <3>2. QED
        BY <2>1, <3>1
    <2>3. CASE ~ tick
      <3>1. ASSUME NEW i \in DOMAIN queue
            PROVE  now + 1 - reqs[queue[i]].began <= reqs[queue[i]].before + 1 - i + 1
        <4>1. now - reqs[queue[i]].began <= reqs[queue[i]].before + 1 - i + 0
          BY <1>1, <2>3
        <4>2. /\ i \in Nat /\ now \in Nat
              /\ reqs[queue[i]].began \in Nat /\ reqs[queue[i]].before \in Nat
          BY <1>2, <1>3
        <4>3. \A m, n, y, z \in Nat : m - n <= y + 1 - z + 0 => m + 1 - n <= y + 1 - z + 1
          OBVIOUS
        <4>4. QED
          BY <4>1, <4>2, <4>3, Zenon
      <3>2. ASSUME NEW i \in DOMAIN queue'
            PROVE  now' - reqs'[queue'[i]].began <= reqs'[queue'[i]].before + 1 - i + (IF tick' THEN 1 ELSE 0)
        <4>1. tick' /\ now' = now + 1 /\ reqs'[queue'[i]] = reqs[queue[i]]
          BY <2>1
        <4>2. now + 1 - reqs[queue[i]].began <= reqs[queue[i]].before + 1 - i + 1
          BY <2>1, <3>1, <3>2
        <4>3. /\ i \in Nat /\ now \in Nat
              /\ reqs[queue[i]].began \in Nat /\ reqs[queue[i]].before \in Nat
          BY <1>2, <1>3, <2>1, <3>2
        <4>4. QED
          BY <4>1, <4>2, <4>3
      <3>3. QED
        BY <2>1, <3>2
    <2>4. QED
      BY <2>2, <2>3
  <1> HIDE DEF Good
  <1>15. Good
    BY <1>6, <1>7, <1>8, <1>9, <1>10, <1>11, <1>12, <1>13, <1>14, EnrichmentSteps
  <1>16. QED
    BY <1>15 DEF Good, QueueMoves, At

LEMMA StepStarved ==
  ASSUME EnrichmentShape, QueueMoves, OnlyCrowdsStarve, [EnrichmentNext]_enrVars
  PROVE  OnlyCrowdsStarve'
  <1>1. ASSUME starved' = starved
        PROVE  OnlyCrowdsStarve'
    BY <1>1 DEF OnlyCrowdsStarve
  <1>2. ASSUME NEW r \in Request, TickStep(r)
        PROVE  OnlyCrowdsStarve'
    <2>1. /\ starved' = IF InTime(r) THEN starved ELSE starved \cup {reqs[r].before}
          /\ reqs[r].pc = "waiting" /\ r = Head(queue) /\ tick
      BY <1>2 DEF TickStep, Turn, At
    <2>2. CASE InTime(r)
      BY <1>1, <2>1, <2>2
    <2>3. CASE ~ InTime(r)
      <3>1. /\ reqs[r].began \in Nat /\ reqs[r].before \in Nat /\ now \in Nat
            /\ Deadline \in Nat /\ Patience \in Nat /\ Deadline <= Patience
        <4>1. Busy(r) /\ MaxTime \in Nat
          BY <2>1, EnrichmentAssumption DEF Busy
        <4>2. QED
          BY <4>1, RequestFacts, EnrichmentAssumption
      <3>2. now - reqs[r].began >= Deadline
        BY <2>3, <3>1 DEF InTime
      <3>3. queue \in Seq(Request) /\ r = queue[1] /\ 1 \in DOMAIN queue
        <4>1. r \in In(queue)
          BY <2>1, QueueFacts DEF At
        <4>2. queue # << >>
          BY <4>1 DEF In
        <4>3. QED
          BY <2>1, <4>2, QueueFacts, QueueShrinks
      <3>4. now - reqs[r].began <= reqs[r].before + 1 - 1 + 1
        BY <2>1, <3>3 DEF QueueMoves
      <3>5. reqs[r].before >= Deadline - 1
        BY <3>1, <3>2, <3>4
      <3>6. QED
        BY <2>1, <2>3, <3>5 DEF OnlyCrowdsStarve
    <2>4. QED
      BY <2>2, <2>3
  <1>3. ASSUME NEW r \in Request,
               \/ \E c \in CVE, kind \in {"modal", "explain"} : BeginStep(r, c, kind)
               \/ \E pc \in Points \ {"limit", "waiting", "fetching"} : MoveStep(r, pc)
               \/ EndStep(r) \/ QueueStep(r) \/ CacheStep(r)
        PROVE  starved' = starved
    BY <1>3 DEF BeginStep, MoveStep, EndStep, QueueStep, CacheStep, Calm, nvdVars
  <1>4. ASSUME RestStep \/ Restart \/ TimePasses
        PROVE  starved' = starved
    BY <1>4 DEF RestStep, Restart, TimePasses, Calm, nvdVars
  <1>5. QED
    BY <1>1, <1>2, <1>3, <1>4, EnrichmentSteps

LEMMA StepEnrichment == EnrichmentInv /\ [EnrichmentNext]_enrVars => EnrichmentInv'
  BY StepLimiter, StepShape, StepDetail, StepSettled, StepPulses, StepSlots, StepWaiting, StepStarved
     DEF EnrichmentInv

LEMMA InitEnrichment == EnrichmentInit => EnrichmentInv
  <1> SUFFICES ASSUME EnrichmentInit PROVE EnrichmentInv
    OBVIOUS
  <1>1. LimiterInv
    <2>1. /\ now = 0 /\ buckets = [k \in Key |-> << >>] /\ granted = [k \in Key |-> << >>]
      BY DEF EnrichmentInit, LimiterInit
    <2>2. 0 \in Nat /\ << >> \in Seq(Nat)
      OBVIOUS
    <2>3. \A k \in Key : KeyInv(granted[k], buckets[k], now)
      BY <2>1, <2>2, KeyStarts
    <2>4. {buckets, granted} \subseteq [Key -> Seq(Nat)]
      BY <2>1, <2>2
    <2>5. QED
      BY <2>1, <2>2, <2>3, <2>4, LimiterByKey
  <1>2. /\ now = 0 /\ tick = FALSE /\ queue = << >> /\ took = << >> /\ starved = {}
        /\ reqs = [r \in Request |-> Idle]
        /\ details = [c \in CVE |-> "none"] /\ pulses = [c \in CVE |-> Never]
        /\ explained = [c \in CVE |-> FALSE]
        /\ answered = [c \in CVE |-> Never] /\ settled = {}
    BY DEF EnrichmentInit, LimiterInit
  <1>3. \A r \in Request : reqs[r].pc = "idle"
    BY <1>2 DEF Idle
  <1>4. EnrichmentShape
    <2>1. 0 \in 0 .. MaxTime
      BY EnrichmentAssumption
    <2>2. EnrichmentTypeOK
      <3>1. {queue[i] : i \in DOMAIN queue} = {r \in Request : At(r, "waiting")}
        BY <1>2, <1>3 DEF At
      <3>2. QED
        BY <1>2, <2>1, <3>1 DEF EnrichmentTypeOK
    <2>3. << >> \in Seq(Request) /\ << >> \in Seq(0 .. MaxTime)
      OBVIOUS
    <2>4. QED
      BY <1>2, <1>3, <2>2, <2>3 DEF EnrichmentShape, Busy
  <1>5. DetailIsKnown /\ SettledIsExplained /\ PulsesKept
    BY <1>2, <1>3 DEF DetailIsKnown, SettledIsExplained, PulsesKept, At
  <1>6. SlotsAreApart /\ BandHolds /\ QueueMoves /\ OnlyCrowdsStarve
    BY <1>2, <1>3 DEF SlotsAreApart, BandHolds, QueueMoves, OnlyCrowdsStarve, At
  <1>7. QED
    BY <1>1, <1>4, <1>5, <1>6 DEF EnrichmentInv

\* What is promised of the requests follows.
LEMMA EnrichmentKeeps ==
  ASSUME EnrichmentInv
  PROVE  /\ EnrichmentTypeOK /\ WindowHolds /\ BandHolds /\ OnlyCrowdsStarve
         /\ PulsesKept /\ SettledIsFree
  <1>1. SettledIsFree
    <2>1. ASSUME NEW r \in Request, At(r, "paying"), reqs[r].kind = "explain", reqs[r].cve \in settled
          PROVE  FALSE
      <3>1. r \in Asking(reqs[r].cve)
        BY <2>1 DEF Asking, Busy, At
      <3>2. QED
        BY <2>1, <3>1 DEF EnrichmentInv, SettledIsExplained
    <2>2. QED
      BY <2>1 DEF SettledIsFree
  <1>2. QED
    BY <1>1 DEF EnrichmentInv, EnrichmentShape, LimiterInv

-----------------------------------------------------------------------------
(* The configuration *)

LEMMA InitConfig == ConfigInit => ConfigInv
  <1> SUFFICES ASSUME ConfigInit PROVE ConfigInv
    OBVIOUS
  <1>1. \A d \in Admin : edits[d] = NoEdit /\ edits[d].pc = "idle"
    BY DEF ConfigInit, NoEdit
  <1>2. Editing = {} /\ Saving = {}
    BY <1>1 DEF Editing, Saving
  <1>3. Size({}) \in Nat
    BY FS_EmptySet DEF Size
  <1>4. ConfigShape
    BY <1>2, <1>3 DEF ConfigInit, ConfigShape, ConfigTypeOK, Readable
  <1>5. OneSaves
    BY <1>2 DEF OneSaves, Readable, ConfigInit
  <1>6. QED
    BY <1>2, <1>4, <1>5
    DEF ConfigInv, OneIsAlone, UndoneIsNotOwed, ListsAreCurrent, AloneIsDone,
        AnsweredIsWatched, AnsweredIsSaved, ConfigInit

LEMMA SizeOfList ==
  ASSUME NEW list \in SUBSET Watchable
  PROVE  Size(list) \in Nat /\ Size(list) > 0
  BY ConfigAssumption, FS_Subset, FS_CardinalityType DEF Size

\* A request under way is a record, at one of four places.
LEMMA EditOf ==
  ASSUME ConfigShape, NEW d \in Editing
  PROVE  d \in Admin /\ edits[d] \in Edit /\ up
  BY DEF ConfigShape, ConfigTypeOK, Editing, NoEdit, Edit

LEMMA ConfigSteps ==
  ASSUME [ConfigNext]_configVars
  PROVE  \/ \E d \in Admin, kind \in {"add", "remove", "settings"}, hs \in SUBSET Watchable :
              BeginEdit(d, kind, hs)
         \/ \E d \in Admin : \/ AlreadyWatched(d) \/ ChangeList(d) \/ Marshal(d)
                             \/ Truncate(d) \/ Write(d) \/ SaveFails(d)
         \/ Stop \/ Load
         \/ UNCHANGED configVars
  <1>1. ASSUME NEW d \in Admin, NEW add \in (SUBSET Watchable) \ {{}},
               BeginEdit(d, "add", add)
        PROVE  \E kind \in {"add", "remove", "settings"}, hs \in SUBSET Watchable :
                 BeginEdit(d, kind, hs)
    BY <1>1
  <1>2. ASSUME NEW d \in Admin, NEW h \in Watchable, BeginEdit(d, "remove", {h})
        PROVE  \E kind \in {"add", "remove", "settings"}, hs \in SUBSET Watchable :
                 BeginEdit(d, kind, hs)
    BY <1>2
  <1>3. ASSUME NEW d \in Admin, BeginEdit(d, "settings", {})
        PROVE  \E kind \in {"add", "remove", "settings"}, hs \in SUBSET Watchable :
                 BeginEdit(d, kind, hs)
    BY <1>3
  <1>4. QED
    BY <1>1, <1>2, <1>3 DEF ConfigNext

\* The types survive every step.
LEMMA StepConfigShape == ConfigInv /\ [ConfigNext]_configVars => ConfigShape'
  <1> SUFFICES ASSUME ConfigInv, [ConfigNext]_configVars PROVE ConfigShape'
    OBVIOUS
  <1>0. ConfigShape
    BY DEF ConfigInv
  <1>e. \A d \in Admin : NoEdit.pc = "idle" /\ edits[d] \in {NoEdit} \cup Edit
    BY <1>0 DEF ConfigShape, NoEdit
  <1> USE DEF ConfigShape, ConfigTypeOK, Editing, Saving, Readable
  <1>1. ASSUME NEW d \in Admin, NEW kind \in {"add", "remove", "settings"},
               NEW hs \in SUBSET Watchable, BeginEdit(d, kind, hs)
        PROVE  ConfigShape'
    <2>1. edits' \in [Admin -> {NoEdit} \cup Edit]
      <3>1. [pc |-> "change", kind |-> kind, handles |-> hs, list |-> watched,
             alone |-> Editing = {}] \in Edit
        BY <1>0 DEF Edit
      <3>2. ASSUME NEW e \in Editing
            PROVE  [edits[e] EXCEPT !.alone = FALSE] \in Edit
        BY <1>0, EditOf, <3>2 DEF Edit
      <3>3. QED
        BY <1>0, <1>1, <3>1, <3>2 DEF BeginEdit
    <2>2. QED
      BY <1>0, <1>1, <2>1 DEF BeginEdit
  <1>2. ASSUME NEW d \in Admin, AlreadyWatched(d) \/ SaveFails(d)
        PROVE  ConfigShape'
    BY <1>0, <1>e, <1>2 DEF AlreadyWatched, SaveFails
  <1>3. ASSUME NEW d \in Admin, ChangeList(d)
        PROVE  ConfigShape'
    <2>1. edits[d] \in Edit /\ up
      BY <1>0, <1>3, EditOf DEF ChangeList
    <2>2. [edits[d] EXCEPT !.pc = "marshal"] \in Edit
      BY <2>1 DEF Edit
    <2>3. Changed(d) \subseteq Watchable
      BY <1>0, <2>1 DEF Changed, Edit
    <2>4. QED
      BY <1>0, <1>3, <2>1, <2>2, <2>3 DEF ChangeList, Goes, fileVars
  <1>4. ASSUME NEW d \in Admin, Marshal(d)
        PROVE  ConfigShape'
    <2>1. edits[d] \in Edit /\ up
      BY <1>0, <1>4, EditOf DEF Marshal
    <2>2. edits' = [edits EXCEPT ![d] = [edits[d] EXCEPT !.pc = "truncate", !.list = watched]]
      BY <1>4 DEF Marshal
    <2>3. [edits[d] EXCEPT !.pc = "truncate", !.list = watched] \in Edit
      BY <1>0, <2>1 DEF Edit
    <2>4. QED
      BY <1>0, <1>4, <2>1, <2>2, <2>3 DEF Marshal, fileVars
  <1>5. ASSUME NEW d \in Admin, Truncate(d)
        PROVE  ConfigShape'
    <2>1. edits[d] \in Edit /\ up
      BY <1>0, <1>5, EditOf DEF Truncate
    <2>2. [edits[d] EXCEPT !.pc = "write"] \in Edit
      BY <2>1 DEF Edit
    <2>3. QED
      BY <1>0, <1>5, <2>1, <2>2 DEF Truncate, Goes
  <1>6. ASSUME NEW d \in Admin, Write(d)
        PROVE  ConfigShape'
    <2>1. edits[d] \in Edit /\ up
      BY <1>0, <1>6, EditOf DEF Write
    <2>2. edits[d].list \subseteq Watchable /\ edits[d].handles \subseteq Watchable
      BY <2>1 DEF Edit
    <2>3. Size(edits[d].list) \in Nat
      BY <2>2, SizeOfList
    <2>4. file' \in [list : SUBSET Watchable, size : Nat, whole : BOOLEAN]
      BY <1>0, <1>6, <2>2, <2>3 DEF Write
    <2>5. owed' \subseteq Watchable /\ dropped' \subseteq Watchable
      BY <1>0, <1>6, <2>2 DEF Write
    <2>6. edits' = [edits EXCEPT ![d] = NoEdit] /\ UNCHANGED <<watched, up, spoiled>>
      BY <1>6 DEF Write
    <2>7. QED
      BY <1>0, <1>e, <2>1, <2>4, <2>5, <2>6
  <1>7. CASE Stop \/ Load
    BY <1>0, <1>e, <1>7 DEF Stop, Load, fileVars
  <1>8. CASE UNCHANGED configVars
    BY <1>0, <1>8 DEF configVars
  <1>9. QED
    BY <1>1, <1>2, <1>3, <1>4, <1>5, <1>6, <1>7, <1>8, ConfigSteps

\* What is owed is not lost by a request that begins ...
LEMMA BeginKeepsAnswers ==
  ASSUME ConfigInv, NEW d \in Admin, NEW kind \in {"add", "remove", "settings"},
         NEW hs \in SUBSET Watchable, BeginEdit(d, kind, hs)
  PROVE  /\ OneIsAlone' /\ UndoneIsNotOwed' /\ ListsAreCurrent' /\ AloneIsDone'
         /\ AnsweredIsWatched' /\ AnsweredIsSaved'
  <1>0. ConfigShape /\ edits[d] = NoEdit /\ NoEdit.pc = "idle" /\ d \notin Editing /\ up
    BY DEF ConfigInv, BeginEdit, NoEdit, Editing
  <1>1. /\ edits'[d] = [pc |-> "change", kind |-> kind, handles |-> hs,
                        list |-> watched, alone |-> Editing = {}]
        /\ \A e \in Editing : edits'[e] = [edits[e] EXCEPT !.alone = FALSE]
        /\ \A e \in Admin : e # d /\ e \notin Editing => edits'[e] = edits[e]
    <2>1. edits' = [e \in Admin |->
             IF e = d THEN [pc |-> "change", kind |-> kind, handles |-> hs,
                            list |-> watched, alone |-> Editing = {}]
             ELSE IF e \in Editing THEN [edits[e] EXCEPT !.alone = FALSE] ELSE edits[e]]
      BY DEF BeginEdit
    <2>2. Editing \subseteq Admin
      BY DEF Editing
    <2>3. QED
      BY <1>0, <2>1, <2>2
  <1>2. \A e \in Editing : /\ e # d /\ edits'[e].pc = edits[e].pc /\ ~ edits'[e].alone
                           /\ edits'[e].kind = edits[e].kind /\ edits'[e].list = edits[e].list
                           /\ edits'[e].handles = edits[e].handles
    BY <1>0, <1>1, EditOf DEF Edit
  <1>3. Editing' = Editing \cup {d}
    BY <1>0, <1>1, <1>2 DEF Editing
  <1>4. /\ owed' \subseteq owed /\ dropped' \subseteq dropped
        /\ kind = "remove" => owed' \cap hs = {}
        /\ kind = "add" => dropped' \cap hs = {}
        /\ UNCHANGED <<watched, file, up>>
    BY DEF BeginEdit
  <1>5. /\ edits'[d].pc = "change" /\ edits'[d].kind = kind /\ edits'[d].handles = hs
        /\ edits'[d].list = watched /\ edits'[d].alone = (Editing = {})
    <2>1. [pc |-> "change", kind |-> kind, handles |-> hs, list |-> watched,
           alone |-> Editing = {}].alone = (Editing = {})
      OBVIOUS
    <2>3. edits'[d].alone = (Editing = {})
      BY <1>1, <2>1, Zenon
    <2>2. QED
      BY <1>1, <2>3
  <1> HIDE DEF ConfigInv
  <1>6. OneIsAlone'
    BY <1>2, <1>3, <1>5 DEF OneIsAlone
  <1>7. UndoneIsNotOwed'
    BY <1>2, <1>3, <1>4, <1>5 DEF UndoneIsNotOwed, ConfigInv
  <1>8. AnsweredIsWatched' /\ AnsweredIsSaved'
    BY <1>4 DEF ConfigInv, AnsweredIsWatched, AnsweredIsSaved, Readable
  <1>9. ListsAreCurrent'
    BY <1>0, <1>2, <1>3, <1>4, <1>5 DEF ListsAreCurrent, ConfigInv, AnsweredIsWatched
  <1>10. AloneIsDone'
    BY <1>2, <1>3, <1>5 DEF AloneIsDone
  <1>11. QED
    BY <1>6, <1>7, <1>8, <1>9, <1>10

\* ... nor by one that changes the list, which holds what it had read and what it
\* adds ...
LEMMA ChangeKeepsAnswers ==
  ASSUME ConfigInv, NEW d \in Admin, ChangeList(d)
  PROVE  /\ OneIsAlone' /\ UndoneIsNotOwed' /\ ListsAreCurrent' /\ AloneIsDone'
         /\ AnsweredIsWatched' /\ AnsweredIsSaved'
  <1>0. ConfigShape /\ d \in Editing /\ edits[d].pc = "change"
    BY DEF ConfigInv, ChangeList, Editing
  <1>1. edits[d] \in Edit /\ up /\ DOMAIN edits = Admin
    BY <1>0, EditOf DEF ConfigShape
  <1>2. /\ edits'[d] = [edits[d] EXCEPT !.pc = "marshal"]
        /\ \A e \in Admin : e # d => edits'[e] = edits[e]
        /\ watched' = Changed(d) /\ UNCHANGED <<file, up, owed, dropped>>
    BY <1>1 DEF ChangeList, Goes, fileVars
  <1>3. /\ edits'[d].pc = "marshal" /\ edits'[d].kind = edits[d].kind
        /\ edits'[d].alone = edits[d].alone /\ edits'[d].handles = edits[d].handles
    BY <1>1, <1>2 DEF Edit
  <1>4. Editing' = Editing
    BY <1>0, <1>2, <1>3 DEF Editing
  <1>5. AnsweredIsWatched'
    BY <1>0, <1>1, <1>2
    DEF ConfigInv, AnsweredIsWatched, ListsAreCurrent, UndoneIsNotOwed, Changed, Edit
  <1>6. OneIsAlone' /\ UndoneIsNotOwed'
    <2>1. \A e \in Editing : /\ edits'[e].alone = edits[e].alone
                             /\ edits'[e].kind = edits[e].kind
                             /\ edits'[e].handles = edits[e].handles
      BY <1>2, <1>3 DEF Editing
    <2>2. OneIsAlone'
      BY <1>4, <2>1 DEF ConfigInv, OneIsAlone
    <2>3. UndoneIsNotOwed'
      BY <1>2, <1>4, <2>1 DEF ConfigInv, UndoneIsNotOwed
    <2>4. QED
      BY <2>2, <2>3
  <1>7. ListsAreCurrent' /\ AnsweredIsSaved'
    BY <1>2, <1>3, <1>4 DEF ConfigInv, ListsAreCurrent, AnsweredIsSaved, Readable, Editing
  <1>8. AloneIsDone'
    <2>1. \A e \in Editing : edits'[e].alone => Editing = {e}
      BY <1>4, <1>6 DEF OneIsAlone
    <2>2. /\ edits[d].kind = "add" => edits[d].handles \subseteq watched'
          /\ edits[d].kind = "remove" => edits[d].handles \cap watched' = {}
      BY <1>2 DEF Changed
    <2>3. QED
      BY <1>0, <1>3, <1>4, <2>1, <2>2 DEF AloneIsDone
  <1>9. QED
    BY <1>5, <1>6, <1>7, <1>8

\* ... and whoever saves had marshalled the list after its change.
LEMMA SaveKeepsAnswers ==
  ASSUME ConfigInv, NEW d \in Admin, Marshal(d) \/ Truncate(d)
  PROVE  /\ OneIsAlone' /\ UndoneIsNotOwed' /\ ListsAreCurrent' /\ AloneIsDone'
         /\ AnsweredIsWatched' /\ AnsweredIsSaved'
  <1>0. ConfigShape /\ d \in Editing
    BY DEF ConfigInv, Marshal, Truncate, Editing
  <1>1. edits[d] \in Edit /\ up /\ DOMAIN edits = Admin
    BY <1>0, EditOf DEF ConfigShape
  <1>2. /\ \A e \in Admin : e # d => edits'[e] = edits[e]
        /\ UNCHANGED <<watched, up, owed, dropped>> /\ (file' = file \/ ~ file'.whole)
    <2>1. CASE Marshal(d)
      BY <1>1, <2>1 DEF Marshal, fileVars
    <2>2. CASE Truncate(d)
      BY <1>1, <2>2 DEF Truncate, Goes
    <2>3. QED
      BY <2>1, <2>2
  <1>3. /\ edits'[d].pc \in {"truncate", "write"} /\ edits'[d].kind = edits[d].kind
        /\ edits'[d].alone = edits[d].alone /\ edits'[d].handles = edits[d].handles
        /\ edits[d].pc = "marshal" => edits'[d].list = watched
        /\ edits[d].pc # "marshal" => edits'[d].list = edits[d].list
        /\ edits[d].pc \in {"marshal", "truncate"}
    <2>1. CASE Marshal(d)
      BY <1>1, <2>1 DEF Marshal, Edit
    <2>2. CASE Truncate(d)
      BY <1>1, <2>2 DEF Truncate, Goes, Edit
    <2>3. QED
      BY <2>1, <2>2
  <1>4. Editing' = Editing
    BY <1>0, <1>2, <1>3 DEF Editing
  <1>5. AnsweredIsWatched' /\ AnsweredIsSaved'
    BY <1>2 DEF ConfigInv, AnsweredIsWatched, AnsweredIsSaved, Readable
  <1>6. OneIsAlone' /\ UndoneIsNotOwed'
    <2>1. \A e \in Editing : /\ edits'[e].alone = edits[e].alone
                             /\ edits'[e].kind = edits[e].kind
                             /\ edits'[e].handles = edits[e].handles
      BY <1>2, <1>3 DEF Editing
    <2>2. OneIsAlone'
      BY <1>4, <2>1 DEF ConfigInv, OneIsAlone
    <2>3. UndoneIsNotOwed'
      BY <1>2, <1>4, <2>1 DEF ConfigInv, UndoneIsNotOwed
    <2>4. QED
      BY <2>2, <2>3
  <1>7. ListsAreCurrent'
    BY <1>0, <1>1, <1>2, <1>3, <1>4
    DEF ConfigInv, ListsAreCurrent, AnsweredIsWatched, Editing
  <1>8. AloneIsDone'
    <2>1. ASSUME NEW e \in Editing, e # d, edits'[e].alone, edits'[e].pc # "change"
          PROVE  FALSE
      BY <1>0, <1>4, <1>6, <2>1 DEF OneIsAlone
    <2>2. ASSUME edits[d].alone
          PROVE  \A list \in {watched, edits'[d].list} :
                   /\ edits[d].kind = "add" => edits[d].handles \subseteq list
                   /\ edits[d].kind = "remove" => edits[d].handles \cap list = {}
      BY <1>0, <1>3, <2>2 DEF ConfigInv, AloneIsDone
    <2>3. QED
      BY <1>2, <1>3, <1>4, <2>1, <2>2 DEF AloneIsDone
  <1>9. QED
    BY <1>5, <1>6, <1>7, <1>8

\* Only the answer to a lone request adds to what is owed, and what it adds is in
\* the list and in what it saved.
LEMMA WriteKeepsAnswers ==
  ASSUME ConfigInv, NEW d \in Admin, Write(d)
  PROVE  /\ OneIsAlone' /\ UndoneIsNotOwed' /\ ListsAreCurrent' /\ AloneIsDone'
         /\ AnsweredIsWatched' /\ AnsweredIsSaved'
  <1>0. ConfigShape /\ d \in Editing /\ edits[d].pc = "write" /\ NoEdit.pc = "idle"
    BY DEF ConfigInv, Write, Editing, NoEdit
  <1>1. edits[d] \in Edit /\ up /\ DOMAIN edits = Admin
    BY <1>0, EditOf DEF ConfigShape
  <1>2. edits' = [edits EXCEPT ![d] = NoEdit] /\ UNCHANGED <<watched, up, spoiled>>
    BY DEF Write
  <1>3. /\ Editing' = Editing \ {d}
        /\ \A e \in Editing' : edits'[e] = edits[e]
    BY <1>0, <1>1, <1>2 DEF Editing
  <1>4. CASE ~ edits[d].alone
    <2>1. owed' = owed /\ dropped' = dropped
      BY <1>4 DEF Write
    <2>2. OneIsAlone'
      BY <1>0, <1>3 DEF ConfigInv, OneIsAlone
    <2>3. UndoneIsNotOwed' /\ AnsweredIsWatched'
      BY <1>2, <1>3, <2>1 DEF ConfigInv, UndoneIsNotOwed, AnsweredIsWatched
    <2>4. ListsAreCurrent'
      BY <1>3, <2>1 DEF ConfigInv, ListsAreCurrent
    <2>5. AloneIsDone'
      BY <1>2, <1>3 DEF ConfigInv, AloneIsDone
    <2>6. AnsweredIsSaved'
      BY <1>0, <2>1 DEF ConfigInv, AnsweredIsSaved, ListsAreCurrent, Readable, Write
    <2>7. QED
      BY <2>2, <2>3, <2>4, <2>5, <2>6
  <1>5. CASE edits[d].alone
    <2>1. Editing' = {}
      BY <1>0, <1>3, <1>5 DEF ConfigInv, OneIsAlone
    <2>2. \A list \in {watched, edits[d].list} :
            /\ edits[d].kind = "add" => edits[d].handles \subseteq list
            /\ edits[d].kind = "remove" => edits[d].handles \cap list = {}
      BY <1>0, <1>5 DEF ConfigInv, AloneIsDone
    <2>3. \A list \in {watched, edits[d].list} : owed \subseteq list /\ dropped \cap list = {}
      BY <1>0, <1>1 DEF ConfigInv, ListsAreCurrent, AnsweredIsWatched
    <2>4. \A list \in {watched, edits[d].list} : owed' \subseteq list /\ dropped' \cap list = {}
      BY <1>5, <2>2, <2>3 DEF Write
    <2>5. AnsweredIsWatched'
      BY <1>2, <2>4 DEF AnsweredIsWatched
    <2>6. file'.whole => file'.list = edits[d].list
      BY <1>0 DEF Write, ConfigShape
    <2>7. AnsweredIsSaved'
      BY <2>4, <2>6 DEF AnsweredIsSaved, Readable
    <2>8. QED
      BY <2>1, <2>5, <2>7 DEF OneIsAlone, UndoneIsNotOwed, ListsAreCurrent, AloneIsDone
  <1>6. QED
    BY <1>4, <1>5

\* A request that ends without saving, a stop and a start promise nothing new.
LEMMA RestKeepsAnswers ==
  ASSUME ConfigInv,
         \/ \E d \in Admin : AlreadyWatched(d) \/ SaveFails(d)
         \/ Stop \/ Load
         \/ UNCHANGED configVars
  PROVE  /\ OneIsAlone' /\ UndoneIsNotOwed' /\ ListsAreCurrent' /\ AloneIsDone'
         /\ AnsweredIsWatched' /\ AnsweredIsSaved'
  <1>0. ConfigShape /\ NoEdit.pc = "idle" /\ DOMAIN edits = Admin
    BY DEF ConfigInv, NoEdit, ConfigShape
  <1>1. UNCHANGED <<owed, dropped, file>>
    BY DEF AlreadyWatched, SaveFails, Stop, Load, configVars, fileVars
  <1>2. AnsweredIsSaved'
    BY <1>1 DEF ConfigInv, AnsweredIsSaved, Readable
  <1>3. AnsweredIsWatched'
    BY <1>1
    DEF ConfigInv, AnsweredIsSaved, AnsweredIsWatched, Readable, AlreadyWatched, SaveFails,
        Stop, Load, configVars
  <1>4. /\ Editing' \subseteq Editing
        /\ \A e \in Editing' : edits'[e] = edits[e] /\ watched' = watched
    <2>1. ASSUME NEW d \in Admin, AlreadyWatched(d) \/ SaveFails(d)
          PROVE  /\ Editing' \subseteq Editing
                 /\ \A e \in Editing' : edits'[e] = edits[e] /\ watched' = watched
      BY <1>0, <2>1 DEF AlreadyWatched, SaveFails, Editing
    <2>2. CASE Stop
      BY <1>0, <2>2 DEF Stop, Editing
    <2>3. CASE Load
      <3>1. Editing' = {}
        BY <1>0, <2>3 DEF Load, Editing, ConfigShape, ConfigTypeOK
      <3>2. QED
        BY <3>1
    <2>4. CASE UNCHANGED configVars
      BY <2>4 DEF configVars, Editing
    <2>5. QED
      BY <2>1, <2>2, <2>3, <2>4
  <1>5. OneIsAlone' /\ UndoneIsNotOwed'
    BY <1>1, <1>4 DEF ConfigInv, OneIsAlone, UndoneIsNotOwed
  <1>6. ListsAreCurrent'
    BY <1>1, <1>4 DEF ConfigInv, ListsAreCurrent
  <1>7. AloneIsDone'
    BY <1>4 DEF ConfigInv, AloneIsDone
  <1>8. QED
    BY <1>2, <1>3, <1>5, <1>6, <1>7

\* A save that meets no other finds the file empty when it writes.
LEMMA StepOneSaves == ConfigInv /\ [ConfigNext]_configVars => OneSaves'
  <1> SUFFICES ASSUME ConfigInv, [ConfigNext]_configVars PROVE OneSaves'
    OBVIOUS
  <1>0. ConfigShape /\ OneSaves /\ NoEdit.pc = "idle" /\ DOMAIN edits = Admin
    BY DEF ConfigInv, NoEdit, ConfigShape
  <1> USE DEF Readable
  <1>1. ASSUME NEW d \in Admin, Truncate(d)
        PROVE  OneSaves'
    <2>1. Saving' = Saving \cup {d} /\ file'.size = 0 /\ (spoiled' = (Saving # {}))
      BY <1>0, <1>1 DEF Truncate, Goes, Saving
    <2>2. QED
      BY <2>1 DEF OneSaves
  <1>2. ASSUME NEW d \in Admin, Write(d)
        PROVE  OneSaves'
    <2>1. Saving' = Saving \ {d} /\ d \in Saving /\ spoiled' = spoiled
      BY <1>0, <1>2 DEF Write, Saving
    <2>2. edits[d].list \subseteq Watchable
      BY <1>0, <1>2, EditOf DEF Write, Editing, Edit
    <2>3. Size(edits[d].list) \in Nat
      BY <2>2, SizeOfList
    <2>4. file.size = 0 => file'.whole
      BY <1>2, <2>3 DEF Write
    <2>5. QED
      BY <1>0, <2>1, <2>4 DEF OneSaves
  <1>3. ASSUME NEW d \in Admin, SaveFails(d)
        PROVE  OneSaves'
    <2>1. Saving' = Saving \ {d} /\ file' = file /\ spoiled' = (spoiled \/ d \in Saving)
      BY <1>0, <1>3 DEF SaveFails, Saving
    <2>2. QED
      BY <1>0, <2>1 DEF OneSaves
  <1>4. CASE Stop
    <2>1. Saving' = {} /\ file' = file /\ spoiled' = (spoiled \/ Saving # {})
      BY <1>0, <1>4 DEF Stop, Saving
    <2>2. QED
      BY <1>0, <2>1 DEF OneSaves
  <1>5. ASSUME Saving' = Saving, file' = file, spoiled' = spoiled
        PROVE  OneSaves'
    BY <1>0, <1>5 DEF OneSaves
  <1>6. ASSUME NEW d \in Admin, NEW kind \in {"add", "remove", "settings"},
               NEW hs \in SUBSET Watchable, BeginEdit(d, kind, hs)
        PROVE  Saving' = Saving /\ file' = file /\ spoiled' = spoiled
    <2>1. /\ edits'[d].pc = "change" /\ edits[d].pc = "idle"
          /\ \A e \in Admin : e # d => edits'[e].pc = edits[e].pc
      <3>1. \A e \in Editing : edits[e] \in Edit
        BY <1>0, EditOf
      <3>2. \A e \in Admin : e # d =>
              edits'[e] = IF e \in Editing THEN [edits[e] EXCEPT !.alone = FALSE] ELSE edits[e]
        BY <1>6 DEF BeginEdit
      <3>3. \A e \in Editing : [edits[e] EXCEPT !.alone = FALSE].pc = edits[e].pc
        BY <3>1 DEF Edit
      <3>4. QED
        BY <1>0, <1>6, <3>2, <3>3 DEF BeginEdit
    <2>2. QED
      BY <1>6, <2>1 DEF BeginEdit, Saving
  <1>7. ASSUME NEW d \in Admin, AlreadyWatched(d) \/ ChangeList(d) \/ Marshal(d)
        PROVE  Saving' = Saving /\ file' = file /\ spoiled' = spoiled
    <2>1. edits[d].pc # "write" /\ edits'[d].pc # "write"
          /\ \A e \in Admin : e # d => edits'[e] = edits[e]
      <3>1. CASE AlreadyWatched(d)
        BY <1>0, <3>1 DEF AlreadyWatched
      <3>2. CASE ChangeList(d)
        BY <1>0, <3>2 DEF ChangeList, Goes
      <3>3. CASE Marshal(d)
        <4>1. edits[d] \in Edit
          BY <1>0, <3>3, EditOf DEF Marshal, Editing
        <4>2. edits'[d].pc = "truncate"
          BY <1>0, <3>3, <4>1 DEF Marshal, Edit
        <4>3. QED
          BY <1>0, <3>3, <4>2 DEF Marshal
      <3>4. QED
        BY <1>7, <3>1, <3>2, <3>3
    <2>2. QED
      BY <1>7, <2>1 DEF AlreadyWatched, ChangeList, Marshal, fileVars, Saving
  <1>8. CASE Load \/ UNCHANGED configVars
    BY <1>5, <1>8 DEF Load, fileVars, configVars, Saving
  <1>9. QED
    BY <1>1, <1>2, <1>3, <1>4, <1>5, <1>6, <1>7, <1>8, ConfigSteps

LEMMA StepConfig == ConfigInv /\ [ConfigNext]_configVars => ConfigInv'
  BY ConfigSteps, StepConfigShape, BeginKeepsAnswers, ChangeKeepsAnswers, SaveKeepsAnswers,
     WriteKeepsAnswers, RestKeepsAnswers, StepOneSaves
  DEF ConfigInv

-----------------------------------------------------------------------------
(* The settings and the summary of what is new *)

LEMMA InitSettings == SettingsInit => SettingsInv
  <1> SUFFICES ASSUME SettingsInit PROVE SettingsInv
    OBVIOUS
  <1>1. \A g \in Ask : asks[g].pc = "idle"
    BY DEF SettingsInit, AtRest
  <1>2. merging \in Merge /\ merging.pc = "idle"
    BY DEF SettingsInit, Merge, AtRest
  <1>3. blob \in [choice : 0 .. MaxSaves, dismissed : {Undismissed} \cup 0 .. LastClock]
    BY SettingsAssumption DEF SettingsInit
  <1>4. SettingsTypeOK
    BY <1>1, <1>2, <1>3, SettingsAssumption DEF SettingsInit, SettingsTypeOK
  <1>5. SettingsShape
    <2>1. saves \in 0 .. MaxSaves
      BY SettingsAssumption DEF SettingsInit
    <2>2. DOMAIN asks = Ask
      BY DEF SettingsInit
    <2>3. overtaken \in BOOLEAN /\ undone \in BOOLEAN
      BY DEF SettingsInit
    <2>4. QED
      BY <1>2, <1>4, <2>1, <2>2, <2>3 DEF SettingsShape
  <1>6. QED
    BY <1>1, <1>2, <1>5
    DEF SettingsInit, SettingsInv, ReadIsStored, DismissalKeepsSettings, DismissalIsStored,
        FiledByWindow, QuietUnlessSaved

\* The requests and the cache apart, the settings keep their types.
LEMMA MergeOf ==
  ASSUME SettingsShape
  PROVE  /\ merging.pc = "read" => /\ merging.at \in 0 .. LastClock
                                   /\ merging.blob \in [choice : 0 .. MaxSaves,
                                        dismissed : {Undismissed} \cup 0 .. LastClock]
         /\ AtRest \in Merge /\ [pc |-> "stored"] \in Merge
         /\ AtRest.pc = "idle"
  BY DEF SettingsShape, Merge, AtRest

LEMMA StepSettingsShape == SettingsInv /\ [SettingsNext]_setVars => SettingsShape'
  <1> SUFFICES ASSUME SettingsInv, [SettingsNext]_setVars PROVE SettingsShape'
    OBVIOUS
  <1>0. SettingsShape
    BY DEF SettingsInv
  <1>m. /\ merging.pc = "read" => /\ merging.at \in 0 .. LastClock
                                  /\ merging.blob \in [choice : 0 .. MaxSaves,
                                       dismissed : {Undismissed} \cup 0 .. LastClock]
        /\ AtRest \in Merge /\ [pc |-> "stored"] \in Merge
        /\ AtRest.pc = "idle"
    BY <1>0, MergeOf
  <1> USE DEF SettingsShape, SettingsTypeOK, askVars, blobVars, pageVars
  <1>1. CASE PushMeSettings
    BY <1>0, <1>1, SettingsAssumption DEF PushMeSettings
  <1>2. ASSUME NEW c \in 1 .. MaxSaves, PutSettings(c) \/ PushLost(c)
        PROVE  SettingsShape'
    <2>1. CASE PutSettings(c)
      <3>1. blob' \in [choice : 0 .. MaxSaves, dismissed : {Undismissed} \cup 0 .. LastClock]
        BY <2>1, SettingsAssumption DEF PutSettings
      <3>2. QED
        BY <1>0, <2>1, <3>1 DEF PutSettings
    <2>2. CASE PushLost(c)
      BY <1>0, <2>2 DEF PushLost
    <2>3. QED
      BY <1>2, <2>1, <2>2
  <1>3. CASE GetSettings
    <2>1. [pc |-> "read", blob |-> blob, at |-> clock] \in Merge
      BY <1>0 DEF Merge
    <2>2. merging'.pc = "read"
      BY <1>3 DEF GetSettings
    <2>3. QED
      BY <1>0, <1>3, <2>1, <2>2 DEF GetSettings
  <1>4. CASE PutWhatsNewDismiss
    <2>1. blob' \in [choice : 0 .. MaxSaves, dismissed : {Undismissed} \cup 0 .. LastClock]
      BY <1>4, <1>m DEF PutWhatsNewDismiss
    <2>2. merging' = [pc |-> "stored"] /\ merging'.pc = "stored" /\ undone' = FALSE
          /\ UNCHANGED <<clock, landed, overtaken, pageVars, askVars>>
      BY <1>4 DEF PutWhatsNewDismiss
    <2>3. QED
      BY <1>0, <1>m, <2>1, <2>2
  <1>5. CASE ForgetSummaries \/ DismissFails
    BY <1>0, <1>5, <1>m DEF ForgetSummaries, DismissFails
  <1>6. ASSUME NEW g \in Ask, \/ GetWhatsNewDismiss(g) \/ FromCache(g) \/ MissSummary(g)
                              \/ Summarize(g) \/ NoSummary(g)
        PROVE  SettingsShape'
    <2>1. UNCHANGED <<clock, blobVars, pageVars>>
      BY <1>6 DEF GetWhatsNewDismiss, FromCache, MissSummary, Summarize, NoSummary, Show
    <2>2. /\ DOMAIN asks' = Ask /\ asks'[g].pc \in {"idle", "asking", "paying"}
          /\ \A h \in Ask : h # g => asks'[h] = asks[h]
      <3>1. CASE GetWhatsNewDismiss(g)
        BY <1>0, <3>1 DEF GetWhatsNewDismiss
      <3>2. CASE FromCache(g) \/ Summarize(g) \/ NoSummary(g)
        BY <1>0, <1>m, <3>2 DEF FromCache, Summarize, NoSummary, Show
      <3>3. CASE MissSummary(g)
        BY <1>0, <3>3 DEF MissSummary
      <3>4. QED
        BY <1>6, <3>1, <3>2, <3>3
    <2>3. QED
      BY <1>0, <2>1, <2>2
  <1>7. CASE SweepSummaries \/ ServerRestarts \/ ClockTurns \/ UNCHANGED setVars
    BY <1>0, <1>7, <1>m, SettingsAssumption
    DEF SweepSummaries, ServerRestarts, ClockTurns, setVars
  <1>8. QED
    BY <1>1, <1>2, <1>3, <1>4, <1>5, <1>6, <1>7 DEF SettingsNext

\* The blob, and what a dismissal has read of it.
LEMMA StepBlob ==
  ASSUME SettingsInv, [SettingsNext]_setVars
  PROVE  ReadIsStored' /\ DismissalKeepsSettings' /\ DismissalIsStored'
  <1>0. SettingsShape /\ AtRest.pc = "idle"
    BY DEF SettingsInv, AtRest
  <1> USE DEF SettingsInv, ReadIsStored, DismissalKeepsSettings, DismissalIsStored, blobVars
  <1>1. ASSUME NEW c \in 1 .. MaxSaves, PutSettings(c)
        PROVE  ReadIsStored' /\ DismissalKeepsSettings' /\ DismissalIsStored'
    BY <1>0, <1>1 DEF PutSettings
  <1>2. CASE GetSettings
    BY <1>2 DEF GetSettings
  <1>3. CASE PutWhatsNewDismiss
    <2>1. blob' = [merging.blob EXCEPT !.dismissed = merging.at]
          /\ merging.blob \in [choice : 0 .. MaxSaves,
                               dismissed : {Undismissed} \cup 0 .. LastClock]
      BY <1>0, <1>3, MergeOf DEF PutWhatsNewDismiss
    <2>2. blob'.choice = merging.blob.choice /\ blob'.dismissed = merging.at
      BY <2>1
    <2>3. QED
      BY <1>3, <2>2 DEF PutWhatsNewDismiss
  <1>4. CASE ForgetSummaries \/ DismissFails \/ ServerRestarts
    BY <1>0, <1>4 DEF ForgetSummaries, DismissFails, ServerRestarts
  <1>5. CASE UNCHANGED blobVars
    BY <1>5
  <1>6. QED
    BY <1>1, <1>2, <1>3, <1>4, <1>5
    DEF SettingsNext, setVars, PushMeSettings, PushLost, GetWhatsNewDismiss, FromCache,
        MissSummary, Summarize, NoSummary, Show, SweepSummaries, ClockTurns

\* A request goes on for want of a quiet window, of a dismissal or of reading it.
LEMMA StepAsks ==
  ASSUME SettingsInv, [SettingsNext]_setVars
  PROVE  FiledByWindow' /\ QuietUnlessSaved'
  <1>0. SettingsShape /\ DOMAIN asks = Ask /\ AtRest.pc = "idle" /\ DismissalIsStored
        /\ FiledByWindow /\ QuietUnlessSaved
    BY DEF SettingsInv, SettingsShape, AtRest
  <1> USE DEF FiledByWindow, QuietUnlessSaved, askVars
  <1>1. ASSUME NEW g \in Ask, GetWhatsNewDismiss(g)
        PROVE  FiledByWindow' /\ QuietUnlessSaved'
    <2>1. PICK force \in BOOLEAN, failed \in BOOLEAN :
            LET dismissed == IF failed THEN Undismissed ELSE blob.dismissed IN
            /\ force \/ ~ InQuietWindow(dismissed)
            /\ asks' = [asks EXCEPT ![g] =
                 [pc |-> "asking", since |-> Max({dismissed, clock - Lookback}),
                  early |-> CASE force \/ clock - dismissal >= Quiet -> "no"
                              [] failed -> "unread" [] undone -> "undone"
                              [] OTHER -> "unasked"]]
      BY <1>1 DEF GetWhatsNewDismiss
    <2>2. force \/ clock - dismissal >= Quiet \/ failed \/ undone
      <3>1. CASE ~ force /\ ~ failed /\ ~ undone
        <4>1. blob.dismissed = dismissal /\ ~ (clock - blob.dismissed < Quiet)
          BY <1>0, <2>1, <3>1 DEF DismissalIsStored, InQuietWindow
        <4>2. clock \in Int /\ blob.dismissed \in Int /\ Quiet \in Int
          BY <1>0, SettingsAssumption DEF SettingsShape, SettingsTypeOK, Undismissed
        <4>3. QED
          BY <4>1, <4>2
      <3>2. QED
        BY <3>1
    <2>3. (CASE force \/ clock - dismissal >= Quiet -> "no"
             [] failed -> "unread" [] undone -> "undone" [] OTHER -> "unasked") # "unasked"
      BY <2>2
    <2>4. asks'[g].early # "unasked"
      BY <1>0, <2>1, <2>3
    <2>5. \A h \in Ask : h # g => asks'[h] = asks[h]
      BY <1>0, <2>1
    <2>6. UNCHANGED whatsNewCache
      BY <1>1 DEF GetWhatsNewDismiss
    <2>7. QED
      BY <1>0, <2>4, <2>5, <2>6
  <1>2. ASSUME NEW g \in Ask, FromCache(g) \/ NoSummary(g)
        PROVE  FiledByWindow' /\ QuietUnlessSaved'
    BY <1>0, <1>2 DEF FromCache, NoSummary, Show
  <1>3. ASSUME NEW g \in Ask, MissSummary(g)
        PROVE  FiledByWindow' /\ QuietUnlessSaved'
    BY <1>0, <1>3 DEF MissSummary
  <1>4. ASSUME NEW g \in Ask, Summarize(g)
        PROVE  FiledByWindow' /\ QuietUnlessSaved'
    BY <1>0, <1>4 DEF Summarize, Show, CacheKey
  <1>5. CASE ForgetSummaries \/ SweepSummaries \/ ServerRestarts
    BY <1>0, <1>5 DEF ForgetSummaries, SweepSummaries, ServerRestarts
  <1>6. CASE UNCHANGED askVars
    BY <1>0, <1>6
  <1>7. QED
    BY <1>1, <1>2, <1>3, <1>4, <1>5, <1>6
    DEF SettingsNext, setVars, PushMeSettings, PutSettings, PushLost, GetSettings,
        PutWhatsNewDismiss, DismissFails, ClockTurns

LEMMA StepSettings == SettingsInv /\ [SettingsNext]_setVars => SettingsInv'
  BY StepSettingsShape, StepBlob, StepAsks DEF SettingsInv

-----------------------------------------------------------------------------
(* Arithmetic *)

\* A set of integers under a bound has a maximum.
LEMMA MaxOf ==
  ASSUME NEW S \in SUBSET Int, S # {}, NEW n \in Int, \A x \in S : x <= n
  PROVE  Max(S) \in S /\ \A x \in S : x <= Max(S)
  <1> DEFINE T == {n - x : x \in S}
  <1>0. \A x \in S : x \in Int /\ n - x \in Nat
    OBVIOUS
  <1>1. T \subseteq Nat /\ T # {}
    BY <1>0
  <1>2. PICK t \in T : \A y \in T : t <= y
    BY <1>1, LeastOf
  <1>3. PICK m \in S : t = n - m
    BY <1>2
  <1>4. ASSUME NEW x \in S
        PROVE  m >= x
    <2>1. n - x \in T
      OBVIOUS
    <2>2. n - m <= n - x
      BY <1>2, <1>3, <2>1
    <2>3. m \in Int /\ x \in Int
      OBVIOUS
    <2>4. QED
      BY <2>2, <2>3
  <1>5. Max(S) \in S /\ \A y \in S : Max(S) >= y
    BY <1>4 DEF Max
  <1>6. Max(S) \in Int
    BY <1>5
  <1>7. QED
    BY <1>5, <1>6

-----------------------------------------------------------------------------
(* The rows of an account *)

LEMMA InitRows == RowsInit => RowsInv
  <1> SUFFICES ASSUME RowsInit PROVE RowsInv
    OBVIOUS
  <1>1. \A u \in User : HandlesOf(u) = {}
    BY DEF RowsInit, HandlesOf
  <1>2. \A u \in User : Cardinality(HandlesOf(u)) = 0
    BY <1>1, FS_EmptySet
  <1>3. CapHolds
    BY <1>2, RowsAssumption DEF CapHolds
  <1>4. DOMAIN tokens = spent /\ spent \subseteq Token /\ \A t \in spent : tokens[t] \in User
    BY DEF RowsInit
  <1>5. Cardinality(Handle) \in Nat
    BY RowsAssumption, FS_CardinalityType
  <1>6. RowsTypeOK
    BY <1>4, <1>5, RowsAssumption DEF RowsInit, RowsTypeOK
  <1>7. NothingLeftBehind /\ ChannelsAreNumbered /\ ChannelsInOrder
    BY <1>4 DEF RowsInit, NothingLeftBehind, ChannelsAreNumbered, ChannelsInOrder
  <1>8. QED
    BY <1>3, <1>6, <1>7 DEF RowsInv

\* The handles of an account can be counted.
LEMMA CountOfHandles ==
  ASSUME RowsTypeOK, NEW u
  PROVE  /\ HandlesOf(u) \in SUBSET Handle /\ IsFiniteSet(HandlesOf(u))
         /\ Cardinality(HandlesOf(u)) \in 0 .. Cardinality(Handle)
         /\ Cardinality(Handle) \in Nat
  <1>1. HandlesOf(u) \in SUBSET Handle
    BY DEF HandlesOf
  <1>2. IsFiniteSet(HandlesOf(u)) /\ Cardinality(HandlesOf(u)) <= Cardinality(Handle)
    BY <1>1, RowsAssumption, FS_Subset
  <1>3. QED
    BY <1>1, <1>2, RowsAssumption, FS_CardinalityType

\* The order of a new channel is above that of every other one of its owner, and
\* not above its id.
LEMMA OrderOfNext ==
  ASSUME RowsInv, NEW u \in User
  PROVE  LET last == Max({c.order : c \in ChannelsOf(u)} \cup {-1}) IN
         /\ last \in Int /\ last >= -1 /\ last < made
         /\ \A c \in ChannelsOf(u) : c.order <= last
  <1> DEFINE S == {c.order : c \in ChannelsOf(u)} \cup {-1}
  <1>1. made \in Nat /\ \A c \in channels : c.order \in Nat /\ c.id \in Nat
                                            /\ c.id < made /\ c.order <= c.id
    BY RowsAssumption DEF RowsInv, RowsTypeOK, ChannelsAreNumbered
  <1>2. S \in SUBSET Int /\ -1 \in S /\ \A x \in S : x <= made - 1
    BY <1>1 DEF ChannelsOf
  <1>3. Max(S) \in S /\ \A x \in S : x <= Max(S)
    <2>1. made - 1 \in Int
      BY <1>1
    <2>2. QED
      BY <1>2, <2>1, MaxOf
  <1> HIDE DEF S
  <1>4. Max(S) \in Int /\ Max(S) >= -1 /\ Max(S) < made
    <2>1. /\ Max(S) \in Int /\ made \in Nat
          /\ -1 <= Max(S) /\ Max(S) <= made - 1
      BY <1>1, <1>2, <1>3
    <2>2. QED
      BY <2>1
  <1>5. \A c \in ChannelsOf(u) : c.order <= Max(S)
    BY <1>3 DEF S
  <1>6. QED
    BY <1>4, <1>5 DEF S

\* The steps, by the table they write.
ListStep(r) ==
  MarkAllReadForUser(r)
  \/ \E a \in Article : AddBookmark(r, a) \/ RemoveBookmark(r, a) \/ MarkReadForUser(r, a)

InsertStep(r) ==
  \E hs \in SUBSET Handle :
    Insert(r, hs) /\ used[r] >= 0 /\ Cardinality(hs) <= BskyCap - used[r]

TokenStep(r) == \E t \in Token : CreateAPIToken(r, t) \/ RevokeAPIToken(r, t)

LEMMA RowsSteps ==
  ASSUME RowsInv, [RowsNext]_rowVars
  PROVE  \/ \E r \in Call :
              \/ Nothing(r) \/ ListStep(r) \/ ListUserBskyAccounts(r) \/ InsertStep(r)
              \/ \E h \in Handle : RemoveUserBskyAccount(r, h)
              \/ CreateSavedSearch(r) \/ \E id \in 0 .. MaxChannels : DeleteSavedSearch(r, id)
              \/ TokenStep(r) \/ \E u \in User : ResolveUser(r, u)
         \/ \E u \in User : DeleteUser(u)
         \/ \E a \in Article : PurgeArticle(a) \/ MarkDuplicate(a)
         \/ UNCHANGED rowVars
  <1>1. ASSUME NEW r \in Call, NEW h \in Handle, AddUserBskyAccount(r, h)
        PROVE  InsertStep(r)
    <2>1. Cardinality({h}) = 1 /\ {h} \in SUBSET Handle
      BY FS_Singleton
    <2>2. used[r] \in 0 .. BskyCap - 1 /\ Insert(r, {h})
      BY <1>1 DEF AddUserBskyAccount
    <2>3. 1 <= BskyCap - used[r] /\ used[r] >= 0
      BY <2>2, RowsAssumption
    <2>4. QED
      BY <2>1, <2>2, <2>3 DEF InsertStep
  <1>2. ASSUME NEW r \in Call, NEW hs \in SUBSET Handle, AddBulkUserBskyAccounts(r, hs)
        PROVE  InsertStep(r)
    BY <1>2 DEF AddBulkUserBskyAccounts, InsertStep
  <1>3. ASSUME NEW r \in Call, NEW t \in Token, LookupAPITokenUser(r, t)
        PROVE  \E u \in User : ResolveUser(r, u)
    BY <1>3 DEF LookupAPITokenUser, RowsInv, RowsTypeOK
  <1>4. ASSUME NEW r \in Call, Serve(r)
        PROVE  \/ Nothing(r) \/ ListStep(r) \/ ListUserBskyAccounts(r) \/ InsertStep(r)
               \/ \E h \in Handle : RemoveUserBskyAccount(r, h)
               \/ CreateSavedSearch(r)
               \/ \E id \in 0 .. MaxChannels : DeleteSavedSearch(r, id)
               \/ TokenStep(r)
    BY <1>1, <1>2, <1>4 DEF Serve, ListStep, TokenStep
  <1>5. QED
    BY <1>3, <1>4 DEF RowsNext

LEMMA StepRowsType == RowsInv /\ [RowsNext]_rowVars => RowsTypeOK'
  <1> SUFFICES ASSUME RowsInv, [RowsNext]_rowVars PROVE RowsTypeOK'
    OBVIOUS
  <1>0. RowsTypeOK
    BY DEF RowsInv
  <1>c. Cardinality(Handle) \in Nat
    BY RowsAssumption, FS_CardinalityType
  <1> USE DEF RowsTypeOK, linkVars, listVars, bskyVars, chanVars, tokVars, Respond, OfLists,
              OfBsky, OfChannels, OfTokens
  <1>1. ASSUME NEW r \in Call, Nothing(r)
        PROVE  RowsTypeOK'
    BY <1>0, <1>c, <1>1 DEF Nothing
  <1>2. ASSUME NEW r \in Call, ListStep(r)
        PROVE  RowsTypeOK'
    <2>1. acting[r] \in User \cup {Nobody} /\ users \subseteq User
      BY <1>0
    <2>2. UNCHANGED <<endpoint, linkVars, bskyVars, chanVars, tokVars>>
          /\ acting' = [acting EXCEPT ![r] = Nobody]
      BY <1>2 DEF ListStep, AddBookmark, RemoveBookmark, MarkReadForUser, MarkAllReadForUser
    <2>3. bookmarks' \subseteq User \X Article /\ reads' \subseteq User \X Article
      BY <1>0, <1>2, <2>1
      DEF ListStep, AddBookmark, RemoveBookmark, MarkReadForUser, MarkAllReadForUser
    <2>4. QED
      BY <1>0, <2>2, <2>3
  <1>3. ASSUME NEW r \in Call, ListUserBskyAccounts(r)
        PROVE  RowsTypeOK'
    <2>1. Cardinality(HandlesOf(acting[r])) \in -1 .. Cardinality(Handle)
      BY <1>0, <1>c, CountOfHandles
    <2>2. used' \in [Call -> -1 .. Cardinality(Handle)]
      BY <1>0, <1>c, <1>3, <2>1 DEF ListUserBskyAccounts
    <2>3. QED
      BY <1>0, <1>3, <2>2 DEF ListUserBskyAccounts
  <1>4. ASSUME NEW r \in Call, NEW hs \in SUBSET Handle, Insert(r, hs)
        PROVE  RowsTypeOK'
    BY <1>0, <1>c, <1>4 DEF Insert
  <1>5. ASSUME NEW r \in Call, NEW h \in Handle, RemoveUserBskyAccount(r, h)
        PROVE  RowsTypeOK'
    BY <1>0, <1>c, <1>5 DEF RemoveUserBskyAccount
  <1>6. ASSUME NEW r \in Call, CreateSavedSearch(r)
        PROVE  RowsTypeOK'
    <2> DEFINE u == acting[r]
               last == Max({c.order : c \in ChannelsOf(u)} \cup {-1})
    <2>1. u \in User /\ made \in 0 .. MaxChannels /\ made < MaxChannels /\ MaxChannels \in Nat
      BY <1>0, <1>6, RowsAssumption DEF CreateSavedSearch
    <2>2. last \in Int /\ last >= -1
      BY <2>1, OrderOfNext
    <2>3. channels' = channels \cup {[owner |-> u, id |-> made, order |-> 1 + last]}
          /\ made' = made + 1 /\ acting' = [acting EXCEPT ![r] = Nobody]
          /\ OfChannels
      BY <1>6 DEF CreateSavedSearch
    <2> HIDE DEF u, last
    <2>4. [owner |-> u, id |-> made, order |-> 1 + last] \in [owner : User, id : Nat, order : Nat]
      BY <2>1, <2>2
    <2>5. channels' \subseteq [owner : User, id : Nat, order : Nat] /\ made' \in 0 .. MaxChannels
      BY <1>0, <2>1, <2>3, <2>4
    <2>6. QED
      BY <1>0, <2>3, <2>5
  <1>7. ASSUME NEW r \in Call, NEW id \in 0 .. MaxChannels, DeleteSavedSearch(r, id)
        PROVE  RowsTypeOK'
    BY <1>0, <1>7 DEF DeleteSavedSearch
  <1>8. ASSUME NEW r \in Call, NEW t \in Token, CreateAPIToken(r, t)
        PROVE  RowsTypeOK'
    BY <1>0, <1>8 DEF CreateAPIToken
  <1>9. ASSUME NEW r \in Call, NEW t \in Token, RevokeAPIToken(r, t)
        PROVE  RowsTypeOK'
    BY <1>0, <1>9 DEF RevokeAPIToken
  <1>10. ASSUME NEW r \in Call, NEW u \in User, ResolveUser(r, u)
         PROVE  RowsTypeOK'
    BY <1>0, <1>10 DEF ResolveUser
  <1>11. ASSUME NEW u \in User, DeleteUser(u)
         PROVE  RowsTypeOK'
    BY <1>0, <1>11 DEF DeleteUser
  <1>12. ASSUME NEW a \in Article, PurgeArticle(a) \/ MarkDuplicate(a)
         PROVE  RowsTypeOK'
    BY <1>0, <1>12 DEF PurgeArticle, MarkDuplicate
  <1>13. CASE UNCHANGED rowVars
    BY <1>0, <1>13 DEF rowVars
  <1>14. QED
    BY <1>1, <1>2, <1>3, <1>4, <1>5, <1>6, <1>7, <1>8, <1>9, <1>10, <1>11, <1>12, <1>13,
       RowsSteps DEF InsertStep, TokenStep

\* A row is inserted only while its account and its article are there, and goes
\* with them.
LEMMA StepNothingLeft == RowsInv /\ [RowsNext]_rowVars => NothingLeftBehind'
  <1> SUFFICES ASSUME RowsInv, [RowsNext]_rowVars PROVE NothingLeftBehind'
    OBVIOUS
  <1>0. RowsTypeOK /\ NothingLeftBehind
    BY DEF RowsInv
  <1> USE DEF NothingLeftBehind, linkVars, listVars, bskyVars, chanVars, tokVars, OfLists,
              OfBsky, OfChannels, OfTokens
  <1>1. ASSUME NEW r \in Call, Nothing(r) \/ ListUserBskyAccounts(r)
                               \/ \E u \in User : ResolveUser(r, u)
        PROVE  NothingLeftBehind'
    BY <1>0, <1>1 DEF Nothing, ListUserBskyAccounts, ResolveUser
  <1>2. ASSUME NEW r \in Call, ListStep(r)
        PROVE  NothingLeftBehind'
    <2>1. UNCHANGED <<linkVars, bskyVars, chanVars, tokVars>>
      BY <1>2 DEF ListStep, AddBookmark, RemoveBookmark, MarkReadForUser, MarkAllReadForUser
    <2>2. \A b \in bookmarks' \cup reads' : b[1] \in users /\ b[2] \in articles
      BY <1>0, <1>2
      DEF ListStep, AddBookmark, RemoveBookmark, MarkReadForUser, MarkAllReadForUser
    <2>3. QED
      BY <1>0, <2>1, <2>2
  <1>3. ASSUME NEW r \in Call, NEW hs \in SUBSET Handle, Insert(r, hs)
        PROVE  NothingLeftBehind'
    BY <1>0, <1>3 DEF Insert
  <1>4. ASSUME NEW r \in Call, NEW h \in Handle, RemoveUserBskyAccount(r, h)
        PROVE  NothingLeftBehind'
    BY <1>0, <1>4 DEF RemoveUserBskyAccount
  <1>5. ASSUME NEW r \in Call, CreateSavedSearch(r)
        PROVE  NothingLeftBehind'
    <2>1. \A c \in channels' : c \in channels \/ c.owner = acting[r]
      BY <1>5 DEF CreateSavedSearch
    <2>2. QED
      BY <1>0, <1>5, <2>1 DEF CreateSavedSearch
  <1>6. ASSUME NEW r \in Call, NEW id \in 0 .. MaxChannels, DeleteSavedSearch(r, id)
        PROVE  NothingLeftBehind'
    BY <1>0, <1>6 DEF DeleteSavedSearch
  <1>7. ASSUME NEW r \in Call, NEW t \in Token, CreateAPIToken(r, t) \/ RevokeAPIToken(r, t)
        PROVE  NothingLeftBehind'
    BY <1>0, <1>7 DEF CreateAPIToken, RevokeAPIToken
  <1>8. ASSUME NEW u \in User, DeleteUser(u)
        PROVE  NothingLeftBehind'
    BY <1>0, <1>8 DEF DeleteUser, ChannelsOf
  <1>9. ASSUME NEW a \in Article, PurgeArticle(a) \/ MarkDuplicate(a)
        PROVE  NothingLeftBehind'
    BY <1>0, <1>9 DEF PurgeArticle, MarkDuplicate
  <1>10. CASE UNCHANGED rowVars
    BY <1>0, <1>10 DEF rowVars
  <1>11. QED
    BY <1>1, <1>2, <1>3, <1>4, <1>5, <1>6, <1>7, <1>8, <1>9, <1>10, RowsSteps
    DEF InsertStep, TokenStep

\* What is inserted on a right count fits under the cap.
LEMMA StepCap == RowsInv /\ [RowsNext]_rowVars => CapHolds'
  <1> SUFFICES ASSUME RowsInv, [RowsNext]_rowVars, NEW u \in User
               PROVE  Cardinality(HandlesOf(u)') <= BskyCap \/ u \in miscounted'
    BY DEF CapHolds
  <1>0. /\ RowsTypeOK /\ BskyCap \in Nat
        /\ Cardinality(HandlesOf(u)) <= BskyCap \/ u \in miscounted
    BY RowsAssumption DEF RowsInv, CapHolds
  <1>c. /\ IsFiniteSet(HandlesOf(u)) /\ Cardinality(HandlesOf(u)) \in Nat
    BY <1>0, CountOfHandles
  <1>1. ASSUME HandlesOf(u)' \subseteq HandlesOf(u), miscounted \subseteq miscounted'
        PROVE  Cardinality(HandlesOf(u)') <= BskyCap \/ u \in miscounted'
    <2>1. /\ IsFiniteSet(HandlesOf(u)')
          /\ Cardinality(HandlesOf(u)') <= Cardinality(HandlesOf(u))
      BY <1>1, <1>c, FS_Subset
    <2>2. Cardinality(HandlesOf(u)') \in Nat
      BY <2>1, FS_CardinalityType
    <2>3. QED
      BY <1>0, <1>1, <1>c, <2>1, <2>2
  <1>2. ASSUME NEW r \in Call, NEW hs \in SUBSET Handle, Insert(r, hs),
               used[r] >= 0, Cardinality(hs) <= BskyCap - used[r]
        PROVE  Cardinality(HandlesOf(u)') <= BskyCap \/ u \in miscounted'
    <2>1. CASE acting[r] # u
      <3>1. HandlesOf(u)' = HandlesOf(u) /\ miscounted \subseteq miscounted'
        BY <1>2, <2>1 DEF Insert, HandlesOf
      <3>2. QED
        BY <1>1, <3>1
    <2>2. CASE acting[r] = u /\ used[r] # Cardinality(HandlesOf(u))
      BY <1>2, <2>2 DEF Insert
    <2>3. CASE acting[r] = u /\ used[r] = Cardinality(HandlesOf(u))
      <3>1. HandlesOf(u)' = HandlesOf(u) \cup hs
        BY <1>2, <2>3 DEF Insert, HandlesOf
      <3>2. IsFiniteSet(hs) /\ Cardinality(hs) \in Nat
        BY RowsAssumption, FS_Subset, FS_CardinalityType
      <3>3. /\ Cardinality(HandlesOf(u) \cup hs) =
                 Cardinality(HandlesOf(u)) + Cardinality(hs) - Cardinality(HandlesOf(u) \cap hs)
            /\ Cardinality(HandlesOf(u) \cap hs) \in Nat
        BY <1>c, <3>2, FS_Union, FS_Intersection, FS_CardinalityType
      <3>4. Cardinality(HandlesOf(u)') <= BskyCap
        BY <1>0, <1>2, <1>c, <2>3, <3>1, <3>2, <3>3
      <3>5. QED
        BY <3>4
    <2>4. QED
      BY <2>1, <2>2, <2>3
  <1>3. ASSUME ~ \E r \in Call : InsertStep(r)
        PROVE  HandlesOf(u)' \subseteq HandlesOf(u) /\ miscounted \subseteq miscounted'
    <2>1. handles' \subseteq handles /\ miscounted' = miscounted
      BY <1>3, RowsSteps
      DEF Nothing, ListStep, AddBookmark, RemoveBookmark, MarkReadForUser, MarkAllReadForUser,
          ListUserBskyAccounts, RemoveUserBskyAccount, CreateSavedSearch, DeleteSavedSearch,
          TokenStep, CreateAPIToken, RevokeAPIToken, ResolveUser, DeleteUser, PurgeArticle,
          MarkDuplicate, rowVars, bskyVars, OfLists, OfChannels, OfTokens
    <2>2. QED
      BY <2>1 DEF HandlesOf
  <1>4. QED
    BY <1>1, <1>2, <1>3 DEF InsertStep

\* A new channel has an id of its own and comes last.
LEMMA StepChannels == RowsInv /\ [RowsNext]_rowVars => ChannelsAreNumbered' /\ ChannelsInOrder'
  <1> SUFFICES ASSUME RowsInv, [RowsNext]_rowVars
               PROVE  ChannelsAreNumbered' /\ ChannelsInOrder'
    OBVIOUS
  <1>0. ChannelsAreNumbered /\ ChannelsInOrder /\ made \in Nat
        /\ \A c \in channels : c.owner \in User /\ c.id \in Nat /\ c.order \in Nat
    BY RowsAssumption DEF RowsInv, RowsTypeOK
  <1>1. ASSUME channels' \subseteq channels, made' = made
        PROVE  ChannelsAreNumbered' /\ ChannelsInOrder'
    BY <1>0, <1>1 DEF ChannelsAreNumbered, ChannelsInOrder
  <1>2. ASSUME NEW r \in Call, CreateSavedSearch(r)
        PROVE  ChannelsAreNumbered' /\ ChannelsInOrder'
    <2> DEFINE u == acting[r]
               last == Max({c.order : c \in ChannelsOf(u)} \cup {-1})
               new == [owner |-> u, id |-> made, order |-> 1 + last]
    <2>1. u \in User
      BY <1>2 DEF CreateSavedSearch, RowsInv, RowsTypeOK
    <2>2. last \in Int /\ last >= -1 /\ last < made
          /\ \A c \in channels : c.owner = u => c.order <= last
      BY <2>1, OrderOfNext DEF ChannelsOf
    <2>3. channels' = channels \cup {new} /\ made' = made + 1
      BY <1>2 DEF CreateSavedSearch
    <2>4. new.owner = u /\ new.id = made /\ new.order = 1 + last
      OBVIOUS
    <2> HIDE DEF u, last, new
    <2>5. ChannelsAreNumbered'
      BY <1>0, <2>2, <2>3, <2>4 DEF ChannelsAreNumbered
    <2>6. ASSUME NEW c \in channels', NEW d \in channels', c.owner = d.owner, c.id < d.id
          PROVE  c.order < d.order
      <3>1. CASE c \in channels /\ d \in channels
        BY <1>0, <2>6, <3>1 DEF ChannelsInOrder
      <3>2. CASE d = new /\ c \in channels
        BY <1>0, <2>2, <2>4, <2>6, <3>2
      <3>3. CASE c = new
        BY <1>0, <2>3, <2>4, <2>6, <3>3 DEF ChannelsAreNumbered
      <3>4. QED
        BY <2>3, <3>1, <3>2, <3>3
    <2>7. QED
      BY <2>5, <2>6 DEF ChannelsInOrder
  <1>3. ASSUME ~ \E r \in Call : CreateSavedSearch(r)
        PROVE  channels' \subseteq channels /\ made' = made
    BY <1>3, RowsSteps
    DEF Nothing, ListStep, AddBookmark, RemoveBookmark, MarkReadForUser, MarkAllReadForUser,
        ListUserBskyAccounts, InsertStep, Insert, RemoveUserBskyAccount, DeleteSavedSearch,
        TokenStep, CreateAPIToken, RevokeAPIToken, ResolveUser, DeleteUser, PurgeArticle,
        MarkDuplicate, rowVars, chanVars, OfLists, OfBsky, OfTokens
  <1>4. QED
    BY <1>1, <1>2, <1>3

LEMMA StepRows == RowsInv /\ [RowsNext]_rowVars => RowsInv'
  BY StepRowsType, StepNothingLeft, StepCap, StepChannels DEF RowsInv

SameRows(u) ==
  /\ {b \in bookmarks' : b[1] = u} = {b \in bookmarks : b[1] = u}
  /\ {b \in reads' : b[1] = u} = {b \in reads : b[1] = u}
  /\ HandlesOf(u)' = HandlesOf(u) /\ ChannelsOf(u)' = ChannelsOf(u)
  /\ {t \in DOMAIN tokens' : tokens'[t] = u} = {t \in DOMAIN tokens : tokens[t] = u}

\* A request that writes acts for one account and is over with it.
LEMMA RequestOwnRows ==
  ASSUME RowsInv, NEW r \in Call, NEW u \in User,
         \/ Nothing(r) \/ ListStep(r) \/ ListUserBskyAccounts(r) \/ InsertStep(r)
         \/ \E h \in Handle : RemoveUserBskyAccount(r, h)
         \/ CreateSavedSearch(r) \/ \E id \in 0 .. MaxChannels : DeleteSavedSearch(r, id)
         \/ TokenStep(r) \/ \E v \in User : ResolveUser(r, v)
  PROVE  SameRows(u) \/ (acting[r] = u /\ acting'[r] # u)
  <1>0. RowsTypeOK /\ u # Nobody /\ DOMAIN acting = Call
    BY RowsAssumption DEF RowsInv, RowsTypeOK
  <1> USE DEF SameRows, HandlesOf, ChannelsOf, listVars, bskyVars, chanVars, tokVars, OfLists,
              OfBsky, OfChannels, OfTokens, Respond
  <1>1. CASE Nothing(r) \/ ListUserBskyAccounts(r) \/ \E v \in User : ResolveUser(r, v)
    BY <1>1 DEF Nothing, ListUserBskyAccounts, ResolveUser
  <1>2. SUFFICES ASSUME acting[r] # u PROVE SameRows(u)
    BY <1>0, <1>1
    DEF ListStep, AddBookmark, RemoveBookmark, MarkReadForUser, MarkAllReadForUser, InsertStep,
        Insert, RemoveUserBskyAccount, CreateSavedSearch, DeleteSavedSearch, TokenStep,
        CreateAPIToken, RevokeAPIToken
  <1>3. CASE ListStep(r)
    <2>1. UNCHANGED <<bskyVars, chanVars, tokVars>>
      BY <1>3 DEF ListStep, AddBookmark, RemoveBookmark, MarkReadForUser, MarkAllReadForUser
    <2>2. /\ {b \in bookmarks' : b[1] = u} = {b \in bookmarks : b[1] = u}
          /\ {b \in reads' : b[1] = u} = {b \in reads : b[1] = u}
      <3>1. ASSUME NEW a \in Article, AddBookmark(r, a)
            PROVE  {b \in bookmarks' : b[1] = u} = {b \in bookmarks : b[1] = u} /\ reads' = reads
        BY <1>2, <3>1 DEF AddBookmark
      <3>2. ASSUME NEW a \in Article, RemoveBookmark(r, a)
            PROVE  {b \in bookmarks' : b[1] = u} = {b \in bookmarks : b[1] = u} /\ reads' = reads
        BY <1>2, <3>2 DEF RemoveBookmark
      <3>3. ASSUME NEW a \in Article, MarkReadForUser(r, a)
            PROVE  {b \in reads' : b[1] = u} = {b \in reads : b[1] = u} /\ bookmarks' = bookmarks
        BY <1>2, <3>3 DEF MarkReadForUser
      <3>4. CASE MarkAllReadForUser(r)
        BY <1>2, <3>4 DEF MarkAllReadForUser
      <3>5. QED
        BY <1>3, <3>1, <3>2, <3>3, <3>4 DEF ListStep
    <2>3. QED
      BY <2>1, <2>2
  <1>4. CASE InsertStep(r)
    BY <1>2, <1>4 DEF InsertStep, Insert
  <1>5. ASSUME NEW h \in Handle, RemoveUserBskyAccount(r, h)
        PROVE  SameRows(u)
    BY <1>2, <1>5 DEF RemoveUserBskyAccount
  <1>6. CASE CreateSavedSearch(r)
    <2>1. PICK c : c.owner = acting[r] /\ channels' = channels \cup {c}
      BY <1>6 DEF CreateSavedSearch
    <2>2. QED
      BY <1>2, <1>6, <2>1 DEF CreateSavedSearch
  <1>7. ASSUME NEW id \in 0 .. MaxChannels, DeleteSavedSearch(r, id)
        PROVE  SameRows(u)
    BY <1>2, <1>7 DEF DeleteSavedSearch
  <1>8. ASSUME NEW t \in Token, CreateAPIToken(r, t)
        PROVE  SameRows(u)
    <2>1. t \notin DOMAIN tokens
      BY <1>0, <1>8 DEF CreateAPIToken, RowsTypeOK
    <2>2. tokens' = [x \in DOMAIN tokens \cup {t} |-> IF x = t THEN acting[r] ELSE tokens[x]]
      BY <1>8 DEF CreateAPIToken
    <2>3. {y \in DOMAIN tokens' : tokens'[y] = u} = {y \in DOMAIN tokens : tokens[y] = u}
      BY <1>2, <2>1, <2>2
    <2>4. QED
      BY <1>8, <2>3 DEF CreateAPIToken
  <1>9. ASSUME NEW t \in Token, RevokeAPIToken(r, t)
        PROVE  SameRows(u)
    BY <1>2, <1>9 DEF RevokeAPIToken
  <1>10. CASE TokenStep(r)
    BY <1>8, <1>9, <1>10 DEF TokenStep
  <1> HIDE DEF SameRows, Respond, OfLists, OfBsky, OfChannels, OfTokens
  <1>11. QED
    BY <1>1, <1>2, <1>3, <1>4, <1>5, <1>6, <1>7, <1>10

LEMMA StepOwnRows ==
  ASSUME RowsInv, [RowsNext]_rowVars, NEW u \in User, RowsOf(u)' # RowsOf(u)
  PROVE  \/ \E r \in Call : acting[r] = u /\ acting'[r] # u
         \/ u \in users \ users'
         \/ articles' # articles
  <1>1. ~ SameRows(u)
    BY DEF RowsOf, SameRows
  <1>2. ASSUME NEW v \in User, DeleteUser(v), v # u
        PROVE  SameRows(u)
    BY <1>2 DEF DeleteUser, SameRows, HandlesOf, ChannelsOf
  <1>3. ASSUME NEW v \in User, DeleteUser(v), v = u
        PROVE  u \in users \ users'
    BY <1>3 DEF DeleteUser
  <1>4. ASSUME NEW a \in Article, PurgeArticle(a)
        PROVE  articles' # articles
    BY <1>4 DEF PurgeArticle
  <1>5. ASSUME NEW a \in Article, MarkDuplicate(a)
        PROVE  SameRows(u)
    BY <1>5
    DEF MarkDuplicate, SameRows, HandlesOf, ChannelsOf, listVars, bskyVars, chanVars, tokVars
  <1>6. CASE UNCHANGED rowVars
    BY <1>1, <1>6
    DEF rowVars, SameRows, HandlesOf, ChannelsOf, listVars, bskyVars, chanVars, tokVars
  <1>7. ASSUME NEW r \in Call,
               \/ Nothing(r) \/ ListStep(r) \/ ListUserBskyAccounts(r) \/ InsertStep(r)
               \/ \E h \in Handle : RemoveUserBskyAccount(r, h)
               \/ CreateSavedSearch(r) \/ \E id \in 0 .. MaxChannels : DeleteSavedSearch(r, id)
               \/ TokenStep(r) \/ \E v \in User : ResolveUser(r, v)
        PROVE  acting[r] = u /\ acting'[r] # u
    BY <1>1, <1>7, RequestOwnRows
  <1>8. QED
    BY <1>1, <1>2, <1>3, <1>4, <1>5, <1>6, <1>7, RowsSteps

-----------------------------------------------------------------------------
(* The EPSS scores *)

LEMMA InitEpss == EpssInit => EpssInv
  BY DEF EpssInit, EpssInv, EpssTypeOK, RowsAreNewer

\* The types, and what a refresh has put together.
LEMMA StepEpss == EpssInv /\ [EpssNext]_epssVars => EpssInv'
  <1> SUFFICES ASSUME EpssInv, [EpssNext]_epssVars PROVE EpssInv'
    OBVIOUS
  <1>0. /\ epss \in [ScoredCVE -> 0 .. published.day] /\ published.day \in Nat /\ RowsAreNewer
        /\ \A c \in DOMAIN lookup : lookup[c] \in 1 .. published.day
    BY DEF EpssInv, EpssTypeOK
  <1>n. NoDownload.pc = "waiting"
    BY DEF NoDownload
  <1> USE DEF EpssInv, EpssTypeOK, RowsAreNewer, Under
  <1>1. ASSUME NEW cves \in SUBSET ScoredCVE, PublishFile(cves)
        PROVE  EpssInv'
    <2>1. published'.day = published.day + 1 /\ UNCHANGED <<download, epss, lookup>>
      BY <1>1 DEF PublishFile
    <2>2. epss' \in [ScoredCVE -> 0 .. published'.day]
      BY <1>0, <2>1
    <2>3. RowsAreNewer'
      BY <1>0, <2>1
    <2>4. QED
      BY <1>0, <2>1, <2>2, <2>3
  <1>2. ASSUME NEW ids \in SUBSET ScoredCVE, GetMany(ids)
        PROVE  EpssInv'
    <2>1. \A c \in DOMAIN lookup' : lookup'[c] \in 1 .. published.day
      BY <1>0, <1>2 DEF GetMany
    <2>2. QED
      BY <1>0, <1>2, <2>1 DEF GetMany
  <1>3. CASE StartRefresh
    <2>1. /\ download'.pc = "reading" /\ download'.day = published.day /\ download'.rows = epss
          /\ published.day > 0 /\ UNCHANGED <<published, epss, lookup>>
      BY <1>3 DEF StartRefresh
    <2>2. QED
      BY <1>0, <2>1
  <1>4. CASE Commit
    <2>1. epss' = download.rows /\ download.pc = "reading" /\ download' = NoDownload
          /\ UNCHANGED <<published, lookup>>
      BY <1>4 DEF Commit
    <2>2. download.rows \in [ScoredCVE -> 0 .. published.day]
      BY <1>0, <1>n, <2>1
    <2>3. QED
      BY <1>0, <2>1, <2>2
  <1>5. CASE Rollback
    BY <1>0, <1>5 DEF Rollback
  <1>6. ASSUME NEW c \in ScoredCVE, NEW scored \in BOOLEAN, ReadLine(c, scored)
        PROVE  EpssInv'
    <2>1. /\ download.pc = "reading" /\ download.day \in 1 .. published.day
          /\ download.rows \in [ScoredCVE -> 0 .. published.day]
          /\ \A d \in ScoredCVE : /\ download.rows[d] \in epss[d] .. published.day
                                  /\ epss[d] <= download.day
      BY <1>0, <1>n, <1>6 DEF ReadLine
    <2>2. /\ download'.pc = "reading" /\ download'.day = download.day
          /\ download'.rows \in [ScoredCVE -> 0 .. published.day]
          /\ \A d \in ScoredCVE : download'.rows[d] \in {download.rows[d], download.day}
          /\ UNCHANGED <<published, epss, lookup>>
      BY <1>6, <2>1 DEF ReadLine
    <2>3. QED
      BY <1>0, <2>1, <2>2
  <1>7. CASE UNCHANGED epssVars
    BY <1>0, <1>7 DEF epssVars
  <1>8. QED
    BY <1>1, <1>2, <1>3, <1>4, <1>5, <1>6, <1>7 DEF EpssNext

\* Only a commit changes the table.
LEMMA StepScoresStay ==
  ASSUME EpssInv, [EpssNext]_epssVars, NEW c \in ScoredCVE
  PROVE  epss'[c] >= epss[c]
  <1>1. epss[c] \in Nat
    BY DEF EpssInv, EpssTypeOK
  <1>2. CASE Commit
    <2>1. download.pc = "reading" /\ NoDownload.pc = "waiting" /\ epss' = download.rows
      BY <1>2 DEF Commit, Under, NoDownload
    <2>2. download.rows[c] \in epss[c] .. published.day /\ published.day \in Nat
      BY <2>1 DEF EpssInv, RowsAreNewer
    <2>3. QED
      BY <1>1, <2>1, <2>2
  <1>3. CASE epss' = epss
    BY <1>1, <1>3
  <1>4. QED
    BY <1>2, <1>3
    DEF EpssNext, PublishFile, GetMany, StartRefresh, Rollback, ReadLine, epssVars

-----------------------------------------------------------------------------
(* The cached pages *)

LEMMA InitPage == PageInit => PageInv
  <1> SUFFICES ASSUME PageInit PROVE PageInv
    OBVIOUS
  <1>1. DOMAIN cache = {} /\ hour = 0 /\ \A v \in Visitor : computing[v] = Waiting
    BY DEF PageInit
  <1>2. IsFiniteSet(DOMAIN cache)
    BY <1>1, FS_EmptySet
  <1>3. PageTypeOK /\ DOMAIN computing = Visitor
    BY <1>1, PageAssumption DEF PageInit, PageTypeOK
  <1>4. QED
    BY <1>1, <1>2, <1>3 DEF PageInv, PageShape, ExpiresInTime

\* What the times of a page are made of.
LEMMA PageTimes ==
  ASSUME NEW p \in Cached
  PROVE  TTL[p] \in Nat /\ TTL[p] > 0 /\ Build \in Nat
  BY PageAssumption

LEMMA StepPage == PageInv /\ [PageNext]_pageCacheVars => PageInv'
  <1> SUFFICES ASSUME PageInv, [PageNext]_pageCacheVars PROVE PageInv'
    OBVIOUS
  <1>0. /\ hour \in 0 .. LastHour /\ DOMAIN cache \subseteq Cached /\ DOMAIN computing = Visitor
        /\ IsFiniteSet(DOMAIN cache)
        /\ \A p \in DOMAIN cache : /\ cache[p].read \in 0 .. hour /\ cache[p].expiry \in Nat
                                   /\ cache[p].expiry <= cache[p].read + Build + TTL[p]
        /\ \A v \in Visitor : computing[v] = Waiting
                              \/ /\ computing[v].page \in Cached
                                 /\ computing[v].read \in hour - Build .. hour
                                 /\ computing[v].read >= 0
    BY DEF PageInv, PageShape, PageTypeOK, ExpiresInTime
  <1>a. LastHour \in Nat /\ Build \in Nat /\ \A p \in Cached : TTL[p] \in Nat
    BY PageAssumption
  <1>1. ASSUME   /\ hour' \in 0 .. LastHour /\ DOMAIN cache' \subseteq Cached
                 /\ DOMAIN computing' = Visitor /\ IsFiniteSet(DOMAIN cache')
                 /\ \A p \in DOMAIN cache' :
                      /\ cache'[p].read \in 0 .. hour' /\ cache'[p].expiry \in Nat
                      /\ cache'[p].expiry <= cache'[p].read + Build + TTL[p]
                 /\ \A v \in Visitor : computing'[v] = Waiting
                                       \/ /\ computing'[v].page \in Cached
                                          /\ computing'[v].read \in hour' - Build .. hour'
                                          /\ computing'[v].read >= 0
        PROVE  PageInv'
    BY <1>1 DEF PageInv, PageShape, PageTypeOK, ExpiresInTime, Waiting
  <1>2. ASSUME NEW v \in Visitor, NEW p \in Cached, Compute(v, p)
        PROVE  /\ UNCHANGED <<hour, cache>> /\ DOMAIN computing' = Visitor
               /\ \A w \in Visitor : computing'[w] = Waiting
                                       \/ /\ computing'[w].page \in Cached
                                          /\ computing'[w].read \in hour - Build .. hour
                                          /\ computing'[w].read >= 0
    <2>1. computing' = [computing EXCEPT ![v] = [pc |-> "computing", page |-> p, read |-> hour]]
          /\ UNCHANGED <<hour, cache>>
      BY <1>2 DEF Compute
    <2>2. computing'[v].page = p /\ computing'[v].read = hour
          /\ \A w \in Visitor : w # v => computing'[w] = computing[w]
      BY <1>0, <2>1
    <2>3. QED
      BY <1>0, <1>a, <2>1, <2>2
  <1>3. ASSUME NEW v \in Visitor, Fill(v)
        PROVE  PageInv'
    <2> DEFINE p == computing[v].page
               entry == [read |-> computing[v].read, expiry |-> hour + TTL[p]]
    <2>1. /\ p \in Cached /\ computing[v].read \in hour - Build .. hour /\ computing[v].read >= 0
      BY <1>0, <1>3 DEF Fill
    <2>2. /\ entry.read \in 0 .. hour /\ entry.expiry \in Nat
          /\ entry.expiry <= entry.read + Build + TTL[p]
      BY <1>0, <1>a, <2>1
    <2>3. /\ cache' = [q \in DOMAIN cache \cup {p} |-> IF q = p THEN entry ELSE cache[q]]
          /\ computing' = [computing EXCEPT ![v] = Waiting] /\ hour' = hour
      BY <1>3 DEF Fill
    <2> HIDE DEF p, entry
    <2>4. IsFiniteSet(DOMAIN cache')
      BY <1>0, <2>3, FS_AddElement
    <2>5. \A q \in DOMAIN cache' : q \in Cached /\ cache'[q].read \in 0 .. hour'
                      /\ cache'[q].expiry \in Nat
                      /\ cache'[q].expiry <= cache'[q].read + Build + TTL[q]
      BY <1>0, <2>1, <2>2, <2>3 DEF p
    <2>6. QED
      BY <1>0, <1>1, <2>3, <2>4, <2>5
  <1>4. ASSUME NEW v \in Visitor, ComputeFails(v)
        PROVE  PageInv'
    BY <1>0, <1>1, <1>4 DEF ComputeFails
  <1>5. CASE SweepCaches
    <2>1. PICK gone : cache' = [p \in DOMAIN cache \ gone |-> cache[p]]
      BY <1>5 DEF SweepCaches
    <2>2. IsFiniteSet(DOMAIN cache')
      BY <1>0, <2>1, FS_Difference
    <2>3. UNCHANGED <<hour, computing>>
      BY <1>5 DEF SweepCaches
    <2>4. QED
      BY <1>0, <1>1, <2>1, <2>2, <2>3
  <1>6. CASE RestartEmpty
    <2>1. DOMAIN cache' = {} /\ computing' = [v \in Visitor |-> Waiting] /\ hour' = hour
      BY <1>6 DEF RestartEmpty
    <2>2. QED
      BY <1>0, <1>1, <2>1, FS_EmptySet
  <1>7. CASE HourPasses
    <2>1. /\ hour < LastHour /\ hour' = hour + 1 /\ UNCHANGED <<cache, computing>>
          /\ \A v \in Visitor : computing[v] # Waiting => hour - computing[v].read < Build
      BY <1>7 DEF HourPasses
    <2>2. \A v \in Visitor : computing[v] # Waiting =>
             computing[v].read \in hour + 1 - Build .. hour + 1
      BY <1>0, <1>a, <2>1
    <2>3. hour' \in 0 .. LastHour /\ \A p \in DOMAIN cache : cache[p].read \in 0 .. hour'
      BY <1>0, <1>a, <2>1
    <2>4. \A v \in Visitor : computing'[v] = Waiting
                               \/ /\ computing'[v].page \in Cached
                                  /\ computing'[v].read \in hour' - Build .. hour'
                                  /\ computing'[v].read >= 0
      <3>1. computing' = computing /\ hour' = hour + 1
        BY <2>1
      <3>2. ASSUME NEW v \in Visitor, computing[v] # Waiting
            PROVE  /\ computing[v].page \in Cached /\ computing[v].read >= 0
                   /\ computing[v].read \in hour' - Build .. hour'
        <4>1. computing[v].page \in Cached /\ computing[v].read >= 0
          BY <1>0, <3>2
        <4>2. computing[v].read \in hour + 1 - Build .. hour + 1
          BY <2>2, <3>2
        <4>3. QED
          BY <1>0, <1>a, <3>1, <4>1, <4>2
      <3>3. QED
        BY <3>1, <3>2
    <2>5. QED
      BY <1>0, <1>1, <2>1, <2>3, <2>4
  <1>8. CASE UNCHANGED pageCacheVars
    BY <1>0, <1>1, <1>8 DEF pageCacheVars
  <1>9. Forced \subseteq Cached
    BY PageAssumption DEF Cached
  <1>10. ASSUME NEW v \in Visitor, NEW p \in Cached, Compute(v, p)
         PROVE  PageInv'
    BY <1>0, <1>1, <1>2, <1>10
  <1>11. QED
    BY <1>3, <1>4, <1>5, <1>6, <1>7, <1>8, <1>9, <1>10 DEF PageNext, Miss, ForceDigest

LEMMA PagesAreFresh == PageInv => ServedFresh
  <1> SUFFICES ASSUME PageInv, NEW p \in DOMAIN cache, Servable(p)
               PROVE  hour - cache[p].read < TTL[p] + Build
    BY DEF ServedFresh
  <1>1. /\ hour \in Int /\ cache[p].read \in Int /\ cache[p].expiry \in Int
        /\ cache[p].expiry <= cache[p].read + Build + TTL[p] /\ p \in Cached
    BY PageAssumption DEF PageInv, PageShape, PageTypeOK, ExpiresInTime
  <1>2. hour < cache[p].expiry /\ TTL[p] \in Nat /\ Build \in Nat
    BY <1>1, PageTimes DEF Servable
  <1>3. QED
    BY <1>1, <1>2

\* A sweep takes what is expired, and of the rest only what is above the cap, the
\* soonest to expire first.
LEMMA StepSweep ==
  ASSUME PageInv, [PageNext]_pageCacheVars, DOMAIN cache \ DOMAIN cache' # {}, cache' # << >>
  PROVE  LET lost == {p \in DOMAIN cache \ DOMAIN cache' : Servable(p)}
             kept == DOMAIN cache' \cap CvePage
         IN /\ Cardinality(kept) <= Cap
            /\ lost # {} => Cardinality(kept) = Cap
            /\ \A p \in lost, q \in kept : cache[p].expiry <= cache[q].expiry
  <1> DEFINE pages  == (DOMAIN cache \cap CvePage) \ Expired
             excess == IF Cardinality(pages) > Cap THEN Cardinality(pages) - Cap ELSE 0
             lost   == {p \in DOMAIN cache \ DOMAIN cache' : Servable(p)}
             kept   == DOMAIN cache' \cap CvePage
  <1>1. SweepCaches
    BY DEF PageNext, Miss, ForceDigest, Compute, Fill, ComputeFails, RestartEmpty, HourPasses,
           pageCacheVars
  <1>2. PICK s \in evictOldest(pages, excess) :
          cache' = [p \in DOMAIN cache \ (Expired \cup s) |-> cache[p]]
    BY <1>1 DEF SweepCaches
  <1>3. /\ s \in SUBSET pages /\ Cardinality(s) = excess
        /\ \A p \in s, q \in pages \ s : cache[p].expiry <= cache[q].expiry
    BY DEF evictOldest
  <1>4. Cap \in Nat /\ IsFiniteSet(pages) /\ Cardinality(pages) \in Nat
    <2>1. IsFiniteSet(DOMAIN cache) /\ pages \in SUBSET DOMAIN cache
      BY DEF PageInv, PageShape
    <2>2. IsFiniteSet(pages)
      BY <2>1, FS_Subset
    <2>3. QED
      BY <2>2, FS_CardinalityType, PageAssumption
  <1>5. kept = pages \ s
    BY <1>2, <1>3
  <1>6. lost \subseteq s
    <2>1. ASSUME NEW p \in Expired, Servable(p)
          PROVE  FALSE
      <3>1. p \in DOMAIN cache /\ hour > cache[p].expiry /\ hour < cache[p].expiry
        BY <2>1 DEF Expired, Servable
      <3>2. hour \in Int /\ cache[p].expiry \in Int
        BY <3>1 DEF PageInv, PageShape, PageTypeOK
      <3>3. QED
        BY <3>1, <3>2
    <2>2. QED
      BY <1>2, <2>1
  <1>7. Cardinality(kept) = Cardinality(pages) - excess
    <2>1. pages \cap s = s
      BY <1>3
    <2>2. Cardinality(pages \ s) = Cardinality(pages) - Cardinality(pages \cap s)
      BY <1>4, FS_Difference
    <2>3. QED
      BY <1>3, <1>5, <2>1, <2>2
  <1>8. excess = 0 => s = {}
    <2>1. IsFiniteSet(s)
      BY <1>3, <1>4, FS_Subset
    <2>2. QED
      BY <1>3, <2>1, FS_EmptySet
  <1>9. Cardinality(kept) <= Cap /\ (lost # {} => Cardinality(kept) = Cap)
    <2>1. CASE Cardinality(pages) > Cap
      BY <1>4, <1>7, <2>1
    <2>2. CASE ~ (Cardinality(pages) > Cap)
      BY <1>4, <1>6, <1>7, <1>8, <2>2
    <2>3. QED
      BY <2>1, <2>2
  <1>10. \A p \in lost, q \in kept : cache[p].expiry <= cache[q].expiry
    <2> HIDE DEF pages, lost, kept
    <2>1. QED
      BY <1>3, <1>5, <1>6
  <1>11. QED
    BY <1>9, <1>10

-----------------------------------------------------------------------------
(* The reports: what is stored *)

LEMMA InitReports ==
  ASSUME corpus = [a \in Art |-> Absent], hours \in Windows
  PROVE  ReportsInv
  <1>1. Stored = {}
    BY DEF Stored
  <1>2. QED
    BY <1>1 DEF ReportsInv, ReportsTypeOK

LEMMA StepReports == ReportsInv /\ [ReportsNext]_reportVars => ReportsInv'
  <1> SUFFICES ASSUME ReportsInv, [ReportsNext]_reportVars PROVE ReportsInv'
    OBVIOUS
  <1> DEFINE Rows == ArticleRow \cup {Absent}
  <1>1. hours \in Windows /\ corpus \in [Art -> Rows]
    BY DEF ReportsInv, ReportsTypeOK
  <1>2. ASSUME hours' \in Windows, corpus' \in [Art -> Rows]
        PROVE  ReportsInv'
    <2>1. ASSUME NEW a \in Art, corpus'[a] # Absent
          PROVE  corpus'[a].outlet \in {s.outlet : s \in Shape} /\ corpus'[a].age \in Ages
      <3>1. corpus'[a] \in ArticleRow
        BY <1>2, <2>1
      <3>2. QED
        BY <3>1 DEF ArticleRow
    <2>2. QED
      BY <1>2, <2>1 DEF ReportsInv, ReportsTypeOK, Stored, age
  <1>3. ASSUME NEW a \in Art, NEW s \in Shape, NEW old \in Ages, StoreArticle(a, s, old)
        PROVE  ReportsInv'
    <2> DEFINE row == [outlet |-> s.outlet, cves |-> s.cves, ttps |-> s.ttps, score |-> s.score,
                       poc |-> s.poc, lag |-> s.lag, age |-> old, dup |-> FALSE]
    <2>1. corpus' = [corpus EXCEPT ![a] = row] /\ hours' = hours
      BY <1>3 DEF StoreArticle
    <2>2. /\ s.cves \in SUBSET Cve /\ s.ttps \in SUBSET Technique
          /\ s.score \in Nat /\ s.lag \in Nat /\ s.poc \in BOOLEAN
      BY ReportsAssumption
    <2>3. row \in ArticleRow
      BY <2>2 DEF ArticleRow
    <2> HIDE DEF row
    <2>4. corpus' \in [Art -> Rows]
      BY <1>1, <2>1, <2>3
    <2>5. QED
      BY <1>1, <1>2, <2>1, <2>4
  <1>4. ASSUME NEW a \in Art, FileAsDuplicate(a)
        PROVE  ReportsInv'
    <2> DEFINE row == [corpus[a] EXCEPT !.dup = TRUE]
    <2>1. corpus[a] # Absent /\ corpus' = [corpus EXCEPT ![a] = row] /\ hours' = hours
      BY <1>4 DEF FileAsDuplicate, Stored
    <2>2. corpus[a] \in ArticleRow
      BY <1>1, <2>1
    <2>3. row \in ArticleRow
      BY <2>2 DEF ArticleRow
    <2> HIDE DEF row
    <2>4. corpus' \in [Art -> Rows]
      BY <1>1, <2>1, <2>3
    <2>5. QED
      BY <1>1, <1>2, <2>1, <2>4
  <1>5. CASE UNCHANGED reportVars
    BY <1>1, <1>2, <1>5 DEF reportVars
  <1>6. QED
    BY <1>3, <1>4, <1>5 DEF ReportsNext

-----------------------------------------------------------------------------
(* Lists in order *)

\* There is a list of the members of a finite set by falling key and tie: each has
\* the place that the number of those before it gives, where members that agree in
\* both are told apart by some numbering.
LEMMA OrderExists ==
  ASSUME NEW S, IsFiniteSet(S), NEW key \in [S -> Int], NEW tie \in [S -> Int]
  PROVE  \E s \in [1..Cardinality(S) -> S] :
           \A i, j \in 1..Cardinality(S) : i < j =>
             /\ s[i] # s[j]
             /\ \/ key[s[i]] > key[s[j]]
                \/ key[s[i]] = key[s[j]] /\ tie[s[i]] >= tie[s[j]]
  <1> DEFINE n == Cardinality(S)
  <1>1. n \in Nat /\ ExistsBijection(S, 1..n)
    BY FS_CardinalityType, Fun_ExistsBijSymmetric
  <1>2. PICK g \in [S -> 1..n] : \A a, b \in S : g[a] = g[b] => a = b
    BY <1>1 DEF ExistsBijection, Bijection, Injection, IsInjective
  <1> HIDE DEF n
  <1> DEFINE Before(a, b) == \/ key[a] > key[b]
                             \/ key[a] = key[b] /\ tie[a] > tie[b]
                             \/ key[a] = key[b] /\ tie[a] = tie[b] /\ g[a] <= g[b]
             Upto(a) == {b \in S : Before(b, a)}
             place == [a \in S |-> Cardinality(Upto(a))]
  <1>3. \A a \in S : key[a] \in Int /\ tie[a] \in Int /\ g[a] \in Int
    BY <1>1, <1>2
  <1>4. \A a, b \in S : Before(a, b) \/ Before(b, a)
    BY <1>3
  <1>5. \A a, b \in S : Before(a, b) /\ Before(b, a) => a = b
    <2>1. ASSUME NEW a \in S, NEW b \in S, Before(a, b), Before(b, a)
          PROVE  g[a] = g[b]
      BY <1>3, <2>1
    <2>2. QED
      BY <1>2, <2>1
  <1>6. \A a, b, c \in S : Before(a, b) /\ Before(b, c) => Before(a, c)
    BY <1>3
  <1>7. \A a \in S : a \in Upto(a)
    BY <1>3
  <1> HIDE DEF Before
  <1>8. \A a \in S : IsFiniteSet(Upto(a)) /\ Cardinality(Upto(a)) \in 1..n
    <2>1. ASSUME NEW a \in S
          PROVE  IsFiniteSet(Upto(a)) /\ Cardinality(Upto(a)) \in 1..n
      <3>1. Upto(a) \in SUBSET S /\ Upto(a) # {}
        BY <1>7
      <3>2. IsFiniteSet(Upto(a)) /\ Cardinality(Upto(a)) <= Cardinality(S)
        BY <3>1, FS_Subset
      <3>3. Cardinality(Upto(a)) \in Nat /\ Cardinality(Upto(a)) # 0
        BY <3>1, <3>2, FS_CardinalityType, FS_EmptySet
      <3>4. QED
        BY <1>1, <3>2, <3>3 DEF n
    <2>2. QED
      BY <2>1
  <1>9. ASSUME NEW a \in S, NEW b \in S, a # b, Before(a, b)
        PROVE  place[a] < place[b]
    <2>1. Upto(a) \in SUBSET Upto(b)
      BY <1>6, <1>9
    <2>2. b \in Upto(b) /\ b \notin Upto(a)
      BY <1>5, <1>7, <1>9
    <2>3. Cardinality(Upto(a)) <= Cardinality(Upto(b)) /\ Cardinality(Upto(a)) # Cardinality(Upto(b))
      BY <1>8, <2>1, <2>2, FS_Subset
    <2>4. place[a] = Cardinality(Upto(a)) /\ place[b] = Cardinality(Upto(b))
      OBVIOUS
    <2> HIDE DEF place, Upto
    <2>5. QED
      BY <1>8, <2>3, <2>4
  <1>10. place \in [S -> 1..n]
    BY <1>8
  <1> HIDE DEF place
  <1>11. place \in Injection(S, 1..n)
    <2>1. \A a, b \in S : place[a] = place[b] => a = b
      <3>1. ASSUME NEW a \in S, NEW b \in S, a # b PROVE place[a] # place[b]
        <4>1. place[a] \in 1..n /\ place[b] \in 1..n
          BY <1>10
        <4>2. QED
          BY <1>4, <1>9, <3>1, <4>1
      <3>2. QED
        BY <3>1
    <2>2. QED
      BY <1>10, <2>1, Fun_IsInj
  <1>12. place \in Surjection(S, 1..n)
    <2>1. IsFiniteSet(1..n) /\ Cardinality(1..n) = n
      BY <1>1, FS_Interval
    <2>2. QED
      BY <1>11, <2>1, FS_Injection DEF n
  <1> DEFINE s == [i \in 1..n |-> CHOOSE a \in S : place[a] = i]
  <1>13. \A i \in 1..n : s[i] \in S /\ place[s[i]] = i
    BY <1>12 DEF Surjection
  <1>14. s \in [1..n -> S]
    BY <1>13
  <1> HIDE DEF s
  <1>15. ASSUME NEW i \in 1..n, NEW j \in 1..n, i < j
         PROVE  /\ s[i] # s[j]
                /\ \/ key[s[i]] > key[s[j]]
                   \/ key[s[i]] = key[s[j]] /\ tie[s[i]] >= tie[s[j]]
    <2>1. s[i] \in S /\ s[j] \in S /\ place[s[i]] = i /\ place[s[j]] = j
      BY <1>13
    <2>2. s[i] # s[j] /\ ~ Before(s[j], s[i])
      BY <1>9, <1>15, <2>1
    <2>3. Before(s[i], s[j])
      BY <1>4, <2>1, <2>2
    <2>4. QED
      BY <1>3, <2>1, <2>2, <2>3 DEF Before
  <1>16. QED
    BY <1>14, <1>15 DEF n

\* What SortBy lists: every member once, in order.
LEMMA Sorted ==
  ASSUME NEW S, IsFiniteSet(S), NEW key \in [S -> Int], NEW tie \in [S -> Int]
  PROVE  LET s == SortBy(S, key, tie)
         IN  /\ s \in Seq(S) /\ Len(s) = Cardinality(S) /\ DOMAIN s = 1..Cardinality(S)
             /\ \A a \in S : \E i \in DOMAIN s : s[i] = a
             /\ \A i, j \in DOMAIN s : i < j =>
                  /\ s[i] # s[j]
                  /\ \/ key[s[i]] > key[s[j]]
                     \/ key[s[i]] = key[s[j]] /\ tie[s[i]] >= tie[s[j]]
  <1> DEFINE n == Cardinality(S)
             s == SortBy(S, key, tie)
             InOrder(f) == \A i, j \in 1..n : i < j =>
                             /\ f[i] # f[j]
                             /\ \/ key[f[i]] > key[f[j]]
                                \/ key[f[i]] = key[f[j]] /\ tie[f[i]] >= tie[f[j]]
  <1>1. n \in Nat
    BY FS_CardinalityType
  <1>2. \E f \in [1..n -> S] : InOrder(f)
    BY OrderExists
  <1>3. s = CHOOSE f \in [1..n -> S] : InOrder(f)
    BY DEF SortBy
  <1> HIDE DEF n, InOrder, s
  <1>4. s \in [1..n -> S] /\ InOrder(s)
    BY <1>2, <1>3
  <1>5. \A i, j \in 1..n : s[i] = s[j] => i = j
    <2>1. ASSUME NEW i \in 1..n, NEW j \in 1..n, s[i] = s[j] PROVE i = j
      <3>1. ~ (i < j) /\ ~ (j < i)
        BY <1>4, <2>1 DEF InOrder
      <3>2. QED
        BY <1>1, <3>1
    <2>2. QED
      BY <2>1
  <1>6. s \in Surjection(1..n, S)
    <2>1. s \in Injection(1..n, S)
      BY <1>4, <1>5, Fun_IsInj
    <2>2. Cardinality(1..n) = n
      BY <1>1, FS_Interval
    <2>3. QED
      BY <2>1, <2>2, FS_Injection DEF n
  <1>7. s \in Seq(S) /\ Len(s) = n /\ DOMAIN s = 1..n
    BY <1>1, <1>4
  <1>8. \A a \in S : \E i \in DOMAIN s : s[i] = a
    BY <1>6, <1>7 DEF Surjection
  <1>9. QED
    BY <1>4, <1>7, <1>8 DEF InOrder, n, s

\* The first so many of them: all when there are no more, and whoever is left out
\* goes before none of those listed.
ListsTop(t, S, key, limit) ==
  /\ t \in Seq(S) /\ DOMAIN t = 1..Len(t) /\ Len(t) \in Nat
  /\ Len(t) = IF Cardinality(S) < limit THEN Cardinality(S) ELSE limit
  /\ \A i, j \in DOMAIN t : i < j => t[i] # t[j] /\ key[t[i]] >= key[t[j]]
  /\ \A a \in S : \/ \E i \in DOMAIN t : t[i] = a
                  \/ Len(t) = limit /\ \A i \in DOMAIN t : key[t[i]] >= key[a]
  /\ Cardinality(S) <= limit => \A a \in S : \E i \in DOMAIN t : t[i] = a

LEMMA TopSorted ==
  ASSUME NEW S, IsFiniteSet(S), NEW key \in [S -> Int], NEW tie \in [S -> Int], NEW limit \in Nat
  PROVE  ListsTop(Top(SortBy(S, key, tie), limit), S, key, limit)
  <1> DEFINE s == SortBy(S, key, tie)
             n == Cardinality(S)
             m == IF n < limit THEN n ELSE limit
             t == Top(s, limit)
  <1>1. /\ s \in Seq(S) /\ Len(s) = n /\ DOMAIN s = 1..n
        /\ \A a \in S : \E i \in DOMAIN s : s[i] = a
        /\ \A i, j \in DOMAIN s : i < j =>
             /\ s[i] # s[j]
             /\ \/ key[s[i]] > key[s[j]]
                \/ key[s[i]] = key[s[j]] /\ tie[s[i]] >= tie[s[j]]
    BY Sorted
  <1>0. n \in Nat
    BY FS_CardinalityType
  <1> HIDE DEF s, n
  <1>2. m \in Nat /\ m <= n /\ t = SubSeq(s, 1, m)
    BY <1>0, <1>1 DEF Top
  <1> HIDE DEF m, t
  <1>3. t \in Seq(S) /\ Len(t) = m /\ DOMAIN t = 1..m /\ \A i \in 1..m : t[i] = s[i]
    BY <1>0, <1>1, <1>2
  <1>4. \A i \in 1..n : s[i] \in S /\ key[s[i]] \in Int
    BY <1>1
  <1>5. ASSUME NEW i \in 1..n, NEW j \in 1..n, i < j
        PROVE  s[i] # s[j] /\ key[s[i]] >= key[s[j]]
    <2>1. key[s[i]] \in Int /\ key[s[j]] \in Int
      BY <1>4
    <2>2. s[i] # s[j] /\ (key[s[i]] > key[s[j]] \/ key[s[i]] = key[s[j]])
      BY <1>1, <1>5
    <2>3. QED
      BY <2>1, <2>2
  <1>6. ASSUME NEW a \in S
        PROVE  \/ \E i \in 1..m : t[i] = a
               \/ m = limit /\ \A i \in 1..m : key[t[i]] >= key[a]
    <2>1. PICK j \in 1..n : s[j] = a
      BY <1>1
    <2>2. CASE j <= m
      BY <1>2, <1>3, <2>1, <2>2
    <2>3. CASE ~ (j <= m)
      <3>1. m = limit
        BY <1>1, <1>2, <2>1, <2>3 DEF m
      <3>2. \A i \in 1..m : i \in 1..n /\ i < j
        BY <1>0, <1>1, <1>2, <2>1, <2>3
      <3>3. QED
        BY <1>3, <1>5, <2>1, <3>1, <3>2
    <2>4. QED
      BY <2>2, <2>3
  <1>7. ASSUME NEW i \in 1..m, NEW j \in 1..m, i < j
        PROVE  t[i] # t[j] /\ key[t[i]] >= key[t[j]]
    <2>1. i \in 1..n /\ j \in 1..n
      BY <1>0, <1>2
    <2>2. QED
      BY <1>3, <1>5, <1>7, <2>1
  <1>8. ASSUME n <= limit, NEW a \in S
        PROVE  \E i \in 1..m : t[i] = a
    <2>1. m = n
      BY <1>0, <1>8 DEF m
    <2>2. QED
      BY <1>1, <1>3, <2>1
  <1>9. QED
    BY <1>2, <1>3, <1>6, <1>7, <1>8 DEF m, n, s, t, ListsTop

\* The counts of parts come to the count of the whole.
CountsParts(count, S, f, I) == \A i \in I : count[i] = Cardinality({a \in S : f[a] = i})

LEMMA TotalOfParts ==
  ASSUME NEW S, IsFiniteSet(S), NEW I, NEW f \in [S -> I], NEW count \in [I -> Nat],
         CountsParts(count, S, f, I)
  PROVE  Total(count) = Cardinality(S)
  <1> DEFINE Part(i)  == {a \in S : f[a] = i}
             Pairs    == UNION {{i} \X (1..count[i]) : i \in I}
             number   == [i \in I |-> CHOOSE g : g \in Bijection(Part(i), 1..count[i])]
             h        == [a \in S |-> <<f[a], number[f[a]][a]>>]
  <1>1. \A i \in I : number[i] \in Bijection(Part(i), 1..count[i])
    <2>1. ASSUME NEW i \in I
          PROVE  \E g : g \in Bijection(Part(i), 1..count[i])
      <3>1. IsFiniteSet(Part(i))
        BY FS_Subset
      <3>2. ExistsBijection(1..count[i], Part(i))
        BY <3>1, FS_CardinalityType DEF CountsParts
      <3>3. QED
        BY <3>2, Fun_ExistsBijSymmetric DEF ExistsBijection
    <2>2. QED
      BY <2>1
  <1> HIDE DEF number
  <1>2. \A a \in S : f[a] \in I /\ a \in Part(f[a])
    OBVIOUS
  <1>3. \A i \in I : \A a \in Part(i) : number[i][a] \in 1..count[i]
    BY <1>1 DEF Bijection, Injection
  <1>4. \A i \in I : \A a, b \in Part(i) : number[i][a] = number[i][b] => a = b
    BY <1>1 DEF Bijection, Injection, IsInjective
  <1>5. \A i \in I : \A k \in 1..count[i] : \E a \in Part(i) : number[i][a] = k
    BY <1>1 DEF Bijection, Surjection
  <1>6. h \in [S -> Pairs]
    BY <1>2, <1>3
  <1>7. h \in Bijection(S, Pairs)
    <2>1. \A a, b \in S : h[a] = h[b] => a = b
      <3>1. ASSUME NEW a \in S, NEW b \in S, h[a] = h[b] PROVE a = b
        <4>1. f[a] = f[b] /\ number[f[a]][a] = number[f[a]][b]
          BY <3>1
        <4>2. QED
          BY <1>2, <1>4, <4>1
      <3>2. QED
        BY <3>1
    <2>2. \A p \in Pairs : \E a \in S : h[a] = p
      <3>1. ASSUME NEW p \in Pairs PROVE \E a \in S : h[a] = p
        <4>1. PICK i \in I : p \in {i} \X (1..count[i])
          OBVIOUS
        <4>2. PICK k \in 1..count[i] : p = <<i, k>>
          BY <4>1
        <4>3. PICK a \in Part(i) : number[i][a] = k
          BY <1>5
        <4>4. QED
          BY <4>2, <4>3
      <3>2. QED
        BY <3>1
    <2> HIDE DEF h, Pairs
    <2>3. QED
      BY <1>6, <2>1, <2>2, Fun_IsBij
  <1>8. Cardinality(Pairs) = Cardinality(S)
    <2>1. ExistsBijection(S, Pairs)
      BY <1>7 DEF ExistsBijection
    <2> HIDE DEF Pairs
    <2>2. QED
      BY <2>1, FS_Bijection
  <1>9. QED
    BY <1>8 DEF Total

\* A finite set of integers has a greatest member.
LEMMA GreatestOf ==
  ASSUME NEW S, S \subseteq Int, IsFiniteSet(S), S # {}
  PROVE  Max(S) \in S /\ \A y \in S : y <= Max(S)
  <1> DEFINE key == [x \in S |-> x]
             tie == [x \in S |-> 0]
             s   == SortBy(S, key, tie)
  <1>1. key \in [S -> Int] /\ tie \in [S -> Int] /\ \A x \in S : key[x] = x
    OBVIOUS
  <1> HIDE DEF key, tie
  <1>2. /\ s \in Seq(S) /\ Len(s) = Cardinality(S) /\ DOMAIN s = 1..Cardinality(S)
        /\ \A a \in S : \E i \in DOMAIN s : s[i] = a
        /\ \A i, j \in DOMAIN s : i < j =>
             /\ s[i] # s[j]
             /\ \/ key[s[i]] > key[s[j]]
                \/ key[s[i]] = key[s[j]] /\ tie[s[i]] >= tie[s[j]]
    BY <1>1, Sorted
  <1> HIDE DEF s
  <1>3. 1 \in DOMAIN s /\ s[1] \in S
    <2>1. PICK a \in S : TRUE
      OBVIOUS
    <2>2. PICK i \in DOMAIN s : s[i] = a
      BY <1>2
    <2>3. QED
      BY <1>2, <2>2
  <1>4. ASSUME NEW y \in S
        PROVE  y <= s[1]
    <2>1. PICK i \in DOMAIN s : s[i] = y
      BY <1>2
    <2>2. i = 1 \/ 1 < i
      BY <1>2
    <2>3. s[1] \in Int /\ y \in Int
      BY <1>3
    <2>4. QED
      BY <1>1, <1>2, <1>3, <2>1, <2>2, <2>3
  <1>5. \E x \in S : \A y \in S : x >= y
    <2>1. \A y \in S : s[1] >= y
      BY <1>3, <1>4
    <2>2. QED
      BY <1>3, <2>1
  <1>6. Max(S) \in S /\ \A y \in S : Max(S) >= y
    BY <1>5 DEF Max
  <1>7. QED
    BY <1>6

-----------------------------------------------------------------------------
(* The articles *)

LEMMA ArticleFacts ==
  ASSUME ReportsInv
  PROVE  /\ hours \in Nat /\ hours > 0 /\ LongAgo \in Nat
         /\ Stored \subseteq Art /\ IsFiniteSet(Stored)
         /\ \A a \in Stored :
              /\ age(a) \in Nat /\ age(a) <= LongAgo
              /\ corpus[a].cves \subseteq Cve /\ corpus[a].ttps \subseteq Technique
              /\ corpus[a].score \in Int /\ corpus[a].lag \in Int
  <1>1. LongAgo \in Nat /\ \A x \in Ages : x \in Nat /\ x <= LongAgo
    <2>1. Ages \subseteq Nat /\ Ages \subseteq Int /\ IsFiniteSet(Ages) /\ Ages # {}
      BY ReportsAssumption
    <2>2. QED
      BY <2>1, GreatestOf DEF LongAgo
  <1>2. hours \in Nat /\ hours > 0
    BY ReportsAssumption DEF ReportsInv, ReportsTypeOK
  <1>3. Stored \subseteq Art /\ IsFiniteSet(Stored)
    BY ReportsAssumption, FS_Subset DEF Stored
  <1>4. ASSUME NEW a \in Stored
        PROVE  /\ age(a) \in Nat /\ age(a) <= LongAgo
               /\ corpus[a].cves \subseteq Cve /\ corpus[a].ttps \subseteq Technique
               /\ corpus[a].score \in Int /\ corpus[a].lag \in Int
    <2>1. corpus[a] \in ArticleRow
      BY DEF ReportsInv, Stored
    <2>2. /\ corpus[a].age \in Ages /\ corpus[a].cves \in SUBSET Cve
          /\ corpus[a].ttps \in SUBSET Technique /\ corpus[a].score \in Nat /\ corpus[a].lag \in Nat
      BY <2>1 DEF ArticleRow
    <2>3. QED
      BY <1>1, <2>2 DEF age
  <1>5. QED
    BY <1>1, <1>2, <1>3, <1>4

\* What is shown or counted is stored, and so a finite set of articles with ages.
LEMMA ShownFacts ==
  ASSUME ReportsInv, NEW n
  PROVE  /\ Shown(n) \subseteq Stored
         /\ \A c : Mentions(c, n) \subseteq Shown(n) /\ Tagged(c, n) \subseteq Shown(n)
         /\ \A S \in SUBSET Stored : /\ IsFiniteSet(S)
                                     /\ [a \in S |-> age(a)] \in [S -> Int]
                                     /\ [a \in S |-> -age(a)] \in [S -> Int]
                                     /\ [a \in S |-> corpus[a].score] \in [S -> Int]
                                     /\ [a \in S |-> 0] \in [S -> Int]
  <1>1. ASSUME NEW S \in SUBSET Stored
        PROVE  /\ IsFiniteSet(S)
               /\ [a \in S |-> age(a)] \in [S -> Int]
               /\ [a \in S |-> -age(a)] \in [S -> Int]
               /\ [a \in S |-> corpus[a].score] \in [S -> Int]
               /\ [a \in S |-> 0] \in [S -> Int]
    <2>1. IsFiniteSet(S)
      BY ArticleFacts, FS_Subset
    <2>2. \A a \in S : age(a) \in Nat /\ corpus[a].score \in Int
      BY ArticleFacts
    <2>3. QED
      BY <2>1, <2>2
  <1>2. Shown(n) \subseteq Stored
    BY DEF Shown
  <1>3. \A c : Mentions(c, n) \subseteq Shown(n) /\ Tagged(c, n) \subseteq Shown(n)
    BY DEF Mentions, Tagged
  <1>4. QED
    BY <1>1, <1>2, <1>3

LEMMA OldestNewest ==
  ASSUME ReportsInv, NEW S \in SUBSET Stored, S # {}
  PROVE  /\ Oldest(S) \in S /\ \A b \in S : age(b) <= age(Oldest(S))
         /\ Newest(S) \in S /\ \A b \in S : age(Newest(S)) <= age(b)
  <1>1. \A a \in S : age(a) \in Nat
    BY ArticleFacts
  <1> DEFINE A == {age(a) : a \in S}
             f == [a \in S |-> age(a)]
  <1>2. A \subseteq Int /\ A # {} /\ IsFiniteSet(A)
    <2>1. f \in Surjection(S, A)
      BY DEF Surjection
    <2>2. IsFiniteSet(S)
      BY ShownFacts
    <2> HIDE DEF f, A
    <2>3. IsFiniteSet(A)
      BY <2>1, <2>2, FS_Surjection
    <2>4. QED
      BY <1>1, <2>3 DEF A
  <1>3. \E a \in S : \A b \in S : age(b) <= age(a)
    <2>1. Max(A) \in A /\ \A y \in A : y <= Max(A)
      BY <1>2, GreatestOf
    <2>2. QED
      BY <2>1
  <1> DEFINE B == {-age(a) : a \in S}
             g == [a \in S |-> -age(a)]
  <1>4. B \subseteq Int /\ B # {} /\ IsFiniteSet(B)
    <2>1. g \in Surjection(S, B)
      BY DEF Surjection
    <2>2. IsFiniteSet(S)
      BY ShownFacts
    <2> HIDE DEF g, B
    <2>3. IsFiniteSet(B)
      BY <2>1, <2>2, FS_Surjection
    <2>4. QED
      BY <1>1, <2>3 DEF B
  <1>5. \E a \in S : \A b \in S : age(a) <= age(b)
    <2>1. Max(B) \in B /\ \A y \in B : y <= Max(B)
      BY <1>4, GreatestOf
    <2>2. PICK a \in S : Max(B) = -age(a)
      BY <2>1
    <2>3. \A b \in S : -age(b) <= -age(a)
      BY <2>1, <2>2
    <2>4. QED
      BY <1>1, <2>3
  <1>6. QED
    BY <1>3, <1>5 DEF Oldest, Newest

-----------------------------------------------------------------------------
(* Leaderboards and the timeline *)

\* The page of a CVE has a line for each outlet, which together count each mention
\* once, and begins with the outlet of the newest one.
LEMMA ConsensusFacts ==
  ASSUME ReportsInv, NEW c, NEW n
  PROVE  LET M    == Mentions(c, n)
             O    == {corpus[a].outlet : a \in M}
             rows == CVEConsensus(c, n)
         IN  /\ Len(rows) = Cardinality(O) /\ Len(rows) \in Nat /\ DOMAIN rows = 1..Len(rows)
             /\ IsFiniteSet(O)
             /\ \A i \in DOMAIN rows : rows[i].latest \in M /\ rows[i].outlet \in O
             /\ \A a \in M : \E i \in DOMAIN rows : rows[i].outlet = corpus[a].outlet
             /\ Total([i \in DOMAIN rows |-> rows[i].count]) = Cardinality(M)
             /\ M # {} => 1 \in DOMAIN rows /\ age(rows[1].latest) = age(Newest(M))
             /\ rows = << >> <=> M = {}
  <1> DEFINE M     == Mentions(c, n)
             O     == {corpus[a].outlet : a \in M}
             of(o) == {a \in M : corpus[a].outlet = o}
             row(o) == [outlet |-> o, count |-> Cardinality(of(o)), latest |-> Newest(of(o))]
             R     == {row(o) : o \in O}
             key   == [r \in R |-> -age(r.latest)]
             tie   == [r \in R |-> r.count]
             rows  == SortBy(R, key, tie)
  <1>1. CVEConsensus(c, n) = rows
    BY DEF CVEConsensus
  <1>2. M \in SUBSET Stored /\ IsFiniteSet(M)
    <2>1. M \in SUBSET Stored
      BY ShownFacts
    <2>2. QED
      BY <2>1, ShownFacts
  <1>3. \A o \in O : /\ of(o) \in SUBSET Stored /\ of(o) \subseteq M /\ of(o) # {}
                     /\ IsFiniteSet(of(o)) /\ Cardinality(of(o)) \in Nat
    <2>1. ASSUME NEW o \in O
          PROVE  /\ of(o) \in SUBSET Stored /\ of(o) \subseteq M /\ of(o) # {}
                 /\ IsFiniteSet(of(o)) /\ Cardinality(of(o)) \in Nat
      <3>1. of(o) \in SUBSET Stored /\ of(o) \subseteq M /\ of(o) # {}
        BY <1>2
      <3>2. IsFiniteSet(of(o))
        BY <1>2, <3>1, FS_Subset
      <3>3. QED
        BY <3>1, <3>2, FS_CardinalityType
    <2>2. QED
      BY <2>1
  <1>4. \A o \in O : /\ Newest(of(o)) \in of(o) /\ Newest(of(o)) \in M
                     /\ \A b \in of(o) : age(Newest(of(o))) <= age(b)
    BY <1>3, OldestNewest
  <1>5. \A a \in M : age(a) \in Nat
    BY <1>2, ArticleFacts
  <1> HIDE DEF M, of
  <1>6. IsFiniteSet(O)
    <2> DEFINE f == [a \in M |-> corpus[a].outlet]
    <2>1. f \in Surjection(M, O)
      BY DEF Surjection
    <2> HIDE DEF f, O
    <2>2. QED
      BY <1>2, <2>1, FS_Surjection
  <1> HIDE DEF O
  <1>7. \A o \in O : row(o).outlet = o /\ row(o).count = Cardinality(of(o)) /\ row(o).latest = Newest(of(o))
    OBVIOUS
  <1> HIDE DEF row
  <1>8. IsFiniteSet(R) /\ Cardinality(R) = Cardinality(O)
    <2> DEFINE f == [o \in O |-> row(o)]
    <2>1. f \in [O -> R] /\ (\A o, p \in O : f[o] = f[p] => o = p) /\ \A r \in R : \E o \in O : f[o] = r
      BY <1>7
    <2>2. f \in Bijection(O, R)
      BY <2>1, Fun_IsBij
    <2> HIDE DEF f, R
    <2>3. ExistsBijection(O, R)
      BY <2>2 DEF ExistsBijection
    <2>4. QED
      BY <1>6, <2>3, FS_Bijection
  <1>9. key \in [R -> Int] /\ tie \in [R -> Int]
    <2>1. \A r \in R : age(r.latest) \in Nat /\ r.count \in Nat
      BY <1>3, <1>4, <1>5, <1>7
    <2>2. QED
      BY <2>1
  <1>10. \A r \in R : key[r] = -age(r.latest)
    OBVIOUS
  <1>11. \A o \in O : row(o) \in R
    OBVIOUS
  <1>12. \A r \in R : \E o \in O : r = row(o)
    OBVIOUS
  <1> HIDE DEF key, tie, R
  <1>13. /\ rows \in Seq(R) /\ Len(rows) = Cardinality(R) /\ DOMAIN rows = 1..Cardinality(R)
         /\ \A r \in R : \E i \in DOMAIN rows : rows[i] = r
         /\ \A i, j \in DOMAIN rows : i < j =>
              /\ rows[i] # rows[j]
              /\ \/ key[rows[i]] > key[rows[j]]
                 \/ key[rows[i]] = key[rows[j]] /\ tie[rows[i]] >= tie[rows[j]]
    BY <1>8, <1>9, Sorted
  <1>14. Cardinality(R) \in Nat
    BY <1>8, FS_CardinalityType
  <1> HIDE DEF rows
  <1>15. \A i \in DOMAIN rows : rows[i] \in R
    BY <1>13, <1>14
  <1>16. \A i \in DOMAIN rows : \E o \in O : rows[i] = row(o)
    BY <1>12, <1>15
  <1>17. \A o \in O : \E i \in DOMAIN rows : rows[i] = row(o)
    BY <1>11, <1>13
  <1>18. \A i, j \in DOMAIN rows : rows[i] = rows[j] => i = j
    <2>1. ASSUME NEW i \in DOMAIN rows, NEW j \in DOMAIN rows, rows[i] = rows[j]
          PROVE  i = j
      <3>1. ~ (i < j) /\ ~ (j < i)
        BY <1>13, <2>1
      <3>2. i \in Int /\ j \in Int
        BY <1>13, <1>14
      <3>3. QED
        BY <3>1, <3>2
    <2>2. QED
      BY <2>1
  <1>19. \A a \in M : corpus[a].outlet \in O
    BY DEF O
  <1>20. Total([i \in DOMAIN rows |-> rows[i].count]) = Cardinality(M)
    <2> DEFINE D     == DOMAIN rows
               count == [i \in D |-> rows[i].count]
               line  == [a \in M |-> CHOOSE i \in D : rows[i] = row(corpus[a].outlet)]
    <2>1. \A a \in M : line[a] \in D /\ rows[line[a]] = row(corpus[a].outlet)
      BY <1>17, <1>19
    <2>2. line \in [M -> D]
      BY <2>1
    <2> HIDE DEF line
    <2>3. count \in [D -> Nat]
      <3>1. \A i \in D : rows[i].count \in Nat
        BY <1>3, <1>7, <1>16
      <3>2. QED
        BY <3>1
    <2>4. ASSUME NEW i \in D
          PROVE  count[i] = Cardinality({a \in M : line[a] = i})
      <3>1. PICK o \in O : rows[i] = row(o)
        BY <1>16
      <3>2. \A a \in M : line[a] = i => corpus[a].outlet = o
        BY <1>7, <1>19, <2>1, <3>1
      <3>3. \A a \in M : corpus[a].outlet = o => line[a] = i
        BY <1>18, <2>1, <3>1
      <3>4. {a \in M : line[a] = i} = of(o)
        BY <3>2, <3>3 DEF of
      <3>5. QED
        BY <1>7, <3>1, <3>4
    <2> HIDE DEF D, count
    <2>5. CountsParts(count, M, line, D)
      BY <2>4 DEF CountsParts
    <2>6. Total(count) = Cardinality(M)
      BY <1>2, <2>2, <2>3, <2>5, TotalOfParts
    <2>7. QED
      BY <2>6 DEF count, D
  <1>21. \A i \in DOMAIN rows : rows[i].latest \in M /\ rows[i].outlet \in O
    BY <1>4, <1>7, <1>16
  <1>22. \A a \in M : \E i \in DOMAIN rows : rows[i].outlet = corpus[a].outlet
    BY <1>7, <1>17, <1>19
  <1>23. ASSUME M # {}
         PROVE  1 \in DOMAIN rows /\ age(rows[1].latest) = age(Newest(M))
    <2>1. Newest(M) \in M /\ \A b \in M : age(Newest(M)) <= age(b)
      BY <1>2, <1>23, OldestNewest
    <2> DEFINE o == corpus[Newest(M)].outlet
    <2>2. o \in O /\ Newest(M) \in of(o)
      BY <1>19, <2>1 DEF of
    <2> HIDE DEF o
    <2>3. PICK i \in DOMAIN rows : rows[i] = row(o)
      BY <1>17, <2>2
    <2>4. 1 \in DOMAIN rows /\ i \in Nat /\ i >= 1
      BY <1>13, <1>14
    <2>5. age(rows[i].latest) <= age(Newest(M))
      BY <1>4, <1>7, <2>2, <2>3
    <2>6. age(rows[1].latest) <= age(rows[i].latest)
      <3>1. CASE i = 1
        BY <1>5, <1>21, <2>4, <3>1
      <3>2. CASE i # 1
        <4>1. key[rows[1]] > key[rows[i]] \/ key[rows[1]] = key[rows[i]]
          BY <1>13, <2>4, <3>2
        <4>2. key[rows[1]] = -age(rows[1].latest) /\ key[rows[i]] = -age(rows[i].latest)
          BY <1>10, <1>15, <2>4
        <4>3. age(rows[1].latest) \in Nat /\ age(rows[i].latest) \in Nat
          BY <1>5, <1>21, <2>4
        <4>4. QED
          BY <4>1, <4>2, <4>3
      <3>3. QED
        BY <3>1, <3>2
    <2>7. rows[1].latest \in M /\ age(Newest(M)) <= age(rows[1].latest)
      BY <1>21, <2>1, <2>4
    <2>8. age(rows[1].latest) \in Nat /\ age(rows[i].latest) \in Nat /\ age(Newest(M)) \in Nat
      BY <1>5, <1>21, <2>1, <2>4
    <2>9. QED
      BY <2>4, <2>5, <2>6, <2>7, <2>8
  <1>24. Len(rows) = Cardinality(O) /\ Len(rows) \in Nat /\ DOMAIN rows = 1..Len(rows)
    BY <1>8, <1>13, <1>14
  <1>25. rows = << >> <=> M = {}
    <2>1. CASE M = {}
      <3>1. O = {}
        BY <2>1 DEF O
      <3>2. Len(rows) = 0
        BY <1>24, <3>1, FS_EmptySet
      <3>3. QED
        BY <1>13, <2>1, <3>2
    <2>2. CASE M # {}
      BY <1>23, <2>2
    <2>3. QED
      BY <2>1, <2>2
  <1>26. QED
    BY <1>1, <1>6, <1>20, <1>21, <1>22, <1>23, <1>24, <1>25 DEF M, O

\* The leaderboard has the CVEs that were mentioned, with all their mentions and the
\* newest; whoever is left out has no more than any that is listed.
IsBoard(hot, n, limit) ==
  /\ Len(hot) \in Nat /\ DOMAIN hot = 1..Len(hot)
  /\ \A i \in DOMAIN hot :
       /\ hot[i].cve \in Cve /\ Mentions(hot[i].cve, n) # {}
       /\ hot[i].mentions = Cardinality(Mentions(hot[i].cve, n))
       /\ hot[i].latest = Newest(Mentions(hot[i].cve, n))
  /\ \A c \in Cve : Mentions(c, n) # {} =>
       \/ \E i \in DOMAIN hot : hot[i].cve = c
       \/ \A i \in DOMAIN hot : Cardinality(Mentions(c, n)) <= hot[i].mentions
  /\ Cardinality(Cve) <= limit =>
       \A c \in Cve : Mentions(c, n) # {} => \E i \in DOMAIN hot : hot[i].cve = c

LEMMA HottestFacts ==
  ASSUME ReportsInv, NEW n, NEW limit \in Nat
  PROVE  IsBoard(HottestCVEs(n, limit), n, limit)
  <1> DEFINE C      == {d \in Cve : Mentions(d, n) # {}}
             row(c) == [cve |-> c, mentions |-> Cardinality(Mentions(c, n)),
                        latest |-> Newest(Mentions(c, n))]
             R      == {row(c) : c \in C}
             key    == [r \in R |-> r.mentions]
             tie    == [r \in R |-> -age(r.latest)]
             hot    == Top(SortBy(R, key, tie), limit)
  <1>1. HottestCVEs(n, limit) = hot
    BY DEF HottestCVEs
  <1>2. IsFiniteSet(C) /\ Cardinality(C) <= Cardinality(Cve) /\ C \subseteq Cve
    <2>1. C \in SUBSET Cve
      OBVIOUS
    <2>2. QED
      BY <2>1, ReportsAssumption, FS_Subset
  <1>3. \A c \in C : /\ Cardinality(Mentions(c, n)) \in Nat
                     /\ age(Newest(Mentions(c, n))) \in Nat
    <2>1. ASSUME NEW c \in C
          PROVE  Cardinality(Mentions(c, n)) \in Nat /\ age(Newest(Mentions(c, n))) \in Nat
      <3>1. Mentions(c, n) \in SUBSET Stored /\ IsFiniteSet(Mentions(c, n)) /\ Mentions(c, n) # {}
        BY ShownFacts
      <3>2. Newest(Mentions(c, n)) \in Stored
        BY <3>1, OldestNewest
      <3>3. QED
        BY <3>1, <3>2, ArticleFacts, FS_CardinalityType
    <2>2. QED
      BY <2>1
  <1>4. \A c : /\ row(c).cve = c /\ row(c).mentions = Cardinality(Mentions(c, n))
               /\ row(c).latest = Newest(Mentions(c, n))
    OBVIOUS
  <1>5. \A c \in Cve : Mentions(c, n) # {} <=> c \in C
    OBVIOUS
  <1> HIDE DEF row, C
  <1>6. IsFiniteSet(R) /\ Cardinality(R) <= Cardinality(Cve)
    <2> DEFINE f == [c \in C |-> row(c)]
    <2>1. f \in Surjection(C, R)
      BY DEF Surjection
    <2>2. Cardinality(C) \in Nat /\ Cardinality(Cve) \in Nat
      BY <1>2, ReportsAssumption, FS_CardinalityType
    <2> HIDE DEF f, R
    <2>3. IsFiniteSet(R) /\ Cardinality(R) <= Cardinality(C) /\ Cardinality(R) \in Nat
      BY <1>2, <2>1, FS_Surjection, FS_CardinalityType
    <2>4. QED
      BY <1>2, <2>2, <2>3
  <1>7. key \in [R -> Int] /\ tie \in [R -> Int]
    <2>1. \A r \in R : age(r.latest) \in Nat /\ r.mentions \in Nat
      BY <1>3, <1>4
    <2>2. QED
      BY <2>1
  <1>8. /\ \A r \in R : key[r] = r.mentions /\ \E c \in C : r = row(c)
        /\ \A c \in C : row(c) \in R
    OBVIOUS
  <1>0. hot = Top(SortBy(R, key, tie), limit)
    OBVIOUS
  <1> HIDE DEF key, tie, R, hot
  <1>9. ListsTop(hot, R, key, limit)
    BY <1>0, <1>6, <1>7, TopSorted
  <1>10. \A i \in DOMAIN hot : hot[i] \in R /\ \E c \in C : hot[i] = row(c)
    <2>1. \A i \in DOMAIN hot : hot[i] \in R
      BY <1>9 DEF ListsTop
    <2>2. QED
      BY <1>8, <2>1
  <1>11. ASSUME NEW i \in DOMAIN hot
         PROVE  /\ hot[i].cve \in Cve /\ Mentions(hot[i].cve, n) # {}
                /\ hot[i].mentions = Cardinality(Mentions(hot[i].cve, n))
                /\ hot[i].latest = Newest(Mentions(hot[i].cve, n))
    <2>1. PICK c \in C : hot[i] = row(c)
      BY <1>10
    <2>2. QED
      BY <1>2, <1>4, <1>5, <2>1
  <1>12. ASSUME NEW c \in C
         PROVE  \/ \E i \in DOMAIN hot : hot[i].cve = c
                \/ \A i \in DOMAIN hot : Cardinality(Mentions(c, n)) <= hot[i].mentions
    <2>1. CASE \E i \in DOMAIN hot : hot[i] = row(c)
      BY <1>4, <2>1
    <2>2. CASE \A i \in DOMAIN hot : key[hot[i]] >= key[row(c)]
      <3>1. key[row(c)] = Cardinality(Mentions(c, n)) /\ Cardinality(Mentions(c, n)) \in Nat
        BY <1>3, <1>4, <1>8
      <3>2. ASSUME NEW i \in DOMAIN hot
            PROVE  Cardinality(Mentions(c, n)) <= hot[i].mentions
        <4>1. key[hot[i]] = hot[i].mentions /\ hot[i].mentions \in Nat
          BY <1>3, <1>4, <1>8, <1>10
        <4>2. key[hot[i]] >= key[row(c)]
          BY <2>2
        <4>3. QED
          BY <3>1, <4>1, <4>2
      <3>3. QED
        BY <3>2
    <2>3. QED
      BY <1>8, <1>9, <2>1, <2>2 DEF ListsTop
  <1>13. ASSUME Cardinality(Cve) <= limit, NEW c \in C
         PROVE  \E i \in DOMAIN hot : hot[i].cve = c
    <2>1. Cardinality(R) \in Nat /\ Cardinality(Cve) \in Nat
      BY <1>6, ReportsAssumption, FS_CardinalityType
    <2>2. Cardinality(R) <= limit
      BY <1>6, <1>13, <2>1
    <2>3. QED
      BY <1>4, <1>8, <1>9, <2>2 DEF ListsTop
  <1>14. QED
    BY <1>1, <1>5, <1>9, <1>11, <1>12, <1>13 DEF ListsTop, IsBoard

LEMMA LeaderboardsHold == ReportsInv => LeaderboardsAgree
  <1> SUFFICES ASSUME ReportsInv, NEW c \in Cve
               PROVE  LET hot == HottestCVEs(hours, Cardinality(Cve) - 1)
                          candidates == PreKEVCandidates(hours, 2)
                          rows == CVEConsensus(c, hours)
                          total == Total([i \in DOMAIN rows |-> rows[i].count])
                          place == {i \in DOMAIN hot : hot[i].cve = c}
                      IN /\ \A i \in place : /\ hot[i].mentions = total
                                             /\ age(hot[i].latest) = age(rows[1].latest)
                         /\ place = {} => \A i \in DOMAIN hot : total <= hot[i].mentions
                         /\ c \in DOMAIN candidates <=> Len(rows) >= 2
                         /\ c \in DOMAIN candidates => candidates[c] = Len(rows)
    BY DEF LeaderboardsAgree
  <1> DEFINE limit      == Cardinality(Cve) - 1
             hot        == HottestCVEs(hours, limit)
             candidates == PreKEVCandidates(hours, 2)
             rows       == CVEConsensus(c, hours)
             total      == Total([i \in DOMAIN rows |-> rows[i].count])
             M          == Mentions(c, hours)
  <1>1. limit \in Nat
    <2>1. Cardinality(Cve) \in Nat /\ Cardinality(Cve) # 0
      BY ReportsAssumption, FS_CardinalityType, FS_EmptySet
    <2>2. QED
      BY <2>1
  <1>2. IsBoard(hot, hours, limit)
    <2> HIDE DEF limit
    <2>1. QED
      BY <1>1, HottestFacts
  <1>3. /\ Len(rows) = Cardinality({corpus[a].outlet : a \in M}) /\ Len(rows) \in Nat
        /\ total = Cardinality(M)
        /\ M # {} => age(rows[1].latest) = age(Newest(M))
    BY ConsensusFacts
  <1>4. c \in DOMAIN candidates <=> Len(rows) >= 2
    BY <1>3 DEF PreKEVCandidates
  <1>5. c \in DOMAIN candidates => candidates[c] = Len(rows)
    BY <1>3 DEF PreKEVCandidates
  <1> HIDE DEF limit, hot, candidates, rows, total
  <1> USE DEF IsBoard
  <1>6. \A i \in DOMAIN hot : hot[i].cve = c =>
          hot[i].mentions = total /\ age(hot[i].latest) = age(rows[1].latest)
    BY <1>2, <1>3
  <1>7. ASSUME \A i \in DOMAIN hot : hot[i].cve # c, NEW i \in DOMAIN hot
        PROVE  total <= hot[i].mentions
    <2>1. CASE M # {}
      BY <1>2, <1>3, <1>7, <2>1
    <2>2. CASE M = {}
      <3>1. total = 0
        BY <2>2, <1>3, FS_EmptySet
      <3>2. IsFiniteSet(Mentions(hot[i].cve, hours))
        BY ShownFacts
      <3>3. hot[i].mentions \in Nat
        BY <1>2, <3>2, FS_CardinalityType
      <3>4. QED
        BY <3>1, <3>3
    <2>3. QED
      BY <2>1, <2>2
  <1>8. QED
    BY <1>4, <1>5, <1>6, <1>7 DEF hot, candidates, rows, total, limit

LEMMA TimelineHolds == ReportsInv => TimelineAgrees
  <1> SUFFICES ASSUME ReportsInv, NEW c \in Cve
               PROVE  LET events == CVETimeline(c)
                          rows   == CVEConsensus(c, LongAgo)
                          of(kind) == {i \in DOMAIN events : events[i].kind = kind}
                      IN /\ events = << >> <=> rows = << >>
                         /\ \A i, j \in DOMAIN events : i < j => age(events[i].art) >= age(events[j].art)
                         /\ \A i \in of("first_mention"), j \in DOMAIN events :
                              age(events[j].art) <= age(events[i].art)
                         /\ of("latest") # {} <=> Cardinality(Mentions(c, LongAgo)) > 1
                         /\ \A i \in of("latest") : age(events[i].art) = age(rows[1].latest)
                         /\ of("advisory") # {} <=> \E i \in DOMAIN rows : rows[i].outlet \in Psirt
    BY DEF TimelineAgrees
  <1> DEFINE all    == Mentions(c, LongAgo)
             rows   == CVEConsensus(c, LongAgo)
             F      == IF all = {} THEN {} ELSE {[kind |-> "first_mention", art |-> Oldest(all)]}
             rest   == all \ {e.art : e \in F}
             L      == IF rest = {} THEN {} ELSE {[kind |-> "latest", art |-> Newest(rest)]}
             adv    == {a \in all : corpus[a].outlet \in Psirt}
             A      == IF adv = {} THEN {} ELSE {[kind |-> "advisory", art |-> Oldest(adv)]}
             poc    == {a \in all : corpus[a].poc}
             P      == IF poc = {} THEN {} ELSE {[kind |-> "first_poc", art |-> Oldest(poc)]}
             E      == F \cup L \cup A \cup P
             key    == [e \in E |-> age(e.art)]
             tie    == [e \in E |-> 0]
             events == SortBy(E, key, tie)
  <1>1. CVETimeline(c) = events
    BY DEF CVETimeline
  <1>25. /\ \A a \in all : \E i \in DOMAIN rows : rows[i].outlet = corpus[a].outlet
         /\ \A i \in DOMAIN rows : rows[i].outlet \in {corpus[a].outlet : a \in all}
         /\ all # {} => age(rows[1].latest) = age(Newest(all))
         /\ rows = << >> <=> all = {}
    <2>1. \A a \in all : \E i \in DOMAIN rows : rows[i].outlet = corpus[a].outlet
      BY ConsensusFacts
    <2>2. \A i \in DOMAIN rows : rows[i].outlet \in {corpus[a].outlet : a \in all}
      BY ConsensusFacts
    <2>3. all # {} => age(rows[1].latest) = age(Newest(all))
      BY ConsensusFacts
    <2>4. rows = << >> <=> all = {}
      BY ConsensusFacts
    <2>5. QED
      BY <2>1, <2>2, <2>3, <2>4
  <1> HIDE DEF rows
  <1>2. all \in SUBSET Stored /\ IsFiniteSet(all) /\ \A a \in all : age(a) \in Nat
    <2>1. all \in SUBSET Stored
      BY ShownFacts
    <2>2. QED
      BY <2>1, ShownFacts, ArticleFacts
  <1> HIDE DEF all
  <1>3. /\ rest \in SUBSET Stored /\ rest \subseteq all
        /\ adv \in SUBSET Stored /\ adv \subseteq all
        /\ poc \in SUBSET Stored /\ poc \subseteq all
    BY <1>2
  <1>4. all # {} => Oldest(all) \in all /\ \A b \in all : age(b) <= age(Oldest(all))
    BY <1>2, OldestNewest
  <1>5. all # {} => Newest(all) \in all /\ \A b \in all : age(Newest(all)) <= age(b)
    BY <1>2, OldestNewest
  <1>6. rest # {} => Newest(rest) \in rest /\ \A b \in rest : age(Newest(rest)) <= age(b)
    <2> HIDE DEF rest
    <2>1. QED
      BY <1>3, OldestNewest
  <1>7. (adv # {} => Oldest(adv) \in adv) /\ (poc # {} => Oldest(poc) \in poc)
    <2> HIDE DEF adv, poc
    <2>1. QED
      BY <1>3, OldestNewest
  <1>8. all # {} => rest = all \ {Oldest(all)}
    <2> DEFINE e == [kind |-> "first_mention", art |-> Oldest(all)]
    <2>1. e.art = Oldest(all) /\ (all # {} => F = {e})
      OBVIOUS
    <2> HIDE DEF F, e
    <2>2. all # {} => {d.art : d \in F} = {Oldest(all)}
      BY <2>1
    <2>3. QED
      BY <2>2
  <1>9. \A e \in F : all # {} /\ e.kind = "first_mention" /\ e.art = Oldest(all)
    OBVIOUS
  <1>10. all # {} => F # {}
    OBVIOUS
  <1> HIDE DEF F
  <1>11. rest # {} => L = {[kind |-> "latest", art |-> Newest(rest)]}
    OBVIOUS
  <1>12. \A e \in L : rest # {} /\ e.kind = "latest" /\ e.art = Newest(rest)
    OBVIOUS
  <1>13. \A e \in A : adv # {} /\ e.kind = "advisory" /\ e.art = Oldest(adv)
    OBVIOUS
  <1>14. \A e \in P : poc # {} /\ e.kind = "first_poc" /\ e.art = Oldest(poc)
    OBVIOUS
  <1>15. adv # {} => A # {}
    OBVIOUS
  <1>16. IsFiniteSet(F) /\ IsFiniteSet(L) /\ IsFiniteSet(A) /\ IsFiniteSet(P)
    BY FS_EmptySet, FS_Singleton DEF F
  <1> HIDE DEF rest, L, adv, A, poc, P
  <1>17. IsFiniteSet(E)
    BY <1>16, FS_Union
  <1>18. \A e \in E : e.art \in all
    BY <1>3, <1>4, <1>6, <1>7, <1>9, <1>12, <1>13, <1>14
  <1>19. key \in [E -> Int] /\ tie \in [E -> Int] /\ \A e \in E : key[e] = age(e.art)
    BY <1>2, <1>18
  <1>20. /\ \A e \in E : e.kind = "first_mention" => e \in F
         /\ \A e \in E : e.kind = "latest" => e \in L
         /\ \A e \in E : e.kind = "advisory" => e \in A
         /\ F \subseteq E /\ L \subseteq E /\ A \subseteq E
    BY <1>9, <1>12, <1>13, <1>14
  <1>21. E = {} <=> all = {}
    BY <1>10, <1>18
  <1> HIDE DEF key, tie, E
  <1>22. /\ events \in Seq(E) /\ Len(events) = Cardinality(E) /\ DOMAIN events = 1..Cardinality(E)
         /\ \A e \in E : \E i \in DOMAIN events : events[i] = e
         /\ \A i, j \in DOMAIN events : i < j =>
              /\ events[i] # events[j]
              /\ \/ key[events[i]] > key[events[j]]
                 \/ key[events[i]] = key[events[j]] /\ tie[events[i]] >= tie[events[j]]
    BY <1>17, <1>19, Sorted
  <1>23. Cardinality(E) \in Nat
    BY <1>17, FS_CardinalityType
  <1> HIDE DEF events
  <1>24. \A i \in DOMAIN events : events[i] \in E
    BY <1>22, <1>23
  <1>26. events = << >> <=> rows = << >>
    <2>1. events = << >> <=> E = {}
      <3>1. CASE E = {}
        BY <1>22, <3>1, FS_EmptySet
      <3>2. CASE E # {}
        BY <1>22, <3>2
      <3>3. QED
        BY <3>1, <3>2
    <2>2. QED
      BY <1>21, <1>25, <2>1
  <1>27. ASSUME NEW i \in DOMAIN events, NEW j \in DOMAIN events, i < j
         PROVE  age(events[i].art) >= age(events[j].art)
    <2>1. key[events[i]] > key[events[j]] \/ key[events[i]] = key[events[j]]
      BY <1>22, <1>27
    <2>2. key[events[i]] = age(events[i].art) /\ key[events[j]] = age(events[j].art)
      BY <1>19, <1>24
    <2>3. age(events[i].art) \in Nat /\ age(events[j].art) \in Nat
      BY <1>2, <1>18, <1>24
    <2>4. QED
      BY <2>1, <2>2, <2>3
  <1>28. ASSUME NEW i \in DOMAIN events, events[i].kind = "first_mention", NEW j \in DOMAIN events
         PROVE  age(events[j].art) <= age(events[i].art)
    BY <1>4, <1>9, <1>18, <1>20, <1>24, <1>28
  <1>29. (\E i \in DOMAIN events : events[i].kind = "latest") <=> rest # {}
    <2>1. ASSUME rest # {} PROVE \E i \in DOMAIN events : events[i].kind = "latest"
      <3>1. PICK e \in L : TRUE
        BY <1>11, <2>1
      <3>2. QED
        BY <1>12, <1>20, <1>22, <3>1
    <2>2. QED
      BY <1>12, <1>20, <1>24, <2>1
  <1>30. rest # {} <=> Cardinality(all) > 1
    <2>1. CASE all = {}
      BY <1>3, <2>1, FS_EmptySet
    <2>2. CASE all # {}
      <3>1. Cardinality(rest) = Cardinality(all) - 1 /\ Cardinality(all) \in Nat /\ IsFiniteSet(rest)
        BY <1>2, <1>4, <1>8, <2>2, FS_RemoveElement, FS_CardinalityType
      <3>2. Cardinality(rest) \in Nat /\ (Cardinality(rest) = 0 <=> rest = {})
        BY <3>1, FS_EmptySet, FS_CardinalityType
      <3>3. QED
        BY <3>1, <3>2
    <2>3. QED
      BY <2>1, <2>2
  <1>31. ASSUME NEW i \in DOMAIN events, events[i].kind = "latest"
         PROVE  age(events[i].art) = age(rows[1].latest)
    <2>1. events[i].art = Newest(rest) /\ rest # {}
      BY <1>12, <1>20, <1>24, <1>31
    <2>2. all # {} /\ Newest(rest) \in all /\ Newest(all) \in all /\ Oldest(all) \in all
      BY <1>3, <1>4, <1>5, <1>6, <2>1
    <2>3. age(Newest(all)) <= age(Newest(rest))
      BY <1>5, <2>2
    <2>4. age(Newest(rest)) <= age(Newest(all))
      <3>1. CASE Newest(all) \in rest
        BY <1>6, <3>1
      <3>2. CASE Newest(all) \notin rest
        BY <1>4, <1>8, <2>2, <3>2
      <3>3. QED
        BY <3>1, <3>2
    <2>5. age(Newest(all)) \in Nat /\ age(Newest(rest)) \in Nat
      BY <1>2, <2>2
    <2>6. QED
      BY <1>25, <2>1, <2>2, <2>3, <2>4, <2>5
  <1>32. (\E i \in DOMAIN events : events[i].kind = "advisory") <=> adv # {}
    <2>1. ASSUME adv # {} PROVE \E i \in DOMAIN events : events[i].kind = "advisory"
      <3>1. PICK e \in A : TRUE
        BY <1>15, <2>1
      <3>2. QED
        BY <1>13, <1>20, <1>22, <3>1
    <2>2. QED
      BY <1>13, <1>20, <1>24, <2>1
  <1>33. adv # {} <=> \E i \in DOMAIN rows : rows[i].outlet \in Psirt
    BY <1>25 DEF adv
  <1>34. QED
    BY <1>1, <1>26, <1>27, <1>28, <1>29, <1>30, <1>31, <1>32, <1>33 DEF all, rows

-----------------------------------------------------------------------------
(* The windows of the dashboard *)

\* The baseline is a month for a window of a day or a week.
LEMMA ShortBaselines == BaselineDays(24) = 30 /\ BaselineDays(168) = 30
  BY DEF BaselineDays

\* What was published since, and how much on each of seven days.
Since(S, n) == {a \in S : age(a) < n}
ByDay(S)    == [b \in 0 .. 6 |-> Cardinality({a \in S : age(a) \div 24 = 6 - b})]

LEMMA WindowFacts ==
  ASSUME ReportsInv, NEW t, NEW n, NEW days, NEW S, S = Tagged(t, 24 * days)
  PROVE  /\ MitreRawCounts(t, n, days).baseline = S
         /\ MitreRawCounts(t, n, days).window = Since(S, n)
         /\ MitreRawCounts(t, n, days).previous = Since(S, 2 * n) \ Since(S, n)
         /\ MitreRawCounts(t, n, days).buckets = ByDay(S)
         /\ MitreRawCounts(t, n, days).firstSeen = {age(Oldest(S)) : a \in S}
  <1>1. S \subseteq Stored
    BY ShownFacts
  <1>2. S \cap After(n) = Since(S, n) /\ S \cap After(2 * n) = Since(S, 2 * n)
    BY <1>1 DEF After, Since
  <1>3. MitreRawCounts(t, n, days) =
          [baseline |-> S, window |-> S \cap After(n),
           previous |-> (S \cap After(2 * n)) \ (S \cap After(n)),
           buckets  |-> ByDay(S), firstSeen |-> {age(Oldest(S)) : a \in S}]
    BY DEF MitreRawCounts, ByDay
  <1>4. QED
    BY <1>2, <1>3

LEMMA TaggedSince ==
  ASSUME ReportsInv, NEW t, NEW n
  PROVE  /\ Tagged(t, n) \in SUBSET Stored /\ IsFiniteSet(Tagged(t, n))
         /\ \A a : a \in Tagged(t, n) <=>
                     a \in Stored /\ ~ corpus[a].dup /\ age(a) <= n /\ t \in corpus[a].ttps
  <1>1. Tagged(t, n) \in SUBSET Stored
    BY ShownFacts
  <1>2. QED
    BY <1>1, ShownFacts DEF Tagged, Shown

LEMMA WholeDays ==
  ASSUME NEW x \in Nat
  PROVE  /\ x \div 24 \in Nat
         /\ x \div 24 = 0 <=> x < 24
         /\ x \div 24 <= 6 <=> x < 168
  OBVIOUS

LEMMA SparklineHolds == ReportsInv => SparklineAgrees
  <1> SUFFICES ASSUME ReportsInv, NEW t \in Technique
               PROVE  LET day  == MitreRawCounts(t, 24, 30)
                          week == MitreRawCounts(t, 168, 30)
                          points == Total(day.buckets)
                      IN /\ day.buckets[6] = Cardinality(day.window)
                         /\ points = Cardinality(week.window)
                         /\ IsFresh(t, hours) /\ BaselineDays(hours) >= 30 =>
                              points = Cardinality(week.baseline)
    BY ShortBaselines DEF SparklineAgrees
  <1> DEFINE base    == Tagged(t, 720)
             bins == ByDay(base)
             lately  == Since(base, 168)
             today   == Since(base, 24)
  <1>1. base = Tagged(t, 24 * 30)
    <2>1. 24 * 30 = 720
      OBVIOUS
    <2>2. QED
      BY <2>1
  <1> HIDE DEF base
  <1>2. MitreRawCounts(t, 24, 30).buckets = bins /\ MitreRawCounts(t, 24, 30).window = today
    BY <1>1, WindowFacts
  <1>3. MitreRawCounts(t, 168, 30).window = lately /\ MitreRawCounts(t, 168, 30).baseline = base
    BY <1>1, WindowFacts
  <1>4. base \in SUBSET Stored /\ IsFiniteSet(base) /\ \A a \in base : age(a) \in Nat
    BY TaggedSince, ArticleFacts DEF base
  <1> USE DEF Since, ByDay
  <1>5. IsFiniteSet(lately) /\ lately \in SUBSET base
    BY <1>4, FS_Subset
  <1>6. \A a \in base : /\ age(a) \div 24 \in Nat /\ (age(a) \div 24 = 0 <=> age(a) < 24)
                        /\ age(a) \div 24 <= 6 <=> age(a) < 168
    BY <1>4, WholeDays
  <1>7. bins[6] = Cardinality(today)
    <2>1. {a \in base : age(a) \div 24 = 6 - 6} = today
      BY <1>6
    <2>2. QED
      BY <2>1
  <1>8. Total(bins) = Cardinality(lately)
    <2> DEFINE D   == 0 .. 6
               day == [a \in lately |-> 6 - (age(a) \div 24)]
    <2>1. day \in [lately -> D]
      <3>1. \A a \in lately : 6 - (age(a) \div 24) \in 0 .. 6
        BY <1>6
      <3>2. QED
        BY <3>1
    <2>2. \A b \in 0 .. 6 : {a \in lately : day[a] = b} = {a \in base : age(a) \div 24 = 6 - b}
      BY <1>6
    <2>3. bins \in [D -> Nat]
      <3>1. ASSUME NEW b \in 0 .. 6
            PROVE  Cardinality({a \in base : age(a) \div 24 = 6 - b}) \in Nat
        <4>1. {a \in base : age(a) \div 24 = 6 - b} \in SUBSET base
          OBVIOUS
        <4>2. QED
          BY <1>4, <4>1, FS_Subset, FS_CardinalityType
      <3>2. QED
        BY <3>1
    <2>4. \A b \in D : bins[b] = Cardinality({a \in lately : day[a] = b})
      <3>1. ASSUME NEW b \in 0 .. 6
            PROVE  bins[b] = Cardinality({a \in lately : day[a] = b})
        <4>1. bins[b] = Cardinality({a \in base : age(a) \div 24 = 6 - b})
          OBVIOUS
        <4>2. {a \in lately : day[a] = b} = {a \in base : age(a) \div 24 = 6 - b}
          BY <2>2
        <4> HIDE DEF day, lately, bins
        <4>3. QED
          BY <4>1, <4>2
      <3> HIDE DEF day, lately, bins
      <3>2. QED
        BY <3>1
    <2> HIDE DEF D, day, lately, bins
    <2>5. CountsParts(bins, lately, day, D)
      BY <2>4 DEF CountsParts
    <2>6. IsFiniteSet(lately)
      BY <1>5
    <2>7. QED
      BY <2>1, <2>3, <2>5, <2>6, TotalOfParts
  <1>9. ASSUME IsFresh(t, hours), BaselineDays(hours) >= 30
        PROVE  lately = base
    <2> HIDE DEF Since, ByDay
    <2> DEFINE d   == BaselineDays(hours)
               far == Tagged(t, 24 * d)
    <2>1. /\ MitreRawCounts(t, hours, d).window = Since(far, hours)
          /\ MitreRawCounts(t, hours, d).firstSeen = {age(Oldest(far)) : a \in far}
      BY WindowFacts
    <2>2. far # {} /\ age(Oldest(far)) < 168
      <3>1. /\ Since(far, hours) # {}
            /\ \A f \in {age(Oldest(far)) : a \in far} : f < 7 * 24
        BY <1>9, <2>1 DEF IsFresh
      <3> HIDE DEF far
      <3>2. QED
        BY <3>1 DEF Since
    <2>3. \A b \in far : age(b) <= age(Oldest(far)) /\ age(Oldest(far)) \in Nat
      BY <2>2, TaggedSince, OldestNewest, ArticleFacts
    <2>4. d \in Int
      BY ArticleFacts DEF BaselineDays
    <2>5. base \subseteq far
      <3>1. ASSUME NEW a \in base PROVE a \in far
        <4>1. age(a) <= 720 /\ age(a) \in Nat /\ d >= 30
          BY <1>4, <1>9, TaggedSince DEF base
        <4> HIDE DEF d
        <4>2. age(a) <= 24 * d
          BY <2>4, <4>1
        <4>3. QED
          BY <4>2, TaggedSince DEF base
      <3>2. QED
        BY <3>1
    <2> HIDE DEF far
    <2>6. \A a \in base : age(a) < 168
      BY <1>4, <2>2, <2>3, <2>5
    <2>7. QED
      BY <2>6 DEF Since
  <1> HIDE DEF Since, ByDay, bins, lately, today
  <1>10. QED
    BY <1>2, <1>3, <1>7, <1>8, <1>9

LEMMA PreviousHolds == ReportsInv => PreviousIsWhole
  <1> SUFFICES ASSUME ReportsInv, hours <= 168 \/ (hours % 24 = 0 /\ hours <= 2160), NEW t \in Technique
               PROVE  MitreRawCounts(t, hours, BaselineDays(hours)).previous =
                        {a \in Tagged(t, LongAgo) : age(a) \in hours .. 2 * hours - 1}
    BY DEF PreviousIsWhole
  <1> DEFINE d == BaselineDays(hours)
  <1>1. hours \in Nat /\ hours > 0 /\ LongAgo \in Nat
    BY ArticleFacts
  <1>2. d \in Int /\ 2 * hours <= 24 * d
    <2>1. CASE hours <= 168
      BY <1>1, <2>1 DEF BaselineDays
    <2>2. CASE ~ (hours <= 168)
      <3>1. hours % 24 = 0 /\ hours <= 2160
        BY <2>2
      <3>2. hours \div 24 \in Int /\ hours = 24 * (hours \div 24)
        BY <1>1, <3>1
      <3>3. d = (hours \div 24) * 2
        BY <1>1, <2>2, <3>1, <3>2 DEF BaselineDays
      <3>4. QED
        BY <3>2, <3>3
    <2>3. QED
      BY <2>1, <2>2
  <1>3. MitreRawCounts(t, hours, d).previous =
          Since(Tagged(t, 24 * d), 2 * hours) \ Since(Tagged(t, 24 * d), hours)
    BY WindowFacts
  <1> HIDE DEF d
  <1>4. ASSUME NEW a \in Stored
        PROVE  /\ age(a) \in Nat /\ age(a) <= LongAgo
               /\ age(a) \in hours .. 2 * hours - 1 <=> age(a) < 2 * hours /\ ~ (age(a) < hours)
               /\ age(a) < 2 * hours => age(a) <= 24 * d
    <2>1. age(a) \in Nat /\ age(a) <= LongAgo
      BY ArticleFacts
    <2>2. QED
      BY <1>1, <1>2, <2>1
  <1>5. \A a : a \in Tagged(t, 24 * d) /\ age(a) < 2 * hours /\ ~ (age(a) < hours) <=>
               a \in Tagged(t, LongAgo) /\ age(a) \in hours .. 2 * hours - 1
    BY <1>4, TaggedSince
  <1>6. QED
    BY <1>3, <1>5 DEF d, Since

-----------------------------------------------------------------------------
(* The modal of a technique *)

\* Unless more than Pull articles match the prefix, the modal lists the worst of
\* those with the tag, and all of them when it may list so many.
LEMMA ModalFacts ==
  ASSUME ReportsInv, NEW t, NEW n, NEW limit \in Nat
  PROVE  /\ ToSet(ArticlesForTechnique(t, n, limit)) \subseteq Tagged(t, n)
         /\ Cardinality(Like(t, n)) <= Pull =>
              \A a \in ToSet(ArticlesForTechnique(t, n, limit)) :
                \A b \in Tagged(t, n) \ ToSet(ArticlesForTechnique(t, n, limit)) :
                  corpus[a].score >= corpus[b].score
         /\ Cardinality(Like(t, n)) <= Pull /\ Pull <= limit =>
              /\ ToSet(ArticlesForTechnique(t, n, limit)) = Tagged(t, n)
              /\ Len(ArticlesForTechnique(t, n, limit)) = Cardinality(Tagged(t, n))
  <1> DEFINE like   == Like(t, n)
             young  == [a \in like |-> -age(a)]
             newest == Top(NewestFirst(like), Pull)
             S      == ToSet(newest) \cap Tagged(t, n)
             bad    == [a \in S |-> corpus[a].score]
             later  == [a \in S |-> -age(a)]
             modal  == Top(BySeverity(S), limit)
  <1>1. ArticlesForTechnique(t, n, limit) = modal
    BY DEF ArticlesForTechnique
  <1>2. /\ like \in SUBSET Stored /\ IsFiniteSet(like) /\ Tagged(t, n) \subseteq like
        /\ Cardinality(like) \in Nat
    <2>1. like \in SUBSET Stored /\ Tagged(t, n) \subseteq like
      BY DEF Like, Shown, Tagged
    <2>2. QED
      BY <2>1, ShownFacts, FS_CardinalityType
  <1>3. Pull \in Nat
    BY ReportsAssumption
  <1>4. ListsTop(newest, like, young, Pull)
    <2>1. [a \in like |-> -age(a)] \in [like -> Int] /\ [a \in like |-> 0] \in [like -> Int]
      BY <1>2, ShownFacts
    <2> HIDE DEF like
    <2>2. QED
      BY <1>2, <1>3, <2>1, TopSorted DEF NewestFirst
  <1>5. S \in SUBSET Stored /\ S \subseteq Tagged(t, n) /\ IsFiniteSet(S) /\ Cardinality(S) \in Nat
    <2>1. S \in SUBSET Stored /\ S \subseteq Tagged(t, n)
      BY <1>2
    <2> HIDE DEF S
    <2>2. QED
      BY <2>1, ShownFacts, FS_CardinalityType
  <1>6. Cardinality(like) <= Pull => S = Tagged(t, n)
    <2> HIDE DEF like, young, newest
    <2>1. Cardinality(like) <= Pull => \A a \in like : a \in ToSet(newest)
      BY <1>4 DEF ListsTop, ToSet
    <2>2. QED
      BY <1>2, <2>1
  <1> HIDE DEF S
  <1>7. ListsTop(modal, S, bad, limit)
    <2>1. bad \in [S -> Int] /\ later \in [S -> Int]
      BY <1>5, ShownFacts
    <2>2. QED
      BY <1>5, <2>1, TopSorted DEF BySeverity
  <1>8. \A a \in S : bad[a] = corpus[a].score
    OBVIOUS
  <1> HIDE DEF modal, bad
  <1>9. ToSet(modal) \subseteq S
    BY <1>7 DEF ListsTop, ToSet
  <1>10. \A a \in ToSet(modal) : \A b \in S \ ToSet(modal) : corpus[a].score >= corpus[b].score
    <2>1. ASSUME NEW a \in ToSet(modal), NEW b \in S \ ToSet(modal)
          PROVE  bad[a] >= bad[b]
      BY <1>7, <2>1 DEF ListsTop, ToSet
    <2>2. QED
      BY <1>8, <1>9, <2>1
  <1>11. Cardinality(S) <= limit => ToSet(modal) = S /\ Len(modal) = Cardinality(S)
    <2>1. Cardinality(S) <= limit => \A a \in S : a \in ToSet(modal)
      BY <1>7 DEF ListsTop, ToSet
    <2>2. Cardinality(S) <= limit => Len(modal) = Cardinality(S)
      BY <1>5, <1>7 DEF ListsTop
    <2>3. QED
      BY <1>9, <2>1, <2>2
  <1>12. Cardinality(like) <= Pull /\ Pull <= limit => Cardinality(S) <= limit
    <2>1. S \in SUBSET like
      BY <1>2, <1>5
    <2>2. Cardinality(S) <= Cardinality(like)
      BY <1>2, <2>1, FS_Subset
    <2>3. QED
      BY <1>2, <1>3, <1>5, <2>2
  <1>13. QED
    BY <1>1, <1>5, <1>6, <1>9, <1>10, <1>11, <1>12

LEMMA SeverityHolds == ReportsInv => SeverityFirst
  <1> SUFFICES ASSUME ReportsInv, NEW t \in Technique, Cardinality(Like(t, hours)) <= Pull
               PROVE  LET shown == ToSet(ArticlesForTechnique(t, hours, Pull - 1))
                          all   == ToSet(ArticlesForTechnique(t, hours, Pull))
                      IN /\ \A a \in shown, b \in Tagged(t, hours) \ shown :
                              corpus[a].score >= corpus[b].score
                         /\ MitreTechniqueCoMentions(t, hours) =
                              [c \in UNION {corpus[a].cves : a \in all} |->
                                 Cardinality({a \in all : c \in corpus[a].cves})]
    BY DEF SeverityFirst
  <1>1. Pull \in Nat /\ Pull - 1 \in Nat
    BY ReportsAssumption
  <1>2. \A a \in ToSet(ArticlesForTechnique(t, hours, Pull - 1)) :
          \A b \in Tagged(t, hours) \ ToSet(ArticlesForTechnique(t, hours, Pull - 1)) :
            corpus[a].score >= corpus[b].score
    BY <1>1, ModalFacts
  <1> DEFINE T       == Tagged(t, hours)
             with(c) == {a \in T : c \in corpus[a].cves}
  <1>3. ToSet(ArticlesForTechnique(t, hours, Pull)) = T
    BY <1>1, ModalFacts
  <1>4. \A a \in T : corpus[a].cves \subseteq Cve
    BY TaggedSince, ArticleFacts
  <1>5. MitreTechniqueCoMentions(t, hours) = [c \in {d \in Cve : with(d) # {}} |-> Cardinality(with(c))]
    BY DEF MitreTechniqueCoMentions
  <1> HIDE DEF T
  <1>6. {d \in Cve : with(d) # {}} = UNION {corpus[a].cves : a \in T}
    BY <1>4
  <1>7. QED
    BY <1>2, <1>3, <1>5, <1>6

LEMMA ModalsAgreeHolds == ReportsInv => ModalsAgree
  <1> SUFFICES ASSUME ReportsInv, NEW t \in Technique, NEW u \in Technique,
                      u \in DOMAIN SubTechniques(t, hours, Pull),
                      Cardinality(Like(u, hours)) <= Pull
               PROVE  SubTechniques(t, hours, Pull)[u] <= Len(ArticlesForTechnique(u, hours, Pull))
    BY DEF ModalsAgree
  <1> DEFINE listed    == ToSet(ArticlesForTechnique(t, hours, Pull))
             tagged(v) == {a \in listed : v \in corpus[a].ttps}
  <1>1. Pull \in Nat
    BY ReportsAssumption
  <1>2. SubTechniques(t, hours, Pull)[u] = Cardinality(tagged(u))
    BY DEF SubTechniques
  <1>3. listed \subseteq Tagged(t, hours)
    BY <1>1, ModalFacts
  <1> HIDE DEF listed
  <1>4. tagged(u) \in SUBSET Tagged(u, hours)
    BY <1>3, TaggedSince
  <1> HIDE DEF tagged
  <1>5. IsFiniteSet(Tagged(u, hours))
    BY TaggedSince
  <1>6. Cardinality(tagged(u)) <= Cardinality(Tagged(u, hours))
    BY <1>4, <1>5, FS_Subset
  <1>7. Len(ArticlesForTechnique(u, hours, Pull)) = Cardinality(Tagged(u, hours))
    BY <1>1, ModalFacts
  <1>8. QED
    BY <1>2, <1>6, <1>7

-----------------------------------------------------------------------------
(* The feed and the CVEs that may soon be listed *)

\* A feed that is not cut short has all that is visible to who asks.
LEMMA FeedFacts ==
  ASSUME ReportsInv, NEW r, NEW since
  PROVE  \A a : a \in ToSet(Feed(r, since, Cardinality(Art))) <=>
                  /\ a \in Stored /\ ~ corpus[a].dup /\ age(a) <= FeedHours(r, since)
                  /\ corpus[a].outlet \in Author => corpus[a].outlet \in VisibleBskySources(r)
  <1> DEFINE S     == {a \in Shown(FeedHours(r, since)) :
                         corpus[a].outlet \in Author => corpus[a].outlet \in VisibleBskySources(r)}
             young == [a \in S |-> -age(a)]
             worst == [a \in S |-> corpus[a].score]
             n     == Cardinality(Art)
             feed  == Top(SortBy(S, young, worst), n)
  <1>1. Feed(r, since, n) = feed
    BY DEF Feed
  <1>2. S \in SUBSET Stored
    BY DEF Shown
  <1>3. \A a : a \in S <=>
                  /\ a \in Stored /\ ~ corpus[a].dup /\ age(a) <= FeedHours(r, since)
                  /\ corpus[a].outlet \in Author => corpus[a].outlet \in VisibleBskySources(r)
    BY DEF Shown
  <1> HIDE DEF S
  <1>4. IsFiniteSet(S) /\ young \in [S -> Int] /\ worst \in [S -> Int]
    BY <1>2, ShownFacts
  <1>5. S \in SUBSET Art /\ IsFiniteSet(Art)
    BY <1>2, ArticleFacts, ReportsAssumption
  <1>6. n \in Nat /\ Cardinality(S) <= n
    BY <1>5, FS_Subset, FS_CardinalityType
  <1> HIDE DEF n, young, worst
  <1>7. ListsTop(feed, S, young, n)
    BY <1>4, <1>6, TopSorted
  <1> HIDE DEF feed
  <1>8. ToSet(feed) = S
    BY <1>6, <1>7 DEF ListsTop, ToSet
  <1>9. QED
    BY <1>1, <1>3, <1>8 DEF n

\* A row has the outlets of its CVE and the newest mention, and none with fewer
\* outlets comes before one with more.
LEMMA PreKEVFacts ==
  ASSUME ReportsInv, NEW n, NEW min \in Nat, min > 0
  PROVE  LET raw  == PreKEVCandidates(n, min)
             rows == PreKEVRows(n, min)
         IN  /\ DOMAIN rows = 1..Len(rows) /\ Len(rows) \in Nat
             /\ \A i \in DOMAIN rows : /\ rows[i].cve \in DOMAIN raw \ Listed
                                       /\ rows[i].outlets = raw[rows[i].cve]
                                       /\ rows[i].latest = {Newest(Mentions(rows[i].cve, n))}
             /\ \A c \in DOMAIN raw \ Listed : \E i \in DOMAIN rows : rows[i].cve = c
             /\ \A i, j \in DOMAIN rows : i < j => rows[i].outlets >= rows[j].outlets
  <1> DEFINE raw    == PreKEVCandidates(n, min)
             hot    == HottestCVEs(n, Cardinality(Cve))
             last(c) == {h.latest : h \in {g \in ToSet(hot) : g.cve = c}}
             row(c) == [cve |-> c, outlets |-> raw[c], latest |-> last(c)]
             C      == DOMAIN raw \ Listed
             R      == {row(c) : c \in C}
             key    == [x \in R |-> x.outlets]
             tie    == [x \in R |-> Percentile[x.cve]]
             rows   == SortBy(R, key, tie)
  <1>1. PreKEVRows(n, min) = rows
    BY DEF PreKEVRows
  <1>2. C \in SUBSET Cve /\ IsFiniteSet(C)
    <2>1. C \in SUBSET Cve
      BY DEF PreKEVCandidates
    <2>2. QED
      BY <2>1, ReportsAssumption, FS_Subset
  <1>3. \A c \in C : raw[c] \in Nat /\ Mentions(c, n) # {}
    <2>1. ASSUME NEW c \in C PROVE raw[c] \in Nat /\ Mentions(c, n) # {}
      <3> DEFINE O == {corpus[a].outlet : a \in Mentions(c, n)}
      <3>1. raw[c] = Cardinality(O) /\ Cardinality(O) >= min
        BY DEF PreKEVCandidates
      <3>2. IsFiniteSet(O)
        BY ConsensusFacts
      <3>3. Cardinality(O) \in Nat /\ (O = {} => Cardinality(O) = 0)
        BY <3>2, FS_CardinalityType, FS_EmptySet
      <3>4. O # {}
        <4> HIDE DEF O
        <4>1. QED
          BY <3>1, <3>3
      <3>5. QED
        BY <3>1, <3>3, <3>4
    <2>2. QED
      BY <2>1
  <1>4. Cardinality(Cve) \in Nat
    BY ReportsAssumption, FS_CardinalityType
  <1>5. /\ \A i \in DOMAIN hot : hot[i].latest = Newest(Mentions(hot[i].cve, n))
        /\ \A c \in Cve : Mentions(c, n) # {} => \E i \in DOMAIN hot : hot[i].cve = c
    <2>1. IsBoard(hot, n, Cardinality(Cve))
      BY <1>4, HottestFacts
    <2>2. Cardinality(Cve) <= Cardinality(Cve)
      BY <1>4
    <2> HIDE DEF hot
    <2>3. QED
      BY <2>1, <2>2 DEF IsBoard
  <1> HIDE DEF hot
  <1>6. \A c \in C : last(c) = {Newest(Mentions(c, n))}
    <2>1. ASSUME NEW c \in C PROVE last(c) = {Newest(Mentions(c, n))}
      <3>1. PICK i \in DOMAIN hot : hot[i].cve = c
        BY <1>2, <1>3, <1>5
      <3>2. hot[i] \in {g \in ToSet(hot) : g.cve = c} /\ hot[i].latest = Newest(Mentions(c, n))
        BY <1>5, <3>1 DEF ToSet
      <3>3. \A g \in {g \in ToSet(hot) : g.cve = c} : g.latest = Newest(Mentions(c, n))
        BY <1>5 DEF ToSet
      <3>4. QED
        BY <3>2, <3>3
    <2>2. QED
      BY <2>1
  <1>7. \A c : row(c).cve = c /\ row(c).outlets = raw[c] /\ row(c).latest = last(c)
    OBVIOUS
  <1> HIDE DEF row, last, C, raw
  <1>8. IsFiniteSet(R)
    <2> DEFINE f == [c \in C |-> row(c)]
    <2>1. f \in Surjection(C, R)
      BY DEF Surjection
    <2> HIDE DEF f, R
    <2>2. QED
      BY <1>2, <2>1, FS_Surjection
  <1>9. key \in [R -> Int] /\ tie \in [R -> Int]
    <2>1. \A x \in R : x.outlets \in Nat /\ x.cve \in Cve
      BY <1>2, <1>3, <1>7
    <2>2. \A x \in R : Percentile[x.cve] \in Nat
      BY <2>1, DashboardAssumption
    <2>3. QED
      BY <2>1, <2>2
  <1>10. /\ \A x \in R : key[x] = x.outlets /\ x.outlets \in Nat /\ \E c \in C : x = row(c)
         /\ \A c \in C : row(c) \in R
    BY <1>3, <1>7
  <1> HIDE DEF key, tie, R
  <1>11. /\ rows \in Seq(R) /\ Len(rows) = Cardinality(R) /\ DOMAIN rows = 1..Cardinality(R)
         /\ \A x \in R : \E i \in DOMAIN rows : rows[i] = x
         /\ \A i, j \in DOMAIN rows : i < j =>
              /\ rows[i] # rows[j]
              /\ \/ key[rows[i]] > key[rows[j]]
                 \/ key[rows[i]] = key[rows[j]] /\ tie[rows[i]] >= tie[rows[j]]
    BY <1>8, <1>9, Sorted
  <1>12. Cardinality(R) \in Nat
    BY <1>8, FS_CardinalityType
  <1> HIDE DEF rows
  <1>13. \A i \in DOMAIN rows : rows[i] \in R /\ \E c \in C : rows[i] = row(c)
    <2>1. \A i \in DOMAIN rows : rows[i] \in R
      BY <1>11, <1>12
    <2>2. QED
      BY <1>10, <2>1
  <1>14. \A i \in DOMAIN rows : /\ rows[i].cve \in C /\ rows[i].outlets = raw[rows[i].cve]
                                /\ rows[i].latest = {Newest(Mentions(rows[i].cve, n))}
    BY <1>6, <1>7, <1>13
  <1>15. \A c \in C : \E i \in DOMAIN rows : rows[i].cve = c
    BY <1>7, <1>10, <1>11
  <1>16. ASSUME NEW i \in DOMAIN rows, NEW j \in DOMAIN rows, i < j
         PROVE  rows[i].outlets >= rows[j].outlets
    <2>1. key[rows[i]] > key[rows[j]] \/ key[rows[i]] = key[rows[j]]
      BY <1>11, <1>16
    <2>2. /\ key[rows[i]] = rows[i].outlets /\ rows[i].outlets \in Nat
          /\ key[rows[j]] = rows[j].outlets /\ rows[j].outlets \in Nat
      BY <1>10, <1>13
    <2>3. QED
      BY <2>1, <2>2
  <1>17. QED
    BY <1>1, <1>11, <1>12, <1>14, <1>15, <1>16 DEF C, raw

LEMMA FeedHolds == ReportsInv => FeedAgrees
  <1> SUFFICES ASSUME ReportsInv, NEW since \in {hours, LongAgo}
               PROVE  LET feed(r) == ToSet(Feed(r, since, Cardinality(Art))) IN
                      /\ \A r, s \in Reader :
                           /\ r.follows = s.follows /\ ~ r.pro /\ s.pro =>
                                feed(r) = {a \in feed(s) : age(a) <= FreeHours}
                           /\ r.follows \subseteq s.follows /\ r.pro = s.pro =>
                                feed(r) = {a \in feed(s) :
                                             corpus[a].outlet \notin (s.follows \ r.follows) \ Baseline}
                      /\ LET rows == PreKEVRows(CrossHours, Crossing) IN
                         \A a \in UNION {feed(r) : r \in Reader} :
                           Badges(a) = corpus[a].cves \cap {rows[i].cve : i \in DOMAIN rows}
    BY DEF FeedAgrees
  <1> DEFINE feed(r) == ToSet(Feed(r, since, Cardinality(Art)))
  <1>1. since \in Nat /\ FreeHours \in Nat
    BY ArticleFacts, DashboardAssumption
  <1>2. \A a \in Stored : age(a) \in Nat
    BY ArticleFacts
  <1>3. \A r \in Reader : r.pro \in BOOLEAN /\ r.follows \subseteq Author
    BY DashboardAssumption
  <1>4. \A r : \A a : a \in feed(r) <=>
                  /\ a \in Stored /\ ~ corpus[a].dup /\ age(a) <= FeedHours(r, since)
                  /\ corpus[a].outlet \in Author => corpus[a].outlet \in VisibleBskySources(r)
    BY FeedFacts
  <1> HIDE DEF feed
  <1>5. ASSUME NEW r \in Reader, NEW s \in Reader, r.follows = s.follows, ~ r.pro, s.pro
        PROVE  feed(r) = {a \in feed(s) : age(a) <= FreeHours}
    <2>1. VisibleBskySources(r) = VisibleBskySources(s)
      BY <1>5 DEF VisibleBskySources
    <2>2. FeedHours(s, since) = since /\ FeedHours(r, since) = IF since < FreeHours THEN since ELSE FreeHours
      BY <1>5 DEF FeedHours
    <2>3. \A a \in Stored : age(a) <= FeedHours(r, since) <=>
                              age(a) <= FeedHours(s, since) /\ age(a) <= FreeHours
      BY <1>1, <1>2, <2>2
    <2>4. QED
      BY <1>4, <2>1, <2>3
  <1>6. ASSUME NEW r \in Reader, NEW s \in Reader, r.follows \subseteq s.follows, r.pro = s.pro
        PROVE  feed(r) = {a \in feed(s) : corpus[a].outlet \notin (s.follows \ r.follows) \ Baseline}
    <2>1. FeedHours(r, since) = FeedHours(s, since)
      BY <1>6 DEF FeedHours
    <2>2. \A o : o \in VisibleBskySources(r) <=>
                   o \in VisibleBskySources(s) /\ o \notin (s.follows \ r.follows) \ Baseline
      BY <1>6 DEF VisibleBskySources
    <2>3. \A o : o \in (s.follows \ r.follows) \ Baseline => o \in Author
      BY <1>3
    <2>4. QED
      BY <1>4, <2>1, <2>2, <2>3
  <1>7. PreKEVSet = {PreKEVRows(CrossHours, Crossing)[i].cve : i \in DOMAIN PreKEVRows(CrossHours, Crossing)}
    <2>1. Crossing \in Nat /\ Crossing > 0
      BY DashboardAssumption
    <2>2. \A i \in DOMAIN PreKEVRows(CrossHours, Crossing) :
            PreKEVRows(CrossHours, Crossing)[i].cve \in DOMAIN PreKEVCandidates(CrossHours, Crossing) \ Listed
      BY <2>1, PreKEVFacts
    <2>3. \A c \in DOMAIN PreKEVCandidates(CrossHours, Crossing) \ Listed :
            \E i \in DOMAIN PreKEVRows(CrossHours, Crossing) : PreKEVRows(CrossHours, Crossing)[i].cve = c
      BY <2>1, PreKEVFacts
    <2>4. QED
      BY <2>2, <2>3 DEF PreKEVSet
  <1>8. \A a : Badges(a) = corpus[a].cves \cap PreKEVSet
    BY DEF Badges
  <1>9. QED
    BY <1>5, <1>6, <1>7, <1>8 DEF feed

LEMMA PreKEVHolds == ReportsInv => PreKEVAgrees
  <1> SUFFICES ASSUME ReportsInv, NEW i \in DOMAIN PreKEVRows(hours, 2)
               PROVE  LET rows == PreKEVRows(hours, 2)
                          page == CVEConsensus(rows[i].cve, hours)
                      IN /\ {age(a) : a \in rows[i].latest} = {age(page[1].latest)}
                         /\ Len(page) >= 2 /\ rows[i].cve \notin Listed
                         /\ \A j \in 1 .. i - 1 : Len(CVEConsensus(rows[j].cve, hours)) >= Len(page)
    BY DEF PreKEVAgrees
  <1> DEFINE raw  == PreKEVCandidates(hours, 2)
             rows == PreKEVRows(hours, 2)
  <1>1. 2 \in Nat /\ 2 > 0
    OBVIOUS
  <1>2. DOMAIN rows = 1..Len(rows) /\ Len(rows) \in Nat
    BY <1>1, PreKEVFacts
  <1>3. \A j \in DOMAIN rows : /\ rows[j].cve \in DOMAIN raw \ Listed /\ rows[j].outlets = raw[rows[j].cve]
                               /\ rows[j].latest = {Newest(Mentions(rows[j].cve, hours))}
    BY <1>1, PreKEVFacts
  <1>4. \A j, k \in DOMAIN rows : j < k => rows[j].outlets >= rows[k].outlets
    BY <1>1, PreKEVFacts
  <1>5. \A c \in DOMAIN raw : /\ raw[c] = Len(CVEConsensus(c, hours)) /\ raw[c] >= 2
                              /\ Mentions(c, hours) # {}
                              /\ age(CVEConsensus(c, hours)[1].latest) = age(Newest(Mentions(c, hours)))
    <2>1. ASSUME NEW c \in DOMAIN raw
          PROVE  /\ raw[c] = Len(CVEConsensus(c, hours)) /\ raw[c] >= 2
                 /\ Mentions(c, hours) # {}
                 /\ age(CVEConsensus(c, hours)[1].latest) = age(Newest(Mentions(c, hours)))
      <3> DEFINE O == {corpus[a].outlet : a \in Mentions(c, hours)}
      <3>1. raw[c] = Cardinality(O) /\ Cardinality(O) >= 2
        BY DEF PreKEVCandidates
      <3>2. Len(CVEConsensus(c, hours)) = Cardinality(O)
        BY ConsensusFacts
      <3>3. Mentions(c, hours) # {}
        <4>1. Mentions(c, hours) = {} => O = {}
          OBVIOUS
        <4> HIDE DEF O
        <4>2. O # {}
          BY <3>1, FS_EmptySet
        <4>3. QED
          BY <4>1, <4>2
      <3>4. age(CVEConsensus(c, hours)[1].latest) = age(Newest(Mentions(c, hours)))
        BY <3>3, ConsensusFacts
      <3>5. QED
        BY <3>1, <3>2, <3>3, <3>4
    <2>2. QED
      BY <2>1
  <1> HIDE DEF raw, rows
  <1>6. i \in DOMAIN rows
    BY DEF rows
  <1>7. {age(a) : a \in rows[i].latest} = {age(CVEConsensus(rows[i].cve, hours)[1].latest)}
    BY <1>3, <1>5, <1>6
  <1>8. Len(CVEConsensus(rows[i].cve, hours)) >= 2 /\ rows[i].cve \notin Listed
    BY <1>3, <1>5, <1>6
  <1>9. ASSUME NEW j \in 1 .. i - 1
        PROVE  Len(CVEConsensus(rows[j].cve, hours)) >= Len(CVEConsensus(rows[i].cve, hours))
    <2>1. j \in DOMAIN rows /\ j < i
      BY <1>2, <1>6
    <2>2. QED
      BY <1>3, <1>4, <1>5, <1>6, <2>1
  <1>10. QED
    BY <1>7, <1>8, <1>9 DEF rows

-----------------------------------------------------------------------------
(* The movers of the week and the layers *)

\* The articles that have a tag and were fetched between two moments.
Fetched(t, from, to) ==
  {a \in Stored : /\ ~ corpus[a].dup /\ t \in corpus[a].cves \cup corpus[a].ttps
                  /\ fetched(a) \in to + 1 .. from}

LEMMA FetchedFacts ==
  ASSUME ReportsInv, NEW t, NEW from, NEW to
  PROVE  /\ IsFiniteSet(Fetched(t, from, to))
         /\ CountTags(t, from, to) = Cardinality(Fetched(t, from, to))
         /\ CountTags(t, from, to) \in Nat
  <1>1. Fetched(t, from, to) \in SUBSET Stored
    BY DEF Fetched
  <1>2. IsFiniteSet(Fetched(t, from, to))
    BY <1>1, ArticleFacts, FS_Subset
  <1>3. CountTags(t, from, to) = Cardinality(Fetched(t, from, to))
    BY DEF CountTags, Fetched
  <1>4. QED
    BY <1>2, <1>3, FS_CardinalityType

LEMMA MoveIsNat ==
  ASSUME NEW r, r.new \in Nat, r.old \in Nat
  PROVE  Move(r) \in Nat
  <1>1. \A x, y \in Nat : y # 0 => (x * 100) \div y \in Int
    OBVIOUS
  <1>2. DeltaPct(r.new, r.old) \in Int
    <2>1. CASE r.old = 0
      BY <2>1 DEF DeltaPct
    <2>2. CASE r.old # 0 /\ r.new >= r.old
      <3>1. r.new - r.old \in Nat
        BY <2>2
      <3>2. ((r.new - r.old) * 100) \div r.old \in Int
        BY <1>1, <2>2, <3>1
      <3>3. QED
        BY <2>2, <3>2 DEF DeltaPct
    <2>3. CASE r.old # 0 /\ ~ (r.new >= r.old)
      <3>1. r.old - r.new \in Nat
        BY <2>3
      <3>2. ((r.old - r.new) * 100) \div r.old \in Int
        BY <1>1, <2>3, <3>1
      <3>3. QED
        BY <2>3, <3>2 DEF DeltaPct
    <2>4. QED
      BY <2>1, <2>2, <2>3
  <1>3. QED
    BY <1>2 DEF Move

\* Who may be listed as a mover.
Mover(r, n) ==
  /\ r.tag \notin Cve
  /\ r.new = CountTags(r.tag, n, 0) /\ r.old = CountTags(r.tag, 2 * n, n)

LEMMA MomentumFacts ==
  ASSUME ReportsInv, NEW n
  PROVE  \E S, key : /\ \A limit \in Nat : ListsTop(TagMomentum(n, limit), S, key, limit)
                     /\ \A r \in S : Mover(r, n) /\ key[r] = Move(r) /\ Move(r) \in Nat
  <1> DEFINE row(t) == [tag |-> t, new |-> CountTags(t, n, 0), old |-> CountTags(t, 2 * n, n)]
             T      == Technique \cup Cve
             rows   == {row(t) : t \in T}
             S      == {r \in rows : r.new >= Least /\ isMomentumTag(r.tag)}
             key    == [r \in S |-> Move(r)]
             tie    == [r \in S |-> r.new]
  <1>1. \A limit : TagMomentum(n, limit) = Top(SortBy(S, key, tie), limit)
    BY DEF TagMomentum
  <1>2. IsFiniteSet(T)
    BY ReportsAssumption, FS_Union
  <1>3. \A t : /\ row(t).tag = t /\ row(t).new = CountTags(t, n, 0)
               /\ row(t).old = CountTags(t, 2 * n, n)
    OBVIOUS
  <1> HIDE DEF row, T
  <1>4. IsFiniteSet(rows)
    <2> DEFINE f == [t \in T |-> row(t)]
    <2>1. f \in Surjection(T, rows)
      BY DEF Surjection
    <2> HIDE DEF f, rows
    <2>2. QED
      BY <1>2, <2>1, FS_Surjection
  <1>5. \A r \in S : Mover(r, n)
    BY <1>3 DEF Mover, isMomentumTag
  <1>6. S \in SUBSET rows
    OBVIOUS
  <1> HIDE DEF rows
  <1>7. IsFiniteSet(S)
    BY <1>4, <1>6, FS_Subset
  <1> HIDE DEF S
  <1>8. \A r \in S : r.new \in Nat /\ r.old \in Nat /\ Move(r) \in Nat
    <2>1. ASSUME NEW r \in S PROVE r.new \in Nat /\ r.old \in Nat
      BY <1>5, FetchedFacts DEF Mover
    <2>2. QED
      BY <2>1, MoveIsNat
  <1>9. key \in [S -> Int] /\ tie \in [S -> Int] /\ \A r \in S : key[r] = Move(r)
    BY <1>8
  <1> HIDE DEF key, tie
  <1>10. ASSUME NEW limit \in Nat
         PROVE  ListsTop(TagMomentum(n, limit), S, key, limit)
    BY <1>1, <1>7, <1>9, TopSorted
  <1>11. QED
    BY <1>5, <1>8, <1>9, <1>10

LEMMA MomentumHolds == ReportsInv => MomentumCountsOnce
  <1> SUFFICES ASSUME ReportsInv, NEW i \in DOMAIN TagMomentum(Week, Cardinality(Technique))
               PROVE  LET all  == TagMomentum(Week, Cardinality(Technique))
                          some == TagMomentum(Week, 1)
                      IN /\ all[i].new + all[i].old =
                              Cardinality({a \in Stored : /\ ~ corpus[a].dup /\ all[i].tag \in corpus[a].ttps
                                                          /\ fetched(a) \in 1 .. 2 * Week})
                         /\ \A j \in DOMAIN some : Move(all[i]) <= Move(some[j])
    BY DEF MomentumCountsOnce
  <1> DEFINE all  == TagMomentum(Week, Cardinality(Technique))
             some == TagMomentum(Week, 1)
             r    == all[i]
  <1>1. PICK S, key : /\ \A limit \in Nat : ListsTop(TagMomentum(Week, limit), S, key, limit)
                      /\ \A x \in S : Mover(x, Week) /\ key[x] = Move(x) /\ Move(x) \in Nat
    BY MomentumFacts
  <1>2. Cardinality(Technique) \in Nat /\ 1 \in Nat /\ Week \in Nat
    BY ReportsAssumption, DashboardAssumption, FS_CardinalityType
  <1>3. ListsTop(all, S, key, Cardinality(Technique)) /\ ListsTop(some, S, key, 1)
    BY <1>1, <1>2
  <1>4. i \in DOMAIN all
    OBVIOUS
  <1> HIDE DEF all, some
  <1>5. r \in S
    BY <1>3, <1>4 DEF ListsTop
  <1> HIDE DEF r
  <1>6. ASSUME NEW j \in DOMAIN some
        PROVE  Move(r) <= Move(some[j])
    <2>1. some[j] \in S
      BY <1>3 DEF ListsTop
    <2>2. Move(r) \in Nat /\ Move(some[j]) \in Nat /\ key[r] = Move(r) /\ key[some[j]] = Move(some[j])
      BY <1>1, <1>5, <2>1
    <2>3. CASE \E k \in DOMAIN some : some[k] = r
      <3>1. PICK k \in DOMAIN some : some[k] = r
        BY <2>3
      <3>2. Len(some) \in Nat /\ Len(some) <= 1 /\ DOMAIN some = 1..Len(some)
        <4>1. Cardinality(S) < 1 => Len(some) = Cardinality(S)
          BY <1>3 DEF ListsTop
        <4>2. ~ (Cardinality(S) < 1) => Len(some) = 1
          BY <1>3 DEF ListsTop
        <4>3. Len(some) \in Nat /\ DOMAIN some = 1..Len(some)
          BY <1>3 DEF ListsTop
        <4>4. QED
          BY <4>1, <4>2, <4>3
      <3>3. k = j
        BY <3>2
      <3>4. QED
        BY <2>2, <3>1, <3>3
    <2>4. CASE \A k \in DOMAIN some : key[some[k]] >= key[r]
      BY <2>2, <2>4
    <2>5. QED
      BY <1>3, <1>5, <2>3, <2>4 DEF ListsTop
  <1>7. r.new + r.old = Cardinality({a \in Stored : /\ ~ corpus[a].dup /\ r.tag \in corpus[a].ttps
                                                    /\ fetched(a) \in 1 .. 2 * Week})
    <2> DEFINE New  == Fetched(r.tag, Week, 0)
               Old  == Fetched(r.tag, 2 * Week, Week)
               Both == {a \in Stored : /\ ~ corpus[a].dup /\ r.tag \in corpus[a].ttps
                                       /\ fetched(a) \in 1 .. 2 * Week}
    <2>1. r.tag \notin Cve /\ r.new = Cardinality(New) /\ r.old = Cardinality(Old)
      BY <1>1, <1>5, FetchedFacts DEF Mover
    <2>2. IsFiniteSet(New) /\ IsFiniteSet(Old)
      BY FetchedFacts
    <2>3. \A a \in Stored : /\ fetched(a) \in Int
                            /\ r.tag \in corpus[a].cves \cup corpus[a].ttps <=> r.tag \in corpus[a].ttps
      BY <2>1, ArticleFacts DEF fetched
    <2>4. \A x \in Int : /\ x \in 1 .. 2 * Week <=> x \in 0 + 1 .. Week \/ x \in Week + 1 .. 2 * Week
                         /\ ~ (x \in 0 + 1 .. Week /\ x \in Week + 1 .. 2 * Week)
      BY <1>2
    <2>5. New \cup Old = Both /\ New \cap Old = {}
      BY <2>3, <2>4 DEF Fetched
    <2> HIDE DEF New, Old, Both
    <2>6. Cardinality(Both) = Cardinality(New) + Cardinality(Old) - Cardinality({})
      BY <2>2, <2>5, FS_Union
    <2>7. Cardinality({}) = 0 /\ Cardinality(New) \in Nat /\ Cardinality(Old) \in Nat
      BY <2>2, FS_EmptySet, FS_CardinalityType
    <2>8. Cardinality(Both) = r.new + r.old
      BY <2>1, <2>6, <2>7
    <2>9. QED
      BY <2>8 DEF Both
  <1>8. QED
    BY <1>6, <1>7 DEF all, some, r

\* The first technique of a layer has the top of its scale.
LEMMA LayerFacts ==
  ASSUME NEW freq \in [Technique -> Nat], Layer(freq).techniques # << >>
  PROVE  Layer(freq).max = Layer(freq).score[Layer(freq).techniques[1]]
  <1> DEFINE shown == {t \in Technique : freq[t] > 0}
             key   == [t \in shown |-> freq[t]]
             tie   == [t \in shown |-> 0]
             s     == SortBy(shown, key, tie)
             N     == {freq[t] : t \in Technique} \cup {1}
  <1>1. Layer(freq).techniques = s /\ Layer(freq).score = freq /\ Layer(freq).max = Max(N)
    BY DEF Layer
  <1>2. IsFiniteSet(Technique) /\ IsFiniteSet(shown)
    <2>1. shown \in SUBSET Technique
      OBVIOUS
    <2> HIDE DEF shown
    <2>2. QED
      BY <2>1, ReportsAssumption, FS_Subset
  <1>3. IsFiniteSet(N) /\ N \subseteq Int /\ N # {}
    <2> DEFINE A == {freq[t] : t \in Technique}
    <2>1. freq \in Surjection(Technique, A)
      BY DEF Surjection
    <2>2. A \subseteq Int
      OBVIOUS
    <2> HIDE DEF A
    <2>3. IsFiniteSet(A)
      BY <1>2, <2>1, FS_Surjection
    <2>4. IsFiniteSet(A \cup {1})
      BY <2>3, FS_Singleton, FS_Union
    <2>5. QED
      BY <2>2, <2>4 DEF A
  <1>4. key \in [shown -> Int] /\ tie \in [shown -> Int] /\ \A t \in shown : key[t] = freq[t]
    OBVIOUS
  <1>5. \A t \in Technique : freq[t] \in Nat /\ (t \in shown <=> freq[t] > 0) /\ freq[t] \in N
    OBVIOUS
  <1>6. shown \subseteq Technique /\ 1 \in N /\ \A x \in N : x = 1 \/ \E t \in Technique : x = freq[t]
    OBVIOUS
  <1> HIDE DEF key, tie, shown, N
  <1>7. /\ s \in Seq(shown) /\ Len(s) = Cardinality(shown) /\ DOMAIN s = 1..Cardinality(shown)
        /\ \A t \in shown : \E i \in DOMAIN s : s[i] = t
        /\ \A i, j \in DOMAIN s : i < j =>
             /\ s[i] # s[j]
             /\ \/ key[s[i]] > key[s[j]]
                \/ key[s[i]] = key[s[j]] /\ tie[s[i]] >= tie[s[j]]
    BY <1>2, <1>4, Sorted
  <1>8. Cardinality(shown) \in Nat
    BY <1>2, FS_CardinalityType
  <1>9. s # << >>
    BY <1>1
  <1> HIDE DEF s
  <1>10. 1 \in DOMAIN s /\ s[1] \in shown /\ freq[s[1]] \in Nat /\ freq[s[1]] >= 1 /\ freq[s[1]] \in N
    <2>1. 1 \in DOMAIN s /\ s[1] \in shown
      BY <1>7, <1>8, <1>9
    <2>2. QED
      BY <1>5, <1>6, <2>1
  <1>11. ASSUME NEW t \in shown PROVE freq[t] <= freq[s[1]]
    <2>1. PICK i \in DOMAIN s : s[i] = t
      BY <1>7
    <2>2. i = 1 \/ 1 < i
      BY <1>7, <1>8
    <2>3. freq[t] \in Nat
      BY <1>5, <1>6
    <2>4. CASE 1 < i
      <3>1. key[s[1]] > key[s[i]] \/ key[s[1]] = key[s[i]]
        BY <1>7, <1>10, <2>4
      <3>2. key[s[1]] = freq[s[1]] /\ key[s[i]] = freq[t]
        BY <1>4, <1>10, <2>1
      <3>3. QED
        BY <1>10, <2>3, <3>1, <3>2
    <2>5. QED
      BY <1>10, <2>1, <2>2, <2>3, <2>4
  <1>12. \A x \in N : x <= freq[s[1]]
    <2>1. ASSUME NEW t \in Technique PROVE freq[t] <= freq[s[1]]
      BY <1>5, <1>10, <1>11
    <2>2. QED
      BY <1>6, <1>10, <2>1
  <1>13. Max(N) \in N /\ freq[s[1]] <= Max(N)
    BY <1>3, <1>10, GreatestOf
  <1>14. Max(N) = freq[s[1]]
    <2>1. Max(N) \in Int /\ Max(N) <= freq[s[1]]
      BY <1>3, <1>12, <1>13
    <2>2. QED
      BY <1>10, <1>13, <2>1
  <1>15. QED
    BY <1>1, <1>14

LEMMA LayersHold == ReportsInv => LayersAgree
  <1> SUFFICES ASSUME ReportsInv PROVE LayersAgree
    OBVIOUS
  <1>1. \A m, n : \A t \in Technique : Cardinality(Tagged(t, m)) \in Nat /\ Cardinality(Since(Tagged(t, m), n)) \in Nat
    <2>1. ASSUME NEW t \in Technique, NEW m, NEW n
          PROVE  Cardinality(Tagged(t, m)) \in Nat /\ Cardinality(Since(Tagged(t, m), n)) \in Nat
      <3>1. IsFiniteSet(Tagged(t, m)) /\ Since(Tagged(t, m), n) \in SUBSET Tagged(t, m)
        BY TaggedSince DEF Since
      <3>2. QED
        BY <3>1, FS_Subset, FS_CardinalityType
    <2>2. QED
      BY <2>1
  <1> DEFINE export    == [t \in Technique |-> Cardinality(Tagged(t, 24 * 30))]
             nav(n)    == [t \in Technique |-> Cardinality(MitreRawCounts(t, n, BaselineDays(n)).window)]
  <1>2. TTPFrequency(30) = export /\ AttackExport(30) = Layer(export)
    BY DEF TTPFrequency, AttackExport
  <1>3. \A n : NavigatorLayer(n) = Layer(nav(n))
    BY DEF NavigatorLayer
  <1>4. ASSUME NEW n, NEW t \in Technique
        PROVE  /\ MitreRawCounts(t, n, BaselineDays(n)).window = Since(Tagged(t, 24 * BaselineDays(n)), n)
               /\ nav(n)[t] = Cardinality(Since(Tagged(t, 24 * BaselineDays(n)), n)) /\ nav(n)[t] \in Nat
    <2>1. MitreRawCounts(t, n, BaselineDays(n)).window = Since(Tagged(t, 24 * BaselineDays(n)), n)
      BY WindowFacts
    <2>2. QED
      BY <1>1, <2>1
  <1>5. export \in [Technique -> Nat] /\ \A t \in Technique : export[t] = Cardinality(Tagged(t, 24 * 30))
    BY <1>1
  <1>6. \A n : nav(n) \in [Technique -> Nat]
    BY <1>4
  <1>7. \A freq : Layer(freq).score = freq
    BY DEF Layer
  <1> HIDE DEF export, nav
  <1>8. ASSUME NEW t \in Technique
        PROVE  AttackExport(30).score[t] - NavigatorLayer(720).score[t] =
                 Cardinality({a \in Tagged(t, 720) : age(a) = 720})
    <2> DEFINE month == Tagged(t, 720)
               late  == Since(month, 720)
               last  == {a \in month : age(a) = 720}
    <2>1. AttackExport(30).score[t] = Cardinality(month)
      <3>1. 24 * 30 = 720
        OBVIOUS
      <3>2. QED
        BY <1>2, <1>5, <1>7, <3>1
    <2>2. BaselineDays(720) = 60
      BY DEF BaselineDays
    <2>3. NavigatorLayer(720).score[t] = Cardinality(Since(Tagged(t, 1440), 720))
      <3>1. 24 * 60 = 1440
        OBVIOUS
      <3>2. nav(720)[t] = Cardinality(Since(Tagged(t, 24 * BaselineDays(720)), 720))
        BY <1>4
      <3>3. QED
        BY <1>3, <1>7, <2>2, <3>1, <3>2
    <2>4. Since(Tagged(t, 1440), 720) = late
      <3>1. \A a \in Stored : age(a) < 720 => age(a) <= 720 /\ age(a) <= 1440
        BY ArticleFacts
      <3>2. QED
        BY <3>1, TaggedSince DEF Since
    <2>5. IsFiniteSet(month) /\ month \in SUBSET Stored /\ \A a \in month : age(a) <= 720
      BY TaggedSince
    <2>6. month \ late = last /\ month \cap late = late
      <3>1. \A a \in month : age(a) \in Nat /\ age(a) <= 720
        BY <2>5, ArticleFacts
      <3> HIDE DEF month
      <3>2. QED
        BY <3>1 DEF Since
    <2> HIDE DEF month, late, last
    <2>7. Cardinality(last) = Cardinality(month) - Cardinality(late)
      BY <2>5, <2>6, FS_Difference
    <2>8. QED
      BY <2>1, <2>3, <2>4, <2>7 DEF last, month
  <1>9. ASSUME NEW layer \in {AttackExport(30), NavigatorLayer(hours)}, layer.techniques # << >>
        PROVE  layer.max = layer.score[layer.techniques[1]]
    <2>1. \E freq \in [Technique -> Nat] : layer = Layer(freq)
      BY <1>2, <1>3, <1>5, <1>6
    <2>2. QED
      BY <1>9, <2>1, LayerFacts
  <1>10. QED
    BY <1>8, <1>9 DEF LayersAgree

LEMMA ReportsHold ==
  ReportsInv => /\ LeaderboardsAgree /\ TimelineAgrees /\ SparklineAgrees /\ PreviousIsWhole
                /\ SeverityFirst /\ FeedAgrees /\ PreKEVAgrees /\ MomentumCountsOnce
                /\ ModalsAgree /\ LayersAgree
  BY LeaderboardsHold, TimelineHolds, SparklineHolds, PreviousHolds, SeverityHolds, FeedHolds,
     PreKEVHolds, MomentumHolds, ModalsAgreeHolds, LayersHold

-----------------------------------------------------------------------------
(* The parts together *)

ServerInv ==
  /\ RowsInv /\ SettingsInv /\ EnrichmentInv /\ PageInv /\ ConfigInv /\ EpssInv /\ ReportsInv

\* A part's step is a step of that part and of no other.
LEMMA StepsOfParts ==
  ASSUME [Next]_vars
  PROVE  /\ [RowsNext]_rowVars /\ [SettingsNext]_setVars /\ [EnrichmentNext]_enrVars
         /\ [PageNext]_pageCacheVars /\ [ConfigNext]_configVars /\ [EpssNext]_epssVars
         /\ [ReportsNext]_reportVars
  BY DEF Next, vars, OfRows, OfSettings, OfEnrichment, OfPages, OfConfig, OfEpss, OfReports

LEMMA InitServer == Init => ServerInv
  <1> SUFFICES ASSUME Init PROVE ServerInv
    OBVIOUS
  <1>1. RowsInit /\ SettingsInit /\ EnrichmentInit /\ PageInit /\ ConfigInit /\ EpssInit
    BY DEF Init
  <1>2. hours \in Windows
    <2>1. CASE serving = "reports"
      BY <2>1 DEF Init
    <2>2. CASE serving # "reports"
      <3>1. Windows \subseteq Nat /\ Windows # {}
        BY ReportsAssumption
      <3>2. \E x \in Windows : \A y \in Windows : x <= y
        BY <3>1, LeastOf
      <3>3. Min(Windows) \in Windows
        BY <3>2 DEF Min
      <3>4. QED
        BY <2>2, <3>3 DEF Init
    <2>3. QED
      BY <2>1, <2>2
  <1>3. ReportsInv
    <2>1. corpus = [a \in Art |-> Absent]
      BY DEF Init
    <2>2. QED
      BY <1>2, <2>1, InitReports
  <1>4. QED
    BY <1>1, <1>3, InitRows, InitSettings, InitEnrichment, InitPage, InitConfig, InitEpss DEF ServerInv

LEMMA StepServer == ServerInv /\ [Next]_vars => ServerInv'
  BY StepsOfParts, StepRows, StepSettings, StepEnrichment, StepPage, StepConfig, StepEpss, StepReports
     DEF ServerInv

LEMMA ServerStaysSound == Spec => []ServerInv
  BY InitServer, StepServer, PTL DEF Spec

\* Every row, cache, table and request of the server keeps its type: the types of
\* the parts, whatever part a behaviour follows (storage.go, me.go, server.go,
\* nvd.go, otx.go, epss.go and config.go of internal/).
THEOREM TypeCorrect == Spec => []TypeOK
  <1>1. ServerInv => TypeOK
    BY DEF ServerInv, TypeOK, RowsInv, SettingsInv, SettingsShape, EnrichmentInv, EnrichmentShape,
           PageInv, PageShape, ConfigInv, ConfigShape, EpssInv, ReportsInv
  <1>2. QED
    BY <1>1, ServerStaysSound, PTL

\* The reports agree with each other and with the articles they count: leaderboards,
\* timelines and sparklines, the dashboard's windows and modals, the feed, the lists
\* of candidates and movers, and the layers (storage.go and server.go).
THEOREM ReportsDoAgree == Spec => []ReportsAgree
  <1>1. ServerInv => ReportsAgree
    BY ReportsHold DEF ServerInv, ReportsAgree
  <1>2. QED
    BY <1>1, ServerStaysSound, PTL

\* The settings and the summary: a summary that is asked for is of its window, a
\* dismissal changes no other setting, and it lasts unless the settings were saved
\* over it (handleMeSettings and handleMeWhatsNew of me.go, PutWhatsNewDismiss).
THEOREM SettingsAreKept == Spec => []SettingsKept
  <1>1. ServerInv => SettingsKept
    <2>1. FiledByWindow => SummaryOfItsWindow
      BY DEF FiledByWindow, SummaryOfItsWindow, CacheKey
    <2>2. QED
      BY <2>1 DEF ServerInv, SettingsKept, SettingsInv
  <1>2. QED
    BY <1>1, ServerStaysSound, PTL

\* What a handler answered about the watched accounts is in memory and in the file,
\* and only saves that meet spoil the file (Config.Save, handleConfigBluesky).
THEOREM WatchlistIsSaved == Spec => []WatchlistSaved
  <1>1. ServerInv => WatchlistSaved
    <2>1. ConfigInv => OnlyMeetingSavesSpoil
      BY DEF ConfigInv, OneSaves, OnlyMeetingSavesSpoil
    <2>2. QED
      BY <2>1 DEF ServerInv, WatchlistSaved, ConfigInv
  <1>2. QED
    BY <1>1, ServerStaysSound, PTL

\* A client is granted no more calls than its allowance in any window (ratelimit.go),
\* NVD is asked no more often than its band, and a request's time runs out in the
\* queue for NVD only behind a crowd (nvd.go).
THEOREM LimitsAreKept == Spec => []LimitsHold
  <1>1. ServerInv => LimitsHold
    BY EnrichmentKeeps DEF ServerInv, LimitsHold
  <1>2. QED
    BY <1>1, ServerStaysSound, PTL

\* No row outlives its account or its article, the cap and the order of the channels
\* hold, and a request changes only the rows of the account it acts for (me.go,
\* DeleteUser and the foreign keys of migrateUserTables).
THEOREM AccountsAreSound == Spec => AccountsSound
  <1>1. ServerInv => NothingLeftBehind /\ CapHolds /\ ChannelsInOrder
    BY DEF ServerInv, RowsInv
  <1> DEFINE Own == \A u \in User : RowsOf(u)' # RowsOf(u) =>
                      \/ \E r \in Call : acting[r] = u /\ acting'[r] # u
                      \/ u \in users \ users'
                      \/ articles' # articles
  <1>2. ServerInv /\ [Next]_vars => [Own]_rowVars
    <2>1. SUFFICES ASSUME ServerInv, [Next]_vars, NEW u \in User, RowsOf(u)' # RowsOf(u)
                   PROVE  \/ \E r \in Call : acting[r] = u /\ acting'[r] # u
                          \/ u \in users \ users'
                          \/ articles' # articles
      OBVIOUS
    <2>2. QED
      BY <2>1, StepsOfParts, StepOwnRows DEF ServerInv
  <1>3. QED
    BY <1>1, <1>2, ServerStaysSound, PTL DEF Spec, AccountsSound, OwnRowsOnly

\* A detail is not lost to a failed lookup, nor fresh pulses to a failed call, an
\* explanation is not paid for twice, and a broken download takes no score away
\* (nvd.go, otx.go, epss.go, handleCVEExplain).
THEOREM LearntStaysLearnt == Spec => LearntIsKept
  <1>1. ServerInv => PulsesKept /\ SettledIsFree
    BY EnrichmentKeeps DEF ServerInv
  <1> DEFINE Detail == \A c \in CVE : details[c] = "detail" /\ details'[c] = "error" =>
                         \E r \in Asking(c) : reqs[r].excused
             Scores == \A c \in ScoredCVE : epss'[c] >= epss[c]
  <1>2. ServerInv /\ [Next]_vars => [Detail]_enrVars
    <2>1. SUFFICES ASSUME ServerInv, [Next]_vars, NEW c \in CVE,
                          details[c] = "detail", details'[c] = "error"
                   PROVE  \E r \in Asking(c) : reqs[r].excused
      OBVIOUS
    <2>2. QED
      BY <2>1, StepsOfParts, StepDetailKept DEF ServerInv, EnrichmentInv
  <1>3. ServerInv /\ [Next]_vars => [Scores]_epssVars
    <2>1. SUFFICES ASSUME ServerInv, [Next]_vars, NEW c \in ScoredCVE
                   PROVE  epss'[c] >= epss[c]
      OBVIOUS
    <2>2. QED
      BY <2>1, StepsOfParts, StepScoresStay DEF ServerInv
  <1>4. QED
    BY <1>1, <1>2, <1>3, ServerStaysSound, PTL DEF Spec, LearntIsKept, DetailKept, ScoresStay

\* No cached page is served past its time, and the sweeper keeps the freshest
\* (cve_page.go, public_rss.go and evictOldest of cache_sweeper.go).
THEOREM PagesAreKeptFresh == Spec => PagesFresh
  <1>1. ServerInv => ServedFresh
    BY PagesAreFresh DEF ServerInv
  <1> DEFINE Freshest == LET lost == {p \in DOMAIN cache \ DOMAIN cache' : Servable(p)}
                             kept == DOMAIN cache' \cap CvePage
                         IN DOMAIN cache \ DOMAIN cache' # {} /\ cache' # << >> =>
                              /\ Cardinality(kept) <= Cap
                              /\ lost # {} => Cardinality(kept) = Cap
                              /\ \A p \in lost, q \in kept : cache[p].expiry <= cache[q].expiry
  <1>2. ServerInv /\ [Next]_vars => [Freshest]_pageCacheVars
    <2>1. SUFFICES ASSUME ServerInv, [Next]_vars, DOMAIN cache \ DOMAIN cache' # {}, cache' # << >>
                   PROVE  Freshest
      OBVIOUS
    <2>2. PageInv /\ [PageNext]_pageCacheVars
      BY <2>1, StepsOfParts DEF ServerInv
    <2>3. QED
      BY <2>1, <2>2, StepSweep
  <1>3. QED
    BY <1>1, <1>2, ServerStaysSound, PTL DEF Spec, PagesFresh, SweepKeepsTheFreshest

=============================================================================
