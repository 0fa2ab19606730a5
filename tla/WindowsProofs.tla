---------------------------- MODULE WindowsProofs ----------------------------
(***************************************************************************)
(* Where the windows of a screen are after any number of splits, closes    *)
(* and resizes, while each has room: in a row, each one border behind the  *)
(* one before, from one edge of the screen to the other (InRow, Tiles),    *)
(* and with shares that add up to the whole (SharesWhole).  From this      *)
(* follow that any window can be closed, and that a screen that shrinks    *)
(* leaves each its share.                                                  *)
(***************************************************************************)
EXTENDS Windows, NumberProofs

Window == [ul : [Dims -> Int], size : [Dims -> Int], pct : [Dims -> Int]]

InRow(ws, d) ==
  /\ \A i \in 1 .. Len(ws) - 1 : ws[i].ul[d] + ws[i].size[d] + Border = ws[i + 1].ul[d]
  /\ \A i, j \in 1 .. Len(ws) : /\ ws[i].ul[Other(d)] = ws[j].ul[Other(d)]
                                /\ ws[i].size[Other(d)] = ws[j].size[Other(d)]
  /\ \A i \in 1 .. Len(ws) : \A e \in Dims : ws[i].size[e] >= 0

SharesWhole(ws, d) ==
  /\ Total(Shares(ws, d), Len(ws)) = 100
  /\ \A i \in 1 .. Len(ws) : ws[i].pct[d] >= 0 /\ ws[i].pct[Other(d)] = 100

Split(ws, d) ==
  /\ ws \in Seq(Window) /\ Len(ws) >= 1
  /\ InRow(ws, d) /\ SharesWhole(ws, d)

\* They cover the screen.
Tiles(ws, d, scr) ==
  /\ ws[1].ul[d] = 0 /\ ws[1].ul[Other(d)] = 0
  /\ ws[Len(ws)].ul[d] + ws[Len(ws)].size[d] = scr[d]
  /\ \A i \in 1 .. Len(ws) : ws[i].size[Other(d)] = scr[Other(d)]

InBounds == Len(win) <= MaxWindows /\ cur \in 1 .. Len(win) /\ screen \in Screens

IInv ==
  /\ InBounds
  /\ HasRoom => Split(win, SplitDim(win)) /\ Tiles(win, SplitDim(win), screen)
-----------------------------------------------------------------------------
(* Sums over the positions of a sequence *)

\* The recursion that defines a sum has a solution.
LEMMA TotalExists ==
  ASSUME NEW n \in Nat, NEW f \in [1 .. n -> Int]
  PROVE  \E s \in [Nat -> Int] : s = [i \in Nat |-> IF i \in 1 .. n THEN s[i - 1] + f[i] ELSE 0]
<1> DEFINE Upto(k) == {g \in [0 .. k -> Int] :
                         \A i \in 0 .. k : g[i] = IF i \in 1 .. n THEN g[i - 1] + f[i] ELSE 0}
           Good == {k \in Nat : /\ Upto(k) # {}
                                /\ \A g, h \in Upto(k) : \A i \in 0 .. k : g[i] = h[i]}
<1>1. ASSUME NEW k \in Nat, NEW g \in Upto(k + 1)
      PROVE  [i \in 0 .. k |-> g[i]] \in Upto(k)
  <2> DEFINE h == [i \in 0 .. k |-> g[i]]
  <2>1. h \in [0 .. k -> Int]
    OBVIOUS
  <2>2. ASSUME NEW i \in 0 .. k PROVE h[i] = IF i \in 1 .. n THEN h[i - 1] + f[i] ELSE 0
    <3>1. g[i] = IF i \in 1 .. n THEN g[i - 1] + f[i] ELSE 0
      OBVIOUS
    <3>2. h[i] = g[i] /\ (i \in 1 .. n => h[i - 1] = g[i - 1])
      OBVIOUS
    <3> QED BY <3>1, <3>2
  <2> QED BY <2>1, <2>2
<1>2. 0 \in Good
  <2> DEFINE g == [i \in 0 .. 0 |-> 0]
  <2>1. g \in Upto(0)
    OBVIOUS
  <2>2. \A h \in Upto(0) : \A i \in 0 .. 0 : h[i] = 0
    OBVIOUS
  <2> HIDE DEF Upto, g
  <2> QED BY <2>1, <2>2
<1>3. ASSUME NEW k \in Good PROVE k + 1 \in Good
  <2>1. k \in Nat /\ k + 1 \in Nat
    OBVIOUS
  <2>2. PICK g \in Upto(k) : TRUE
    OBVIOUS
  <2> DEFINE x == IF k + 1 \in 1 .. n THEN g[k] + f[k + 1] ELSE 0
             e == [i \in 0 .. k + 1 |-> IF i = k + 1 THEN x ELSE g[i]]
  <2>3. g \in [0 .. k -> Int] /\ \A i \in 0 .. k : g[i] = IF i \in 1 .. n THEN g[i - 1] + f[i] ELSE 0
    BY <2>2
  <2>4. x \in Int
    BY <2>1, <2>3
  <2>5. e \in Upto(k + 1)
    <3>1. e \in [0 .. k + 1 -> Int]
      BY <2>1, <2>3, <2>4
    <3>2. ASSUME NEW i \in 0 .. k + 1 PROVE e[i] = IF i \in 1 .. n THEN e[i - 1] + f[i] ELSE 0
      <4>1. CASE i = k + 1
        BY <2>1, <4>1
      <4>2. CASE i \in 0 .. k
        BY <2>1, <2>3, <4>2
      <4> QED BY <2>1, <4>1, <4>2
    <3> QED BY <3>1, <3>2
  <2>6. ASSUME NEW u \in Upto(k + 1), NEW v \in Upto(k + 1), NEW i \in 0 .. k + 1
        PROVE  u[i] = v[i]
    <3> DEFINE u1 == [j \in 0 .. k |-> u[j]]
               v1 == [j \in 0 .. k |-> v[j]]
    <3>1. u1 \in Upto(k) /\ v1 \in Upto(k)
      BY <1>1, <2>1
    <3>2. \A j \in 0 .. k : u1[j] = v1[j]
      <4> HIDE DEF Upto, u1, v1
      <4> QED BY <3>1
    <3>3. \A j \in 0 .. k : u[j] = v[j]
      BY <3>2
    <3>4. u[k + 1] = v[k + 1]
      BY <2>1, <3>3
    <3> QED BY <2>1, <3>3, <3>4
  <2> HIDE DEF Upto, e, x
  <2> QED BY <2>1, <2>5, <2>6
<1>4. Good = Nat
  <2>1. Good \in SUBSET Nat
    OBVIOUS
  <2> HIDE DEF Good
  <2> QED BY <1>2, <1>3, <2>1, AllNumbers
<1> DEFINE The(k) == CHOOSE g \in Upto(k) : TRUE
           s == [k \in Nat |-> The(k)[k]]
<1>5. ASSUME NEW k \in Nat PROVE The(k) \in Upto(k)
  <2>1. Upto(k) # {}
    BY <1>4
  <2> HIDE DEF Upto
  <2> QED BY <2>1
<1>6. ASSUME NEW k \in Nat PROVE The(k + 1)[k] = The(k)[k]
  <2>1. k + 1 \in Nat /\ k \in 0 .. k
    OBVIOUS
  <2>2. The(k) \in Upto(k) /\ The(k + 1) \in Upto(k + 1)
    BY <1>5, <2>1
  <2> DEFINE h == [i \in 0 .. k |-> The(k + 1)[i]]
  <2>3. h \in Upto(k) /\ h[k] = The(k + 1)[k]
    <3> HIDE DEF The, Upto
    <3> QED BY <1>1, <2>1, <2>2
  <2>4. k \in Good
    BY <1>4
  <2> HIDE DEF The, h
  <2>5. h[k] = The(k)[k]
    BY <2>1, <2>2, <2>3, <2>4
  <2> QED BY <2>3, <2>5
<1>7. ASSUME NEW k \in Nat
      PROVE  s[k] \in Int /\ s[k] = IF k \in 1 .. n THEN s[k - 1] + f[k] ELSE 0
  <2>1. /\ The(k)[k] \in Int
        /\ The(k)[k] = IF k \in 1 .. n THEN The(k)[k - 1] + f[k] ELSE 0
    <3> HIDE DEF The
    <3> QED BY <1>5
  <2>2. k \in 1 .. n => The(k)[k - 1] = The(k - 1)[k - 1]
    <3> HIDE DEF The
    <3> SUFFICES ASSUME k \in 1 .. n PROVE The(k)[k - 1] = The(k - 1)[k - 1]
      OBVIOUS
    <3>1. PICK j \in Nat : j + 1 = k /\ k - 1 = j
      OBVIOUS
    <3> QED BY <1>6, <3>1
  <2> HIDE DEF The
  <2>3. s[k] = The(k)[k] /\ (k \in 1 .. n => s[k - 1] = The(k - 1)[k - 1])
    OBVIOUS
  <2> HIDE DEF s
  <2> QED BY <2>1, <2>2, <2>3
<1>8. s = [i \in Nat |-> s[i]]
  OBVIOUS
<1> HIDE DEF s
<1> QED BY <1>7, <1>8

LEMMA TotalSteps ==
  ASSUME NEW n \in Nat, NEW f \in [1 .. n -> Int]
  PROVE  /\ \A k \in Nat : Total(f, k) \in Int
         /\ Total(f, 0) = 0
         /\ \A k \in 1 .. n : Total(f, k) = Total(f, k - 1) + f[k]
<1> DEFINE P(s) == s = [i \in Nat |-> IF i \in DOMAIN f THEN s[i - 1] + f[i] ELSE 0]
           t == CHOOSE s : P(s)
<1>1. \E s : P(s)
  <2>1. PICK s \in [Nat -> Int] : s = [i \in Nat |-> IF i \in 1 .. n THEN s[i - 1] + f[i] ELSE 0]
    BY TotalExists
  <2>2. 1 .. n = DOMAIN f
    OBVIOUS
  <2>3. P(s)
    BY <2>1, <2>2
  <2> QED BY <2>3
<1>2. P(t)
  <2> HIDE DEF P
  <2> QED BY <1>1
<1>3. \A k : Total(f, k) = t[k]
  BY Zenon DEF Total
<1> HIDE DEF t
<1>4. /\ DOMAIN f = 1 .. n
      /\ \A k \in Nat : t[k] = IF k \in 1 .. n THEN t[k - 1] + f[k] ELSE 0
  BY <1>2
<1>5. \A k \in Nat : t[k] \in Int
  <2> DEFINE S == {k \in Nat : t[k] \in Int}
  <2>1. 0 \in S
    BY <1>4
  <2>2. ASSUME NEW k \in S PROVE k + 1 \in S
    <3>1. t[k] \in Int /\ k \in Nat /\ k + 1 \in Nat /\ (k + 1) - 1 = k
      OBVIOUS
    <3> QED BY <1>4, <3>1
  <2>3. S \in SUBSET Nat
    OBVIOUS
  <2> HIDE DEF S
  <2>4. S = Nat
    BY <2>1, <2>2, <2>3, AllNumbers
  <2> QED BY <2>4 DEF S
<1>6. \A k \in 1 .. n : t[k] = t[k - 1] + f[k]
  BY <1>4
<1>7. t[0] = 0
  BY <1>4
<1> QED BY <1>3, <1>5, <1>6, <1>7

\* Equal parts have equal sums.
LEMMA TotalSame ==
  ASSUME NEW n \in Nat, NEW m \in Nat, NEW f \in [1 .. n -> Int], NEW g \in [1 .. m -> Int],
         NEW l \in Nat, l <= n, l <= m, \A i \in 1 .. l : f[i] = g[i]
  PROVE  Total(f, l) = Total(g, l)
<1> DEFINE S == {k \in Nat : k <= l => Total(f, k) = Total(g, k)}
<1>1. 0 \in S
  BY TotalSteps
<1>2. ASSUME NEW k \in S PROVE k + 1 \in S
  <2> SUFFICES ASSUME k + 1 <= l PROVE Total(f, k + 1) = Total(g, k + 1)
    OBVIOUS
  <2>1. k + 1 \in 1 .. l /\ k + 1 \in 1 .. n /\ k + 1 \in 1 .. m /\ (k + 1) - 1 = k
    OBVIOUS
  <2>2. Total(f, k) = Total(g, k)
    OBVIOUS
  <2>3. Total(f, k + 1) = Total(f, (k + 1) - 1) + f[k + 1] /\ Total(g, k + 1) = Total(g, (k + 1) - 1) + g[k + 1]
    BY <2>1, TotalSteps
  <2> QED BY <2>1, <2>2, <2>3
<1>3. S \in SUBSET Nat
  OBVIOUS
<1> HIDE DEF S
<1>4. S = Nat
  BY <1>1, <1>2, <1>3, AllNumbers
<1> QED BY <1>4 DEF S

\* A part and the next become one: the sum is what it was.
LEMMA TotalJoined ==
  ASSUME NEW n \in Nat, NEW f \in [1 .. n -> Int], NEW g \in [1 .. n + 1 -> Int],
         NEW k \in 1 .. n,
         \A i \in 1 .. k - 1 : f[i] = g[i],
         f[k] = g[k] + g[k + 1],
         \A i \in k + 1 .. n : f[i] = g[i + 1]
  PROVE  Total(f, n) = Total(g, n + 1)
<1> DEFINE S == {j \in Nat : k + j <= n => Total(f, k + j) = Total(g, k + j + 1)}
<1>0. /\ n + 1 \in Nat /\ k \in Nat /\ k - 1 \in Nat /\ k <= n /\ k >= 1
      /\ k \in 1 .. n + 1 /\ k + 1 \in 1 .. n + 1 /\ (k + 1) - 1 = k
  OBVIOUS
<1>1. 0 \in S
  <2>1. Total(f, k - 1) = Total(g, k - 1)
    <3>1. k - 1 <= n /\ k - 1 <= n + 1
      BY <1>0
    <3> QED BY <1>0, <3>1, TotalSame
  <2>2. Total(f, k) = Total(f, k - 1) + f[k]
    BY TotalSteps
  <2>3. Total(g, k) = Total(g, k - 1) + g[k] /\ Total(g, k + 1) = Total(g, (k + 1) - 1) + g[k + 1]
    BY <1>0, TotalSteps
  <2>4. Total(g, k - 1) \in Int /\ g[k] \in Int /\ g[k + 1] \in Int
    BY <1>0, TotalSteps
  <2>5. Total(f, k) = Total(g, k + 1)
    BY <1>0, <2>1, <2>2, <2>3, <2>4
  <2>6. k + 0 = k /\ k + 0 + 1 = k + 1
    OBVIOUS
  <2> QED BY <2>5, <2>6
<1>2. ASSUME NEW j \in S PROVE j + 1 \in S
  <2> SUFFICES ASSUME k + (j + 1) <= n PROVE Total(f, k + (j + 1)) = Total(g, k + (j + 1) + 1)
    OBVIOUS
  <2>1. PICK m \in Nat : m = k + j /\ k + (j + 1) = m + 1 /\ k + (j + 1) + 1 = m + 2 /\ k + j + 1 = m + 1
    BY <1>0
  <2>2. /\ m <= n /\ m + 1 \in k + 1 .. n /\ m + 1 \in 1 .. n /\ m + 2 \in 1 .. n + 1
        /\ (m + 1) - 1 = m /\ (m + 2) - 1 = m + 1 /\ (m + 1) + 1 = m + 2
    BY <1>0, <2>1
  <2>3. Total(f, m) = Total(g, m + 1)
    BY <2>1, <2>2
  <2>4. Total(f, m + 1) = Total(f, (m + 1) - 1) + f[m + 1]
    BY <2>2, TotalSteps
  <2>5. Total(g, m + 2) = Total(g, (m + 2) - 1) + g[m + 2]
    BY <1>0, <2>2, TotalSteps
  <2>6. f[m + 1] = g[m + 2]
    BY <2>2
  <2> QED BY <2>1, <2>2, <2>3, <2>4, <2>5, <2>6
<1>3. S \in SUBSET Nat
  OBVIOUS
<1> HIDE DEF S
<1>4. S = Nat
  BY <1>1, <1>2, <1>3, AllNumbers
<1>5. n - k \in S
  BY <1>0, <1>4
<1>6. k + (n - k) = n /\ k + (n - k) + 1 = n + 1
  BY <1>0
<1> QED BY <1>5, <1>6 DEF S

\* Where no part behind the first exceeds its share of a room, they do not together.
LEMMA TotalShares ==
  ASSUME NEW n \in Nat \ {0}, NEW f \in [1 .. n -> Int], NEW p \in [1 .. n -> Int], NEW r \in Int,
         \A i \in 2 .. n : 100 * f[i] <= r * p[i]
  PROVE  100 * (Total(f, n) - f[1]) <= r * (Total(p, n) - p[1])
<1> DEFINE S == {k \in Nat : k + 1 <= n => 100 * (Total(f, k + 1) - f[1]) <= r * (Total(p, k + 1) - p[1])}
<1>1. 0 \in S
  <2>1. 1 \in 1 .. n /\ 1 - 1 = 0 /\ 0 + 1 = 1 /\ n \in Nat
    OBVIOUS
  <2>2. PICK x \in Int, y \in Int : x = f[1] /\ y = p[1]
    BY <2>1
  <2>3. Total(f, 1) = Total(f, 1 - 1) + f[1] /\ Total(f, 0) = 0
    BY <2>1, TotalSteps
  <2>4. Total(p, 1) = Total(p, 1 - 1) + p[1] /\ Total(p, 0) = 0
    BY <2>1, TotalSteps
  <2>5. Total(f, 1) - f[1] = 0 /\ Total(p, 1) - p[1] = 0
    BY <2>1, <2>2, <2>3, <2>4
  <2>6. 100 * 0 <= r * 0
    OBVIOUS
  <2> QED BY <2>1, <2>5, <2>6
<1>2. ASSUME NEW k \in S PROVE k + 1 \in S
  <2> SUFFICES ASSUME (k + 1) + 1 <= n
               PROVE  100 * (Total(f, (k + 1) + 1) - f[1]) <= r * (Total(p, (k + 1) + 1) - p[1])
    OBVIOUS
  <2>1. PICK m \in Nat : /\ m = k + 1 /\ m <= n /\ m + 1 \in 2 .. n /\ m + 1 \in 1 .. n
                         /\ (m + 1) - 1 = m /\ 1 \in 1 .. n
    OBVIOUS
  <2>2. Total(f, m) \in Int /\ Total(p, m) \in Int
    BY <2>1, TotalSteps
  <2>3. PICK a \in Int, b \in Int, x \in Int, y \in Int, u \in Int, v \in Int :
           a = Total(f, m) /\ b = Total(p, m) /\ x = f[m + 1] /\ y = p[m + 1] /\ u = f[1] /\ v = p[1]
    BY <2>1, <2>2
  <2>4. /\ Total(f, m + 1) = Total(f, (m + 1) - 1) + f[m + 1]
         /\ Total(p, m + 1) = Total(p, (m + 1) - 1) + p[m + 1]
    BY ZenonT(30), <2>1, TotalSteps
  <2>5. Total(f, m + 1) = a + x
    BY ZenonT(30), <2>1, <2>3, <2>4
  <2>6. Total(p, m + 1) = b + y
    BY ZenonT(30), <2>1, <2>3, <2>4
  <2>7. 100 * (a - u) <= r * (b - v)
    BY <2>1, <2>3
  <2>8. 100 * x <= r * y
    BY <2>1, <2>3
  <2>9. r * ((b + y) - v) = r * (b - v) + r * y
    OBVIOUS
  <2>10. 100 * ((a + x) - u) <= r * ((b + y) - v)
    BY <2>7, <2>8, <2>9
  <2> QED BY <2>1, <2>3, <2>5, <2>6, <2>10
<1>3. S \in SUBSET Nat
  OBVIOUS
<1> HIDE DEF S
<1>4. S = Nat
  BY <1>1, <1>2, <1>3, AllNumbers
<1>5. n - 1 \in S /\ (n - 1) + 1 = n
  BY <1>4
<1> QED BY <1>5 DEF S

LEMMA TotalPlusOne ==
  ASSUME NEW n \in Nat, NEW f \in [1 .. n -> Int], NEW g \in [1 .. n -> Int],
         \A i \in 1 .. n : g[i] = f[i] + 1
  PROVE  Total(g, n) = Total(f, n) + n
<1> DEFINE S == {k \in Nat : k <= n => Total(g, k) = Total(f, k) + k}
<1>1. 0 \in S
  BY TotalSteps
<1>2. ASSUME NEW k \in S PROVE k + 1 \in S
  <2> SUFFICES ASSUME k + 1 <= n PROVE Total(g, k + 1) = Total(f, k + 1) + (k + 1)
    OBVIOUS
  <2>1. k + 1 \in 1 .. n /\ (k + 1) - 1 = k /\ k \in Nat
    OBVIOUS
  <2>2. PICK a \in Int, x \in Int : a = Total(f, k) /\ x = f[k + 1]
    BY <2>1, TotalSteps
  <2>3. Total(f, k + 1) = a + x /\ Total(g, k + 1) = (a + k) + (x + 1)
    <3>1. Total(g, k) = a + k /\ g[k + 1] = x + 1
      BY <2>1, <2>2
    <3>2. Total(f, k + 1) = Total(f, (k + 1) - 1) + f[k + 1]
      BY <2>1, TotalSteps
    <3>3. Total(g, k + 1) = Total(g, (k + 1) - 1) + g[k + 1]
      BY <2>1, TotalSteps
    <3> QED BY <2>1, <2>2, <3>1, <3>2, <3>3
  <2> QED BY <2>2, <2>3
<1>3. S \in SUBSET Nat
  OBVIOUS
<1> HIDE DEF S
<1>4. S = Nat
  BY <1>1, <1>2, <1>3, AllNumbers
<1> QED BY <1>4 DEF S
-----------------------------------------------------------------------------
(* Windows in a row *)

LEMMA Dimensions ==
  ASSUME NEW d \in Dims
  PROVE  /\ Other(d) \in Dims /\ Other(d) # d /\ Other(Other(d)) = d
         /\ \A e \in Dims : e = d \/ e = Other(d)
BY DEF Dims, Other

LEMMA WindowFields ==
  ASSUME NEW w \in Window, NEW d \in Dims
  PROVE  w.ul[d] \in Int /\ w.size[d] \in Int /\ w.pct[d] \in Int
BY DEF Window

LEMMA SharesAndSizes ==
  ASSUME NEW ws \in Seq(Window), NEW d \in Dims
  PROVE  /\ Len(ws) \in Nat /\ DOMAIN ws = 1 .. Len(ws)
         /\ \A i \in 1 .. Len(ws) : ws[i] \in Window
         /\ Shares(ws, d) \in [1 .. Len(ws) -> Int]
         /\ Sizes(ws, d) \in [1 .. Len(ws) -> Int]
         /\ \A i \in 1 .. Len(ws) : Shares(ws, d)[i] = ws[i].pct[d] /\ Sizes(ws, d)[i] = ws[i].size[d]
<1>1. PICK n \in Nat : n = Len(ws) /\ DOMAIN ws = 1 .. n /\ \A i \in 1 .. n : ws[i] \in Window
  OBVIOUS
<1>2. \A i \in 1 .. n : ws[i].pct[d] \in Int /\ ws[i].size[d] \in Int
  BY <1>1, WindowFields
<1>3. Shares(ws, d) = [i \in 1 .. n |-> ws[i].pct[d]] /\ Sizes(ws, d) = [i \in 1 .. n |-> ws[i].size[d]]
  BY <1>1 DEF Shares, Sizes
<1> QED BY <1>1, <1>2, <1>3

\* A window ends before all those behind it begin.
LEMMA Ordered ==
  ASSUME NEW ws \in Seq(Window), NEW d \in Dims, InRow(ws, d),
         NEW i \in 1 .. Len(ws), NEW j \in 1 .. Len(ws), i < j
  PROVE  ws[i].ul[d] + ws[i].size[d] + Border <= ws[j].ul[d]
<1>1. PICK n \in Nat : n = Len(ws) /\ \A k \in 1 .. n : ws[k] \in Window
  OBVIOUS
<1>2. \A k \in 1 .. n : ws[k].ul[d] \in Int /\ ws[k].size[d] \in Int /\ ws[k].size[d] >= 0
  BY <1>1, WindowFields DEF InRow
<1>3. \A k \in 1 .. n : k + 1 \in 1 .. n => ws[k].ul[d] + ws[k].size[d] + Border = ws[k + 1].ul[d]
  BY <1>1 DEF InRow
<1> DEFINE end == ws[i].ul[d] + ws[i].size[d] + Border
           S == {k \in Nat : i + 1 + k <= n => end <= ws[i + 1 + k].ul[d]}
<1>4. end \in Int /\ i \in Nat
  BY <1>1, <1>2 DEF Border
<1>5. 0 \in S
  <2>1. i + 1 + 0 = i + 1 /\ (i + 1 <= n => i + 1 \in 1 .. n)
    BY <1>1
  <2>2. i + 1 <= n => end = ws[i + 1].ul[d]
    BY <1>1, <1>3, <2>1
  <2>3. i + 1 <= n => end <= ws[i + 1].ul[d]
    BY <1>1, <1>2, <1>4, <2>1, <2>2
  <2> QED BY <2>1, <2>3
<1>6. ASSUME NEW k \in S PROVE k + 1 \in S
  <2> SUFFICES ASSUME i + 1 + (k + 1) <= n PROVE end <= ws[i + 1 + (k + 1)].ul[d]
    OBVIOUS
  <2>1. PICK m \in Nat : m = i + 1 + k /\ i + 1 + (k + 1) = m + 1 /\ m \in 1 .. n /\ m + 1 \in 1 .. n
    BY <1>1, <1>4
  <2>2. end <= ws[m].ul[d]
    BY <1>1, <2>1
  <2>3. ws[m].ul[d] + ws[m].size[d] + Border = ws[m + 1].ul[d]
    BY <1>3, <2>1
  <2>4. ws[m].ul[d] \in Int /\ ws[m].size[d] \in Int /\ ws[m].size[d] >= 0
    BY <1>2, <2>1
  <2> HIDE DEF end
  <2>5. PICK a \in Int, b \in Int : a = ws[m].ul[d] /\ b = ws[m].size[d]
    BY <2>4
  <2>6. end <= a + b + Border
    <3>1. end <= a /\ b >= 0
      BY Zenon, <2>2, <2>4, <2>5
    <3> QED BY <1>4, <3>1 DEF Border
  <2>7. end <= ws[m + 1].ul[d]
    BY <2>3, <2>5, <2>6
  <2> QED BY <2>1, <2>7
<1>7. S \in SUBSET Nat
  OBVIOUS
<1> HIDE DEF S
<1>8. S = Nat
  BY <1>5, <1>6, <1>7, AllNumbers
<1>9. j - i - 1 \in S /\ i + 1 + (j - i - 1) = j
  BY <1>1, <1>8
<1> QED BY <1>1, <1>9 DEF S

\* The dimension they are split along shows in the first two corners.
LEMMA SplitAlong ==
  ASSUME NEW ws, NEW d \in Dims, Split(ws, d), Len(ws) > 1
  PROVE  SplitDim(ws) = d
<1>1. ws \in Seq(Window) /\ InRow(ws, d)
  BY DEF Split
<1>2. 1 \in 1 .. Len(ws) /\ 2 \in 1 .. Len(ws) /\ 1 < 2
  BY <1>1
<1>3. /\ ws[1].ul[d] + ws[1].size[d] + Border <= ws[2].ul[d]
      /\ ws[1].ul[Other(d)] = ws[2].ul[Other(d)]
      /\ ws[1].size[d] >= 0
  BY <1>1, <1>2, Ordered DEF InRow
<1>4. ws[1].ul[d] \in Int /\ ws[1].size[d] \in Int /\ ws[2].ul[d] \in Int
  BY <1>1, <1>2, WindowFields
<1>5. ws[1].ul[d] # ws[2].ul[d]
  BY <1>3, <1>4 DEF Border
<1> QED BY <1>3, <1>5 DEF SplitDim, Dims, Other

LEMMA OneShare ==
  ASSUME NEW ws \in Seq(Window), Len(ws) = 1, NEW d \in Dims
  PROVE  Total(Shares(ws, d), 1) = ws[1].pct[d]
<1>1. Shares(ws, d) \in [1 .. 1 -> Int] /\ Shares(ws, d)[1] = ws[1].pct[d] /\ 1 \in 1 .. 1
  BY SharesAndSizes
<1>2. /\ Total(Shares(ws, d), 1) = Total(Shares(ws, d), 1 - 1) + Shares(ws, d)[1]
      /\ Total(Shares(ws, d), 0) = 0
  BY <1>1, TotalSteps
<1>3. ws[1].pct[d] \in Int
  BY WindowFields
<1> QED BY <1>1, <1>2, <1>3

\* One window is split along either.
LEMMA OneWindow ==
  ASSUME NEW ws, NEW d \in Dims, NEW e \in Dims, Split(ws, d), Len(ws) = 1
  PROVE  Split(ws, e)
<1>1. ws \in Seq(Window) /\ InRow(ws, d) /\ SharesWhole(ws, d)
  BY DEF Split
<1>2. \A x \in Dims : Total(Shares(ws, x), 1) = ws[1].pct[x]
  BY <1>1, OneShare
<1>3. ws[1].pct[d] = 100 /\ ws[1].pct[Other(d)] = 100
  BY <1>1, <1>2 DEF SharesWhole
<1>4. SharesWhole(ws, e)
  BY <1>2, <1>3, Dimensions DEF SharesWhole
<1>5. InRow(ws, e)
  BY <1>1 DEF InRow
<1> QED BY <1>1, <1>4, <1>5 DEF Split

LEMMA SplitAlongOwn ==
  ASSUME NEW ws, NEW d \in Dims, Split(ws, d)
  PROVE  SplitDim(ws) \in Dims /\ Split(ws, SplitDim(ws))
<1>1. SplitDim(ws) \in Dims
  BY DEF SplitDim, Dims
<1>2. CASE Len(ws) = 1
  BY <1>1, <1>2, OneWindow
<1>3. CASE Len(ws) > 1
  BY <1>3, SplitAlong
<1> QED BY <1>1, <1>2, <1>3 DEF Split

\* WindowsCanBeMerged finds the neighbours of a window, and no other.
LEMMA NeighboursMerge ==
  ASSUME NEW ws, NEW d \in Dims, Split(ws, d), Len(ws) > 1, NEW i \in 1 .. Len(ws)
  PROVE  /\ MergeCands(ws, i) # {}
         /\ Min(MergeCands(ws, i)) = (IF i = 1 THEN 2 ELSE i - 1)
<1>1. ws \in Seq(Window) /\ InRow(ws, d)
  BY DEF Split
<1>2. PICK n \in Nat : n = Len(ws) /\ DOMAIN ws = 1 .. n /\ n >= 2 /\ i \in 1 .. n
  BY <1>1
<1>3. \A j \in 1 .. n : /\ ws[j] \in Window /\ ws[j].ul[d] \in Int /\ ws[j].size[d] \in Int
                        /\ ws[j].size[d] >= 0
  BY <1>1, <1>2, WindowFields DEF InRow
<1>4. \A j, k \in 1 .. n : j < k => ws[j].ul[d] + ws[j].size[d] + Border <= ws[k].ul[d]
  BY <1>1, <1>2, Ordered
<1>5. \A j \in 1 .. n : j + 1 \in 1 .. n => ws[j].ul[d] + ws[j].size[d] + Border = ws[j + 1].ul[d]
  BY <1>2, <1>1 DEF InRow
<1>6. ASSUME NEW j \in 1 .. n, NEW k \in 1 .. n, j < k PROVE ws[j].ul[d] < ws[k].ul[d]
  <2>1. ws[j].ul[d] + ws[j].size[d] + Border <= ws[k].ul[d]
    BY <1>4, <1>6
  <2>2. PICK a \in Int, b \in Int, c \in Int : a = ws[j].ul[d] /\ b = ws[j].size[d] /\ c = ws[k].ul[d]
    BY <1>3
  <2>3. b >= 0 /\ a + b + Border <= c
    BY Zenon, <1>3, <2>1, <2>2
  <2>4. a < c
    BY <2>3 DEF Border
  <2> QED BY <2>2, <2>4
<1>7. ASSUME NEW j \in 1 .. n, j # i
      PROVE  Mergeable(ws[i], ws[j]) <=> (\/ ws[i].ul[d] + ws[i].size[d] + Border = ws[j].ul[d]
                                          \/ ws[j].ul[d] + ws[j].size[d] + Border = ws[i].ul[d])
  <2>1. /\ ws[i].size[Other(d)] = ws[j].size[Other(d)] /\ ws[i].ul[Other(d)] = ws[j].ul[Other(d)]
    BY <1>1, <1>2 DEF InRow
  <2>2. ws[i].ul[d] # ws[j].ul[d]
    <3>1. i < j \/ j < i
      BY <1>2, <1>7
    <3>2. ws[i].ul[d] < ws[j].ul[d] \/ ws[j].ul[d] < ws[i].ul[d]
      BY <1>2, <1>6, <3>1
    <3> QED BY <1>2, <1>3, <3>2
  <2> QED BY <2>1, <2>2, Dimensions DEF Mergeable
<1> DEFINE to == IF i = 1 THEN 2 ELSE i - 1
           C == MergeCands(ws, i)
<1>8. to \in C
  <2>1. to \in 1 .. n /\ to # i /\ (to + 1 = i \/ i + 1 = to)
    BY <1>2
  <2>2. \/ ws[i].ul[d] + ws[i].size[d] + Border = ws[to].ul[d]
        \/ ws[to].ul[d] + ws[to].size[d] + Border = ws[i].ul[d]
    <3> HIDE DEF to
    <3> QED BY <1>2, <1>5, <2>1
  <2> HIDE DEF to
  <2> QED BY <1>2, <1>7, <2>1, <2>2 DEF MergeCands
<1>9. ASSUME NEW j \in C PROVE to <= j /\ j \in Nat
  <2>1. j \in 1 .. n /\ j # i /\ Mergeable(ws[i], ws[j])
    BY <1>2, <1>9 DEF MergeCands
  <2>2. CASE i = 1
    BY <1>2, <2>1, <2>2
  <2>3. CASE i # 1 /\ j < i - 1
    <3>1. i - 1 \in 1 .. n /\ (i - 1) + 1 = i /\ j < i
      BY <1>2, <2>1, <2>3
    <3>2. ws[j].ul[d] + ws[j].size[d] + Border <= ws[i - 1].ul[d]
      BY <1>4, <2>1, <2>3, <3>1
    <3>3. ws[i - 1].ul[d] + ws[i - 1].size[d] + Border <= ws[i].ul[d]
      BY <1>2, <1>4, <3>1
    <3>4. ~ (ws[j].ul[d] + ws[j].size[d] + Border = ws[i].ul[d])
      BY SMTT(30), <1>2, <1>3, <2>1, <3>1, <3>2, <3>3 DEF Border
    <3>5. ~ (ws[i].ul[d] + ws[i].size[d] + Border = ws[j].ul[d])
      <4>1. ws[j].ul[d] < ws[i].ul[d]
        BY <1>2, <1>6, <2>1, <3>1
      <4>2. PICK a \in Int, b \in Int, c \in Int : a = ws[i].ul[d] /\ b = ws[i].size[d] /\ c = ws[j].ul[d]
        BY <1>2, <1>3, <2>1
      <4>3. b >= 0 /\ c < a
        BY <1>2, <1>3, <2>1, <4>1, <4>2
      <4>4. ~ (a + b + Border = c)
        BY <4>3 DEF Border
      <4> QED BY <4>2, <4>4
    <3> QED BY <1>7, <2>1, <3>4, <3>5
  <2> QED BY <1>2, <2>1, <2>2, <2>3
<1>10. to \in Int
  BY <1>2
<1> HIDE DEF to, C
<1>11. \A x \in C : (\A y \in C : x <= y) => x = to
  BY <1>8, <1>9, <1>10
<1>12. Min(C) = to
  BY <1>8, <1>9, <1>11 DEF Min
<1> QED BY <1>8, <1>12 DEF to, C
-----------------------------------------------------------------------------
(* Two neighbours and the window they are cut from, or merged into *)

\* v and w are alike in the other dimension.
SameOthers(v, w, d) ==
  /\ v.ul[Other(d)] = w.ul[Other(d)]
  /\ v.size[Other(d)] = w.size[Other(d)]
  /\ v.pct[Other(d)] = w.pct[Other(d)]

\* v is w and the x behind it as one window.
Joins(v, w, x, d) ==
  /\ v.ul[d] = w.ul[d] /\ x.ul[d] = w.ul[d] + w.size[d] + Border
  /\ v.size[d] = w.size[d] + Border + x.size[d]
  /\ v.pct[d] = w.pct[d] + x.pct[d]
  /\ SameOthers(v, w, d) /\ SameOthers(v, x, d)

\* vs are the windows ws with k and k + 1 as one.
JoinedAt(ws, vs, k, d) ==
  /\ ws \in Seq(Window) /\ vs \in Seq(Window) /\ Len(ws) = Len(vs) + 1
  /\ k \in 1 .. Len(vs)
  /\ \A i \in 1 .. k - 1 : vs[i] = ws[i]
  /\ Joins(vs[k], ws[k], ws[k + 1], d)
  /\ \A i \in k + 1 .. Len(vs) : vs[i] = ws[i + 1]

LEMMA JoinEnds ==
  ASSUME NEW ws, NEW vs, NEW k, NEW d \in Dims, JoinedAt(ws, vs, k, d)
  PROVE  /\ vs[k].ul[d] + vs[k].size[d] = ws[k + 1].ul[d] + ws[k + 1].size[d]
         /\ vs[k].ul[d] = ws[k].ul[d]
         /\ ws[k].ul[d] + ws[k].size[d] + Border = ws[k + 1].ul[d]
<1>1. k \in 1 .. Len(vs) /\ k \in 1 .. Len(ws) /\ k + 1 \in 1 .. Len(ws)
  BY DEF JoinedAt
<1>2. vs[k] \in Window /\ ws[k] \in Window /\ ws[k + 1] \in Window
  BY <1>1 DEF JoinedAt
<1>3. PICK a \in Int, b \in Int, c \in Int, e \in Int, f \in Int :
         /\ a = ws[k].ul[d] /\ b = ws[k].size[d] /\ c = ws[k + 1].ul[d] /\ e = ws[k + 1].size[d]
         /\ f = vs[k].size[d]
  BY <1>2, WindowFields
<1>4. vs[k].ul[d] = a /\ c = a + b + Border /\ f = b + Border + e
  BY <1>3 DEF JoinedAt, Joins
<1>5. a + f = c + e
  BY <1>4 DEF Border
<1> QED BY <1>3, <1>4, <1>5

\* The dimension they share does not change.
LEMMA JoinOthers ==
  ASSUME NEW ws, NEW vs, NEW k, NEW d \in Dims, JoinedAt(ws, vs, k, d)
  PROVE  /\ \A i \in 1 .. Len(vs) : \E j \in 1 .. Len(ws) : SameOthers(vs[i], ws[j], d)
         /\ \A j \in 1 .. Len(ws) : \E i \in 1 .. Len(vs) : SameOthers(vs[i], ws[j], d)
<1>1. PICK n \in Nat : /\ Len(vs) = n /\ Len(ws) = n + 1 /\ k \in 1 .. n
                       /\ \A i \in 1 .. k - 1 : vs[i] = ws[i]
                       /\ \A i \in k + 1 .. n : vs[i] = ws[i + 1]
  <2>1. PICK n \in Nat : Len(vs) = n
    BY DEF JoinedAt
  <2> QED BY <2>1 DEF JoinedAt
<1> DEFINE Like(i, j) == SameOthers(vs[i], ws[j], d)
<1>3. Like(k, k) /\ Like(k, k + 1)
  BY DEF JoinedAt, Joins
<1>4. \A i \in 1 .. k - 1 : Like(i, i)
  BY <1>1 DEF SameOthers
<1>5. \A i \in k + 1 .. n : Like(i, i + 1)
  BY <1>1 DEF SameOthers
<1> HIDE DEF Like
<1>6. ASSUME NEW i \in 1 .. n PROVE \E j \in 1 .. n + 1 : Like(i, j)
  <2>1. i \in 1 .. k - 1 \/ i = k \/ i \in k + 1 .. n
    BY <1>1
  <2>2. i \in 1 .. n + 1 /\ i + 1 \in 1 .. n + 1
    BY <1>1
  <2> QED BY <1>3, <1>4, <1>5, <2>1, <2>2
<1>7. ASSUME NEW j \in 1 .. n + 1 PROVE \E i \in 1 .. n : Like(i, j)
  <2>1. CASE j \in 1 .. k
    <3>1. j \in 1 .. n /\ (j \in 1 .. k - 1 \/ j = k)
      BY <1>1, <2>1
    <3> QED BY <1>3, <1>4, <3>1
  <2>2. CASE j \in k + 1 .. n + 1
    <3>1. j - 1 \in 1 .. n /\ (j - 1) + 1 = j /\ (j - 1 \in k + 1 .. n \/ j - 1 = k)
      BY <1>1, <2>2
    <3> QED BY <1>3, <1>5, <3>1
  <2> QED BY <1>1, <2>1, <2>2
<1>8. /\ \A i \in 1 .. Len(vs) : \E j \in 1 .. Len(ws) : Like(i, j)
      /\ \A j \in 1 .. Len(ws) : \E i \in 1 .. Len(vs) : Like(i, j)
  BY <1>1, <1>6, <1>7
<1> QED BY Zenon, <1>8 DEF Like

\* Neighbours that are merged leave the windows in a row.
LEMMA MergedInRow ==
  ASSUME NEW ws, NEW vs, NEW k, NEW d \in Dims, JoinedAt(ws, vs, k, d), Split(ws, d)
  PROVE  InRow(vs, d)
<1>0. ws \in Seq(Window) /\ vs \in Seq(Window) /\ InRow(ws, d)
  BY DEF JoinedAt, Split
<1>1. PICK n \in Nat : /\ Len(vs) = n /\ Len(ws) = n + 1 /\ k \in 1 .. n
                       /\ \A i \in 1 .. k - 1 : vs[i] = ws[i]
                       /\ \A i \in k + 1 .. n : vs[i] = ws[i + 1]
  <2>1. PICK n \in Nat : Len(vs) = n
    BY DEF JoinedAt
  <2> QED BY <2>1 DEF JoinedAt
<1>2. \A i \in 1 .. n : i \in 1 .. k - 1 \/ i = k \/ i \in k + 1 .. n
  BY <1>1
<1>3. \A i \in 1 .. n + 1 : i + 1 \in 1 .. n + 1 => ws[i].ul[d] + ws[i].size[d] + Border = ws[i + 1].ul[d]
  BY <1>0, <1>1 DEF InRow
<1>4. ASSUME NEW i \in 1 .. n, i + 1 \in 1 .. n
      PROVE  vs[i].ul[d] + vs[i].size[d] + Border = vs[i + 1].ul[d]
  <2>1. CASE i + 1 \in 1 .. k
    <3>1. i \in 1 .. k - 1 /\ (i + 1 \in 1 .. k - 1 \/ i + 1 = k) /\ i \in 1 .. n + 1 /\ i + 1 \in 1 .. n + 1
      BY <1>1, <2>1
    <3>2. vs[i] = ws[i] /\ vs[i + 1].ul[d] = ws[i + 1].ul[d]
      BY <1>1, <3>1, JoinEnds
    <3> QED BY <1>3, <3>1, <3>2
  <2>2. CASE i = k
    <3>1. k + 1 \in k + 1 .. n /\ k + 1 \in 1 .. n + 1 /\ (k + 1) + 1 \in 1 .. n + 1
      BY <1>1, <1>4, <2>2
    <3>2. vs[k + 1] = ws[(k + 1) + 1]
      BY <1>1, <3>1
    <3>3. ws[k + 1].ul[d] + ws[k + 1].size[d] + Border = ws[(k + 1) + 1].ul[d]
      BY <1>3, <3>1
    <3>4. vs[k].ul[d] + vs[k].size[d] = ws[k + 1].ul[d] + ws[k + 1].size[d]
      BY JoinEnds
    <3> QED BY <2>2, <3>2, <3>3, <3>4
  <2>3. CASE i \in k + 1 .. n
    <3>1. i + 1 \in k + 1 .. n /\ i + 1 \in 1 .. n + 1 /\ (i + 1) + 1 \in 1 .. n + 1
      BY <1>1, <1>4, <2>3
    <3>2. vs[i] = ws[i + 1] /\ vs[i + 1] = ws[(i + 1) + 1]
      BY <1>1, <2>3, <3>1
    <3> QED BY <1>3, <3>1, <3>2
  <2> QED BY <1>1, <2>1, <2>2, <2>3
<1>5. \A i \in 1 .. n - 1 : i \in 1 .. n /\ i + 1 \in 1 .. n
  BY <1>1
<1>6. \A i \in 1 .. n : vs[i].size[d] >= 0
  <2>1. \A j \in 1 .. n + 1 : ws[j].size[d] \in Int /\ ws[j].size[d] >= 0
    BY <1>0, <1>1, WindowFields DEF InRow
  <2>2. k \in 1 .. n + 1 /\ k + 1 \in 1 .. n + 1
    BY <1>1
  <2>3. PICK a \in Int, b \in Int : a = ws[k].size[d] /\ b = ws[k + 1].size[d] /\ a >= 0 /\ b >= 0
    BY <2>1, <2>2
  <2>4. vs[k].size[d] = a + Border + b
    BY <2>3 DEF JoinedAt, Joins
  <2>5. a + Border + b >= 0
    BY <2>3 DEF Border
  <2>6. \A i \in 1 .. k - 1 : i \in 1 .. n + 1
    BY <1>1
  <2>7. \A i \in k + 1 .. n : i + 1 \in 1 .. n + 1
    BY <1>1
  <2> QED BY <1>1, <1>2, <2>1, <2>4, <2>5, <2>6, <2>7
<1>7. ASSUME NEW i \in 1 .. n, NEW j \in 1 .. n
      PROVE  /\ vs[i].ul[Other(d)] = vs[j].ul[Other(d)] /\ vs[i].size[Other(d)] = vs[j].size[Other(d)]
             /\ vs[i].size[Other(d)] >= 0
  <2>0. i \in 1 .. Len(vs) /\ j \in 1 .. Len(vs)
    BY <1>1
  <2>1. PICK p \in 1 .. Len(ws) : SameOthers(vs[i], ws[p], d)
    BY <2>0, JoinOthers
  <2>2. PICK q \in 1 .. Len(ws) : SameOthers(vs[j], ws[q], d)
    BY <2>0, JoinOthers
  <2>3. /\ ws[p].ul[Other(d)] = ws[q].ul[Other(d)] /\ ws[p].size[Other(d)] = ws[q].size[Other(d)]
        /\ ws[p].size[Other(d)] >= 0
    BY <1>0, <1>1, Dimensions DEF InRow
  <2> QED BY <2>1, <2>2, <2>3 DEF SameOthers
<1> QED BY <1>1, <1>4, <1>5, <1>6, <1>7, Dimensions DEF InRow

\* A window that is cut leaves them in a row.
LEMMA CutInRow ==
  ASSUME NEW ws, NEW vs, NEW k, NEW d \in Dims, JoinedAt(ws, vs, k, d), Split(vs, d),
         ws[k].size[d] >= 0, ws[k + 1].size[d] >= 0
  PROVE  InRow(ws, d)
<1>0. ws \in Seq(Window) /\ vs \in Seq(Window) /\ InRow(vs, d)
  BY DEF JoinedAt, Split
<1>1. PICK n \in Nat : /\ Len(vs) = n /\ Len(ws) = n + 1 /\ k \in 1 .. n
                       /\ \A i \in 1 .. k - 1 : vs[i] = ws[i]
                       /\ \A i \in k + 1 .. n : vs[i] = ws[i + 1]
  <2>1. PICK n \in Nat : Len(vs) = n
    BY DEF JoinedAt
  <2> QED BY <2>1 DEF JoinedAt
<1>2. \A i \in 1 .. n + 1 : i \in 1 .. k - 1 \/ i = k \/ i = k + 1 \/ i - 1 \in k + 1 .. n
  BY <1>1
<1>3. \A i \in 1 .. n : i + 1 \in 1 .. n => vs[i].ul[d] + vs[i].size[d] + Border = vs[i + 1].ul[d]
  BY <1>0, <1>1 DEF InRow
<1>4. ASSUME NEW i \in 1 .. n
      PROVE  ws[i].ul[d] + ws[i].size[d] + Border = ws[i + 1].ul[d]
  <2>1. CASE i \in 1 .. k - 1
    <3>1. i + 1 \in 1 .. n /\ (i + 1 \in 1 .. k - 1 \/ i + 1 = k)
      BY <1>1, <2>1
    <3>2. vs[i] = ws[i] /\ vs[i + 1].ul[d] = ws[i + 1].ul[d]
      BY SMTT(30), <1>1, <2>1, <3>1, JoinEnds
    <3> QED BY <1>3, <3>1, <3>2
  <2>2. CASE i = k
    BY <2>2, JoinEnds
  <2>3. CASE i = k + 1
    <3>1. k + 1 \in k + 1 .. n /\ k + 1 \in 1 .. n /\ k \in 1 .. n
      BY <1>1, <2>3
    <3>2. vs[k + 1] = ws[(k + 1) + 1]
      BY <1>1, <3>1
    <3>3. vs[k].ul[d] + vs[k].size[d] + Border = vs[k + 1].ul[d]
      BY <1>3, <3>1
    <3>4. vs[k].ul[d] + vs[k].size[d] = ws[k + 1].ul[d] + ws[k + 1].size[d]
      BY JoinEnds
    <3> QED BY <2>3, <3>2, <3>3, <3>4
  <2>4. CASE i \in k + 2 .. n
    <3>1. /\ i - 1 \in k + 1 .. n /\ i \in k + 1 .. n /\ (i - 1) + 1 = i
          /\ i - 1 \in 1 .. n
      BY <1>1, <2>4
    <3>2. vs[i - 1] = ws[i] /\ vs[i] = ws[i + 1]
      BY <1>1, <3>1
    <3>3. vs[i - 1].ul[d] + vs[i - 1].size[d] + Border = vs[i].ul[d]
      BY <1>3, <3>1
    <3> QED BY <3>2, <3>3
  <2> QED BY <1>1, <2>1, <2>2, <2>3, <2>4
<1>5. (n + 1) - 1 = n
  BY <1>1
<1>6. \A i \in 1 .. n + 1 : ws[i].size[d] >= 0
  <2>1. \A j \in 1 .. n : vs[j].size[d] >= 0
    BY <1>0, <1>1 DEF InRow
  <2>2. \A i \in 1 .. k - 1 : i \in 1 .. n
    BY <1>1
  <2>3. \A i \in 1 .. n + 1 : i - 1 \in k + 1 .. n => i - 1 \in 1 .. n /\ (i - 1) + 1 = i
    BY <1>1
  <2>4. \A i \in 1 .. n + 1 : i - 1 \in k + 1 .. n => ws[i] = vs[i - 1]
    BY <1>1, <2>3
  <2> QED BY <1>1, <1>2, <2>1, <2>2, <2>3, <2>4
<1>7. ASSUME NEW i \in 1 .. n + 1, NEW j \in 1 .. n + 1
      PROVE  /\ ws[i].ul[Other(d)] = ws[j].ul[Other(d)] /\ ws[i].size[Other(d)] = ws[j].size[Other(d)]
             /\ ws[i].size[Other(d)] >= 0
  <2>0. i \in 1 .. Len(ws) /\ j \in 1 .. Len(ws)
    BY <1>1
  <2>1. PICK p \in 1 .. Len(vs) : SameOthers(vs[p], ws[i], d)
    BY <2>0, JoinOthers
  <2>2. PICK q \in 1 .. Len(vs) : SameOthers(vs[q], ws[j], d)
    BY <2>0, JoinOthers
  <2>3. /\ vs[p].ul[Other(d)] = vs[q].ul[Other(d)] /\ vs[p].size[Other(d)] = vs[q].size[Other(d)]
        /\ vs[p].size[Other(d)] >= 0
    BY <1>0, <1>1, Dimensions DEF InRow
  <2> QED BY <2>1, <2>2, <2>3 DEF SameOthers
<1> QED BY <1>1, <1>4, <1>5, <1>6, <1>7, Dimensions DEF InRow

\* Their shares add up to what they did.
LEMMA JoinShares ==
  ASSUME NEW ws, NEW vs, NEW k, NEW d \in Dims, JoinedAt(ws, vs, k, d)
  PROVE  Total(Shares(vs, d), Len(vs)) = Total(Shares(ws, d), Len(ws))
<1>1. PICK n \in Nat : /\ Len(vs) = n /\ Len(ws) = n + 1 /\ k \in 1 .. n
                       /\ \A i \in 1 .. k - 1 : vs[i] = ws[i]
                       /\ \A i \in k + 1 .. n : vs[i] = ws[i + 1]
  <2>1. PICK n \in Nat : Len(vs) = n
    BY DEF JoinedAt
  <2> QED BY <2>1 DEF JoinedAt
<1>2. ws \in Seq(Window) /\ vs \in Seq(Window) /\ vs[k].pct[d] = ws[k].pct[d] + ws[k + 1].pct[d]
  BY DEF JoinedAt, Joins
<1> DEFINE f == Shares(vs, d)
           g == Shares(ws, d)
<1> HIDE DEF f, g
<1>3. /\ f \in [1 .. n -> Int] /\ \A i \in 1 .. n : f[i] = vs[i].pct[d]
      /\ g \in [1 .. n + 1 -> Int] /\ \A i \in 1 .. n + 1 : g[i] = ws[i].pct[d]
  <2>1. f \in [1 .. Len(vs) -> Int] /\ \A i \in 1 .. Len(vs) : f[i] = vs[i].pct[d]
    BY <1>2, SharesAndSizes DEF f
  <2>2. g \in [1 .. Len(ws) -> Int] /\ \A i \in 1 .. Len(ws) : g[i] = ws[i].pct[d]
    BY <1>2, SharesAndSizes DEF g
  <2> QED BY <1>1, <2>1, <2>2
<1>4. /\ \A i \in 1 .. k - 1 : i \in 1 .. n /\ i \in 1 .. n + 1
      /\ \A i \in k + 1 .. n : i \in 1 .. n /\ i + 1 \in 1 .. n + 1
      /\ k \in 1 .. n + 1 /\ k + 1 \in 1 .. n + 1
  BY <1>1
<1>5. /\ \A i \in 1 .. k - 1 : f[i] = g[i]
      /\ f[k] = g[k] + g[k + 1]
      /\ \A i \in k + 1 .. n : f[i] = g[i + 1]
  <2>1. ASSUME NEW i \in 1 .. k - 1 PROVE f[i] = g[i]
    BY <1>1, <1>3, <1>4
  <2>2. f[k] = g[k] + g[k + 1]
    BY <1>1, <1>2, <1>3, <1>4
  <2>3. ASSUME NEW i \in k + 1 .. n PROVE f[i] = g[i + 1]
    <3>1. f[i] = vs[i].pct[d] /\ g[i + 1] = ws[i + 1].pct[d] /\ vs[i] = ws[i + 1]
      BY <1>1, <1>3, <1>4
    <3> QED BY <3>1
  <2> QED BY <2>1, <2>2, <2>3
<1>6. Total(f, n) = Total(g, n + 1)
  BY <1>1, <1>3, <1>5, TotalJoined
<1> QED BY <1>1, <1>6 DEF f, g

LEMMA MergedSplit ==
  ASSUME NEW ws, NEW vs, NEW k, NEW d \in Dims, JoinedAt(ws, vs, k, d), Split(ws, d)
  PROVE  Split(vs, d)
<1>1. ws \in Seq(Window) /\ vs \in Seq(Window) /\ SharesWhole(ws, d)
  BY DEF JoinedAt, Split
<1>2. PICK n \in Nat : /\ Len(vs) = n /\ Len(ws) = n + 1 /\ k \in 1 .. n
                       /\ \A i \in 1 .. k - 1 : vs[i] = ws[i]
                       /\ \A i \in k + 1 .. n : vs[i] = ws[i + 1]
  <2>1. PICK n \in Nat : Len(vs) = n
    BY DEF JoinedAt
  <2> QED BY <2>1 DEF JoinedAt
<1>3. \A i \in 1 .. n + 1 : ws[i].pct[d] \in Int /\ ws[i].pct[d] >= 0 /\ ws[i].pct[Other(d)] = 100
  BY <1>1, <1>2, WindowFields DEF SharesWhole
<1>4. ASSUME NEW i \in 1 .. n PROVE vs[i].pct[d] >= 0
  <2>1. /\ i \in 1 .. k - 1 \/ i = k \/ i \in k + 1 .. n
        /\ i \in 1 .. n + 1 /\ i + 1 \in 1 .. n + 1
    BY <1>2
  <2>2. CASE i = k
    <3>1. PICK a \in Int, b \in Int : a = ws[k].pct[d] /\ b = ws[k + 1].pct[d] /\ a >= 0 /\ b >= 0
      BY <1>3, <2>1, <2>2
    <3>2. vs[k].pct[d] = a + b
      BY <3>1 DEF JoinedAt, Joins
    <3>3. a + b >= 0
      BY <3>1
    <3> QED BY <2>2, <3>2, <3>3
  <2> QED BY <1>2, <1>3, <2>1, <2>2
<1>5. ASSUME NEW i \in 1 .. n PROVE vs[i].pct[Other(d)] = 100
  <2>1. i \in 1 .. Len(vs)
    BY <1>2
  <2>2. PICK p \in 1 .. Len(ws) : SameOthers(vs[i], ws[p], d)
    BY <2>1, JoinOthers
  <2> QED BY <1>2, <1>3, <2>2 DEF SameOthers
<1>6. SharesWhole(vs, d)
  BY <1>1, <1>2, <1>4, <1>5, JoinShares DEF SharesWhole
<1>7. Len(vs) >= 1
  BY <1>2
<1> QED BY <1>1, <1>6, <1>7, MergedInRow DEF Split

LEMMA CutSplit ==
  ASSUME NEW ws, NEW vs, NEW k, NEW d \in Dims, JoinedAt(ws, vs, k, d), Split(vs, d),
         ws[k].size[d] >= 0, ws[k + 1].size[d] >= 0,
         ws[k].pct[d] >= 0, ws[k + 1].pct[d] >= 0
  PROVE  Split(ws, d)
<1>1. ws \in Seq(Window) /\ vs \in Seq(Window) /\ SharesWhole(vs, d)
  BY DEF JoinedAt, Split
<1>2. PICK n \in Nat : /\ Len(vs) = n /\ Len(ws) = n + 1 /\ k \in 1 .. n
                       /\ \A i \in 1 .. k - 1 : vs[i] = ws[i]
                       /\ \A i \in k + 1 .. n : vs[i] = ws[i + 1]
  <2>1. PICK n \in Nat : Len(vs) = n
    BY DEF JoinedAt
  <2> QED BY <2>1 DEF JoinedAt
<1>3. \A i \in 1 .. n : vs[i].pct[d] >= 0 /\ vs[i].pct[Other(d)] = 100
  BY <1>1, <1>2 DEF SharesWhole
<1>4. ASSUME NEW i \in 1 .. n + 1 PROVE ws[i].pct[d] >= 0
  <2>1. i \in 1 .. k - 1 \/ i = k \/ i = k + 1 \/ (i - 1 \in k + 1 .. n /\ (i - 1) + 1 = i)
    BY <1>2
  <2>2. CASE i \in 1 .. k - 1
    <3>1. i \in 1 .. n
      BY <1>2, <2>2
    <3> QED BY <1>2, <1>3, <2>2, <3>1
  <2>3. CASE i - 1 \in k + 1 .. n /\ (i - 1) + 1 = i
    <3>1. i - 1 \in 1 .. n /\ vs[i - 1] = ws[i]
      BY <1>2, <2>3
    <3> QED BY <1>3, <3>1
  <2> QED BY <2>1, <2>2, <2>3
<1>5. ASSUME NEW i \in 1 .. n + 1 PROVE ws[i].pct[Other(d)] = 100
  <2>1. i \in 1 .. Len(ws)
    BY <1>2
  <2>2. PICK p \in 1 .. Len(vs) : SameOthers(vs[p], ws[i], d)
    BY <2>1, JoinOthers
  <2> QED BY <1>2, <1>3, <2>2 DEF SameOthers
<1>6. SharesWhole(ws, d)
  BY SMTT(30), <1>1, <1>2, <1>4, <1>5, JoinShares DEF SharesWhole
<1>7. Len(ws) >= 1
  BY <1>2
<1> QED BY <1>1, <1>6, <1>7, CutInRow DEF Split

LEMMA JoinTiles ==
  ASSUME NEW ws, NEW vs, NEW k, NEW d \in Dims, NEW scr, JoinedAt(ws, vs, k, d)
  PROVE  Tiles(ws, d, scr) <=> Tiles(vs, d, scr)
<1>1. PICK n \in Nat : /\ Len(vs) = n /\ Len(ws) = n + 1 /\ k \in 1 .. n
                       /\ \A i \in 1 .. k - 1 : vs[i] = ws[i]
                       /\ \A i \in k + 1 .. n : vs[i] = ws[i + 1]
  <2>1. PICK n \in Nat : Len(vs) = n
    BY DEF JoinedAt
  <2> QED BY <2>1 DEF JoinedAt
<1>2. vs[1].ul[d] = ws[1].ul[d] /\ vs[1].ul[Other(d)] = ws[1].ul[Other(d)]
  <2>1. CASE k = 1
    BY <2>1 DEF JoinedAt, Joins, SameOthers
  <2>2. CASE k # 1
    <3>1. 1 \in 1 .. k - 1
      BY <1>1, <2>2
    <3> QED BY <1>1, <3>1
  <2> QED BY <2>1, <2>2
<1>3. vs[n].ul[d] + vs[n].size[d] = ws[n + 1].ul[d] + ws[n + 1].size[d]
  <2>1. CASE k = n
    BY <2>1, JoinEnds
  <2>2. CASE k # n
    <3>1. n \in k + 1 .. n
      BY <1>1, <2>2
    <3> QED BY <1>1, <3>1
  <2> QED BY <2>1, <2>2
<1>4. (\A i \in 1 .. Len(ws) : ws[i].size[Other(d)] = scr[Other(d)])
       <=> (\A i \in 1 .. Len(vs) : vs[i].size[Other(d)] = scr[Other(d)])
  <2>1. ASSUME \A i \in 1 .. Len(ws) : ws[i].size[Other(d)] = scr[Other(d)], NEW i \in 1 .. Len(vs)
        PROVE  vs[i].size[Other(d)] = scr[Other(d)]
    <3>1. PICK p \in 1 .. Len(ws) : SameOthers(vs[i], ws[p], d)
      BY JoinOthers
    <3> QED BY <2>1, <3>1 DEF SameOthers
  <2>2. ASSUME \A i \in 1 .. Len(vs) : vs[i].size[Other(d)] = scr[Other(d)], NEW i \in 1 .. Len(ws)
        PROVE  ws[i].size[Other(d)] = scr[Other(d)]
    <3>1. PICK p \in 1 .. Len(vs) : SameOthers(vs[p], ws[i], d)
      BY JoinOthers
    <3> QED BY <2>2, <3>1 DEF SameOthers
  <2> QED BY <2>1, <2>2
<1> QED BY <1>1, <1>2, <1>3, <1>4 DEF Tiles
-----------------------------------------------------------------------------
(* A window is cut *)

LEMMA CutParts ==
  ASSUME NEW w \in Window, NEW d \in Dims, NEW at \in Int,
         at >= MinWin, w.size[d] - at >= MinWin, w.pct[d] >= 0, w.pct[Other(d)] = 100
  PROVE  /\ SplitParent(w, d, at) \in Window /\ SplitChild(w, d, at) \in Window
         /\ Joins(w, SplitParent(w, d, at), SplitChild(w, d, at), d)
         /\ \A u \in {SplitParent(w, d, at), SplitChild(w, d, at)} : u.size[d] >= 0 /\ u.pct[d] >= 0
<1> DEFINE p == SplitParent(w, d, at)
           c == SplitChild(w, d, at)
<1>1. PICK a \in Int, b \in Int, e \in Int : a = w.ul[d] /\ b = w.size[d] /\ e = w.pct[d]
  BY WindowFields
<1>2. /\ MinWin \in Nat /\ MinWin >= 2 /\ at >= MinWin /\ b - at >= MinWin /\ e >= 0
      /\ b - Border > 0
  BY <1>1, WindowsAssumption DEF Border
<1> DEFINE n == b - at - 2
           q == (e * n) \div (b - Border)
<1>3. /\ n >= 0 /\ n \in Int /\ b - (n + Border) >= 0 /\ n <= b - Border /\ b - Border \in Nat
  BY <1>2 DEF Border
<1>4. q \in Int /\ q >= 0 /\ q <= e
  <2>1. e \in Nat /\ n \in Nat /\ b - Border \in Nat /\ b - Border > 0
    BY <1>2, <1>3
  <2>2. e * n \in Nat /\ e * n <= e * (b - Border)
    <3>1. PICK x \in Nat, y \in Nat : x = n /\ y = b - Border /\ x <= y
      BY <1>3, <2>1
    <3>2. e * x \in Nat /\ e * x <= e * y
      <4>1. PICK z \in Nat : y = x + z
        <5>1. y - x \in Nat /\ y = x + (y - x)
          BY <3>1
        <5> QED BY <5>1
      <4>2. e * (x + z) = e * x + e * z /\ e * z \in Nat /\ e * x \in Nat
        BY <2>1
      <4> QED BY <4>1, <4>2
    <3> QED BY <3>1, <3>2
  <2> HIDE DEF n
  <2>3. PICK x \in Nat, y \in Nat : x = e * n /\ y = b - Border /\ y > 0 /\ x <= e * y
    BY <2>1, <2>2
  <2>4. x \div y \in Nat /\ x \div y <= e
    BY <2>1, <2>3, Share
  <2>5. q = x \div y
    BY <2>3
  <2> QED BY <2>4, <2>5
<1> HIDE DEF q
<1>5. /\ c = [ul   |-> [w.ul EXCEPT ![d] = @ + (w.size[d] - (n + Border)) + Border],
              size |-> [w.size EXCEPT ![d] = n],
              pct  |-> [x \in Dims |-> IF x = d THEN q ELSE 100]]
  BY <1>1 DEF SplitChild, q
<1> HIDE DEF c
<1>6. p = [w EXCEPT !.size[d] = @ - (c.size[d] + Border), !.pct[d] = @ - c.pct[d]]
  BY DEF SplitParent, c
<1> HIDE DEF p, n
<1>7. /\ w.ul \in [Dims -> Int] /\ w.size \in [Dims -> Int] /\ w.pct \in [Dims -> Int]
      /\ w = [ul |-> w.ul, size |-> w.size, pct |-> w.pct]
  BY DEF Window
<1>8. PICK u \in Int : u = a + (b - (n + Border)) + Border
  BY <1>3 DEF Border
<1>9. /\ c = [ul |-> [w.ul EXCEPT ![d] = u], size |-> [w.size EXCEPT ![d] = n],
              pct |-> [x \in Dims |-> IF x = d THEN q ELSE 100]]
      /\ c.ul[d] = u /\ c.size[d] = n /\ c.pct[d] = q
      /\ c.ul[Other(d)] = w.ul[Other(d)] /\ c.size[Other(d)] = w.size[Other(d)] /\ c.pct[Other(d)] = 100
  <2>1. c = [ul |-> [w.ul EXCEPT ![d] = u], size |-> [w.size EXCEPT ![d] = n],
             pct |-> [x \in Dims |-> IF x = d THEN q ELSE 100]]
    BY <1>1, <1>5, <1>7, <1>8
  <2> QED BY <1>7, <2>1, Dimensions
<1>10. PICK v \in Int : v = b - (n + Border)
  BY <1>3 DEF Border
<1>11. p = [w EXCEPT !.size[d] = v, !.pct[d] = e - q]
  BY <1>1, <1>6, <1>9, <1>10, <1>7
<1>12. e - q \in Int
  BY <1>4
<1>13. /\ p.ul = w.ul /\ p.size = [w.size EXCEPT ![d] = v] /\ p.pct = [w.pct EXCEPT ![d] = e - q]
       /\ p = [ul |-> p.ul, size |-> p.size, pct |-> p.pct]
  BY <1>7, <1>11
<1>14. p \in Window
  BY <1>7, <1>12, <1>13 DEF Window
<1>15. c \in Window
  BY <1>3, <1>4, <1>7, <1>9 DEF Window
<1>16. /\ p.ul[d] = a /\ p.size[d] = v /\ p.pct[d] = e - q
       /\ p.ul[Other(d)] = w.ul[Other(d)] /\ p.size[Other(d)] = w.size[Other(d)]
       /\ p.pct[Other(d)] = w.pct[Other(d)]
  BY <1>1, <1>7, <1>13, Dimensions
<1>17. u = a + v + Border /\ b = v + Border + n /\ e = (e - q) + q
  BY <1>3, <1>4, <1>8, <1>10 DEF Border
<1>18. Joins(w, p, c, d)
  BY <1>1, <1>9, <1>16, <1>17 DEF Joins, SameOthers
<1>19. v >= 0 /\ e - q >= 0
  BY <1>3, <1>4, <1>10
<1> QED BY <1>3, <1>4, <1>9, <1>14, <1>15, <1>16, <1>18, <1>19 DEF p, c

\* SplitCurWnd cuts the current window, along the dimension there is if any.
LEMMA SplitCurWndCuts ==
  ASSUME InBounds, Split(win, SplitDim(win)), NEW d \in Dims, NEW at \in Int, SplitCurWnd(d, at)
  PROVE  /\ Split(win, d) /\ Split(win', d)
         /\ JoinedAt(win', win, cur, d)
         /\ Len(win') <= MaxWindows /\ cur' \in 1 .. Len(win') /\ screen' = screen
<1>1. Split(win, d)
  <2>1. CASE Len(win) = 1
    BY <2>1, OneWindow DEF SplitDim, Dims
  <2>2. CASE Len(win) > 1
    BY <2>2 DEF SplitCurWnd
  <2>3. win \in Seq(Window) /\ Len(win) >= 1
    BY DEF Split
  <2>4. Len(win) = 1 \/ Len(win) > 1
    <3>1. PICK m \in Nat : m = Len(win)
      BY <2>3
    <3> QED BY <2>3, <3>1
  <2> QED BY <2>1, <2>2, <2>4
<1>2. /\ win \in Seq(Window) /\ cur \in 1 .. Len(win) /\ Len(win) < MaxWindows
      /\ win[cur].pct[d] >= 0 /\ win[cur].pct[Other(d)] = 100
      /\ at >= MinWin /\ win[cur].size[d] - at >= MinWin
      /\ cur' = cur /\ screen' = screen
  BY <1>1 DEF InBounds, Split, SharesWhole, SplitCurWnd
<1>3. PICK n \in Nat : n = Len(win) /\ cur \in 1 .. n /\ DOMAIN win = 1 .. n
  BY <1>2
<1> DEFINE p == SplitParent(win[cur], d, at)
           c == SplitChild(win[cur], d, at)
<1>4. /\ p \in Window /\ c \in Window /\ Joins(win[cur], p, c, d)
      /\ p.size[d] >= 0 /\ c.size[d] >= 0 /\ p.pct[d] >= 0 /\ c.pct[d] >= 0
  <2>1. win[cur] \in Window
    BY <1>2
  <2> QED BY <1>2, <2>1, CutParts
<1>5. win' = InsertAt([win EXCEPT ![cur] = p], cur + 1, c)
  BY DEF SplitCurWnd
<1> HIDE DEF p, c
<1> DEFINE s == [win EXCEPT ![cur] = p]
           new == <<c>>
<1>6. /\ s \in Seq(Window) /\ Len(s) = n /\ s[cur] = p
      /\ \A i \in 1 .. n : i # cur => s[i] = win[i]
  BY <1>2, <1>3, <1>4
<1>7. new \in Seq(Window) /\ Len(new) = 1 /\ new[1] = c
  BY <1>4
<1>8. win' = SubSeq(s, 1, cur) \o new \o SubSeq(s, cur + 1, Len(s))
  <2>1. (cur + 1) - 1 = cur
    BY <1>3
  <2> QED BY <1>5, <2>1 DEF InsertAt
<1> HIDE DEF s, new
<1>9. cur \in 0 .. Len(s)
  BY <1>3, <1>6
<1>10. /\ win' \in Seq(Window) /\ Len(win') = n + 1
       /\ \A i \in 1 .. cur : win'[i] = s[i]
       /\ win'[cur + 1] = c
       /\ \A i \in cur + 1 .. n : win'[i + 1] = s[i]
  <2>1. /\ win' \in Seq(Window) /\ Len(win') = Len(s) + Len(new)
        /\ \A i \in 1 .. cur : win'[i] = s[i]
        /\ \A i \in 1 .. Len(new) : win'[cur + i] = new[i]
        /\ \A i \in cur + 1 .. Len(s) : win'[i + Len(new)] = s[i]
    <3> DEFINE t == SubSeq(s, 1, cur) \o new \o SubSeq(s, cur + 1, Len(s))
    <3>1. /\ t \in Seq(Window) /\ Len(t) = Len(s) + Len(new)
          /\ \A i \in 1 .. cur : t[i] = s[i]
          /\ \A i \in 1 .. Len(new) : t[cur + i] = new[i]
          /\ \A i \in cur + 1 .. Len(s) : t[i + Len(new)] = s[i]
      BY <1>6, <1>7, <1>9, PutIn
    <3> HIDE DEF t
    <3> QED BY <1>8, <3>1 DEF t
  <2> QED BY <1>6, <1>7, <2>1
<1>11. JoinedAt(win', win, cur, d)
  <2>1. ASSUME NEW i \in 1 .. cur - 1 PROVE win[i] = win'[i]
    <3>1. i \in 1 .. n /\ i \in 1 .. cur /\ i # cur
      BY <1>3
    <3> QED BY <1>6, <1>10, <3>1
  <2>2. win'[cur] = p
    BY <1>3, <1>6, <1>10
  <2>3. \A i \in cur + 1 .. n : win[i] = win'[i + 1]
    BY <1>3, <1>6, <1>10
  <2> QED BY <1>2, <1>3, <1>4, <1>10, <2>1, <2>2, <2>3 DEF JoinedAt
<1>12. Split(win', d)
  <2>1. win'[cur] = p /\ win'[cur + 1] = c
    BY <1>3, <1>6, <1>10
  <2> QED BY <1>1, <1>4, <1>11, <2>1, CutSplit
<1>13. Len(win') <= MaxWindows /\ cur' \in 1 .. Len(win')
  BY <1>2, <1>3, <1>10, WindowsAssumption
<1> QED BY <1>1, <1>2, <1>11, <1>12, <1>13
-----------------------------------------------------------------------------
(* A window is closed *)

\* What the window to gets from its neighbour, the one after it or before it.
LEMMA MergeParts ==
  ASSUME NEW ws, NEW d \in Dims, Split(ws, d), NEW k \in 1 .. Len(ws), k + 1 \in 1 .. Len(ws)
  PROVE  /\ Merged(ws[k], ws[k + 1]) \in Window /\ Merged(ws[k + 1], ws[k]) \in Window
         /\ Joins(Merged(ws[k], ws[k + 1]), ws[k], ws[k + 1], d)
         /\ Joins(Merged(ws[k + 1], ws[k]), ws[k], ws[k + 1], d)
<1> DEFINE w == ws[k]
           x == ws[k + 1]
<1>1. /\ w \in Window /\ x \in Window
      /\ x.ul[d] = w.ul[d] + w.size[d] + Border
      /\ SameOthers(w, x, d)
      /\ w.size[d] >= 0
  <2>1. ws \in Seq(Window) /\ InRow(ws, d) /\ SharesWhole(ws, d)
    BY DEF Split
  <2>2. k \in 1 .. Len(ws) - 1
    BY <2>1
  <2> QED BY <2>1, <2>2 DEF InRow, SharesWhole, SameOthers
<1> HIDE DEF w, x
<1>2. /\ w.ul \in [Dims -> Int] /\ w.size \in [Dims -> Int] /\ w.pct \in [Dims -> Int]
      /\ x.ul \in [Dims -> Int] /\ x.size \in [Dims -> Int] /\ x.pct \in [Dims -> Int]
      /\ w = [ul |-> w.ul, size |-> w.size, pct |-> w.pct]
      /\ x = [ul |-> x.ul, size |-> x.size, pct |-> x.pct]
  BY <1>1 DEF Window
<1>3. PICK a \in Int, b \in Int, e \in Int, r \in Int, t \in Int :
         a = w.ul[d] /\ b = w.size[d] /\ e = w.pct[d] /\ r = x.size[d] /\ t = x.pct[d]
  BY <1>2
<1>4. x.ul[d] = a + b + Border /\ b >= 0 /\ a + b + Border > a
  BY SMTT(30), <1>1, <1>3 DEF Border
<1>5. w.ul[d] # x.ul[d] /\ w.ul[Other(d)] = x.ul[Other(d)]
  BY <1>1, <1>3, <1>4 DEF SameOthers
<1>6. /\ (IF w.ul["lin"] = x.ul["lin"] THEN "col" ELSE "lin") = d
      /\ (IF x.ul["lin"] = w.ul["lin"] THEN "col" ELSE "lin") = d
  BY <1>5 DEF Dims, Other
<1> DEFINE Is(v) == v = [ul   |-> [w.ul EXCEPT ![d] = a],
                         size |-> [w.size EXCEPT ![d] = b + r + Border],
                         pct  |-> [w.pct EXCEPT ![d] = e + t]]
<1>7. b + r + Border = b + Border + r /\ b + r + Border \in Int /\ e + t \in Int
      /\ r + b + Border = b + r + Border /\ t + e = e + t
  BY DEF Border
<1>8. ASSUME NEW v, Is(v) PROVE v \in Window /\ Joins(v, w, x, d)
  <2>1. v \in Window
    BY <1>2, <1>7, <1>8 DEF Window
  <2>2. v.ul[d] = a /\ v.size[d] = b + r + Border /\ v.pct[d] = e + t
    BY <1>2, <1>8
  <2>3. SameOthers(v, w, d)
    BY <1>2, <1>8, Dimensions DEF SameOthers
  <2>4. SameOthers(v, x, d)
    BY <1>1, <2>3 DEF SameOthers
  <2> QED BY <1>3, <1>4, <1>7, <2>1, <2>2, <2>3, <2>4 DEF Joins
<1>9. Is(Merged(w, x))
  <2>1. Merged(w, x) = [w EXCEPT !.size[d] = @ + x.size[d] + Border, !.pct[d] = @ + x.pct[d],
                                 !.ul[d] = Min2(@, x.ul[d])]
    BY <1>6 DEF Merged
  <2>2. Min2(w.ul[d], x.ul[d]) = a
    BY <1>3, <1>4 DEF Min2
  <2>3. Merged(w, x) = [w EXCEPT !.size[d] = b + r + Border, !.pct[d] = e + t, !.ul[d] = a]
    BY <1>2, <1>3, <2>1, <2>2
  <2> QED BY <1>2, <2>3
<1>10. Is(Merged(x, w))
  <2>1. Merged(x, w) = [x EXCEPT !.size[d] = @ + w.size[d] + Border, !.pct[d] = @ + w.pct[d],
                                 !.ul[d] = Min2(@, w.ul[d])]
    BY <1>6 DEF Merged
  <2>2. Min2(x.ul[d], w.ul[d]) = a
    <3>1. PICK g \in Int : g = x.ul[d] /\ g > a
      BY <1>3, <1>4 DEF Border
    <3>2. ~ (g < a)
      BY <3>1
    <3> QED BY <1>3, <3>1, <3>2 DEF Min2
  <2>3. Merged(x, w) = [x EXCEPT !.size[d] = b + r + Border, !.pct[d] = e + t, !.ul[d] = a]
    BY <1>2, <1>3, <1>7, <2>1, <2>2
  <2>4. Merged(x, w) = [ul |-> [x.ul EXCEPT ![d] = a], size |-> [x.size EXCEPT ![d] = b + r + Border],
                        pct |-> [x.pct EXCEPT ![d] = e + t]]
    BY <1>2, <2>3
  <2>5. /\ [x.ul EXCEPT ![d] = a] = [w.ul EXCEPT ![d] = a]
        /\ [x.size EXCEPT ![d] = b + r + Border] = [w.size EXCEPT ![d] = b + r + Border]
        /\ [x.pct EXCEPT ![d] = e + t] = [w.pct EXCEPT ![d] = e + t]
    BY ZenonT(30), <1>1, <1>2, Dimensions DEF SameOthers
  <2> QED BY <2>4, <2>5
<1> QED BY <1>8, <1>9, <1>10 DEF w, x

LEMMA CloseWndMerges ==
  ASSUME InBounds, Split(win, SplitDim(win)), CloseWnd
  PROVE  LET d == SplitDim(win)
         IN  /\ Split(win, d) /\ Split(win', d)
             /\ \E k \in 1 .. Len(win') : JoinedAt(win, win', k, d)
             /\ Len(win') <= MaxWindows /\ cur' \in 1 .. Len(win') /\ screen' = screen
<1> DEFINE d == SplitDim(win)
<1>1. d \in Dims /\ Split(win, d) /\ win \in Seq(Window) /\ Len(win) > 1
  BY DEF CloseWnd, SplitDim, Dims, Split
<1> HIDE DEF d
<1>2. PICK n \in Nat : /\ Len(win) = n + 1 /\ n >= 1 /\ cur \in 1 .. n + 1 /\ DOMAIN win = 1 .. n + 1
                       /\ n + 1 <= MaxWindows
  <2>1. PICK m \in Nat : Len(win) = m
    BY <1>1
  <2>2. m - 1 \in Nat /\ m = (m - 1) + 1
    BY <1>1, <2>1
  <2> QED BY <1>1, <2>1, <2>2 DEF InBounds
<1> DEFINE to == IF cur = 1 THEN 2 ELSE cur - 1
           k == IF cur = 1 THEN 1 ELSE cur - 1
           m == Merged(win[to], win[cur])
           s == [win EXCEPT ![to] = m]
<1>3. Min(MergeCands(win, cur)) = to
  BY <1>1, <1>2, NeighboursMerge
<1>4. /\ k \in 1 .. n /\ k + 1 \in 1 .. n + 1 /\ k \in 1 .. n + 1 /\ to \in 1 .. n + 1
      /\ (to = k /\ cur = k + 1) \/ (to = k + 1 /\ cur = k)
      /\ (IF cur < to THEN to - 1 ELSE to) = k
  BY <1>2
<1>5. win' = RemoveAt(s, cur) /\ cur' = k /\ screen' = screen
  BY <1>3, <1>4, <1>2 DEF CloseWnd
<1> HIDE DEF to, k
<1>6. m \in Window /\ Joins(m, win[k], win[k + 1], d)
  <2>1. k \in 1 .. Len(win) /\ k + 1 \in 1 .. Len(win)
    BY <1>2, <1>4
  <2> QED BY <1>1, <1>4, <2>1, MergeParts
<1> HIDE DEF m
<1>7. /\ s \in Seq(Window) /\ Len(s) = n + 1 /\ s[to] = m
      /\ \A i \in 1 .. n + 1 : i # to => s[i] = win[i]
  BY <1>1, <1>2, <1>4, <1>6
<1> HIDE DEF s
<1>8. /\ win' \in Seq(Window) /\ Len(win') = n
      /\ \A i \in 1 .. cur - 1 : win'[i] = s[i]
      /\ \A i \in cur .. n : win'[i] = s[i + 1]
  <2>1. win' = SubSeq(s, 1, cur - 1) \o SubSeq(s, cur + 1, Len(s))
    BY <1>5 DEF RemoveAt
  <2>2. PICK y \in Nat : y = cur - 1 /\ y + 1 = cur
    BY <1>2
  <2>3. y \in 0 .. Len(s) /\ cur \in y .. Len(s) /\ cur - y = 1
    BY <1>2, <1>7, <2>2
  <2>4. win' = SubSeq(s, 1, y) \o SubSeq(s, cur + 1, Len(s))
    BY <2>1, <2>2
  <2>5. /\ win' \in Seq(Window) /\ Len(win') = Len(s) - (cur - y)
        /\ \A i \in 1 .. y : win'[i] = s[i]
        /\ \A i \in cur + 1 .. Len(s) : win'[i - (cur - y)] = s[i]
    BY <1>7, <2>3, <2>4, TakenOut
  <2>6. Len(win') = n
    BY <1>2, <1>7, <2>3, <2>5
  <2>7. ASSUME NEW i \in cur .. n PROVE win'[i] = s[i + 1]
    <3>1. i + 1 \in cur + 1 .. Len(s) /\ (i + 1) - (cur - y) = i
      BY <1>2, <1>7, <2>3
    <3> QED BY <2>5, <3>1
  <2> QED BY <2>2, <2>5, <2>6, <2>7
<1>9. JoinedAt(win, win', k, d)
  <2>1. ASSUME NEW i \in 1 .. k - 1 PROVE win'[i] = win[i]
    BY <1>2, <1>4, <1>7, <1>8
  <2>2. win'[k] = m
    <3>1. CASE to = k /\ cur = k + 1
      BY <1>2, <1>4, <1>7, <1>8, <3>1
    <3>2. CASE to = k + 1 /\ cur = k
      BY <1>2, <1>4, <1>7, <1>8, <3>2
    <3> QED BY <1>4, <3>1, <3>2
  <2>3. ASSUME NEW i \in k + 1 .. n PROVE win'[i] = win[i + 1]
    <3>1. i \in cur .. n /\ i + 1 \in 1 .. n + 1 /\ i + 1 # to
      BY <1>2, <1>4
    <3> QED BY <1>7, <1>8, <3>1
  <2> QED BY <1>1, <1>2, <1>4, <1>6, <1>8, <2>1, <2>2, <2>3 DEF JoinedAt
<1>10. Split(win', d)
  BY <1>1, <1>9, MergedSplit
<1>11. Len(win') <= MaxWindows
  BY <1>2, <1>8, WindowsAssumption
<1> QED BY <1>1, <1>4, <1>5, <1>8, <1>9, <1>10, <1>11 DEF d
-----------------------------------------------------------------------------
(* The screen gets another size *)

LEMMA ScreenFields ==
  ASSUME NEW s \in Screens
  PROVE  s \in [Dims -> Int] /\ \A d \in Dims : s[d] \in Nat /\ s[d] >= MaxWindows
<1>1. s \in [lin : Nat \ {0}, col : Nat \ {0}] /\ s.lin >= MaxWindows /\ s.col >= MaxWindows
  BY WindowsAssumption
<1> QED BY <1>1 DEF Dims

\* The last window of a row ends behind all sizes and borders.
LEMMA RowEnds ==
  ASSUME NEW ws, NEW d \in Dims, Split(ws, d)
  PROVE  ws[Len(ws)].ul[d] + ws[Len(ws)].size[d]
           = ws[1].ul[d] + Total(Sizes(ws, d), Len(ws)) + Len(ws) - 1
<1>1. ws \in Seq(Window) /\ InRow(ws, d) /\ Len(ws) >= 1
  BY DEF Split
<1>2. PICK n \in Nat : n = Len(ws) /\ n >= 1
  BY <1>1
<1> DEFINE f == Sizes(ws, d)
<1>3. f \in [1 .. n -> Int] /\ \A i \in 1 .. n : f[i] = ws[i].size[d]
  BY <1>1, <1>2, SharesAndSizes
<1> HIDE DEF f
<1>4. \A i \in 1 .. n : ws[i].ul[d] \in Int /\ ws[i].size[d] \in Int
  BY <1>1, <1>2, WindowFields
<1>5. \A i \in 1 .. n : i + 1 \in 1 .. n => ws[i].ul[d] + ws[i].size[d] + Border = ws[i + 1].ul[d]
  BY <1>1, <1>2 DEF InRow
<1> DEFINE S == {k \in Nat : k + 1 <= n =>
                   ws[k + 1].ul[d] + ws[k + 1].size[d] = ws[1].ul[d] + Total(f, k + 1) + k}
<1>6. 0 \in S
  <2>1. 1 \in 1 .. n /\ 1 - 1 = 0 /\ 0 + 1 = 1
    BY <1>2
  <2>2. Total(f, 1) = Total(f, 1 - 1) + f[1] /\ Total(f, 0) = 0
    BY <1>3, <2>1, TotalSteps
  <2>3. PICK a \in Int, b \in Int : a = ws[1].ul[d] /\ b = ws[1].size[d] /\ b = f[1]
    BY <1>3, <1>4, <2>1
  <2>4. Total(f, 1) = b
    BY <2>1, <2>2, <2>3
  <2>5. ws[1].ul[d] + ws[1].size[d] = ws[1].ul[d] + Total(f, 1) + 0
    <3>1. a + b = a + b + 0
      OBVIOUS
    <3> QED BY <2>3, <2>4, <3>1
  <2> QED BY <2>1, <2>5
<1>7. ASSUME NEW k \in S PROVE k + 1 \in S
  <2> SUFFICES ASSUME (k + 1) + 1 <= n
               PROVE  ws[(k + 1) + 1].ul[d] + ws[(k + 1) + 1].size[d] = ws[1].ul[d] + Total(f, (k + 1) + 1) + (k + 1)
    OBVIOUS
  <2>1. PICK m \in Nat : m = k + 1 /\ m \in 1 .. n /\ m + 1 \in 1 .. n /\ (m + 1) - 1 = m /\ 1 \in 1 .. n /\ k = m - 1
    OBVIOUS
  <2>2. ws[m].ul[d] + ws[m].size[d] = ws[1].ul[d] + Total(f, m) + (m - 1)
    BY <2>1
  <2>3. PICK a \in Int, b \in Int, c \in Int, e \in Int, x \in Int, t \in Int :
           /\ a = ws[m].ul[d] /\ b = ws[m].size[d] /\ c = ws[m + 1].ul[d] /\ e = ws[m + 1].size[d]
           /\ x = ws[1].ul[d] /\ t = Total(f, m)
    BY <1>3, <1>4, <2>1, TotalSteps
  <2>4. Total(f, m + 1) = t + e
    BY <1>3, <2>1, <2>3, TotalSteps
  <2>5. a + b = x + t + (m - 1) /\ a + b + Border = c
    BY <1>5, <2>1, <2>2, <2>3
  <2>6. c + e = x + (t + e) + m
    BY <2>5 DEF Border
  <2> QED BY <2>1, <2>3, <2>4, <2>6
<1>8. S \in SUBSET Nat
  OBVIOUS
<1> HIDE DEF S
<1>9. S = Nat
  BY <1>6, <1>7, <1>8, AllNumbers
<1>10. n - 1 \in S /\ (n - 1) + 1 = n
  BY <1>2, <1>9
<1>11. ws[n].ul[d] + ws[n].size[d] = ws[1].ul[d] + Total(f, n) + (n - 1)
  BY <1>2, <1>10 DEF S
<1>12. PICK x \in Int, t \in Int : x = ws[1].ul[d] /\ t = Total(f, n)
  <2>1. ws[1].ul[d] \in Int
    BY <1>2, <1>4
  <2>2. Total(f, n) \in Int
    BY <1>3, TotalSteps
  <2> QED BY <2>1, <2>2
<1>13. x + t + (n - 1) = x + t + n - 1
  BY <1>2
<1> QED BY <1>2, <1>11, <1>12, <1>13 DEF f

\* The shares of the room the windows have without their borders.
LEMMA NewShares ==
  ASSUME NEW ws, NEW d \in Dims, Split(ws, d), Len(ws) <= MaxWindows, NEW new \in Screens
  PROVE  /\ Room(ws, d, new) \in Nat
         /\ NewSizes(ws, d, new) \in [1 .. Len(ws) -> Int]
         /\ ~ (Room(ws, d, new) > Total(Sizes(ws, d), Len(ws)))
              => \A i \in 1 .. Len(ws) : /\ 100 * NewSizes(ws, d, new)[i] <= Room(ws, d, new) * ws[i].pct[d]
                                         /\ Room(ws, d, new) * ws[i].pct[d] < 100 * (NewSizes(ws, d, new)[i] + 1)
<1>1. ws \in Seq(Window) /\ InRow(ws, d) /\ SharesWhole(ws, d) /\ Len(ws) >= 1
  BY DEF Split
<1>2. PICK n \in Nat : n = Len(ws) /\ n >= 1 /\ n <= MaxWindows /\ DOMAIN ws = 1 .. n
  BY <1>1
<1>3. PICK r \in Nat : r = Room(ws, d, new)
  <2>1. new[d] \in Nat /\ new[d] >= MaxWindows /\ MaxWindows \in Nat
    BY ScreenFields, WindowsAssumption
  <2>2. Room(ws, d, new) = new[d] - 1 * (n - 1)
    BY <1>2 DEF Room, Border
  <2>3. new[d] - 1 * (n - 1) \in Nat
    BY <1>2, <2>1
  <2> QED BY <2>2, <2>3
<1> DEFINE t == Total(Sizes(ws, d), Len(ws))
           f == NewSizes(ws, d, new)
<1>4. f = [i \in 1 .. n |-> IF r > t THEN Max2((r * ws[i].pct[d]) \div 100, ws[i].size[d])
                            ELSE (r * ws[i].pct[d]) \div 100]
  BY <1>2, <1>3 DEF NewSizes
<1> HIDE DEF t, f
<1>5. ASSUME NEW i \in 1 .. n
      PROVE  /\ f[i] \in Int
             /\ ~ (r > t) => 100 * f[i] <= r * ws[i].pct[d] /\ r * ws[i].pct[d] < 100 * (f[i] + 1)
  <2>1. ws[i].pct[d] \in Int /\ ws[i].pct[d] >= 0 /\ ws[i].size[d] \in Int
    BY <1>1, <1>2, WindowFields DEF SharesWhole
  <2>2. PICK x \in Nat, b \in Int : x = ws[i].pct[d] /\ b = ws[i].size[d]
    BY <2>1
  <2>3. PICK a \in Nat : a = r * x
    BY <2>2
  <2>4. PICK q \in Nat : q = a \div 100
    BY <2>3
  <2>5. 100 * q <= a /\ a < 100 * (q + 1)
    BY <2>3, <2>4
  <2>6. f[i] = IF r > t THEN Max2(q, b) ELSE q
    BY <1>4, <2>2, <2>3, <2>4
  <2>7. Max2(q, b) \in Int
    BY <2>2, <2>4 DEF Max2
  <2> QED BY <2>2, <2>3, <2>4, <2>5, <2>6, <2>7
<1>6. f \in [1 .. n -> Int]
  BY <1>4, <1>5
<1> QED BY <1>2, <1>3, <1>5, <1>6 DEF f, t

\* From the end of one window to the end of the next is a border and a size.
LEMMA LeftSteps ==
  ASSUME NEW ws, NEW d \in Dims, Split(ws, d), Len(ws) <= MaxWindows, NEW new \in Screens
  PROVE  /\ \A i \in 1 .. Len(ws) : Left(ws, d, new, i) \in Int
         /\ Left(ws, d, new, Len(ws)) = new[d]
         /\ \A i \in 1 .. Len(ws) : i + 1 \in 1 .. Len(ws) =>
              Left(ws, d, new, i + 1) = Left(ws, d, new, i) + Border + NewSizes(ws, d, new)[i + 1]
         /\ Left(ws, d, new, 1) = NewSizes(ws, d, new)[1] + Room(ws, d, new) - Total(NewSizes(ws, d, new), Len(ws))
<1>1. ws \in Seq(Window) /\ Len(ws) >= 1
  BY DEF Split
<1>2. PICK n \in Nat : n = Len(ws) /\ n >= 1 /\ DOMAIN ws = 1 .. n
  BY <1>1
<1> DEFINE f == NewSizes(ws, d, new)
           g == [j \in DOMAIN ws |-> f[j] + Border]
<1>3. f \in [1 .. n -> Int]
  BY <1>2, NewShares
<1>4. \A i : Left(ws, d, new, i) = new[d] - (Total(g, Len(ws)) - Total(g, i))
  BY DEF Left
<1>5. Room(ws, d, new) = new[d] - 1 * (n - 1)
  BY <1>2 DEF Room, Border
<1> HIDE DEF f
<1>6. g \in [1 .. n -> Int] /\ \A i \in 1 .. n : g[i] = f[i] + 1
  BY <1>2, <1>3 DEF Border
<1> HIDE DEF g
<1>7. PICK s \in Int, m \in Int, t \in Int : s = new[d] /\ m = Total(g, n) /\ t = Total(f, n) /\ m = t + n
  <2>1. new[d] \in Int
    BY ScreenFields
  <2>2. Total(g, n) \in Int
    BY <1>6, TotalSteps
  <2>3. Total(f, n) \in Int
    BY <1>3, TotalSteps
  <2>4. Total(g, n) = Total(f, n) + n
    BY <1>3, <1>6, TotalPlusOne
  <2> QED BY <2>1, <2>2, <2>3, <2>4
<1>8. ASSUME NEW i \in 1 .. n PROVE Left(ws, d, new, i) \in Int
  <2>1. PICK x \in Int : x = Total(g, i)
    BY <1>6, TotalSteps
  <2>2. Left(ws, d, new, i) = s - (m - x)
    BY <1>2, <1>4, <1>7, <2>1
  <2> QED BY <2>2
<1>9. Left(ws, d, new, n) = s
  <2>1. Left(ws, d, new, n) = s - (m - m)
    BY <1>2, <1>4, <1>7
  <2> QED BY <2>1
<1>10. ASSUME NEW i \in 1 .. n, i + 1 \in 1 .. n
       PROVE  Left(ws, d, new, i + 1) = Left(ws, d, new, i) + Border + f[i + 1]
  <2>1. (i + 1) - 1 = i
    OBVIOUS
  <2>2. PICK x \in Int, y \in Int : x = Total(g, i) /\ y = f[i + 1]
    <3>1. Total(g, i) \in Int
      BY <1>6, TotalSteps
    <3> QED BY <1>3, <1>10, <3>1
  <2>3. Total(g, i + 1) = Total(g, (i + 1) - 1) + g[i + 1]
    BY <1>6, <1>10, TotalSteps
  <2>4. Total(g, i + 1) = x + (y + 1)
    BY <1>6, <1>10, <2>1, <2>2, <2>3
  <2>5. Left(ws, d, new, i + 1) = s - (m - (x + (y + 1))) /\ Left(ws, d, new, i) = s - (m - x)
    BY <1>2, <1>4, <1>7, <2>2, <2>4
  <2>6. s - (m - (x + (y + 1))) = (s - (m - x)) + Border + y
    BY DEF Border
  <2> QED BY <2>2, <2>5, <2>6
<1>11. Left(ws, d, new, 1) = f[1] + Room(ws, d, new) - t
  <2>1. 1 \in 1 .. n /\ 1 - 1 = 0
    BY <1>2
  <2>2. PICK y \in Int : y = f[1]
    BY <1>3, <2>1
  <2>3. Total(g, 1) = Total(g, 1 - 1) + g[1] /\ Total(g, 0) = 0
    BY <1>6, <2>1, TotalSteps
  <2>4. Total(g, 1) = y + 1
    BY <1>6, <2>1, <2>2, <2>3
  <2>5. Left(ws, d, new, 1) = s - (m - (y + 1))
    BY <1>2, <1>4, <1>7, <2>4
  <2>6. s - ((t + n) - (y + 1)) = y + (s - 1 * (n - 1)) - t
    OBVIOUS
  <2> QED BY <1>5, <1>7, <2>2, <2>5, <2>6
<1> QED BY <1>2, <1>7, <1>8, <1>9, <1>10, <1>11 DEF f

\* vs are the windows ws where a row of another screen has them, should each have room.
Moved(ws, vs, d, scr) ==
  /\ vs \in Seq(Window) /\ Len(vs) = Len(ws)
  /\ \A i \in 1 .. Len(ws) : /\ vs[i].pct = ws[i].pct
                             /\ vs[i].ul[Other(d)] = ws[i].ul[Other(d)]
                             /\ vs[i].size[Other(d)] = scr[Other(d)]
  /\ \A i \in 1 .. Len(ws) : i + 1 \in 1 .. Len(ws) => vs[i].ul[d] + vs[i].size[d] + Border = vs[i + 1].ul[d]

LEMMA MovedSplit ==
  ASSUME NEW ws, NEW vs, NEW d \in Dims, NEW scr \in Screens, Split(ws, d), Moved(ws, vs, d, scr),
         \A i \in 1 .. Len(vs) : vs[i].size[d] >= 0
  PROVE  Split(vs, d)
<1>1. ws \in Seq(Window) /\ vs \in Seq(Window) /\ InRow(ws, d) /\ SharesWhole(ws, d) /\ Len(ws) >= 1
  BY DEF Split, Moved
<1>2. PICK n \in Nat : n = Len(ws) /\ Len(vs) = n /\ n >= 1
  <2>1. PICK n \in Nat : n = Len(ws)
    BY <1>1
  <2> QED BY <1>1, <2>1 DEF Moved
<1>3. \A i \in 1 .. n : /\ vs[i].pct = ws[i].pct
                        /\ vs[i].ul[Other(d)] = ws[i].ul[Other(d)]
                        /\ vs[i].size[Other(d)] = scr[Other(d)]
                        /\ vs[i].size[d] >= 0
  BY <1>2 DEF Moved
<1>4. \A i \in 1 .. n : i + 1 \in 1 .. n => vs[i].ul[d] + vs[i].size[d] + Border = vs[i + 1].ul[d]
  BY <1>2 DEF Moved
<1>5. InRow(vs, d)
  <2>1. \A i \in 1 .. n - 1 : vs[i].ul[d] + vs[i].size[d] + Border = vs[i + 1].ul[d]
    <3>1. \A i \in 1 .. n - 1 : i \in 1 .. n /\ i + 1 \in 1 .. n
      BY <1>2
    <3> QED BY <1>4, <3>1
  <2>2. ASSUME NEW i \in 1 .. n, NEW j \in 1 .. n
        PROVE  /\ vs[i].ul[Other(d)] = vs[j].ul[Other(d)]
               /\ vs[i].size[Other(d)] = vs[j].size[Other(d)]
    <3>1. ws[i].ul[Other(d)] = ws[j].ul[Other(d)]
      BY <1>1, <1>2 DEF InRow
    <3> QED BY <1>3, <3>1
  <2>3. ASSUME NEW i \in 1 .. n, NEW e \in Dims PROVE vs[i].size[e] >= 0
    <3>1. scr[Other(d)] >= 0
      BY ScreenFields, Dimensions
    <3>2. e = d \/ e = Other(d)
      BY Dimensions
    <3> QED BY <1>3, <3>1, <3>2
  <2> QED BY <1>2, <2>1, <2>2, <2>3 DEF InRow
<1>6. Shares(vs, d) = Shares(ws, d)
  <2>1. DOMAIN vs = DOMAIN ws /\ DOMAIN ws = 1 .. n
    BY <1>1, <1>2
  <2> QED BY <1>3, <2>1 DEF Shares
<1>7. SharesWhole(vs, d)
  BY <1>1, <1>2, <1>3, <1>6 DEF SharesWhole
<1> QED BY <1>1, <1>2, <1>5, <1>7 DEF Split

\* A row that has all the rooms behind the borders is not longer than its screen.
LEMMA TiledRoom ==
  ASSUME NEW ws, NEW d \in Dims, Split(ws, d), NEW scr \in Screens, Tiles(ws, d, scr)
  PROVE  Total(Sizes(ws, d), Len(ws)) = Room(ws, d, scr)
<1>1. ws \in Seq(Window)
  BY DEF Split
<1>2. PICK n \in Nat : n = Len(ws)
  BY <1>1
<1>3. PICK t \in Int : t = Total(Sizes(ws, d), n)
  <2>1. Sizes(ws, d) \in [1 .. n -> Int]
    BY <1>1, <1>2, SharesAndSizes
  <2> QED BY <1>2, <2>1, TotalSteps
<1>4. ws[n].ul[d] + ws[n].size[d] = ws[1].ul[d] + t + n - 1
  BY <1>2, <1>3, RowEnds
<1>5. ws[n].ul[d] + ws[n].size[d] = scr[d] /\ ws[1].ul[d] = 0
  BY <1>2 DEF Tiles
<1>6. scr[d] = 0 + t + n - 1
  BY <1>4, <1>5
<1>7. Room(ws, d, scr) = scr[d] - 1 * (n - 1)
  BY <1>2 DEF Room, Border
<1>8. scr[d] - 1 * (n - 1) = t
  BY <1>6
<1> QED BY <1>2, <1>3, <1>7, <1>8

LEMMA ResizedOne ==
  ASSUME NEW ws, NEW d \in Dims, Split(ws, d), Len(ws) = 1, NEW new \in Screens
  PROVE  /\ Moved(ws, Resized(ws, new), d, new)
         /\ \A scr : Tiles(ws, d, scr) => Tiles(Resized(ws, new), d, new)
<1> DEFINE v == [ws[1] EXCEPT !.size = new]
<1>1. ws[1] \in Window
  BY DEF Split
<1>2. Resized(ws, new) = <<v>>
  BY DEF Resized
<1>3. /\ v \in Window /\ v.ul = ws[1].ul /\ v.size = new /\ v.pct = ws[1].pct
  BY <1>1, ScreenFields DEF Window
<1> HIDE DEF v
<1>4. <<v>> \in Seq(Window) /\ Len(<<v>>) = 1 /\ <<v>>[1] = v
  BY <1>3
<1>5. new[d] >= 0
  BY ScreenFields
<1>6. Moved(ws, <<v>>, d, new)
  <2>1. \A i \in 1 .. 1 : i = 1
    OBVIOUS
  <2>2. 1 \in 1 .. 1 /\ ~ (1 + 1 \in 1 .. 1)
    OBVIOUS
  <2> QED BY <1>3, <1>4, <1>5, <2>1, <2>2 DEF Moved
<1>7. ASSUME NEW scr, Tiles(ws, d, scr) PROVE Tiles(<<v>>, d, new)
  <2>1. new[d] \in Int /\ 0 + new[d] = new[d]
    BY ScreenFields
  <2>2. ws[1].ul[d] = 0 /\ ws[1].ul[Other(d)] = 0
    BY <1>7 DEF Tiles
  <2>3. \A i \in 1 .. 1 : i = 1
    OBVIOUS
  <2> QED BY <1>3, <1>4, <2>1, <2>2, <2>3 DEF Tiles
<1> QED BY <1>2, <1>6, <1>7

LEMMA ResizedAll ==
  ASSUME NEW ws, NEW d \in Dims, d = SplitDim(ws), Split(ws, d), Len(ws) > 1, Len(ws) <= MaxWindows,
         NEW new \in Screens, Room(ws, d, new) # Total(Sizes(ws, d), Len(ws))
  PROVE  /\ Moved(ws, Resized(ws, new), d, new)
         /\ \A scr \in Screens : Tiles(ws, d, scr) => Tiles(Resized(ws, new), d, new)
         /\ \A i \in 1 .. Len(ws) : Resized(ws, new)[i].size[d] = NewSize(ws, d, new, i)
<1> DEFINE vs == Resized(ws, new)
           N(i) == NewSize(ws, d, new, i)
           L(i) == Left(ws, d, new, i)
           f == NewSizes(ws, d, new)
           o == Other(d)
<1>1. ws \in Seq(Window) /\ Len(ws) >= 1
  BY DEF Split
<1>2. PICK n \in Nat : n = Len(ws) /\ n >= 2 /\ DOMAIN ws = 1 .. n /\ \A i \in 1 .. n : ws[i] \in Window
  BY <1>1
<1>3. vs = [i \in 1 .. n |-> [ws[i] EXCEPT !.ul[d] = L(i) - N(i), !.size[d] = N(i), !.size[o] = new[o]]]
  <2>1. Len(ws) # 1
    BY <1>2
  <2>2. vs = [i \in DOMAIN ws |-> [ws[i] EXCEPT !.ul[d] = L(i) - N(i), !.size[d] = N(i), !.size[o] = new[o]]]
    BY Zenon, <2>1 DEF Resized
  <2> QED BY <1>2, <2>2
<1>4. \A i : N(i) = IF i = 1 THEN L(i) ELSE f[i]
  BY DEF NewSize
<1>5. /\ f \in [1 .. n -> Int]
      /\ \A i \in 1 .. n : L(i) \in Int
      /\ L(n) = new[d]
      /\ \A i \in 1 .. n : i + 1 \in 1 .. n => L(i + 1) = L(i) + Border + f[i + 1]
  BY <1>2, NewShares, LeftSteps
<1> HIDE DEF vs, N, L, f
<1>7. \A i \in 1 .. n : N(i) \in Int
  BY <1>4, <1>5
<1>8. o \in Dims /\ o # d /\ \A e \in Dims : e = d \/ e = o
  BY Dimensions
<1> HIDE DEF o
<1>9. ASSUME NEW i \in 1 .. n
      PROVE  /\ vs[i] \in Window /\ vs[i].pct = ws[i].pct
             /\ vs[i].ul[d] = L(i) - N(i) /\ vs[i].size[d] = N(i)
             /\ vs[i].ul[o] = ws[i].ul[o] /\ vs[i].size[o] = new[o]
  <2>1. PICK x \in Int, y \in Int, z \in Int : x = L(i) - N(i) /\ y = N(i) /\ z = new[o]
    <3>1. N(i) \in Int
      BY <1>7
    <3>2. L(i) - N(i) \in Int
      BY <1>5, <3>1
    <3>3. new[o] \in Int
      BY <1>8, ScreenFields
    <3> QED BY <3>1, <3>2, <3>3
  <2>2. vs[i] = [ws[i] EXCEPT !.ul[d] = x, !.size[d] = y, !.size[o] = z]
    BY <1>3, <2>1
  <2>3. PICK w \in Window : w = ws[i]
    BY <1>2
  <2>4. /\ w.ul \in [Dims -> Int] /\ w.size \in [Dims -> Int] /\ w.pct \in [Dims -> Int]
        /\ w = [ul |-> w.ul, size |-> w.size, pct |-> w.pct]
    BY DEF Window
  <2>5. vs[i] = [ul |-> [w.ul EXCEPT ![d] = x], size |-> [[w.size EXCEPT ![d] = y] EXCEPT ![o] = z],
                 pct |-> w.pct]
    BY <2>2, <2>3, <2>4
  <2>6. vs[i] \in Window
    <3>1. [w.ul EXCEPT ![d] = x] \in [Dims -> Int]
      BY <2>4
    <3>2. [[w.size EXCEPT ![d] = y] EXCEPT ![o] = z] \in [Dims -> Int]
      BY <2>4
    <3> QED BY <2>4, <2>5, <3>1, <3>2 DEF Window
  <2>7. /\ vs[i].ul[d] = x /\ vs[i].size[d] = y /\ vs[i].size[o] = z
        /\ vs[i].ul[o] = w.ul[o] /\ vs[i].pct = w.pct
    BY <1>8, <2>4, <2>5
  <2> QED BY <2>1, <2>3, <2>6, <2>7
<1>10. vs \in Seq(Window) /\ Len(vs) = n
  <2>1. vs = [i \in 1 .. n |-> vs[i]]
    BY <1>3
  <2>2. \A i \in 1 .. n : vs[i] \in Window
    BY <1>9
  <2> QED BY <2>1, <2>2
<1>11. ASSUME NEW i \in 1 .. n, i + 1 \in 1 .. n
       PROVE  vs[i].ul[d] + vs[i].size[d] + Border = vs[i + 1].ul[d]
  <2>1. PICK a \in Int, b \in Int, c \in Int : a = L(i) /\ b = N(i) /\ c = f[i + 1]
    BY <1>5, <1>7, <1>11
  <2>2. i + 1 # 1
    OBVIOUS
  <2>3. N(i + 1) = c /\ L(i + 1) = a + Border + c
    BY <1>4, <1>5, <1>11, <2>1, <2>2
  <2>4. vs[i].ul[d] = a - b /\ vs[i].size[d] = b /\ vs[i + 1].ul[d] = (a + Border + c) - c
    BY <1>9, <1>11, <2>1, <2>3
  <2>5. (a - b) + b + Border = (a + Border + c) - c
    BY DEF Border
  <2> QED BY <2>4, <2>5
<1>12. Moved(ws, vs, d, new)
  BY <1>2, <1>7, <1>9, <1>10, <1>11 DEF Moved, o
<1>13. ASSUME NEW scr \in Screens, Tiles(ws, d, scr)
       PROVE  Tiles(vs, d, new)
  <2>2. 1 \in 1 .. n /\ n \in 1 .. n
    BY <1>2
  <2>6. N(1) = L(1) /\ L(1) \in Int
    BY <1>4, <1>5, <2>2
  <2>7. vs[1].ul[d] = 0
    BY <1>9, <2>2, <2>6
  <2>8. vs[1].ul[o] = 0
    BY <1>9, <1>13, <2>2 DEF Tiles, o
  <2>9. vs[n].ul[d] + vs[n].size[d] = new[d]
    <3>1. PICK x \in Int, y \in Int : x = L(n) /\ y = N(n)
      BY <1>5, <1>7, <2>2
    <3>2. vs[n].ul[d] = x - y /\ vs[n].size[d] = y /\ x = new[d]
      BY <1>5, <1>9, <2>2, <3>1
    <3> QED BY <3>2
  <2> QED BY <1>9, <1>10, <2>7, <2>8, <2>9 DEF Tiles, o
<1> QED BY <1>2, <1>9, <1>12, <1>13 DEF vs, N

LEMMA ResizedSame ==
  ASSUME NEW ws, NEW d \in Dims, d = SplitDim(ws), Split(ws, d), Len(ws) > 1,
         NEW new \in Screens, Room(ws, d, new) = Total(Sizes(ws, d), Len(ws))
  PROVE  /\ Moved(ws, Resized(ws, new), d, new)
         /\ \A scr \in Screens : Tiles(ws, d, scr) => Tiles(Resized(ws, new), d, new)
<1> DEFINE vs == Resized(ws, new)
           o == Other(d)
<1>1. ws \in Seq(Window) /\ InRow(ws, d)
  BY DEF Split
<1>2. PICK n \in Nat : n = Len(ws) /\ n >= 2 /\ DOMAIN ws = 1 .. n /\ \A i \in 1 .. n : ws[i] \in Window
  BY <1>1
<1>3. vs = [i \in 1 .. n |-> [ws[i] EXCEPT !.size[o] = new[o]]]
  BY <1>2 DEF Resized
<1>4. o \in Dims /\ o # d
  BY Dimensions
<1> HIDE DEF vs, o
<1>5. ASSUME NEW i \in 1 .. n
      PROVE  /\ vs[i] \in Window /\ vs[i].pct = ws[i].pct /\ vs[i].ul = ws[i].ul
             /\ vs[i].size[d] = ws[i].size[d] /\ vs[i].size[o] = new[o]
  <2>1. PICK w \in Window : w = ws[i]
    BY <1>2
  <2>2. /\ w.ul \in [Dims -> Int] /\ w.size \in [Dims -> Int] /\ w.pct \in [Dims -> Int]
        /\ w = [ul |-> w.ul, size |-> w.size, pct |-> w.pct]
    BY DEF Window
  <2>3. vs[i] = [ul |-> w.ul, size |-> [w.size EXCEPT ![o] = new[o]], pct |-> w.pct]
    BY <1>3, <2>1, <2>2
  <2>4. new[o] \in Int
    BY <1>4, ScreenFields
  <2> QED BY <1>4, <2>1, <2>2, <2>3, <2>4 DEF Window
<1>6. vs \in Seq(Window) /\ Len(vs) = n
  BY <1>3, <1>5
<1>7. \A i \in 1 .. n : ws[i].size[d] >= 0
  BY <1>1, <1>2 DEF InRow
<1>8. \A i \in 1 .. n : i + 1 \in 1 .. n => ws[i].ul[d] + ws[i].size[d] + Border = ws[i + 1].ul[d]
  BY <1>1, <1>2 DEF InRow
<1>9. Moved(ws, vs, d, new)
  BY ZenonT(30), <1>2, <1>5, <1>6, <1>7, <1>8 DEF Moved, o
<1>10. ASSUME NEW scr \in Screens, Tiles(ws, d, scr) PROVE Tiles(vs, d, new)
  <2>1. Room(ws, d, new) = Room(ws, d, scr)
    BY <1>10, TiledRoom
  <2>2. Room(ws, d, new) = new[d] - 1 * (n - 1) /\ Room(ws, d, scr) = scr[d] - 1 * (n - 1)
    BY <1>2 DEF Room, Border
  <2>3. PICK a \in Int, b \in Int : a = new[d] /\ b = scr[d]
    BY ScreenFields
  <2>4. a = b
    <3>1. a - 1 * (n - 1) = b - 1 * (n - 1)
      BY <2>1, <2>2, <2>3
    <3> QED BY <3>1
  <2>5. 1 \in 1 .. n /\ n \in 1 .. n
    BY <1>2
  <2> QED BY <1>2, <1>5, <1>6, <1>10, <2>3, <2>4, <2>5 DEF Tiles, o
<1> QED BY <1>9, <1>10 DEF vs

\* Wins_ScreenSizeChanged keeps the row, from one edge of the screen to the other.
LEMMA ResizedMoves ==
  ASSUME NEW ws, NEW d \in Dims, d = SplitDim(ws), Split(ws, d), Len(ws) <= MaxWindows,
         NEW scr \in Screens, Tiles(ws, d, scr), NEW new \in Screens
  PROVE  /\ Moved(ws, Resized(ws, new), d, new) /\ Tiles(Resized(ws, new), d, new)
         /\ Len(Resized(ws, new)) = Len(ws)
<1>1. (Len(ws) = 1 \/ Len(ws) > 1) /\ ~ (Len(ws) = 1 /\ Len(ws) > 1)
  <2>1. ws \in Seq(Window) /\ Len(ws) >= 1
    BY DEF Split
  <2>2. PICK n \in Nat : n = Len(ws)
    BY <2>1
  <2> QED BY <2>1, <2>2
<1>2. Moved(ws, Resized(ws, new), d, new) /\ Tiles(Resized(ws, new), d, new)
  <2>1. CASE Len(ws) = 1
    BY <2>1, ResizedOne
  <2>2. CASE Len(ws) > 1 /\ Room(ws, d, new) # Total(Sizes(ws, d), Len(ws))
    <3>1. Len(ws) # 1
      BY <1>1, <2>2
    <3> QED BY <2>2, <3>1, ResizedAll
  <2>3. CASE Len(ws) > 1 /\ Room(ws, d, new) = Total(Sizes(ws, d), Len(ws))
    BY <2>3, ResizedSame
  <2> QED BY <1>1, <2>1, <2>2, <2>3
<1> QED BY <1>2 DEF Moved

\* A screen that shrinks leaves each window its share, the first all of it.
LEMMA ResizedShares ==
  ASSUME NEW ws, NEW d \in Dims, d = SplitDim(ws), Split(ws, d), Len(ws) > 1, Len(ws) <= MaxWindows,
         NEW scr \in Screens, Tiles(ws, d, scr), NEW new \in Screens, new[d] < scr[d]
  PROVE  /\ \A i \in DOMAIN ws : HasItsShare(Resized(ws, new)[i], d, Room(ws, d, new))
         /\ 100 * Resized(ws, new)[1].size[d] >= Room(ws, d, new) * Resized(ws, new)[1].pct[d]
<1> DEFINE vs == Resized(ws, new)
           f == NewSizes(ws, d, new)
           p == Shares(ws, d)
<1>1. ws \in Seq(Window) /\ SharesWhole(ws, d)
  BY DEF Split
<1>2. PICK n \in Nat : n = Len(ws) /\ n >= 2 /\ n <= MaxWindows /\ DOMAIN ws = 1 .. n
  BY <1>1
<1>3. 1 \in 1 .. n /\ n \in Nat \ {0} /\ 2 .. n \subseteq 1 .. n /\ \A i \in 1 .. n : i = 1 \/ i \in 2 .. n
  BY <1>2
<1>4. PICK r \in Nat, t \in Nat :
         /\ r = Room(ws, d, new) /\ t = Room(ws, d, scr) /\ t = Total(Sizes(ws, d), n)
  BY <1>2, NewShares, TiledRoom
<1>5. r < t
  <2>1. Room(ws, d, new) = new[d] - 1 * (n - 1) /\ Room(ws, d, scr) = scr[d] - 1 * (n - 1)
    BY <1>2 DEF Room, Border
  <2>2. PICK a \in Int, b \in Int : a = new[d] /\ b = scr[d] /\ a < b
    BY ScreenFields
  <2>3. r = a - 1 * (n - 1) /\ t = b - 1 * (n - 1)
    BY <1>4, <2>1, <2>2
  <2> QED BY <1>2, <2>2, <2>3
<1>6. /\ \A i \in 1 .. n : vs[i].pct = ws[i].pct
      /\ \A i \in 1 .. n : vs[i].size[d] = NewSize(ws, d, new, i)
  <2>1. Room(ws, d, new) # Total(Sizes(ws, d), Len(ws))
    BY <1>2, <1>4, <1>5
  <2>2. Len(ws) > 1
    BY <1>2
  <2>3. /\ Moved(ws, vs, d, new)
        /\ \A i \in 1 .. Len(ws) : vs[i].size[d] = NewSize(ws, d, new, i)
    BY ZenonT(30), <2>1, <2>2, ResizedAll
  <2>4. \A i \in 1 .. Len(ws) : vs[i].pct = ws[i].pct
    BY Zenon, <2>3 DEF Moved
  <2> QED BY <1>2, <2>3, <2>4
<1>7. p \in [1 .. n -> Int] /\ \A i \in 1 .. n : p[i] = ws[i].pct[d]
  BY <1>1, <1>2, SharesAndSizes
<1>8. Total(p, n) = 100
  BY <1>1, <1>2 DEF SharesWhole
<1>9. /\ f \in [1 .. n -> Int]
      /\ \A i \in 1 .. n : 100 * f[i] <= r * p[i] /\ r * p[i] < 100 * (f[i] + 1)
  <2>1. ~ (Room(ws, d, new) > Total(Sizes(ws, d), Len(ws)))
    BY <1>2, <1>4, <1>5
  <2>2. \A i \in 1 .. n : 100 * f[i] <= r * ws[i].pct[d] /\ r * ws[i].pct[d] < 100 * (f[i] + 1)
    <3> HIDE DEF f
    <3>1. \A i \in 1 .. n : 100 * NewSizes(ws, d, new)[i] <= r * ws[i].pct[d]
      BY ZenonT(30), <1>2, <1>4, <2>1, NewShares
    <3>2. \A i \in 1 .. n : r * ws[i].pct[d] < 100 * (NewSizes(ws, d, new)[i] + 1)
      BY ZenonT(30), <1>2, <1>4, <2>1, NewShares
    <3> QED BY <3>1, <3>2 DEF f
  <2>3. f \in [1 .. n -> Int]
    BY <1>2, NewShares
  <2> HIDE DEF f, p
  <2> QED BY <1>7, <2>2, <2>3
<1>10. /\ \A i \in 2 .. n : vs[i].size[d] = f[i]
       /\ vs[1].size[d] = f[1] + r - Total(f, n)
  <2>1. Left(ws, d, new, 1) = f[1] + r - Total(f, n)
    BY <1>2, <1>4, LeftSteps
  <2> QED BY <1>3, <1>6, <2>1 DEF NewSize
<1> HIDE DEF vs, f, p
<1>11. vs[1].size[d] \in Int /\ 100 * vs[1].size[d] >= r * p[1]
  <2>1. 100 * (Total(f, n) - f[1]) <= r * (Total(p, n) - p[1])
    <3>1. \A i \in 2 .. n : 100 * f[i] <= r * p[i]
      BY <1>3, <1>9
    <3>2. f \in [1 .. n -> Int] /\ p \in [1 .. n -> Int] /\ n \in Nat \ {0} /\ r \in Int
      BY <1>3, <1>7, <1>9
    <3> QED BY ZenonT(30), <3>1, <3>2, TotalShares
  <2>2. Total(f, n) \in Int
    BY <1>9, TotalSteps
  <2>3. PICK a \in Int, x \in Int, y \in Int : a = Total(f, n) /\ x = f[1] /\ y = p[1]
    BY <1>3, <1>7, <1>9, <2>2
  <2>4. 100 * (a - x) <= r * (100 - y)
    BY <1>8, <2>1, <2>3
  <2>5. r * (100 - y) = 100 * r - r * y
    OBVIOUS
  <2>6. 100 * (x + r - a) >= r * y
    BY <2>4, <2>5
  <2> QED BY <1>10, <2>3, <2>6
<1>12. ASSUME NEW i \in 1 .. n PROVE HasItsShare(vs[i], d, r)
  <2>1. CASE i = 1
    <3>1. PICK s \in Int, y \in Int : s = vs[1].size[d] /\ y = p[1] /\ y = vs[1].pct[d]
      BY <1>3, <1>6, <1>7, <1>11
    <3>2. PICK z \in Int : z = r * y
      OBVIOUS
    <3>3. 100 * (s + 1) > z
      <4>1. 100 * s >= z
        BY <1>11, <3>1, <3>2
      <4> QED BY <4>1
    <3> QED BY <2>1, <3>1, <3>2, <3>3 DEF HasItsShare
  <2>2. CASE i \in 2 .. n
    BY <1>6, <1>7, <1>9, <1>10, <2>2 DEF HasItsShare
  <2> QED BY <1>3, <2>1, <2>2
<1> QED BY <1>2, <1>3, <1>4, <1>6, <1>7, <1>11, <1>12 DEF vs
-----------------------------------------------------------------------------
(* Any history of the screen *)

\* WindowsTileScreen, of any windows on any screen.
Covers(ws, scr) ==
  LET d == SplitDim(ws)
  IN  /\ \A i \in 1 .. (Len(ws) - 1) :
           /\ ws[i].ul[d] + ws[i].size[d] + Border = ws[i + 1].ul[d]
           /\ ws[i].ul[Other(d)] = ws[i + 1].ul[Other(d)]
      /\ \A i \in DOMAIN ws : ws[i].size[Other(d)] = scr[Other(d)]
      /\ ws[1].ul = [lin |-> 0, col |-> 0]
      /\ ws[Len(ws)].ul[d] + ws[Len(ws)].size[d] = scr[d]

LEMMA CoversIsTiles ==
  ASSUME NEW ws, NEW scr, NEW d \in Dims, d = SplitDim(ws), Split(ws, d)
  PROVE  Covers(ws, scr) <=> Tiles(ws, d, scr)
<1>1. ws \in Seq(Window) /\ InRow(ws, d) /\ Len(ws) >= 1
  BY DEF Split
<1>2. PICK n \in Nat : n = Len(ws) /\ n >= 1 /\ DOMAIN ws = 1 .. n
  BY <1>1
<1>3. ws[1].ul = [lin |-> 0, col |-> 0] <=> ws[1].ul[d] = 0 /\ ws[1].ul[Other(d)] = 0
  <2>1. ws[1] \in Window
    BY <1>1, <1>2
  <2>2. PICK u \in [Dims -> Int] : u = ws[1].ul
    BY <2>1 DEF Window
  <2>3. u = [lin |-> 0, col |-> 0] <=> u["lin"] = 0 /\ u["col"] = 0
    BY DEF Dims
  <2>4. (d = "lin" /\ Other(d) = "col") \/ (d = "col" /\ Other(d) = "lin")
    BY DEF Dims, Other
  <2> QED BY <2>2, <2>3, <2>4
<1>4. \A i \in 1 .. n - 1 : /\ ws[i].ul[d] + ws[i].size[d] + Border = ws[i + 1].ul[d]
                            /\ ws[i].ul[Other(d)] = ws[i + 1].ul[Other(d)]
  <2>1. \A i \in 1 .. n - 1 : i \in 1 .. n /\ i + 1 \in 1 .. n
    BY <1>2
  <2> QED BY <1>1, <1>2, <2>1 DEF InRow
<1> QED BY <1>2, <1>3, <1>4 DEF Covers, Tiles

\* One window that covers the screen does so in both dimensions.
LEMMA TilesOwn ==
  ASSUME NEW ws, NEW scr \in Screens, NEW d \in Dims, NEW e \in Dims, Split(ws, d),
         Len(ws) = 1 \/ d = e, Tiles(ws, d, scr)
  PROVE  Tiles(ws, e, scr)
<1>1. CASE d = e
  BY <1>1
<1>2. CASE Len(ws) = 1 /\ d # e
  <2>1. ws[1] \in Window /\ 1 \in 1 .. 1 /\ \A i \in 1 .. 1 : i = 1
    BY <1>2 DEF Split
  <2>2. e = Other(d) /\ Other(e) = d
    BY <1>2, Dimensions
  <2>3. PICK a \in Int, b \in Int, x \in Int, y \in Int :
           a = ws[1].ul[d] /\ b = ws[1].size[d] /\ x = ws[1].ul[e] /\ y = ws[1].size[e]
    BY <2>1, WindowFields
  <2>4. a = 0 /\ x = 0 /\ y = scr[e] /\ a + b = scr[d]
    BY <1>2, <2>1, <2>2, <2>3 DEF Tiles
  <2>5. b = scr[d] /\ x + y = scr[e]
    BY <2>4
  <2> QED BY <1>2, <2>1, <2>2, <2>3, <2>4, <2>5 DEF Tiles
<1> QED BY <1>1, <1>2

LEMMA InitOK == Init => IInv
<1> SUFFICES ASSUME Init PROVE IInv
  OBVIOUS
<1> DEFINE w == [ul |-> [lin |-> 0, col |-> 0], size |-> screen, pct |-> [lin |-> 100, col |-> 100]]
<1>1. win = <<w>> /\ screen \in Screens /\ cur = 1
  BY DEF Init
<1>2. /\ screen \in [Dims -> Int] /\ \A d \in Dims : screen[d] \in Nat
      /\ [lin |-> 0, col |-> 0] \in [Dims -> Int] /\ [lin |-> 100, col |-> 100] \in [Dims -> Int]
      /\ \A d \in Dims : [lin |-> 100, col |-> 100][d] = 100
  BY <1>1, ScreenFields DEF Dims
<1>3. /\ w \in Window /\ w.size = screen
      /\ \A d \in Dims : w.pct[d] = 100
  BY <1>2 DEF Window
<1> HIDE DEF w
<1>4. win \in Seq(Window) /\ Len(win) = 1 /\ win[1] = w
  BY <1>1, <1>3
<1>5. SplitDim(win) = "lin" /\ "lin" \in Dims
  BY <1>4 DEF SplitDim, Dims
<1>6. \A i \in 1 .. 1 : i = 1
  OBVIOUS
<1>7. InRow(win, "lin")
  BY <1>2, <1>3, <1>4, <1>6 DEF InRow
<1>8. SharesWhole(win, "lin")
  <2>1. Total(Shares(win, "lin"), 1) = 100
    BY <1>3, <1>4, <1>5, OneShare
  <2> QED BY <1>3, <1>4, <1>5, <1>6, <2>1, Dimensions DEF SharesWhole
<1>9. Tiles(win, "lin", screen)
  <2>1. Other("lin") = "col" /\ "col" \in Dims /\ 0 + screen["lin"] = screen["lin"]
    BY <1>2, <1>5 DEF Other, Dims
  <2>2. win[1].ul["lin"] = 0 /\ win[1].ul["col"] = 0
    BY <1>4 DEF w
  <2> QED BY <1>3, <1>4, <1>6, <2>1, <2>2 DEF Tiles
<1> QED BY <1>1, <1>4, <1>5, <1>7, <1>8, <1>9, WindowsAssumption DEF IInv, InBounds, Split

\* What a step leaves, should each window have room.
LEMMA Steps ==
  ASSUME IInv, Next
  PROVE  InBounds' /\ (HasRoom' => \E d \in Dims : Split(win', d) /\ Tiles(win', d, screen'))
<1> DEFINE e == SplitDim(win)
<1>1. /\ e \in Dims /\ Split(win, e) /\ Tiles(win, e, screen)
      /\ screen \in Screens /\ Len(win) <= MaxWindows /\ cur \in 1 .. Len(win) /\ InBounds
  <2>1. HasRoom
    BY DEF Next, SplitCurWnd, CloseWnd, NextWindow, ScreenSizeChanged
  <2> QED BY <2>1 DEF IInv, InBounds, SplitDim, Dims
<1>2. ASSUME NEW d \in Dims, NEW at \in Cuts, SplitCurWnd(d, at)
      PROVE  /\ Split(win', d) /\ Tiles(win', d, screen') /\ InBounds'
  <2>1. at \in Int
    BY WindowsAssumption
  <2>2. /\ Split(win', d) /\ JoinedAt(win', win, cur, d)
        /\ Len(win') <= MaxWindows /\ cur' \in 1 .. Len(win') /\ screen' = screen
    BY <1>1, <1>2, <2>1, SplitCurWndCuts
  <2>3. Len(win) = 1 \/ d = e
    <3>1. win \in Seq(Window) /\ Len(win) >= 1
      BY <1>1 DEF Split
    <3>2. PICK n \in Nat : n = Len(win)
      BY <3>1
    <3>3. Len(win) > 1 => d = e
      BY <1>2 DEF SplitCurWnd
    <3> QED BY <3>1, <3>2, <3>3
  <2>4. Tiles(win, d, screen)
    BY <1>1, <2>3, TilesOwn
  <2>5. Tiles(win', d, screen')
    BY <2>2, <2>4, JoinTiles
  <2> QED BY <1>1, <2>2, <2>5 DEF InBounds
<1>3. ASSUME CloseWnd
      PROVE  Split(win', e) /\ Tiles(win', e, screen') /\ InBounds'
  <2>1. /\ Split(win', e) /\ Len(win') <= MaxWindows /\ cur' \in 1 .. Len(win') /\ screen' = screen
        /\ \E k \in 1 .. Len(win') : JoinedAt(win, win', k, e)
    BY <1>1, <1>3, CloseWndMerges
  <2> HIDE DEF e
  <2> QED BY <1>1, <2>1, JoinTiles DEF InBounds
<1>4. ASSUME NextWindow
      PROVE  win' = win /\ screen' = screen /\ InBounds'
  <2>1. win \in Seq(Window) /\ Len(win) > 1
    BY <1>1, <1>4 DEF Split, NextWindow
  <2>2. PICK n \in Nat : n = Len(win) /\ n > 1 /\ cur \in 1 .. n
    BY <1>1, <2>1
  <2>3. cur % n \in 0 .. n - 1
    BY <2>2
  <2>4. cur' \in 1 .. Len(win)
    BY <1>4, <2>2, <2>3 DEF NextWindow
  <2> QED BY <1>1, <1>4, <2>4 DEF NextWindow, InBounds
<1>5. ASSUME NEW new \in Screens, ScreenSizeChanged(new)
      PROVE  /\ InBounds'
             /\ HasRoom' => Split(win', e) /\ Tiles(win', e, screen')
  <2>1. win' = Resized(win, new) /\ screen' = new /\ cur' = cur
    BY <1>5 DEF ScreenSizeChanged
  <2>2. Moved(win, win', e, new) /\ Tiles(win', e, new) /\ Len(win') = Len(win)
    BY <1>1, <2>1, ResizedMoves
  <2> HIDE DEF e
  <2>3. HasRoom' => \A i \in 1 .. Len(win') : win'[i].size[e] >= 0
    <3>1. win' \in Seq(Window)
      BY <2>2 DEF Moved
    <3>2. DOMAIN win' = 1 .. Len(win')
      BY <3>1
    <3> QED BY <1>1, <3>2 DEF HasRoom
  <2>4. HasRoom' => Split(win', e)
    BY <1>1, <2>2, <2>3, MovedSplit
  <2> QED BY <1>1, <2>1, <2>2, <2>4 DEF InBounds
<1> HIDE DEF e
<1>6. CASE \E d \in Dims : \E at \in Cuts : SplitCurWnd(d, at)
  BY <1>2, <1>6
<1>7. CASE CloseWnd
  BY <1>1, <1>3, <1>7
<1>8. CASE NextWindow
  BY <1>1, <1>4, <1>8
<1>9. CASE \E new \in Screens : ScreenSizeChanged(new)
  BY <1>1, <1>5, <1>9
<1> QED BY <1>6, <1>7, <1>8, <1>9 DEF Next

LEMMA StepOK == IInv /\ [Next]_vars => IInv'
<1> SUFFICES ASSUME IInv, [Next]_vars PROVE IInv'
  OBVIOUS
<1>1. CASE Next
  <2>1. InBounds' /\ (HasRoom' => \E d \in Dims : Split(win', d) /\ Tiles(win', d, screen'))
    BY <1>1, Steps
  <2>2. ASSUME HasRoom'
        PROVE  Split(win', SplitDim(win')) /\ Tiles(win', SplitDim(win'), screen')
    <3>1. PICK d \in Dims : Split(win', d) /\ Tiles(win', d, screen')
      BY <2>1, <2>2
    <3>2. PICK x \in Dims : x = SplitDim(win') /\ Split(win', x)
      BY <3>1, SplitAlongOwn
    <3>3. Len(win') = 1 \/ d = x
      <4>1. win' \in Seq(Window) /\ Len(win') >= 1
        BY <3>1 DEF Split
      <4>2. PICK n \in Nat : n = Len(win')
        BY <4>1
      <4>3. Len(win') > 1 => d = x
        BY <3>1, <3>2, SplitAlong
      <4> QED BY <4>1, <4>2, <4>3
    <3>4. screen' \in Screens
      BY <2>1 DEF InBounds
    <3>5. Tiles(win', x, screen')
      BY <3>1, <3>2, <3>3, <3>4, TilesOwn
    <3> QED BY <3>2, <3>5
  <2> QED BY <2>1, <2>2 DEF IInv
<1>2. CASE UNCHANGED vars
  BY <1>2 DEF vars, IInv, InBounds, HasRoom
<1> QED BY <1>1, <1>2
-----------------------------------------------------------------------------

\* However the screen was split, merged and resized, its windows are in a row
\* from edge to edge, and their shares are a whole (g__.aWindow, Win::d_size_pct).
THEOREM Invariant == Spec => []IInv
BY InitOK, StepOK, PTL DEF Spec

\* The windows and their borders are exactly the screen after any splits, closes
\* and resizes, those that make it grow included (Wins_ScreenSizeChanged: what
\* the windows behind it have not taken is the first one's, less than its share
\* or more).
THEOREM ScreenIsTiled == Spec => []WindowsTileScreen
<1>1. WindowsTileScreen <=> (HasRoom => Covers(win, screen))
  BY DEF WindowsTileScreen, WindowsAbut, Covers
<1>2. IInv => WindowsTileScreen
  <2> SUFFICES ASSUME IInv, HasRoom PROVE Covers(win, screen)
    BY <1>1
  <2>1. PICK d \in Dims : d = SplitDim(win) /\ Split(win, d) /\ Tiles(win, d, screen)
    BY DEF IInv, SplitDim, Dims
  <2> QED BY <2>1, CoversIsTiles
<1> QED BY <1>2, Invariant, PTL

\* Any of several windows can be closed, its neighbour takes the room, and the
\* shares go on adding up to 100 (Wins::CloseWnd, WindowsCanBeMerged).
THEOREM AnyWindowClosesAlways == Spec => []AnyWindowCloses
<1>1. IInv => AnyWindowCloses
  <2> SUFFICES ASSUME IInv, HasRoom
               PROVE  /\ Len(win) > 1 =>
                           \A i \in DOMAIN win : /\ MergeCands(win, i) # {}
                                                 /\ Min(MergeCands(win, i)) = (IF i = 1 THEN 2 ELSE i - 1)
                      /\ Total(Shares(win, SplitDim(win)), Len(win)) = 100
    BY DEF AnyWindowCloses
  <2>1. SplitDim(win) \in Dims /\ Split(win, SplitDim(win)) /\ win \in Seq(Window)
    BY DEF IInv, Split, SplitDim, Dims
  <2>2. DOMAIN win = 1 .. Len(win)
    BY <2>1
  <2>3. Len(win) > 1 => \A i \in 1 .. Len(win) :
                          MergeCands(win, i) # {} /\ Min(MergeCands(win, i)) = (IF i = 1 THEN 2 ELSE i - 1)
    BY <2>1, NeighboursMerge
  <2>4. Total(Shares(win, SplitDim(win)), Len(win)) = 100
    BY <2>1 DEF Split, SharesWhole
  <2> QED BY <2>2, <2>3, <2>4
<1> QED BY <1>1, Invariant, PTL

\* A screen that shrinks leaves every window its share, but for a fraction of a
\* cell, and the first all of it and what the others' fractions come to
\* (Wins_ScreenSizeChanged).
THEOREM ShrinksProportionally == Spec => ShrinksInProportion
<1> DEFINE Keeps == LET d == SplitDim(win)
                        room == Room(win, d, screen')
                    IN  Len(win) > 1 /\ screen'[d] < screen[d] =>
                          /\ \A i \in DOMAIN win : HasItsShare(win'[i], d, room)
                          /\ 100 * win'[1].size[d] >= room * win'[1].pct[d]
<1>1. IInv /\ [Next]_vars => Keeps
  <2> SUFFICES ASSUME IInv, [Next]_vars, NEW d \in Dims, d = SplitDim(win), Len(win) > 1, screen'[d] < screen[d]
               PROVE  /\ \A i \in DOMAIN win : HasItsShare(win'[i], d, Room(win, d, screen'))
                      /\ 100 * win'[1].size[d] >= Room(win, d, screen') * win'[1].pct[d]
    BY DEF SplitDim, Dims
  <2>1. screen \in Screens /\ Len(win) <= MaxWindows
    BY DEF IInv, InBounds
  <2>2. screen' # screen
    BY <2>1, ScreenFields
  <2>3. PICK new \in Screens : ScreenSizeChanged(new)
    BY <2>2 DEF Next, SplitCurWnd, CloseWnd, NextWindow, vars
  <2>4. HasRoom /\ win' = Resized(win, new) /\ screen' = new
    BY <2>3 DEF ScreenSizeChanged
  <2>5. Split(win, d) /\ Tiles(win, d, screen)
    BY <2>4 DEF IInv
  <2> QED BY <2>1, <2>4, <2>5, ResizedShares
<1>2. [Keeps]_vars <=> [LET d == SplitDim(win)
                            room == Room(win, d, screen')
                        IN  Len(win) > 1 /\ screen'[d] < screen[d] =>
                              /\ \A i \in DOMAIN win : HasItsShare(win'[i], d, room)
                              /\ 100 * win'[1].size[d] >= room * win'[1].pct[d]]_vars
  OBVIOUS
<1> QED BY <1>1, Invariant, PTL DEF Spec, ShrinksInProportion

\* No text of two windows competes for a place: every window lies within the
\* screen, and of any two one ends before the other begins (Win::d_UpLeft,
\* Win::d_Size).
THEOREM WindowsApart ==
  Spec => [](HasRoom =>
    LET d == SplitDim(win)
    IN  \A i, j \in 1 .. Len(win) :
          /\ 0 <= win[i].ul[d] /\ win[i].ul[d] + win[i].size[d] <= screen[d]
          /\ i < j => win[i].ul[d] + win[i].size[d] < win[j].ul[d])
<1> DEFINE P == HasRoom =>
                  LET d == SplitDim(win)
                  IN  \A i, j \in 1 .. Len(win) :
                        /\ 0 <= win[i].ul[d] /\ win[i].ul[d] + win[i].size[d] <= screen[d]
                        /\ i < j => win[i].ul[d] + win[i].size[d] < win[j].ul[d]
<1>1. IInv => P
  <2> SUFFICES ASSUME IInv, HasRoom, NEW d \in Dims, d = SplitDim(win),
                      NEW i \in 1 .. Len(win), NEW j \in 1 .. Len(win)
               PROVE  /\ 0 <= win[i].ul[d] /\ win[i].ul[d] + win[i].size[d] <= screen[d]
                      /\ i < j => win[i].ul[d] + win[i].size[d] < win[j].ul[d]
    BY DEF SplitDim, Dims
  <2>1. win \in Seq(Window) /\ InRow(win, d) /\ Tiles(win, d, screen) /\ screen \in Screens
    BY DEF IInv, InBounds, Split
  <2>2. PICK n \in Nat : n = Len(win) /\ n \in 1 .. n /\ 1 \in 1 .. n /\ i \in 1 .. n /\ j \in 1 .. n
    BY <2>1
  <2>3. \A k \in 1 .. n : win[k].ul[d] \in Int /\ win[k].size[d] \in Int /\ win[k].size[d] >= 0
    BY <2>1, <2>2, WindowFields DEF InRow
  <2>4. \A k, m \in 1 .. n : k < m => win[k].ul[d] + win[k].size[d] + 1 <= win[m].ul[d]
    BY <2>1, <2>2, Ordered DEF Border
  <2>5. win[1].ul[d] = 0 /\ win[n].ul[d] + win[n].size[d] = screen[d]
    BY <2>1, <2>2 DEF Tiles
  <2>6. PICK a \in Int, b \in Int, c \in Int, e \in Int : a = win[i].ul[d] /\ b = win[i].size[d] /\ b >= 0
                                                       /\ c = win[1].size[d] /\ c >= 0 /\ e = win[n].size[d] /\ e >= 0
    BY <2>2, <2>3
  <2>7. 0 <= a
    <3>1. CASE i = 1
      BY <2>5, <2>6, <3>1
    <3>2. CASE 1 < i
      <4>1. 0 + c + 1 <= a
        BY <2>2, <2>4, <2>5, <2>6, <3>2
      <4> QED BY <2>6, <4>1
    <3> QED BY <2>2, <3>1, <3>2
  <2>8. a + b <= screen[d]
    <3>1. CASE i = n
      BY <2>5, <2>6, <3>1
    <3>2. CASE i < n
      <4>1. PICK x \in Int : x = win[n].ul[d]
        BY <2>2, <2>3
      <4>2. a + b + 1 <= x /\ x + e = screen[d]
        BY <2>2, <2>4, <2>5, <2>6, <3>2, <4>1
      <4>3. e >= 0 /\ a + b + 1 <= x
        BY <2>6, <4>2
      <4>4. a + b <= x + e
        BY <4>3
      <4> QED BY <4>2, <4>4
    <3> QED BY <2>2, <3>1, <3>2
  <2>9. ASSUME i < j PROVE a + b < win[j].ul[d]
    <3>1. PICK x \in Int : x = win[j].ul[d]
      BY <2>2, <2>3
    <3>2. a + b + 1 <= x
      BY <2>2, <2>4, <2>6, <2>9, <3>1
    <3>3. a + b < x
      BY <3>2
    <3> QED BY <3>1, <3>3
  <2> QED BY <2>6, <2>7, <2>8, <2>9
<1> QED BY <1>1, Invariant, PTL
=============================================================================
