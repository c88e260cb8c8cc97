------------------------ MODULE SwitchBuffers_proofs ------------------------
(***************************************************************************)
(* The memory pool of the forwarding server and the send buffers in it,    *)
(* for any number of blocks, items and threads and messages of any sizes   *)
(* that do not take the whole pool at once.                                *)
(*                                                                         *)
(* The proof goes up in four steps.  The lists are numberings of their     *)
(* nodes, and a call on a list inserts into the numbering or deletes from  *)
(* it (Entered, Left).  PoolInv says what the heap keeps between the parts *)
(* of a call, with an exception for the chunk that is being freed.         *)
(* AllocIs and FreeIs show that the calls keep it and say what they do to  *)
(* the used chunks.  BufInv says that the addresses handed out are those   *)
(* of the buffers; every step of an item keeps it.                         *)
(***************************************************************************)
EXTENDS SwitchBuffers, FiniteSums

-----------------------------------------------------------------------------
(* Lists, as pointers of nodes. *)

\* s numbers the m nodes that follow head, which are the nodes of S.
List(nx, head, s, m, S) ==
    /\ m \in Nat
    /\ nx[head] = s[0]
    /\ \A i \in Nat : IF i < m THEN s[i] \in S /\ nx[s[i]] = s[i + 1]
                      ELSE s[i] = NULL
    /\ \A i, j \in 0..(m - 1) : s[i] = s[j] => i = j
    /\ \A x \in S : \E i \in 0..(m - 1) : s[i] = x

\* Each node of the list points back to the one before it.
Back(pv, head, s, m) ==
    \A i \in 0..(m - 1) : pv[s[i]] = IF i = 0 THEN head ELSE s[i - 1]

\* A list and the cache of its unused nodes share out the nodes of X.
Shared(nx, pv, head, s, m, S, spare, t, n, T, X) ==
    /\ List(nx, head, s, m, S)
    /\ List(nx, spare, t, n, T)
    /\ Back(pv, head, s, m)
    /\ S \cap T = {} /\ S \cup T = X
    /\ NULL \notin X /\ head \notin X /\ spare \notin X /\ head # spare

\* A place is made for x at j, or the one at j is closed.
Ins(s, j, x) == [i \in Nat |-> IF i < j THEN s[i] ELSE IF i = j THEN x ELSE s[i - 1]]
Del(s, j) == [i \in Nat |-> IF i < j THEN s[i] ELSE s[i + 1]]
\* What comes before the place j
Before(head, s, j) == IF j = 0 THEN head ELSE s[j - 1]

\* The first node of the cache is put into the list at the place j.
Enters(nx, pv, nx1, pv1, head, s, j, spare, w, X) ==
    LET before == Before(head, s, j)
    IN /\ \A x \in X \cup {head, spare} :
            nx1[x] = IF x = spare THEN nx[w] ELSE IF x = before THEN w
                     ELSE IF x = w THEN s[j] ELSE nx[x]
       /\ \A x \in X : pv1[x] = IF x = w THEN before
                                ELSE IF x = s[j] THEN w ELSE pv[x]

\* The node at the place j of the list goes to the front of the cache.  Whoever
\* comes second in the cache may point back to it or not.
Leaves(nx, pv, nx1, pv1, head, s, j, spare, t, X) ==
    LET before == Before(head, s, j)
    IN /\ \A x \in X \cup {head, spare} :
            nx1[x] = IF x = spare THEN s[j] ELSE IF x = before THEN s[j + 1]
                     ELSE IF x = s[j] THEN t[0] ELSE nx[x]
       /\ \A x \in X \ {s[j], t[0]} :
            pv1[x] = IF x = s[j + 1] THEN before ELSE pv[x]

\* A quotient of whole numbers is rounded down.
LEMMA DivBounds ==
    ASSUME NEW x \in Int, NEW k \in Nat \ {0}
    PROVE  /\ x \div k \in Int
           /\ k * (x \div k) <= x
           /\ x < k * (x \div k) + k
  OBVIOUS

\* A multiple is divided without rest.
LEMMA DivOfMultiple ==
    ASSUME NEW a \in Int, NEW k \in Nat \ {0}
    PROVE  (a * k) \div k = a
<1> DEFINE q == (a * k) \div k
<1>1. q \in Int /\ a * k \in Int /\ k * q <= a * k /\ a * k < k * q + k
  BY DivBounds
<1> HIDE DEF q
<1>2. CASE q > a
  <2>1. q >= a + 1
    BY <1>1, <1>2
  <2>2. k * q >= k * (a + 1)
    BY <1>1, <2>1
  <2> QED BY <1>1, <2>2
<1>3. CASE a > q
  <2>1. a >= q + 1
    BY <1>1, <1>3
  <2>2. k * a >= k * (q + 1)
    BY <1>1, <2>1
  <2> QED BY <1>1, <2>2
<1>4. q = a
  BY <1>1, <1>2, <1>3
<1> QED BY <1>4 DEF q

\* A node that enters a list leaves its cache, and both are lists again.
LEMMA Entered ==
    ASSUME NEW nx, NEW pv, NEW nx1, NEW pv1, NEW head, NEW s, NEW m, NEW S,
           NEW spare, NEW t, NEW n, NEW T, NEW X,
           Shared(nx, pv, head, s, m, S, spare, t, n, T, X),
           n # 0, NEW j \in 0..m,
           Enters(nx, pv, nx1, pv1, head, s, j, spare, t[0], X)
    PROVE  /\ t[0] \in T
           /\ Shared(nx1, pv1, head, Ins(s, j, t[0]), m + 1, S \cup {t[0]},
                     spare, Del(t, 0), n - 1, T \ {t[0]}, X)
<1> DEFINE w == t[0]
           r == Ins(s, j, w)
           u == Del(t, 0)
<1>1. m \in Nat /\ n \in Nat /\ n - 1 \in Nat /\ m + 1 \in Nat
  BY DEF Shared, List
<1>2. w \in T /\ w \in X /\ w \notin S /\ nx[w] = t[1]
  BY <1>1 DEF Shared, List
<1>3. \A i \in Nat : r[i] = IF i < j THEN s[i] ELSE IF i = j THEN w ELSE s[i - 1]
  BY DEF Ins
<1>4. \A i \in Nat : u[i] = t[i + 1]
  BY DEF Del
<1>5. /\ nx[head] = s[0] /\ nx[spare] = w
      /\ \A i \in 0..(m - 1) : s[i] \in S /\ s[i] \in X /\ nx[s[i]] = s[i + 1]
      /\ \A i \in Nat : i >= m => s[i] = NULL
      /\ \A i, k \in 0..(m - 1) : s[i] = s[k] => i = k
      /\ \A x \in S : \E i \in 0..(m - 1) : s[i] = x
  BY <1>1 DEF Shared, List
<1>6. /\ \A i \in 0..(n - 1) : t[i] \in T /\ t[i] \in X /\ nx[t[i]] = t[i + 1]
      /\ \A i \in Nat : i >= n => t[i] = NULL
      /\ \A i, k \in 0..(n - 1) : t[i] = t[k] => i = k
      /\ \A x \in T : \E i \in 0..(n - 1) : t[i] = x
  BY <1>1 DEF Shared, List
<1>7. /\ S \cap T = {} /\ S \cup T = X
      /\ NULL \notin X /\ head \notin X /\ spare \notin X /\ head # spare
      /\ \A i \in 0..(m - 1) : pv[s[i]] = IF i = 0 THEN head ELSE s[i - 1]
  BY DEF Shared, Back
<1>8. /\ nx1[spare] = t[1]
      /\ nx1[Before(head, s, j)] = w
      /\ nx1[w] = s[j]
      /\ \A x \in X \cup {head} : x # w /\ x # Before(head, s, j) => nx1[x] = nx[x]
      /\ pv1[w] = Before(head, s, j)
      /\ j < m => pv1[s[j]] = w
      /\ \A x \in X : x # w /\ x # s[j] => pv1[x] = pv[x]
  <2>1. Before(head, s, j) # spare /\ Before(head, s, j) # w
        /\ Before(head, s, j) \in X \cup {head}
    BY <1>1, <1>2, <1>5, <1>7 DEF Before
  <2>2. j < m => s[j] \in X /\ s[j] # w
    BY <1>1, <1>2, <1>5, <1>7
  <2> QED BY <1>2, <1>7, <2>1, <2>2 DEF Enters
<1> HIDE DEF w, r, u
<1>9. List(nx1, head, r, m + 1, S \cup {w})
  <2>1. nx1[head] = r[0]
    <3>1. CASE j = 0
      BY <1>3, <1>8, <3>1 DEF Before
    <3>2. CASE j > 0
      <4>1. Before(head, s, j) = s[j - 1] /\ s[j - 1] # head
        BY <1>1, <1>5, <1>7, <3>2 DEF Before
      <4> QED BY <1>1, <1>2, <1>3, <1>5, <1>7, <1>8, <3>2, <4>1
    <3> QED BY <3>1, <3>2
  <2>2. ASSUME NEW i \in Nat
        PROVE  IF i < m + 1 THEN r[i] \in S \cup {w} /\ nx1[r[i]] = r[i + 1]
               ELSE r[i] = NULL
    <3>1. CASE i + 1 < j
      <4>1. r[i] = s[i] /\ r[i + 1] = s[i + 1] /\ s[i] \in S
        BY <1>1, <1>3, <1>5, <3>1
      <4>2. s[i] # Before(head, s, j) /\ s[i] # w
        BY <1>1, <1>2, <1>5, <1>7, <3>1 DEF Before
      <4> QED BY <1>1, <1>5, <1>8, <3>1, <4>1, <4>2
    <3>2. CASE i + 1 = j
      BY <1>1, <1>3, <1>5, <1>8, <3>2 DEF Before
    <3>3. CASE i = j
      BY <1>1, <1>3, <1>8, <3>3
    <3>4. CASE i > j /\ i < m + 1
      <4>1. r[i] = s[i - 1] /\ r[i + 1] = s[i] /\ s[i - 1] \in S
        BY <1>1, <1>3, <1>5, <3>4
      <4>2. s[i - 1] # Before(head, s, j) /\ s[i - 1] # w
        BY <1>1, <1>2, <1>5, <1>7, <3>4 DEF Before
      <4> QED BY <1>1, <1>5, <1>8, <3>4, <4>1, <4>2
    <3>5. CASE i >= m + 1
      BY <1>1, <1>3, <1>5, <3>5
    <3> QED BY <1>1, <3>1, <3>2, <3>3, <3>4, <3>5
  <2>3. ASSUME NEW i \in 0..m, NEW k \in 0..m, r[i] = r[k] PROVE i = k
    BY <1>1, <1>2, <1>3, <1>5, <1>7, <2>3
  <2>4. ASSUME NEW x \in S \cup {w} PROVE \E i \in 0..m : r[i] = x
    <3>1. CASE x = w
      BY <1>1, <1>3, <3>1
    <3>2. CASE x # w
      <4>1. PICK i \in 0..(m - 1) : s[i] = x
        BY <1>5, <3>2
      <4>2. CASE i < j
        BY <1>1, <1>3, <4>1, <4>2
      <4>3. CASE i >= j
        <5>1. i + 1 \in 0..m /\ r[i + 1] = s[i]
          BY <1>1, <1>3, <4>3
        <5> QED BY <4>1, <5>1
      <4> QED BY <4>2, <4>3
    <3> QED BY <3>1, <3>2
  <2> QED BY <1>1, <2>1, <2>2, <2>3, <2>4 DEF List
<1>10. List(nx1, spare, u, n - 1, T \ {w})
  <2>1. nx1[spare] = u[0]
    BY <1>4, <1>8
  <2>2. ASSUME NEW i \in Nat
        PROVE  IF i < n - 1 THEN u[i] \in T \ {w} /\ nx1[u[i]] = u[i + 1]
               ELSE u[i] = NULL
    <3>1. CASE i < n - 1
      <4>1. u[i] = t[i + 1] /\ u[i + 1] = t[i + 2] /\ t[i + 1] \in T \ {w}
            /\ nx[t[i + 1]] = t[i + 2]
        BY <1>1, <1>4, <1>6, <3>1 DEF w
      <4>2. t[i + 1] # Before(head, s, j)
        BY <1>1, <1>5, <1>7, <4>1 DEF Before
      <4> QED BY <1>1, <1>7, <1>8, <3>1, <4>1, <4>2
    <3>2. CASE i >= n - 1
      BY <1>1, <1>4, <1>6, <3>2
    <3> QED BY <1>1, <3>1, <3>2
  <2>3. ASSUME NEW i \in 0..(n - 2), NEW k \in 0..(n - 2), u[i] = u[k] PROVE i = k
    BY <1>1, <1>4, <1>6, <2>3
  <2>4. ASSUME NEW x \in T \ {w} PROVE \E i \in 0..(n - 2) : u[i] = x
    <3>1. PICK i \in 0..(n - 1) : t[i] = x
      BY <1>6
    <3>2. i # 0
      BY <3>1 DEF w
    <3>3. i - 1 \in 0..(n - 2) /\ u[i - 1] = t[i]
      BY <1>1, <1>4, <3>2
    <3> QED BY <3>1, <3>3
  <2> QED BY <1>1, <2>1, <2>2, <2>3, <2>4 DEF List
<1>11. Back(pv1, head, r, m + 1)
  <2> SUFFICES ASSUME NEW i \in 0..m
               PROVE  pv1[r[i]] = IF i = 0 THEN head ELSE r[i - 1]
    BY <1>1 DEF Back
  <2>1. CASE i < j
    <3>1. r[i] = s[i] /\ (i > 0 => r[i - 1] = s[i - 1]) /\ s[i] \in X /\ s[i] # w
      BY <1>1, <1>2, <1>3, <1>5, <1>7, <2>1
    <3>2. s[i] # s[j]
      BY <1>1, <1>5, <1>7, <2>1
    <3> QED BY <1>1, <1>7, <1>8, <2>1, <3>1, <3>2
  <2>2. CASE i = j
    BY <1>1, <1>3, <1>8, <2>2 DEF Before
  <2>3. CASE i = j + 1
    BY <1>1, <1>3, <1>8, <2>3
  <2>4. CASE i > j + 1
    <3>1. r[i] = s[i - 1] /\ r[i - 1] = s[i - 2] /\ s[i - 1] \in X /\ s[i - 1] # w
      BY <1>1, <1>2, <1>3, <1>5, <1>7, <2>4
    <3>2. s[i - 1] # s[j]
      BY <1>1, <1>5, <1>7, <2>4
    <3> QED BY <1>1, <1>7, <1>8, <2>4, <3>1, <3>2
  <2> QED BY <1>1, <2>1, <2>2, <2>3, <2>4
<1>12. (S \cup {w}) \cap (T \ {w}) = {} /\ (S \cup {w}) \cup (T \ {w}) = X
  BY <1>2, <1>7
<1> QED BY <1>2, <1>7, <1>9, <1>10, <1>11, <1>12 DEF Shared, w, r, u

\* A node that leaves a list enters its cache, and both are lists again.
LEMMA Left ==
    ASSUME NEW nx, NEW pv, NEW nx1, NEW pv1, NEW head, NEW s, NEW m, NEW S,
           NEW spare, NEW t, NEW n, NEW T, NEW X,
           Shared(nx, pv, head, s, m, S, spare, t, n, T, X),
           NEW j \in 0..(m - 1),
           Leaves(nx, pv, nx1, pv1, head, s, j, spare, t, X)
    PROVE  /\ s[j] \in S
           /\ Shared(nx1, pv1, head, Del(s, j), m - 1, S \ {s[j]},
                     spare, Ins(t, 0, s[j]), n + 1, T \cup {s[j]}, X)
<1> DEFINE w == s[j]
           r == Del(s, j)
           u == Ins(t, 0, w)
<1>1. m \in Nat /\ n \in Nat /\ m - 1 \in Nat /\ n + 1 \in Nat /\ j \in Nat
  BY DEF Shared, List
<1>2. w \in S /\ w \in X /\ w \notin T
  BY <1>1 DEF Shared, List
<1>3. \A i \in Nat : r[i] = IF i < j THEN s[i] ELSE s[i + 1]
  BY DEF Del
<1>4. u[0] = w /\ \A i \in Nat : u[i + 1] = t[i]
  <2>1. \A i \in Nat : u[i] = IF i < 0 THEN t[i] ELSE IF i = 0 THEN w ELSE t[i - 1]
    BY DEF Ins
  <2> HIDE DEF u
  <2>2. ASSUME NEW i \in Nat PROVE u[i + 1] = t[i]
    <3>1. u[i + 1] = t[(i + 1) - 1]
      BY <2>1
    <3>2. (i + 1) - 1 = i
      OBVIOUS
    <3> QED BY <3>1, <3>2
  <2> QED BY <2>1, <2>2
<1>5. /\ nx[head] = s[0]
      /\ \A i \in 0..(m - 1) : s[i] \in S /\ s[i] \in X /\ nx[s[i]] = s[i + 1]
      /\ \A i \in Nat : i >= m => s[i] = NULL
      /\ \A i, k \in 0..(m - 1) : s[i] = s[k] => i = k
      /\ \A x \in S : \E i \in 0..(m - 1) : s[i] = x
  BY <1>1 DEF Shared, List
<1>6. /\ nx[spare] = t[0]
      /\ \A i \in 0..(n - 1) : t[i] \in T /\ t[i] \in X /\ nx[t[i]] = t[i + 1]
      /\ \A i \in Nat : i >= n => t[i] = NULL
      /\ \A i, k \in 0..(n - 1) : t[i] = t[k] => i = k
      /\ \A x \in T : \E i \in 0..(n - 1) : t[i] = x
  BY <1>1 DEF Shared, List
<1>7. /\ S \cap T = {} /\ S \cup T = X
      /\ NULL \notin X /\ head \notin X /\ spare \notin X /\ head # spare
      /\ \A i \in 0..(m - 1) : pv[s[i]] = IF i = 0 THEN head ELSE s[i - 1]
  BY DEF Shared, Back
<1>8. /\ nx1[spare] = w
      /\ nx1[Before(head, s, j)] = s[j + 1]
      /\ nx1[w] = t[0]
      /\ \A x \in X \cup {head} : x # w /\ x # Before(head, s, j) => nx1[x] = nx[x]
      /\ \A x \in S : x # w => pv1[x] = IF x = s[j + 1] THEN Before(head, s, j) ELSE pv[x]
  <2>1. /\ Before(head, s, j) # spare /\ Before(head, s, j) # w
        /\ Before(head, s, j) \in X \cup {head}
    BY <1>1, <1>2, <1>5, <1>7 DEF Before
  <2>2. t[0] \notin S
    BY <1>1, <1>6, <1>7
  <2>3. \A x \in X \cup {head, spare} :
            nx1[x] = IF x = spare THEN w ELSE IF x = Before(head, s, j) THEN s[j + 1]
                     ELSE IF x = w THEN t[0] ELSE nx[x]
    BY DEF Leaves
  <2>4. \A x \in X \ {w, t[0]} :
            pv1[x] = IF x = s[j + 1] THEN Before(head, s, j) ELSE pv[x]
    BY DEF Leaves
  <2> HIDE DEF w
  <2> QED BY <1>2, <1>7, <2>1, <2>2, <2>3, <2>4
<1>9. List(nx1, head, r, m - 1, S \ {w})
  <2>1. nx1[head] = r[0]
    <3>1. CASE j = 0
      BY <1>3, <1>8, <3>1 DEF Before
    <3>2. CASE j > 0
      <4>1. Before(head, s, j) = s[j - 1] /\ s[j - 1] # head
        BY <1>1, <1>5, <1>7, <3>2 DEF Before
      <4> QED BY <1>1, <1>2, <1>3, <1>5, <1>7, <1>8, <3>2, <4>1
    <3> QED BY <1>1, <3>1, <3>2
  <2>2. ASSUME NEW i \in Nat
        PROVE  IF i < m - 1 THEN r[i] \in S \ {w} /\ nx1[r[i]] = r[i + 1]
               ELSE r[i] = NULL
    <3>1. CASE i + 1 < j
      <4>1. r[i] = s[i] /\ r[i + 1] = s[i + 1] /\ s[i] \in S
        BY <1>1, <1>3, <1>5, <3>1
      <4>2. s[i] # Before(head, s, j) /\ s[i] # w
        BY <1>1, <1>2, <1>5, <1>7, <3>1 DEF Before
      <4> QED BY <1>1, <1>5, <1>8, <3>1, <4>1, <4>2
    <3>2. CASE i + 1 = j
      <4>1. r[i] = s[i] /\ r[i + 1] = s[j + 1] /\ s[i] \in S
        BY <1>1, <1>3, <1>5, <3>2
      <4>2. s[i] = Before(head, s, j) /\ s[i] # w
        BY <1>1, <1>2, <1>5, <1>7, <3>2 DEF Before, w
      <4> QED BY <1>1, <1>5, <1>8, <3>2, <4>1, <4>2
    <3>3. CASE i >= j /\ i < m - 1
      <4>1. r[i] = s[i + 1] /\ r[i + 1] = s[i + 2] /\ s[i + 1] \in S
            /\ nx[s[i + 1]] = s[i + 2]
        BY <1>1, <1>3, <1>5, <3>3
      <4>2. s[i + 1] # Before(head, s, j) /\ s[i + 1] # w
        BY <1>1, <1>2, <1>5, <1>7, <3>3 DEF Before, w
      <4> QED BY <1>1, <1>5, <1>7, <1>8, <3>3, <4>1, <4>2
    <3>4. CASE i >= m - 1
      BY <1>1, <1>3, <1>5, <3>4
    <3> QED BY <1>1, <3>1, <3>2, <3>3, <3>4
  <2>3. ASSUME NEW i \in 0..(m - 2), NEW k \in 0..(m - 2), r[i] = r[k] PROVE i = k
    BY <1>1, <1>3, <1>5, <2>3
  <2>4. ASSUME NEW x \in S \ {w} PROVE \E i \in 0..(m - 2) : r[i] = x
    <3>1. PICK i \in 0..(m - 1) : s[i] = x
      BY <1>5
    <3>2. i # j
      BY <3>1 DEF w
    <3>3. CASE i < j
      BY <1>1, <1>3, <3>1, <3>3
    <3>4. CASE i > j
      <4>1. i - 1 \in 0..(m - 2) /\ r[i - 1] = s[i]
        BY <1>1, <1>3, <3>4
      <4> QED BY <3>1, <4>1
    <3> QED BY <1>1, <3>2, <3>3, <3>4
  <2> HIDE DEF w, r
  <2> QED BY <1>1, <2>1, <2>2, <2>3, <2>4 DEF List
<1> HIDE DEF w, u, r
<1>10. List(nx1, spare, u, n + 1, T \cup {w})
  <2>1. nx1[spare] = u[0]
    BY <1>4, <1>8
  <2>2. ASSUME NEW i \in Nat
        PROVE  IF i < n + 1 THEN u[i] \in T \cup {w} /\ nx1[u[i]] = u[i + 1]
               ELSE u[i] = NULL
    <3>1. CASE i = 0
      <4>1. u[1] = t[0]
        BY <1>4
      <4> QED BY <1>1, <1>4, <1>8, <3>1, <4>1
    <3>2. CASE i > 0
      <4>1. u[i] = t[i - 1] /\ u[i + 1] = t[i]
        <5>1. i - 1 \in Nat /\ (i - 1) + 1 = i
          BY <3>2
        <5>2. u[(i - 1) + 1] = t[i - 1] /\ u[i + 1] = t[i]
          BY <1>4, <5>1
        <5> QED BY <5>1, <5>2
      <4>2. CASE i < n + 1
        <5>1. i - 1 \in 0..(n - 1) /\ (i - 1) + 1 = i
          BY <1>1, <3>2, <4>2
        <5>2. t[i - 1] \in T /\ t[i - 1] \in X /\ nx[t[i - 1]] = t[i]
          BY <1>6, <5>1
        <5>3. t[i - 1] # Before(head, s, j) /\ t[i - 1] # w
          BY <1>1, <1>2, <1>5, <1>7, <5>2 DEF Before
        <5> QED BY <1>8, <4>1, <4>2, <5>2, <5>3
      <4>3. CASE ~ (i < n + 1)
        BY <1>1, <1>6, <3>2, <4>1, <4>3
      <4> QED BY <4>2, <4>3
    <3> QED BY <3>1, <3>2
  <2>3. ASSUME NEW i \in 0..n, NEW k \in 0..n, u[i] = u[k] PROVE i = k
    <3>1. \A e \in 0..n : e > 0 => u[e] = t[e - 1] /\ e - 1 \in 0..(n - 1)
      <4> TAKE e \in 0..n
      <4> HAVE e > 0
      <4>1. e - 1 \in Nat /\ (e - 1) + 1 = e /\ e - 1 \in 0..(n - 1)
        BY <1>1
      <4>2. u[(e - 1) + 1] = t[e - 1]
        BY <1>4, <4>1
      <4> QED BY <4>1, <4>2
    <3>2. \A e \in 0..n : e > 0 => u[e] # w
      BY <1>2, <1>6, <3>1
    <3>3. CASE i = 0 \/ k = 0
      BY <1>1, <1>4, <2>3, <3>2, <3>3
    <3>4. CASE i > 0 /\ k > 0
      <4>1. t[i - 1] = t[k - 1]
        BY <2>3, <3>1, <3>4
      <4>2. i - 1 = k - 1
        BY <1>6, <3>1, <3>4, <4>1
      <4> QED BY <1>1, <4>2
    <3> QED BY <1>1, <3>3, <3>4
  <2>4. ASSUME NEW x \in T \cup {w} PROVE \E i \in 0..n : u[i] = x
    <3>1. CASE x = w
      BY <1>1, <1>4, <3>1
    <3>2. CASE x # w
      <4>1. PICK i \in 0..(n - 1) : t[i] = x
        BY <1>6, <3>2
      <4>2. i + 1 \in 0..n /\ u[i + 1] = t[i]
        BY <1>1, <1>4
      <4> QED BY <4>1, <4>2
    <3> QED BY <3>1, <3>2
  <2> QED BY <1>1, <2>1, <2>2, <2>3, <2>4 DEF List
<1>11. Back(pv1, head, r, m - 1)
  <2> SUFFICES ASSUME NEW i \in 0..(m - 2)
               PROVE  pv1[r[i]] = IF i = 0 THEN head ELSE r[i - 1]
    BY <1>1 DEF Back
  <2>1. CASE i < j
    <3>1. r[i] = s[i] /\ (i > 0 => r[i - 1] = s[i - 1]) /\ s[i] \in S
      BY <1>1, <1>3, <1>5, <2>1
    <3>2. s[i] # s[j + 1] /\ s[i] # w
      BY <1>1, <1>5, <1>7, <2>1 DEF w
    <3> QED BY <1>1, <1>7, <1>8, <2>1, <3>1, <3>2
  <2>2. CASE i = j
    <3>1. r[i] = s[j + 1] /\ (i > 0 => r[i - 1] = s[j - 1]) /\ s[j + 1] \in S
      BY <1>1, <1>3, <1>5, <2>2
    <3>2. s[j + 1] # w
      BY <1>1, <1>5, <2>2 DEF w
    <3> QED BY <1>1, <1>8, <2>2, <3>1, <3>2 DEF Before
  <2>3. CASE i > j
    <3>1. r[i] = s[i + 1] /\ r[i - 1] = s[i] /\ s[i + 1] \in S
      BY <1>1, <1>3, <1>5, <2>3
    <3>2. s[i + 1] # s[j + 1] /\ s[i + 1] # w
      BY <1>1, <1>5, <1>7, <2>3 DEF w
    <3> QED BY <1>1, <1>7, <1>8, <2>3, <3>1, <3>2
  <2> QED BY <1>1, <2>1, <2>2, <2>3
<1>12. (S \ {w}) \cap (T \cup {w}) = {} /\ (S \ {w}) \cup (T \cup {w}) = X
  BY <1>2, <1>7
<1> QED BY <1>2, <1>7, <1>9, <1>10, <1>11, <1>12 DEF Shared, w, r, u

\* Lists are told apart by the pointers of their own nodes.
LEMMA SharedFrame ==
    ASSUME NEW nx, NEW pv, NEW nx1, NEW pv1, NEW head, NEW s, NEW m, NEW S,
           NEW spare, NEW t, NEW n, NEW T, NEW X,
           Shared(nx, pv, head, s, m, S, spare, t, n, T, X),
           \A x \in X : nx1[x] = nx[x] /\ pv1[x] = pv[x],
           nx1[head] = nx[head], nx1[spare] = nx[spare]
    PROVE  Shared(nx1, pv1, head, s, m, S, spare, t, n, T, X)
<1>1. List(nx1, head, s, m, S)
  <2>1. \A i \in Nat : i < m => s[i] \in X
    BY DEF Shared, List
  <2> QED BY <2>1 DEF Shared, List
<1>2. List(nx1, spare, t, n, T)
  <2>1. \A i \in Nat : i < n => t[i] \in X
    BY DEF Shared, List
  <2> QED BY <2>1 DEF Shared, List
<1>3. Back(pv1, head, s, m)
  <2>1. \A i \in 0..(m - 1) : s[i] \in X
    BY DEF Shared, List
  <2> QED BY <2>1 DEF Shared, Back
<1> QED BY <1>1, <1>2, <1>3 DEF Shared

\* Walk follows the list.
LEMMA WalkIs ==
    ASSUME NEW h, NEW head, NEW s, NEW m, NEW S, List(h.next, head, s, m, S),
           Blocks \in Nat, NULL \notin S
    PROVE  /\ \A i \in 0..(Blocks + Points + 1) : Walk(h, head)[i] = s[i]
           /\ m <= Blocks + Points + 1 => Listed(h, head) = S
<1> DEFINE D == 0..(Blocks + Points + 1)
           Step(at) == at = [i \in D |-> IF i = 0 THEN h.next[head]
                                         ELSE IF at[i - 1] = NULL THEN NULL
                                         ELSE h.next[at[i - 1]]]
           at == CHOOSE at : Step(at)
           Wrong == {i \in D : at[i] # s[i]}
<1>1. Points \in Nat /\ m \in Nat
  BY DivBounds DEF Points, List
<1>2. Walk(h, head) = at
  BY DEF Walk
<1>3. /\ h.next[head] = s[0]
      /\ \A i \in Nat : s[i] # NULL => h.next[s[i]] = s[i + 1]
      /\ \A i \in Nat : s[i] = NULL => s[i + 1] = NULL
  BY <1>1 DEF List
<1>4. Step([i \in D |-> s[i]])
  <2>1. ASSUME NEW i \in D, i # 0
        PROVE  s[i] = IF [e \in D |-> s[e]][i - 1] = NULL THEN NULL
                      ELSE h.next[[e \in D |-> s[e]][i - 1]]
    <3>1. i - 1 \in D /\ i - 1 \in Nat /\ (i - 1) + 1 = i
      BY <1>1, <2>1
    <3>2. [e \in D |-> s[e]][i - 1] = s[i - 1]
      BY <3>1
    <3> QED BY <1>3, <3>1, <3>2
  <2> QED BY <1>3, <2>1
<1>5. Step(at)
  BY <1>4
<1> HIDE DEF at
<1>6. Wrong = {}
  <2> SUFFICES ASSUME Wrong # {} PROVE FALSE
    OBVIOUS
  <2>1. Wrong \in SUBSET Nat
    BY <1>1
  <2>2. PICK i \in Wrong : \A y \in Wrong : i <= y
    <3> HIDE DEF Wrong
    <3> QED BY <2>1, MinIsLeast
  <2>3. i \in D /\ i # 0
    BY <1>3, <1>5
  <2>4. i - 1 \in D /\ i - 1 \in Nat /\ (i - 1) + 1 = i /\ i - 1 \notin Wrong
    BY <1>1, <2>2, <2>3
  <2>5. at[i - 1] = s[i - 1]
    BY <2>4
  <2>6. at[i] = IF s[i - 1] = NULL THEN NULL ELSE h.next[s[i - 1]]
    BY <1>5, <2>3, <2>5
  <2> QED BY <1>3, <2>4, <2>6
<1>7. \A i \in D : Walk(h, head)[i] = s[i]
  BY <1>2, <1>6
<1>8. ASSUME m <= Blocks + Points + 1 PROVE Listed(h, head) = S
  <2>1. \A i \in 0..(Blocks + Points) : i \in D
    BY <1>1
  <2>2. Listed(h, head) = {s[i] : i \in 0..(Blocks + Points)} \ {NULL}
    BY <1>7, <2>1 DEF Listed
  <2>3. \A i \in 0..(Blocks + Points) : s[i] # NULL => s[i] \in S
    BY <1>1 DEF List
  <2>4. \A x \in S : \E i \in 0..(Blocks + Points) : s[i] = x
    BY <1>1, <1>8 DEF List
  <2> QED BY <2>2, <2>3, <2>4
<1> QED BY <1>7, <1>8
-----------------------------------------------------------------------------
(* The calls on the lists. *)

\* The fields of a heap: pointers may be any numbers, places are the nodes.
HeapType ==
    [next : [Node -> Int], prev : [Node -> Int], count : [ChunkNode -> Int],
     first : [ChunkNode -> Int], bUse : [Chunk -> BOOLEAN],
     pfree : [ChunkNode -> Int], data : [PointNode -> Int],
     owner : [Block -> Int], used_size : Int]

\* Only the pointers of the lists differ.
SameData(h, r) ==
    /\ r.count = h.count /\ r.first = h.first /\ r.bUse = h.bUse
    /\ r.pfree = h.pfree /\ r.data = h.data /\ r.owner = h.owner
    /\ r.used_size = h.used_size

\* The nodes of the two kinds, the heads and NULL are all different.
LEMMA NodeFacts ==
    /\ NULL = 0 /\ NULL \notin Node
    /\ Node \subseteq Int
    /\ ChunkNode \cap PointNode = {}
    /\ {chunk_list, chunk_cache, free_list, free_cache} \cap (ChunkNode \cup PointNode) = {}
    /\ chunk_list # chunk_cache /\ free_list # free_cache
    /\ {free_list, free_cache} \cap {chunk_list, chunk_cache} = {}
    /\ {chunk_list, chunk_cache, free_list, free_cache} \subseteq Node
    /\ ChunkNode \subseteq Node /\ PointNode \subseteq Node
    /\ ChunkNode \subseteq Chunk /\ chunk_list \in Chunk /\ Chunk \subseteq Node
    /\ Points \in Nat
<1>1. Points \in Nat
  BY PoolAssumption, DivBounds DEF Points
<1>2. ChunkNode \subseteq Nat \ {0} /\ PointNode \subseteq Nat \ {0} /\ ChunkNode \cap PointNode = {}
  BY <1>1, PoolAssumption DEF ChunkNode, PointNode
<1> QED BY <1>1, <1>2 DEF NULL, Node, Head, Chunk, chunk_list, chunk_cache,
                          free_list, free_cache

\* pushFront: the pointers after it
LEMMA PushFrontIs ==
    ASSUME NEW h \in HeapType, NEW head \in Node, NEW x \in Node,
           h.next[head] = NULL \/ h.next[head] \in Node
    PROVE  /\ PushFront(h, head, x) \in HeapType
           /\ SameData(h, PushFront(h, head, x))
           /\ \A y \in Node : PushFront(h, head, x).next[y] =
                IF y = x THEN h.next[head] ELSE IF y = head THEN x ELSE h.next[y]
           /\ \A y \in Node : PushFront(h, head, x).prev[y] =
                IF y = h.next[head] THEN x ELSE IF y = x THEN head ELSE h.prev[y]
<1> DEFINE after == h.next[head]
           linked == [h EXCEPT !.next[head] = x, !.prev[x] = head, !.next[x] = after]
<1>1. /\ linked \in HeapType /\ SameData(h, linked)
      /\ \A y \in Node : linked.next[y] =
                IF y = x THEN h.next[head] ELSE IF y = head THEN x ELSE h.next[y]
      /\ \A y \in Node : linked.prev[y] = IF y = x THEN head ELSE h.prev[y]
  BY NodeFacts DEF HeapType, SameData
<1> HIDE DEF linked
<1>2. CASE after = NULL
  <2>1. PushFront(h, head, x) = linked
    BY <1>2 DEF PushFront, linked
  <2> QED BY <1>1, <1>2, <2>1, NodeFacts
<1>3. CASE after # NULL
  <2>1. PushFront(h, head, x) = [linked EXCEPT !.prev[after] = x]
    BY <1>3 DEF PushFront, linked
  <2>2. /\ [linked EXCEPT !.prev[after] = x] \in HeapType
        /\ SameData(linked, [linked EXCEPT !.prev[after] = x])
        /\ [linked EXCEPT !.prev[after] = x].next = linked.next
        /\ \A y \in Node : [linked EXCEPT !.prev[after] = x].prev[y] =
                IF y = after THEN x ELSE linked.prev[y]
    BY <1>1, <1>3, NodeFacts DEF HeapType, SameData
  <2> QED BY <1>1, <2>1, <2>2 DEF SameData
<1> QED BY <1>2, <1>3

\* list_delete: the pointers after it
LEMMA ListDeleteIs ==
    ASSUME NEW h \in HeapType, NEW x \in Node, h.prev[x] \in Node,
           h.next[x] = NULL \/ h.next[x] \in Node
    PROVE  /\ list_delete(h, x) \in HeapType
           /\ SameData(h, list_delete(h, x))
           /\ \A y \in Node : list_delete(h, x).next[y] =
                IF y = h.prev[x] THEN h.next[x] ELSE h.next[y]
           /\ \A y \in Node : list_delete(h, x).prev[y] =
                IF y = h.next[x] THEN h.prev[x] ELSE h.prev[y]
<1> DEFINE before == h.prev[x]
           after == h.next[x]
           linked == [h EXCEPT !.next[before] = after]
<1>1. /\ linked \in HeapType /\ SameData(h, linked)
      /\ \A y \in Node : linked.next[y] = IF y = before THEN after ELSE h.next[y]
      /\ linked.prev = h.prev
  BY NodeFacts DEF HeapType, SameData
<1> HIDE DEF linked
<1>2. CASE after = NULL
  <2>1. list_delete(h, x) = linked
    BY <1>2 DEF list_delete, linked
  <2> QED BY <1>1, <1>2, <2>1, NodeFacts
<1>3. CASE after # NULL
  <2>1. list_delete(h, x) = [linked EXCEPT !.prev[after] = before]
    BY <1>3 DEF list_delete, linked
  <2>2. /\ [linked EXCEPT !.prev[after] = before] \in HeapType
        /\ SameData(linked, [linked EXCEPT !.prev[after] = before])
        /\ [linked EXCEPT !.prev[after] = before].next = linked.next
        /\ \A y \in Node : [linked EXCEPT !.prev[after] = before].prev[y] =
                IF y = after THEN before ELSE linked.prev[y]
    BY <1>1, <1>3, NodeFacts DEF HeapType, SameData
  <2> QED BY <1>1, <2>1, <2>2 DEF SameData
<1> QED BY <1>2, <1>3

\* insert_before: the pointers after it
LEMMA InsertBeforeIs ==
    ASSUME NEW h \in HeapType, NEW x \in Node, NEW new \in Node, h.prev[x] \in Node,
           x # new, h.prev[x] # new
    PROVE  /\ insert_before(h, x, new) \in HeapType
           /\ SameData(h, insert_before(h, x, new))
           /\ \A y \in Node : insert_before(h, x, new).next[y] =
                IF y = h.prev[x] THEN new ELSE IF y = new THEN x ELSE h.next[y]
           /\ \A y \in Node : insert_before(h, x, new).prev[y] =
                IF y = x THEN new ELSE IF y = new THEN h.prev[x] ELSE h.prev[y]
BY NodeFacts DEF HeapType, SameData, insert_before

\* getchunk: the pointers after it
LEMMA UnlinkIs ==
    ASSUME NEW h \in HeapType, NEW head \in Node, h.next[head] \in Node
    PROVE  /\ Unlink(h, head) \in HeapType
           /\ SameData(h, Unlink(h, head))
           /\ \A y \in Node : Unlink(h, head).next[y] =
                IF y = head THEN h.next[h.next[head]] ELSE h.next[y]
           /\ Unlink(h, head).prev = h.prev
BY NodeFacts DEF HeapType, SameData, Unlink

\* The nodes of one pair of lists, in a heap
Sharing(h, head, s, m, S, spare, t, n, T, X) ==
    /\ Shared(h.next, h.prev, head, s, m, S, spare, t, n, T, X)
    /\ X \subseteq Node /\ head \in Node /\ spare \in Node

\* No pointer of another node is touched.
Apart(h, r, head, spare, X) ==
    \A y \in Node \ (X \cup {head, spare}) :
        r.next[y] = h.next[y] /\ r.prev[y] = h.prev[y]

\* list_delete and addchunkcache
LEMMA Recycles ==
    ASSUME NEW h \in HeapType, NEW head, NEW s, NEW m, NEW S, NEW spare, NEW t,
           NEW n, NEW T, NEW X, Sharing(h, head, s, m, S, spare, t, n, T, X),
           NEW j \in 0..(m - 1)
    PROVE  LET r == PushFront(list_delete(h, s[j]), spare, s[j])
           IN /\ r \in HeapType /\ SameData(h, r)
              /\ Sharing(r, head, Del(s, j), m - 1, S \ {s[j]},
                         spare, Ins(t, 0, s[j]), n + 1, T \cup {s[j]}, X)
              /\ Apart(h, r, head, spare, X)
<1> DEFINE d == list_delete(h, s[j])
           r == PushFront(d, spare, s[j])
<1>1. /\ m \in Nat /\ n \in Nat /\ j \in Nat
      /\ s[j] \in S /\ s[j] \in X /\ s[j] \in Node /\ X \subseteq Node
      /\ head \in Node /\ spare \in Node /\ spare # head
      /\ NULL \notin X /\ head \notin X /\ spare \notin X
      /\ h.next[s[j]] = s[j + 1]
      /\ h.prev[s[j]] = Before(head, s, j)
      /\ h.next[spare] = t[0]
  BY DEF Sharing, Shared, List, Back, Before
<1>2. s[j + 1] = NULL \/ s[j + 1] \in X
  <2>1. j + 1 \in Nat
    BY <1>1
  <2>2. IF j + 1 < m THEN s[j + 1] \in S ELSE s[j + 1] = NULL
    BY <2>1 DEF Sharing, Shared, List
  <2> QED BY <2>2 DEF Sharing, Shared
<1>3. t[0] = NULL \/ t[0] \in X
  <2>1. IF 0 < n THEN t[0] \in T ELSE t[0] = NULL
    BY DEF Sharing, Shared, List
  <2> QED BY <2>1 DEF Sharing, Shared
<1>4. Before(head, s, j) \in X \cup {head} /\ Before(head, s, j) # s[j]
      /\ Before(head, s, j) \in Node /\ Before(head, s, j) # spare
  <2>1. CASE j = 0
    BY <1>1, <2>1 DEF Before
  <2>2. CASE j > 0
    <3>1. j - 1 \in 0..(m - 1) /\ j - 1 \in Nat /\ j - 1 < m
      BY <1>1, <2>2
    <3>2. s[j - 1] \in S /\ s[j - 1] # s[j]
      BY <1>1, <3>1 DEF Sharing, Shared, List
    <3> QED BY <1>1, <2>2, <3>2 DEF Before, Sharing, Shared
  <2> QED BY <1>1, <2>1, <2>2
<1>5. s[j + 1] # s[j]
  <2>1. j + 1 < m => j + 1 \in 0..(m - 1)
    BY <1>1
  <2> QED BY <1>1, <1>2, <2>1 DEF Sharing, Shared, List
<1>6. /\ d \in HeapType /\ SameData(h, d)
      /\ \A y \in Node : d.next[y] = IF y = Before(head, s, j) THEN s[j + 1] ELSE h.next[y]
      /\ \A y \in Node : d.prev[y] = IF y = s[j + 1] THEN Before(head, s, j) ELSE h.prev[y]
  BY <1>1, <1>2, <1>4, ListDeleteIs
<1> HIDE DEF d
<1>7. d.next[spare] = t[0]
  BY <1>1, <1>4, <1>6
<1>8. /\ r \in HeapType /\ SameData(d, r)
      /\ \A y \in Node : r.next[y] = IF y = s[j] THEN t[0] ELSE IF y = spare THEN s[j] ELSE d.next[y]
      /\ \A y \in Node : r.prev[y] = IF y = t[0] THEN s[j] ELSE IF y = s[j] THEN spare ELSE d.prev[y]
  BY <1>1, <1>3, <1>6, <1>7, PushFrontIs
<1> HIDE DEF r
<1>9. Leaves(h.next, h.prev, r.next, r.prev, head, s, j, spare, t, X)
  <2>1. \A x \in X \cup {head, spare} :
            r.next[x] = IF x = spare THEN s[j] ELSE IF x = Before(head, s, j) THEN s[j + 1]
                     ELSE IF x = s[j] THEN t[0] ELSE h.next[x]
    BY <1>1, <1>4, <1>6, <1>8
  <2>2. \A x \in X \ {s[j], t[0]} :
            r.prev[x] = IF x = s[j + 1] THEN Before(head, s, j) ELSE h.prev[x]
    BY <1>1, <1>6, <1>8
  <2> QED BY <2>1, <2>2 DEF Leaves
<1>10. Shared(r.next, r.prev, head, Del(s, j), m - 1, S \ {s[j]},
                     spare, Ins(t, 0, s[j]), n + 1, T \cup {s[j]}, X)
  BY <1>9, Left DEF Sharing
<1>11. SameData(h, r)
  BY <1>6, <1>8 DEF SameData
<1>12. Apart(h, r, head, spare, X)
  BY <1>1, <1>2, <1>3, <1>4, <1>6, <1>8, NodeFacts DEF Apart
<1> QED BY <1>8, <1>10, <1>11, <1>12 DEF r, d, Sharing

\* getchunk and pushFront; the node's own data may be written in between.
LEMMA Enlists ==
    ASSUME NEW h \in HeapType, NEW head, NEW s, NEW m, NEW S, NEW spare, NEW t,
           NEW n, NEW T, NEW X, Sharing(h, head, s, m, S, spare, t, n, T, X),
           n # 0, NEW u \in HeapType, u.next = Unlink(h, spare).next,
           u.prev = h.prev
    PROVE  LET r == PushFront(u, head, t[0])
           IN /\ t[0] \in T /\ h.next[spare] = t[0]
              /\ r \in HeapType /\ SameData(u, r)
              /\ Sharing(r, head, Ins(s, 0, t[0]), m + 1, S \cup {t[0]},
                         spare, Del(t, 0), n - 1, T \ {t[0]}, X)
              /\ Apart(h, r, head, spare, X)
<1> DEFINE r == PushFront(u, head, t[0])
<1>1. /\ m \in Nat /\ n \in Nat
      /\ t[0] \in T /\ t[0] \in X /\ t[0] \in Node /\ X \subseteq Node
      /\ head \in Node /\ spare \in Node /\ spare # head
      /\ NULL \notin X /\ head \notin X /\ spare \notin X
      /\ h.next[head] = s[0]
      /\ h.next[spare] = t[0] /\ h.next[t[0]] = t[1]
  BY DEF Sharing, Shared, List
<1>2. s[0] = NULL \/ s[0] \in S
  BY DEF Sharing, Shared, List
<1>3. s[0] # t[0] /\ (s[0] = NULL \/ s[0] \in Node)
  BY <1>1, <1>2 DEF Sharing, Shared
<1>4. \A y \in Node : u.next[y] = IF y = spare THEN t[1] ELSE h.next[y]
  BY <1>1, UnlinkIs
<1>5. /\ r \in HeapType /\ SameData(u, r)
      /\ \A y \in Node : r.next[y] = IF y = t[0] THEN s[0] ELSE IF y = head THEN t[0] ELSE u.next[y]
      /\ \A y \in Node : r.prev[y] = IF y = s[0] THEN t[0] ELSE IF y = t[0] THEN head ELSE u.prev[y]
  BY <1>1, <1>3, <1>4, PushFrontIs
<1> HIDE DEF r
<1>6. Enters(h.next, h.prev, r.next, r.prev, head, s, 0, spare, t[0], X)
  <2>1. \A x \in X \cup {head, spare} :
            r.next[x] = IF x = spare THEN h.next[t[0]] ELSE IF x = head THEN t[0]
                     ELSE IF x = t[0] THEN s[0] ELSE h.next[x]
    BY <1>1, <1>4, <1>5
  <2>2. \A x \in X : r.prev[x] = IF x = t[0] THEN head
                                ELSE IF x = s[0] THEN t[0] ELSE h.prev[x]
    BY <1>1, <1>3, <1>5
  <2> QED BY <2>1, <2>2 DEF Enters, Before
<1>7. Shared(r.next, r.prev, head, Ins(s, 0, t[0]), m + 1, S \cup {t[0]},
                         spare, Del(t, 0), n - 1, T \ {t[0]}, X)
  <2>1. 0 \in 0..m
    BY <1>1
  <2> QED BY <1>6, <2>1, Entered DEF Sharing
<1>8. Apart(h, r, head, spare, X)
  BY <1>1, <1>2, <1>3, <1>4, <1>5, NodeFacts DEF Apart, Sharing, Shared
<1> QED BY <1>1, <1>5, <1>7, <1>8 DEF r, Sharing

\* getchunk and insert_before
LEMMA Inserts ==
    ASSUME NEW h \in HeapType, NEW head, NEW s, NEW m, NEW S, NEW spare, NEW t,
           NEW n, NEW T, NEW X, Sharing(h, head, s, m, S, spare, t, n, T, X),
           n # 0, NEW u \in HeapType, u.next = Unlink(h, spare).next,
           u.prev = h.prev, NEW j \in 0..(m - 1)
    PROVE  LET r == insert_before(u, s[j], t[0])
           IN /\ t[0] \in T /\ h.next[spare] = t[0]
              /\ r \in HeapType /\ SameData(u, r)
              /\ Sharing(r, head, Ins(s, j, t[0]), m + 1, S \cup {t[0]},
                         spare, Del(t, 0), n - 1, T \ {t[0]}, X)
              /\ Apart(h, r, head, spare, X)
<1> DEFINE r == insert_before(u, s[j], t[0])
<1>1. /\ m \in Nat /\ n \in Nat /\ j \in Nat
      /\ t[0] \in T /\ t[0] \in X /\ t[0] \in Node /\ X \subseteq Node
      /\ head \in Node /\ spare \in Node /\ spare # head
      /\ NULL \notin X /\ head \notin X /\ spare \notin X
      /\ h.next[spare] = t[0] /\ h.next[t[0]] = t[1]
      /\ s[j] \in S /\ s[j] \in X /\ s[j] # t[0] /\ S \cap T = {}
      /\ h.prev[s[j]] = Before(head, s, j)
  BY DEF Sharing, Shared, List, Back, Before
<1>2. Before(head, s, j) \in S \cup {head}
  BY <1>1 DEF Before, Sharing, Shared, List
<1>3. Before(head, s, j) \in Node /\ Before(head, s, j) # t[0]
      /\ Before(head, s, j) # spare /\ Before(head, s, j) \in X \cup {head}
  BY <1>1, <1>2 DEF Sharing, Shared
<1>4. \A y \in Node : u.next[y] = IF y = spare THEN t[1] ELSE h.next[y]
  BY <1>1, UnlinkIs
<1>5. /\ r \in HeapType /\ SameData(u, r)
      /\ \A y \in Node : r.next[y] = IF y = Before(head, s, j) THEN t[0]
                                     ELSE IF y = t[0] THEN s[j] ELSE u.next[y]
      /\ \A y \in Node : r.prev[y] = IF y = s[j] THEN t[0]
                         ELSE IF y = t[0] THEN Before(head, s, j) ELSE u.prev[y]
  <2>1. s[j] \in Node /\ u.prev[s[j]] = Before(head, s, j)
    BY <1>1
  <2> QED BY <1>1, <1>3, <2>1, InsertBeforeIs
<1> HIDE DEF r
<1>6. Enters(h.next, h.prev, r.next, r.prev, head, s, j, spare, t[0], X)
  <2>1. \A x \in X \cup {head, spare} :
            r.next[x] = IF x = spare THEN h.next[t[0]] ELSE IF x = Before(head, s, j) THEN t[0]
                     ELSE IF x = t[0] THEN s[j] ELSE h.next[x]
    BY <1>1, <1>3, <1>4, <1>5
  <2>2. \A x \in X : r.prev[x] = IF x = t[0] THEN Before(head, s, j)
                                ELSE IF x = s[j] THEN t[0] ELSE h.prev[x]
    BY <1>1, <1>3, <1>5
  <2> QED BY <2>1, <2>2 DEF Enters
<1>7. Shared(r.next, r.prev, head, Ins(s, j, t[0]), m + 1, S \cup {t[0]},
                         spare, Del(t, 0), n - 1, T \ {t[0]}, X)
  <2>1. j \in 0..m
    BY <1>1
  <2> QED BY <1>6, <2>1, Entered DEF Sharing
<1>8. Apart(h, r, head, spare, X)
  BY <1>1, <1>3, <1>4, <1>5, NodeFacts DEF Apart
<1> QED BY <1>1, <1>5, <1>7, <1>8 DEF r, Sharing

-----------------------------------------------------------------------------
(* The heap of the pool. *)

\* The chunks are the m nodes of A, in the order a.
ChunkLists(h, a, m, A) ==
    \E b, n, B :
        /\ Sharing(h, chunk_list, a, m, A, chunk_cache, b, n, B, ChunkNode)
        /\ m + n = Blocks

\* The free list has the p nodes of F.
Pointers(h, F, p) ==
    \E f, g, q, G :
        /\ Sharing(h, free_list, f, p, F, free_cache, g, q, G, PointNode)
        /\ p + q = Points

\* Walk finds the chunks, and those that are not in use as nodes in the cache.
LEMMA ChunksFacts ==
    ASSUME NEW h, NEW a, NEW m, NEW A, ChunkLists(h, a, m, A)
    PROVE  /\ m \in Nat /\ m <= Blocks /\ A \subseteq ChunkNode
           /\ \A i \in 0..(m - 1) : a[i] \in A /\ a[i] # NULL
           /\ \A i \in Nat : i >= m => a[i] = NULL
           /\ \A i, j \in 0..(m - 1) : a[i] = a[j] => i = j
           /\ \A c \in A : \E i \in 0..(m - 1) : a[i] = c
           /\ h.next[chunk_list] = a[0]
           /\ \A i \in 0..(m - 1) : /\ h.next[a[i]] = a[i + 1]
                                    /\ h.prev[a[i]] = Before(chunk_list, a, i)
           /\ \A i \in 0..(Blocks + Points + 1) : Walk(h, chunk_list)[i] = a[i]
           /\ Chunks(h) = A
           /\ Listed(h, chunk_cache) = ChunkNode \ A
           /\ m < Blocks => h.next[chunk_cache] \in ChunkNode \ A
<1>1. PICK b, n, B : /\ Sharing(h, chunk_list, a, m, A, chunk_cache, b, n, B, ChunkNode)
                     /\ m + n = Blocks
  BY DEF ChunkLists
<1>2. /\ List(h.next, chunk_list, a, m, A) /\ List(h.next, chunk_cache, b, n, B)
      /\ Back(h.prev, chunk_list, a, m)
      /\ A \cap B = {} /\ A \cup B = ChunkNode /\ NULL \notin ChunkNode
  BY <1>1 DEF Sharing, Shared
<1>3. Blocks \in Nat /\ m \in Nat /\ n \in Nat /\ Points \in Nat
  BY <1>2, PoolAssumption, NodeFacts DEF List
<1>4. m <= Blocks /\ n <= Blocks /\ m <= Blocks + Points + 1 /\ n <= Blocks + Points + 1
  BY <1>1, <1>3
<1>5. /\ \A i \in 0..(Blocks + Points + 1) : Walk(h, chunk_list)[i] = a[i]
      /\ Listed(h, chunk_list) = A
  <2>1. NULL \notin A /\ List(h.next, chunk_list, a, m, A)
    BY <1>2
  <2>2. /\ \A i \in 0..(Blocks + Points + 1) : Walk(h, chunk_list)[i] = a[i]
        /\ m <= Blocks + Points + 1 => Listed(h, chunk_list) = A
    BY <1>3, <2>1, WalkIs, ZenonT(60)
  <2> QED BY <1>4, <2>2
<1>6. Listed(h, chunk_cache) = B
  <2>1. NULL \notin B /\ List(h.next, chunk_cache, b, n, B)
    BY <1>2
  <2>2. n <= Blocks + Points + 1 => Listed(h, chunk_cache) = B
    BY <1>3, <2>1, WalkIs, ZenonT(60)
  <2> QED BY <1>4, <2>2
<1>7. m < Blocks => h.next[chunk_cache] \in B
  BY <1>1, <1>2, <1>3 DEF List
<1> QED BY <1>2, <1>3, <1>4, <1>5, <1>6, <1>7 DEF List, Back, Before, Chunks

\* Walk finds the free list, and the nodes it does not use in their cache.
LEMMA PointersFacts ==
    ASSUME NEW h, NEW F, NEW p, Pointers(h, F, p)
    PROVE  /\ p \in Nat /\ p <= Points /\ F \subseteq PointNode
           /\ \E f : /\ \A i \in 0..(p - 1) : f[i] \in F
                     /\ \A i, j \in 0..(p - 1) : f[i] = f[j] => i = j
                     /\ \A i \in Nat : i >= p => f[i] = NULL
                     /\ \A i \in 0..(Blocks + Points + 1) : Walk(h, free_list)[i] = f[i]
           /\ Listed(h, free_list) = F
           /\ Listed(h, free_cache) = PointNode \ F
           /\ p < Points => h.next[free_cache] \in PointNode \ F
<1>1. PICK f, g, q, G : /\ Sharing(h, free_list, f, p, F, free_cache, g, q, G, PointNode)
                        /\ p + q = Points
  BY DEF Pointers
<1>2. /\ List(h.next, free_list, f, p, F) /\ List(h.next, free_cache, g, q, G)
      /\ F \cap G = {} /\ F \cup G = PointNode /\ NULL \notin PointNode
  BY <1>1 DEF Sharing, Shared
<1>3. Blocks \in Nat /\ p \in Nat /\ q \in Nat /\ Points \in Nat
  BY <1>2, PoolAssumption, NodeFacts DEF List
<1>4. p <= Points /\ q <= Points /\ p <= Blocks + Points + 1 /\ q <= Blocks + Points + 1
  BY <1>1, <1>3
<1>5. /\ \A i \in 0..(Blocks + Points + 1) : Walk(h, free_list)[i] = f[i]
      /\ Listed(h, free_list) = F
  <2>1. NULL \notin F /\ List(h.next, free_list, f, p, F)
    BY <1>2
  <2>2. /\ \A i \in 0..(Blocks + Points + 1) : Walk(h, free_list)[i] = f[i]
        /\ p <= Blocks + Points + 1 => Listed(h, free_list) = F
    BY <1>3, <2>1, WalkIs, ZenonT(60)
  <2> QED BY <1>4, <2>2
<1>6. Listed(h, free_cache) = G
  <2>1. NULL \notin G /\ List(h.next, free_cache, g, q, G)
    BY <1>2
  <2>2. q <= Blocks + Points + 1 => Listed(h, free_cache) = G
    BY <1>3, <2>1, WalkIs, ZenonT(60)
  <2> QED BY <1>4, <2>2
<1>7. p < Points => h.next[free_cache] \in G
  BY <1>1, <1>2, <1>3 DEF List
<1>8. /\ \A i \in 0..(p - 1) : f[i] \in F
      /\ \A i, j \in 0..(p - 1) : f[i] = f[j] => i = j
      /\ \A i \in Nat : i >= p => f[i] = NULL
  BY <1>2, <1>3 DEF List
<1> QED BY <1>2, <1>3, <1>4, <1>5, <1>6, <1>7, <1>8

\* The data of the nodes do not matter to the lists.
LEMMA ListsFrame ==
    ASSUME NEW h, NEW r, r.next = h.next, r.prev = h.prev
    PROVE  /\ \A a, m, A : ChunkLists(h, a, m, A) => ChunkLists(r, a, m, A)
           /\ \A F, p : Pointers(h, F, p) => Pointers(r, F, p)
BY DEF ChunkLists, Pointers, Sharing

\* A step on the lists of the chunks leaves those of the pointers, and the
\* other way round.
LEMMA ChunksApart ==
    ASSUME NEW h, NEW r, Apart(h, r, chunk_list, chunk_cache, ChunkNode),
           NEW F, NEW p, Pointers(h, F, p)
    PROVE  Pointers(r, F, p)
<1>1. PICK f, g, q, G : /\ Sharing(h, free_list, f, p, F, free_cache, g, q, G, PointNode)
                        /\ p + q = Points
  BY DEF Pointers
<1>2. \A x \in PointNode \cup {free_list, free_cache} :
         r.next[x] = h.next[x] /\ r.prev[x] = h.prev[x]
  BY NodeFacts DEF Apart
<1>3. Shared(r.next, r.prev, free_list, f, p, F, free_cache, g, q, G, PointNode)
  BY <1>1, <1>2, SharedFrame DEF Sharing
<1> QED BY <1>1, <1>3 DEF Pointers, Sharing

\* A step on the free list leaves the chunks as they were.
LEMMA PointersApart ==
    ASSUME NEW h, NEW r, Apart(h, r, free_list, free_cache, PointNode),
           NEW a, NEW m, NEW A, ChunkLists(h, a, m, A)
    PROVE  ChunkLists(r, a, m, A)
<1>1. PICK b, n, B : /\ Sharing(h, chunk_list, a, m, A, chunk_cache, b, n, B, ChunkNode)
                     /\ m + n = Blocks
  BY DEF ChunkLists
<1>2. \A x \in ChunkNode \cup {chunk_list, chunk_cache} :
         r.next[x] = h.next[x] /\ r.prev[x] = h.prev[x]
  BY NodeFacts DEF Apart
<1>3. Shared(r.next, r.prev, chunk_list, a, m, A, chunk_cache, b, n, B, ChunkNode)
  BY <1>1, <1>2, SharedFrame DEF Sharing
<1> QED BY <1>1, <1>3 DEF ChunkLists, Sharing

\* A chunk that is joined to another leaves the list.
LEMMA ChunkDropped ==
    ASSUME NEW h \in HeapType, NEW a, NEW m, NEW A, NEW F, NEW p,
           ChunkLists(h, a, m, A), Pointers(h, F, p), NEW j \in 0..(m - 1)
    PROVE  LET r == PushFront(list_delete(h, a[j]), chunk_cache, a[j])
           IN /\ r \in HeapType /\ SameData(h, r)
              /\ ChunkLists(r, Del(a, j), m - 1, A \ {a[j]}) /\ Pointers(r, F, p)
<1> DEFINE r == PushFront(list_delete(h, a[j]), chunk_cache, a[j])
<1>1. PICK b, n, B : /\ Sharing(h, chunk_list, a, m, A, chunk_cache, b, n, B, ChunkNode)
                     /\ m + n = Blocks
  BY DEF ChunkLists
<1>2. /\ r \in HeapType /\ SameData(h, r)
      /\ Sharing(r, chunk_list, Del(a, j), m - 1, A \ {a[j]},
                 chunk_cache, Ins(b, 0, a[j]), n + 1, B \cup {a[j]}, ChunkNode)
      /\ Apart(h, r, chunk_list, chunk_cache, ChunkNode)
  BY <1>1, Recycles
<1> HIDE DEF r
<1>3. (m - 1) + (n + 1) = Blocks
  BY <1>1 DEF Sharing, Shared, List
<1>4. ChunkLists(r, Del(a, j), m - 1, A \ {a[j]})
  BY <1>2, <1>3 DEF ChunkLists
<1> QED BY <1>2, <1>4, ChunksApart DEF r

\* A chunk that is cut off another comes before it.
LEMMA ChunkInserted ==
    ASSUME NEW h \in HeapType, NEW a, NEW m, NEW A, NEW F, NEW p,
           ChunkLists(h, a, m, A), Pointers(h, F, p), NEW j \in 0..(m - 1), m < Blocks,
           NEW u \in HeapType, u.next = Unlink(h, chunk_cache).next, u.prev = h.prev
    PROVE  LET new == h.next[chunk_cache]
               r == insert_before(u, a[j], new)
           IN /\ r \in HeapType /\ SameData(u, r)
              /\ ChunkLists(r, Ins(a, j, new), m + 1, A \cup {new}) /\ Pointers(r, F, p)
<1> DEFINE new == h.next[chunk_cache]
           r == insert_before(u, a[j], new)
<1>1. PICK b, n, B : /\ Sharing(h, chunk_list, a, m, A, chunk_cache, b, n, B, ChunkNode)
                     /\ m + n = Blocks
  BY DEF ChunkLists
<1>2. n # 0 /\ m \in Nat /\ n \in Nat
  BY <1>1, PoolAssumption DEF Sharing, Shared, List
<1>3. h.next[chunk_cache] = b[0]
  BY <1>1 DEF Sharing, Shared, List
<1>4. /\ r \in HeapType /\ SameData(u, r)
      /\ Sharing(r, chunk_list, Ins(a, j, new), m + 1, A \cup {new},
                 chunk_cache, Del(b, 0), n - 1, B \ {new}, ChunkNode)
      /\ Apart(h, r, chunk_list, chunk_cache, ChunkNode)
  <2>1. Sharing(h, chunk_list, a, m, A, chunk_cache, b, n, B, ChunkNode)
    BY <1>1
  <2> HIDE DEF new
  <2>2. r = insert_before(u, a[j], b[0])
    BY <1>3 DEF r, new
  <2>3. new = b[0]
    BY <1>3 DEF new
  <2> HIDE DEF r
  <2>4. LET e == insert_before(u, a[j], b[0])
        IN /\ b[0] \in B /\ h.next[chunk_cache] = b[0]
           /\ e \in HeapType /\ SameData(u, e)
           /\ Sharing(e, chunk_list, Ins(a, j, b[0]), m + 1, A \cup {b[0]},
                      chunk_cache, Del(b, 0), n - 1, B \ {b[0]}, ChunkNode)
           /\ Apart(h, e, chunk_list, chunk_cache, ChunkNode)
    BY <1>2, <2>1, Inserts, ZenonT(60)
  <2> QED BY <2>2, <2>3, <2>4
<1> HIDE DEF r
<1>5. (m + 1) + (n - 1) = Blocks
  BY <1>1, <1>2
<1>6. ChunkLists(r, Ins(a, j, new), m + 1, A \cup {new})
  BY <1>4, <1>5 DEF ChunkLists
<1> QED BY <1>4, <1>6, ChunksApart DEF r

\* DropFree
LEMMA PointDropped ==
    ASSUME NEW h \in HeapType, NEW a, NEW m, NEW A, NEW F, NEW p,
           ChunkLists(h, a, m, A), Pointers(h, F, p), NEW x \in F
    PROVE  /\ DropFree(h, x) \in HeapType /\ SameData(h, DropFree(h, x))
           /\ ChunkLists(DropFree(h, x), a, m, A) /\ Pointers(DropFree(h, x), F \ {x}, p - 1)
<1> DEFINE r == DropFree(h, x)
<1>1. PICK f, g, q, G : /\ Sharing(h, free_list, f, p, F, free_cache, g, q, G, PointNode)
                        /\ p + q = Points
  BY DEF Pointers
<1>2. PICK j \in 0..(p - 1) : f[j] = x
  BY <1>1 DEF Sharing, Shared, List
<1>3. /\ r \in HeapType /\ SameData(h, r)
      /\ Sharing(r, free_list, Del(f, j), p - 1, F \ {x},
                 free_cache, Ins(g, 0, x), q + 1, G \cup {x}, PointNode)
      /\ Apart(h, r, free_list, free_cache, PointNode)
  BY <1>1, <1>2, Recycles DEF DropFree
<1> HIDE DEF r
<1>4. (p - 1) + (q + 1) = Points
  BY <1>1 DEF Sharing, Shared, List
<1>5. Pointers(r, F \ {x}, p - 1)
  BY <1>3, <1>4 DEF Pointers
<1> QED BY <1>3, <1>5, PointersApart DEF r

\* AddFree
LEMMA PointAdded ==
    ASSUME NEW h \in HeapType, NEW a, NEW m, NEW A, NEW F, NEW p,
           ChunkLists(h, a, m, A), Pointers(h, F, p), p < Points, NEW c \in ChunkNode
    PROVE  LET w == h.next[free_cache]
               r == AddFree(h, c)
           IN /\ r \in HeapType
              /\ r.count = h.count /\ r.first = h.first /\ r.bUse = h.bUse
              /\ r.owner = h.owner /\ r.used_size = h.used_size
              /\ r.data = [h.data EXCEPT ![w] = c] /\ r.pfree = [h.pfree EXCEPT ![c] = w]
              /\ ChunkLists(r, a, m, A) /\ Pointers(r, F \cup {w}, p + 1)
<1> DEFINE w == h.next[free_cache]
           u == [Unlink(h, free_cache) EXCEPT !.data[w] = c, !.pfree[c] = w]
           r == AddFree(h, c)
<1>1. PICK f, g, q, G : /\ Sharing(h, free_list, f, p, F, free_cache, g, q, G, PointNode)
                        /\ p + q = Points
  BY DEF Pointers
<1>2. q # 0 /\ p \in Nat /\ q \in Nat
  BY <1>1, NodeFacts DEF Sharing, Shared, List
<1>3. w = g[0] /\ w \in PointNode
  BY <1>1, <1>2 DEF Sharing, Shared, List
<1>4. Unlink(h, free_cache) \in HeapType /\ SameData(h, Unlink(h, free_cache))
      /\ Unlink(h, free_cache).prev = h.prev
  BY <1>3, NodeFacts, UnlinkIs
<1> HIDE DEF w
<1>5. /\ u \in HeapType /\ u.next = Unlink(h, free_cache).next /\ u.prev = h.prev
      /\ u.count = h.count /\ u.first = h.first /\ u.bUse = h.bUse
      /\ u.owner = h.owner /\ u.used_size = h.used_size
      /\ u.data = [h.data EXCEPT ![w] = c] /\ u.pfree = [h.pfree EXCEPT ![c] = w]
  BY <1>3, <1>4, NodeFacts DEF HeapType, SameData
<1>6. r = PushFront(u, free_list, w)
  BY DEF AddFree, First, w
<1> HIDE DEF u, r
<1>7. /\ r \in HeapType /\ SameData(u, r)
      /\ Sharing(r, free_list, Ins(f, 0, w), p + 1, F \cup {w},
                 free_cache, Del(g, 0), q - 1, G \ {w}, PointNode)
      /\ Apart(h, r, free_list, free_cache, PointNode)
  <2>1. Sharing(h, free_list, f, p, F, free_cache, g, q, G, PointNode)
    BY <1>1
  <2>2. r = PushFront(u, free_list, g[0])
    BY <1>3, <1>6
  <2>3. LET e == PushFront(u, free_list, g[0])
        IN /\ g[0] \in G /\ h.next[free_cache] = g[0]
           /\ e \in HeapType /\ SameData(u, e)
           /\ Sharing(e, free_list, Ins(f, 0, g[0]), p + 1, F \cup {g[0]},
                      free_cache, Del(g, 0), q - 1, G \ {g[0]}, PointNode)
           /\ Apart(h, e, free_list, free_cache, PointNode)
    BY <1>2, <1>5, <2>1, Enlists, ZenonT(60)
  <2> QED BY <1>3, <2>2, <2>3
<1>8. (p + 1) + (q - 1) = Points
  BY <1>1, <1>2
<1>9. Pointers(r, F \cup {w}, p + 1)
  BY <1>7, <1>8 DEF Pointers
<1>10. ChunkLists(r, a, m, A)
  BY <1>7, PointersApart
<1> QED BY <1>5, <1>7, <1>9, <1>10 DEF r, w, SameData

-----------------------------------------------------------------------------
(* The tiling. *)

\* The block after the run of the chunk at the place i
Ends(first, a, m, i) == IF i + 1 < m THEN first[a[i + 1]] ELSE Blocks

\* The chunks a[0], ..., a[m - 1] lie side by side from the first block to the
\* last.  The last conjunct follows from the others by an induction that is
\* better made step by step of the program.
Tiles(first, count, a, m) ==
    /\ m > 0 /\ first[a[0]] = 0
    /\ \A i \in 0..(m - 1) : /\ count[a[i]] > 0
                             /\ first[a[i]] + count[a[i]] = Ends(first, a, m, i)
    /\ \A i, j \in 0..(m - 1) :
         i < j => first[a[i]] + count[a[i]] + (j - i) <= first[a[j]] + 1

\* Two free chunks, those that are not in U, lie side by side only at y.
Alternates(U, a, m, y) ==
    \A i, j \in 0..(m - 1) :
        j = i + 1 => a[i] \in U \/ a[j] \in U \/ a[i] = y \/ a[j] = y

\* The places hold different chunks.
Numbered(a, m) ==
    /\ m \in Nat
    /\ \A i \in 0..(m - 1) : a[i] \in ChunkNode
    /\ \A i, j \in 0..(m - 1) : a[i] = a[j] => i = j

\* Every chunk lies in the pool and apart from the others.
LEMMA TilesBound ==
    ASSUME NEW first \in [ChunkNode -> Int], NEW count \in [ChunkNode -> Int],
           NEW a, NEW m, Numbered(a, m), Tiles(first, count, a, m)
    PROVE  /\ \A i \in 0..(m - 1) :
                /\ i <= first[a[i]] /\ first[a[i]] + count[a[i]] <= Blocks
                /\ 0 < count[a[i]]
                /\ count[a[i]] # 1 => m < Blocks
                /\ count[a[i]] = Blocks => m = 1
           /\ \A i, j \in 0..(m - 1) :
                i # j => \/ first[a[i]] + count[a[i]] <= first[a[j]]
                         \/ first[a[j]] + count[a[j]] <= first[a[i]]
<1>1. /\ m \in Nat /\ m > 0 /\ Blocks \in Nat
      /\ \A i \in 0..(m - 1) : first[a[i]] \in Int /\ count[a[i]] \in Int
  BY PoolAssumption DEF Numbered, Tiles
<1>2. /\ first[a[0]] = 0
      /\ \A i \in 0..(m - 1) : /\ count[a[i]] > 0
                               /\ first[a[i]] + count[a[i]] = Ends(first, a, m, i)
      /\ \A i, j \in 0..(m - 1) :
           i < j => first[a[i]] + count[a[i]] + (j - i) <= first[a[j]] + 1
  BY DEF Tiles
<1> DEFINE l == m - 1
<1>3. l \in 0..(m - 1) /\ first[a[l]] + count[a[l]] = Blocks /\ 0 \in 0..(m - 1)
  BY <1>1, <1>2 DEF Ends
<1>4. ASSUME NEW i \in 0..(m - 1)
      PROVE  /\ i <= first[a[i]] /\ first[a[i]] + count[a[i]] <= Blocks
             /\ 0 < count[a[i]]
             /\ count[a[i]] # 1 => m < Blocks
             /\ count[a[i]] = Blocks => m = 1
  <2>1. i <= first[a[i]]
    <3>1. CASE i = 0
      BY <1>1, <1>2, <3>1
    <3>2. CASE i > 0
      <4>1. first[a[0]] + count[a[0]] + (i - 0) <= first[a[i]] + 1
        BY <1>2, <1>3, <3>2
      <4>2. count[a[0]] > 0 /\ count[a[0]] \in Int
        BY <1>1, <1>2, <1>3
      <4> QED BY <1>1, <1>2, <4>1, <4>2
    <3> QED BY <3>1, <3>2
  <2>2. first[a[i]] + count[a[i]] + (l - i) <= Blocks
    <3>1. CASE i = l
      BY <1>1, <1>3, <3>1
    <3>2. CASE i < l
      <4>1. first[a[i]] + count[a[i]] + (l - i) <= first[a[l]] + 1
        BY <1>2, <1>3, <3>2
      <4>2. count[a[l]] > 0 /\ count[a[l]] \in Int /\ first[a[l]] \in Int
        BY <1>1, <1>2, <1>3
      <4> QED BY <1>1, <1>3, <4>1, <4>2
    <3> QED BY <1>1, <3>1, <3>2
  <2>3. count[a[i]] > 0
    BY <1>2
  <2> QED BY <1>1, <2>1, <2>2, <2>3
<1>5. ASSUME NEW i \in 0..(m - 1), NEW j \in 0..(m - 1), i # j
      PROVE  \/ first[a[i]] + count[a[i]] <= first[a[j]]
             \/ first[a[j]] + count[a[j]] <= first[a[i]]
  <2>1. CASE i < j
    <3>1. first[a[i]] + count[a[i]] + (j - i) <= first[a[j]] + 1
      BY <1>2, <2>1
    <3> QED BY <1>1, <2>1, <3>1
  <2>2. CASE j < i
    <3>1. first[a[j]] + count[a[j]] + (i - j) <= first[a[i]] + 1
      BY <1>2, <2>2
    <3> QED BY <1>1, <2>2, <3>1
  <2> QED BY <1>1, <1>5, <2>1, <2>2
<1> QED BY <1>4, <1>5

\* A chunk is cut in two.
LEMMA TilesSplit ==
    ASSUME NEW first \in [ChunkNode -> Int], NEW count \in [ChunkNode -> Int],
           NEW a, NEW m, Numbered(a, m), Tiles(first, count, a, m),
           NEW j \in 0..(m - 1), NEW w \in ChunkNode, \A i \in 0..(m - 1) : a[i] # w,
           NEW n \in Nat, 0 # n, n < count[a[j]],
           NEW first1 \in [ChunkNode -> Int], NEW count1 \in [ChunkNode -> Int],
           \A c \in ChunkNode : /\ first1[c] = IF c = a[j] THEN first[a[j]] + n
                                               ELSE IF c = w THEN first[a[j]] ELSE first[c]
                                /\ count1[c] = IF c = a[j] THEN count[a[j]] - n
                                               ELSE IF c = w THEN n ELSE count[c]
    PROVE  Tiles(first1, count1, Ins(a, j, w), m + 1)
<1> DEFINE r == Ins(a, j, w)
<1>1. /\ m \in Nat /\ m > 0 /\ Blocks \in Nat /\ j \in Nat
      /\ \A i \in 0..(m - 1) : first[a[i]] \in Int /\ count[a[i]] \in Int
  BY PoolAssumption DEF Numbered, Tiles
<1>2. /\ first[a[0]] = 0
      /\ \A i \in 0..(m - 1) : /\ count[a[i]] > 0
                               /\ first[a[i]] + count[a[i]] = Ends(first, a, m, i)
      /\ \A i, k \in 0..(m - 1) :
           i < k => first[a[i]] + count[a[i]] + (k - i) <= first[a[k]] + 1
  BY DEF Tiles
<1>3. \A i \in Nat : r[i] = IF i < j THEN a[i] ELSE IF i = j THEN w ELSE a[i - 1]
  BY DEF Ins
<1> HIDE DEF r
<1> DEFINE P(i) == IF i <= j THEN i ELSE i - 1
           s(i) == IF i = j + 1 THEN first[a[j]] + n ELSE first[a[P(i)]]
           e(i) == IF i = j THEN first[a[j]] + n ELSE first[a[P(i)]] + count[a[P(i)]]
<1>4. \A i \in 0..m : P(i) \in 0..(m - 1)
  BY <1>1
<1>5. \A i \in 0..m : first1[r[i]] = s(i) /\ count1[r[i]] = e(i) - s(i)
  <2> TAKE i \in 0..m
  <2>1. CASE i < j
    <3>1. r[i] = a[i] /\ i \in 0..(m - 1) /\ a[i] # a[j] /\ a[i] # w /\ a[i] \in ChunkNode
      BY <1>1, <1>3, <2>1 DEF Numbered
    <3> QED BY <1>1, <2>1, <3>1
  <2>2. CASE i = j
    <3>1. r[i] = w /\ w # a[j]
      BY <1>1, <1>3, <2>2
    <3>2. first1[w] = first[a[j]] /\ count1[w] = n
      BY <3>1
    <3>3. P(i) = j /\ s(i) = first[a[j]] /\ e(i) = first[a[j]] + n
      BY <1>1, <2>2
    <3> HIDE DEF P, s, e
    <3> QED BY <1>1, <3>1, <3>2, <3>3
  <2>3. CASE i = j + 1
    <3>0. i - 1 = j /\ i \in Nat /\ ~ (i < j) /\ i # j
      BY <1>1, <2>3
    <3>1. r[i] = a[j] /\ a[j] \in ChunkNode
      BY <1>1, <1>3, <3>0 DEF Numbered
    <3> QED BY <1>1, <2>3, <3>1
  <2>4. CASE i > j + 1
    <3>1. r[i] = a[i - 1] /\ i - 1 \in 0..(m - 1) /\ a[i - 1] # a[j] /\ a[i - 1] # w
          /\ a[i - 1] \in ChunkNode
      BY <1>1, <1>3, <2>4 DEF Numbered
    <3> QED BY <1>1, <2>4, <3>1
  <2> QED BY <1>1, <2>1, <2>2, <2>3, <2>4
<1>6. \A i \in 0..m : s(i) \in Int /\ e(i) \in Int /\ e(i) > s(i)
  BY <1>1, <1>2, <1>4
<1>7. first1[r[0]] = 0
  <2>1. 0 \in 0..m /\ s(0) = first[a[0]]
    BY <1>1
  <2> QED BY <1>2, <1>5, <2>1
<1>8. ASSUME NEW i \in 0..m
      PROVE  e(i) = Ends(first1, r, m + 1, i)
  <2>1. CASE i = m
    <3>1. P(i) = m - 1 /\ i # j
      BY <1>1, <2>1
    <3>2. first[a[m - 1]] + count[a[m - 1]] = Blocks
      BY <1>1, <1>2 DEF Ends
    <3> QED BY <1>1, <2>1, <3>1, <3>2 DEF Ends
  <2>2. CASE i < m
    <3>1. i + 1 \in 0..m /\ Ends(first1, r, m + 1, i) = first1[r[i + 1]]
      BY <1>1, <2>2 DEF Ends
    <3>2. Ends(first1, r, m + 1, i) = s(i + 1)
      BY <1>5, <3>1
    <3>3. CASE i < j
      <4>1. first[a[i]] + count[a[i]] = first[a[i + 1]]
        BY <1>1, <1>2, <3>3 DEF Ends
      <4> QED BY <1>1, <3>2, <3>3, <4>1
    <3>4. CASE i = j
      BY <1>1, <3>2, <3>4
    <3>5. CASE i > j
      <4>1. i - 1 \in 0..(m - 1) /\ (i - 1) + 1 = i
        BY <1>1, <3>5
      <4>2. first[a[i - 1]] + count[a[i - 1]] = first[a[i]]
        BY <1>1, <1>2, <2>2, <4>1 DEF Ends
      <4> QED BY <1>1, <3>2, <3>5, <4>2
    <3> QED BY <1>1, <3>3, <3>4, <3>5
  <2> QED BY <1>1, <2>1, <2>2
<1>9. ASSUME NEW i \in 0..m, NEW k \in 0..m, i < k
      PROVE  e(i) + (k - i) <= s(k) + 1
  <2>1. CASE P(i) < P(k)
    <3>1. first[a[P(i)]] + count[a[P(i)]] + (P(k) - P(i)) <= first[a[P(k)]] + 1
      BY <1>2, <1>4, <2>1
    <3>2. first[a[P(i)]] \in Int /\ count[a[P(i)]] \in Int /\ first[a[P(k)]] \in Int
      BY <1>1, <1>4
    <3>3. CASE i = j
      <4>1. P(i) = j /\ P(k) = k - 1 /\ s(k) = first[a[k - 1]] /\ e(i) = first[a[j]] + n
        BY <1>1, <1>9, <2>1, <3>3
      <4>2. count[a[j]] \in Int /\ n + 1 <= count[a[j]]
        BY <1>1
      <4>3. first[a[j]] + count[a[j]] + ((k - 1) - j) <= first[a[k - 1]] + 1
        BY <3>1, <4>1
      <4>4. first[a[j]] \in Int /\ first[a[k - 1]] \in Int
        BY <3>2, <4>1
      <4> HIDE DEF P, s, e
      <4>5. first[a[j]] + n + (k - i) <= first[a[k - 1]] + 1
        BY <1>1, <3>3, <4>2, <4>3, <4>4
      <4> QED BY <4>1, <4>5
    <3>4. CASE i > j
      <4>1. P(i) = i - 1 /\ P(k) = k - 1 /\ s(k) = first[a[k - 1]]
            /\ e(i) = first[a[i - 1]] + count[a[i - 1]]
        BY <1>1, <1>9, <3>4
      <4> HIDE DEF P, s, e
      <4> QED BY <1>1, <1>9, <3>1, <3>2, <3>4, <4>1
    <3>5. CASE i < j /\ k <= j
      <4>1. P(i) = i /\ P(k) = k /\ s(k) = first[a[k]] /\ e(i) = first[a[i]] + count[a[i]]
        BY <1>1, <1>9, <3>5
      <4> HIDE DEF P, s, e
      <4> QED BY <1>1, <1>9, <3>1, <3>2, <3>5, <4>1
    <3>6. CASE i < j /\ k > j
      <4>1. P(i) = i /\ e(i) = first[a[i]] + count[a[i]] /\ i \in 0..(m - 1)
        BY <1>1, <1>9, <3>6
      <4>2. first[a[i]] + count[a[i]] + (j - i) <= first[a[j]] + 1
        BY <1>2, <3>6, <4>1
      <4>3. /\ first[a[i]] \in Int /\ count[a[i]] \in Int
            /\ first[a[j]] \in Int /\ count[a[j]] \in Int
        BY <1>1, <4>1
      <4>4. n >= 1 /\ count[a[j]] >= n + 1
        BY <4>3
      <4>5. CASE k = j + 1
        <5>1. s(k) = first[a[j]] + n
          BY <4>5
        <5> HIDE DEF P, s, e
        <5> QED BY <1>1, <4>1, <4>2, <4>3, <4>4, <4>5, <5>1
      <4>6. CASE k > j + 1
        <5>1. P(k) = k - 1 /\ s(k) = first[a[k - 1]] /\ k - 1 \in 0..(m - 1)
          BY <1>1, <4>6
        <5>2. first[a[j]] + count[a[j]] + ((k - 1) - j) <= first[a[k - 1]] + 1
          BY <1>1, <1>2, <4>6, <5>1
        <5>3. first[a[k - 1]] \in Int
          BY <1>1, <5>1
        <5>4. first[a[i]] + count[a[i]] + (k - i) <= first[a[k - 1]] + 1
          BY <1>1, <4>2, <4>3, <4>4, <5>2, <5>3
        <5> QED BY <4>1, <5>1, <5>4
      <4> QED BY <1>1, <3>6, <4>5, <4>6
    <3> QED BY <1>1, <3>3, <3>4, <3>5, <3>6
  <2>2. CASE ~ (P(i) < P(k))
    <3>1. i = j /\ k = j + 1
      BY <1>1, <1>9, <2>2
    <3> QED BY <1>1, <3>1
  <2> QED BY <2>1, <2>2
<1> HIDE DEF P, s, e
<1>10. \A i \in 0..m : count1[r[i]] > 0 /\ first1[r[i]] + count1[r[i]] = Ends(first1, r, m + 1, i)
  BY <1>5, <1>6, <1>8
<1>11. \A i, k \in 0..m :
         i < k => first1[r[i]] + count1[r[i]] + (k - i) <= first1[r[k]] + 1
  BY <1>1, <1>5, <1>6, <1>9
<1>12. (m + 1) - 1 = m /\ m + 1 > 0
  BY <1>1
<1> QED BY <1>7, <1>10, <1>11, <1>12 DEF Tiles, r

\* A chunk is joined to the one before it.
LEMMA TilesJoin ==
    ASSUME NEW first \in [ChunkNode -> Int], NEW count \in [ChunkNode -> Int],
           NEW a, NEW m, Numbered(a, m), Tiles(first, count, a, m),
           NEW j \in 0..(m - 1), j + 1 \in 0..(m - 1),
           NEW count1 \in [ChunkNode -> Int],
           \A c \in ChunkNode :
             count1[c] = IF c = a[j] THEN count[a[j]] + count[a[j + 1]] ELSE count[c]
    PROVE  Tiles(first, count1, Del(a, j + 1), m - 1)
<1> DEFINE r == Del(a, j + 1)
<1>1. /\ m \in Nat /\ m > 0 /\ Blocks \in Nat /\ j \in Nat /\ m - 1 > 0
      /\ \A i \in 0..(m - 1) : first[a[i]] \in Int /\ count[a[i]] \in Int
  BY PoolAssumption DEF Numbered, Tiles
<1>2. /\ first[a[0]] = 0
      /\ \A i \in 0..(m - 1) : /\ count[a[i]] > 0
                               /\ first[a[i]] + count[a[i]] = Ends(first, a, m, i)
      /\ \A i, k \in 0..(m - 1) :
           i < k => first[a[i]] + count[a[i]] + (k - i) <= first[a[k]] + 1
  BY DEF Tiles
<1>3. \A i \in Nat : r[i] = IF i < j + 1 THEN a[i] ELSE a[i + 1]
  BY DEF Del
<1> HIDE DEF r
<1> DEFINE P(i) == IF i <= j THEN i ELSE i + 1
           Q(i) == IF i < j THEN i ELSE i + 1
<1>4. \A i \in 0..(m - 2) : P(i) \in 0..(m - 1) /\ Q(i) \in 0..(m - 1) /\ r[i] = a[P(i)]
  BY <1>1, <1>3
<1>5. first[a[j]] + count[a[j]] = first[a[j + 1]]
  BY <1>1, <1>2 DEF Ends
<1>6. \A i \in 0..(m - 2) : first[r[i]] + count1[r[i]] = first[a[Q(i)]] + count[a[Q(i)]]
                            /\ count1[r[i]] > 0
  <2> TAKE i \in 0..(m - 2)
  <2>1. CASE i = j
    <3>1. r[i] = a[j] /\ Q(i) = j + 1 /\ a[j] \in ChunkNode
      BY <1>1, <1>4, <2>1 DEF Numbered
    <3>2. count1[a[j]] = count[a[j]] + count[a[j + 1]] /\ count[a[j]] > 0 /\ count[a[j + 1]] > 0
      BY <1>2, <3>1
    <3> QED BY <1>1, <1>5, <3>1, <3>2
  <2>2. CASE i # j
    <3>1. P(i) = Q(i) /\ P(i) # j
      BY <1>1, <2>2
    <3>2. r[i] = a[Q(i)] /\ r[i] # a[j] /\ r[i] \in ChunkNode
      BY <1>1, <1>4, <3>1 DEF Numbered
    <3>3. count1[r[i]] = count[a[Q(i)]]
      BY <3>2
    <3> QED BY <1>2, <1>4, <3>2, <3>3
  <2> QED BY <2>1, <2>2
<1>7. first[r[0]] = 0
  <2>1. r[0] = a[0]
    BY <1>1, <1>3
  <2> QED BY <1>2, <2>1
<1>8. ASSUME NEW i \in 0..(m - 2)
      PROVE  first[r[i]] + count1[r[i]] = Ends(first, r, m - 1, i)
  <2>1. first[r[i]] + count1[r[i]] = Ends(first, a, m, Q(i))
    BY <1>2, <1>4, <1>6
  <2>2. CASE i = m - 2
    <3>1. Q(i) = m - 1
      BY <1>1, <2>2
    <3> QED BY <1>1, <2>1, <2>2, <3>1 DEF Ends
  <2>3. CASE i < m - 2
    <3>1. Q(i) + 1 < m /\ i + 1 \in 0..(m - 2) /\ Q(i) + 1 = P(i + 1)
      BY <1>1, <2>3
    <3>2. Ends(first, r, m - 1, i) = first[r[i + 1]] /\ Ends(first, a, m, Q(i)) = first[a[Q(i) + 1]]
      BY <1>1, <2>3, <3>1 DEF Ends
    <3>3. r[i + 1] = a[P(i + 1)]
      BY <1>4, <3>1
    <3> QED BY <2>1, <3>1, <3>2, <3>3
  <2> QED BY <1>1, <2>2, <2>3
<1>9. ASSUME NEW i \in 0..(m - 2), NEW k \in 0..(m - 2), i < k
      PROVE  first[r[i]] + count1[r[i]] + (k - i) <= first[r[k]] + 1
  <2>1. Q(i) < P(k) /\ k - i <= P(k) - Q(i)
    BY <1>1, <1>9
  <2>2. first[a[Q(i)]] + count[a[Q(i)]] + (P(k) - Q(i)) <= first[a[P(k)]] + 1
    BY <1>2, <1>4, <2>1
  <2>3. first[a[Q(i)]] \in Int /\ count[a[Q(i)]] \in Int /\ first[a[P(k)]] \in Int
        /\ P(k) \in Int /\ Q(i) \in Int
    BY <1>1, <1>4
  <2>4. r[k] = a[P(k)] /\ first[r[i]] + count1[r[i]] = first[a[Q(i)]] + count[a[Q(i)]]
    BY <1>4, <1>6
  <2> HIDE DEF P, Q
  <2> QED BY <1>1, <2>1, <2>2, <2>3, <2>4
<1>10. (m - 1) - 1 = m - 2
  BY <1>1
<1> HIDE DEF P, Q
<1> QED BY <1>1, <1>6, <1>7, <1>8, <1>9, <1>10 DEF Tiles, r

\* Two free chunks that are not the same begin two blocks apart at least.
LEMMA FreeApart ==
    ASSUME NEW first \in [ChunkNode -> Int], NEW count \in [ChunkNode -> Int],
           NEW a, NEW m, Numbered(a, m), Tiles(first, count, a, m),
           NEW U, Alternates(U, a, m, NULL),
           NEW i \in 0..(m - 1), NEW j \in 0..(m - 1), i # j, a[i] \notin U, a[j] \notin U
    PROVE  first[a[i]] + 2 <= first[a[j]] \/ first[a[j]] + 2 <= first[a[i]]
<1>0. NULL \notin ChunkNode
  BY NodeFacts
<1>1. /\ m \in Nat
      /\ \A k \in 0..(m - 1) : first[a[k]] \in Int /\ count[a[k]] \in Int /\ a[k] # NULL
  BY <1>0 DEF Numbered
<1>2. j # i + 1 /\ i # j + 1
  BY <1>1 DEF Alternates
<1>3. /\ \A k \in 0..(m - 1) : count[a[k]] > 0
      /\ \A k, l \in 0..(m - 1) :
           k < l => first[a[k]] + count[a[k]] + (l - k) <= first[a[l]] + 1
  BY DEF Tiles
<1>4. CASE i < j
  <2>1. first[a[i]] + count[a[i]] + (j - i) <= first[a[j]] + 1 /\ count[a[i]] > 0
    BY <1>3, <1>4
  <2> QED BY <1>1, <1>2, <1>4, <2>1
<1>5. CASE j < i
  <2>1. first[a[j]] + count[a[j]] + (i - j) <= first[a[i]] + 1 /\ count[a[j]] > 0
    BY <1>3, <1>5
  <2> QED BY <1>1, <1>2, <1>5, <2>1
<1> QED BY <1>1, <1>4, <1>5

-----------------------------------------------------------------------------
(* The invariant of a heap, also between the parts of a call. *)

\* The free list has each free chunk of A once, but not x.
Indexed(h, A, F, U, x) ==
    /\ \A q \in F : /\ h.data[q] \in A /\ h.data[q] \notin U /\ h.data[q] # x
                    /\ h.pfree[h.data[q]] = q
    /\ \A c \in A : c \notin U /\ c # x => h.pfree[c] \in F /\ h.data[h.pfree[c]] = c

\* The first block of a chunk points to it, but for the one chunk of a heap
\* that is as it was made.
Owned(h, A, U) ==
    \A c \in A : h.owner[h.first[c]] = c \/ (h.count[c] = Blocks /\ c \notin U)

\* The chunks of U are used.  x is free and not in the free list yet; y may have
\* a free chunk beside it.
PoolInv(h, a, m, A, F, p, U, x, y) ==
    /\ h \in HeapType
    /\ ChunkLists(h, a, m, A) /\ Pointers(h, F, p)
    /\ U \subseteq A /\ x \notin U
    /\ Tiles(h.first, h.count, a, m) /\ Alternates(U, a, m, y)
    /\ Indexed(h, A, F, U, x) /\ Owned(h, A, U)
    /\ h.used_size = BLOCKSIZE * SumOver(h.count, U)

\* The flags tell the used chunks; the head of the list counts as used.
Flags(h, A, U) ==
    /\ h.bUse[chunk_list] = TRUE
    /\ \A c \in A : h.bUse[c] = (c \in U)

\* What the invariant says of the types and the numbers of nodes
LEMMA PoolFacts ==
    ASSUME NEW h, NEW a, NEW m, NEW A, NEW F, NEW p, NEW U, NEW x, NEW y,
           PoolInv(h, a, m, A, F, p, U, x, y)
    PROVE  /\ h.first \in [ChunkNode -> Int] /\ h.count \in [ChunkNode -> Int]
           /\ h.data \in [PointNode -> Int] /\ h.pfree \in [ChunkNode -> Int]
           /\ h.owner \in [Block -> Int] /\ h.bUse \in [Chunk -> BOOLEAN]
           /\ h.used_size \in Int
           /\ Numbered(a, m) /\ m \in Nat /\ p \in Nat /\ m > 0
           /\ A \subseteq ChunkNode /\ U \subseteq ChunkNode /\ F \subseteq PointNode
           /\ IsFiniteSet(ChunkNode) /\ IsFiniteSet(U)
           /\ \A i \in 0..(m - 1) : a[i] \in A /\ a[i] \in ChunkNode
           /\ \A c \in A : \E i \in 0..(m - 1) : a[i] = c
           /\ \A c \in ChunkNode : h.first[c] \in Int /\ h.count[c] \in Int
<1>1. h \in HeapType /\ ChunkLists(h, a, m, A) /\ Pointers(h, F, p) /\ U \subseteq A
      /\ Tiles(h.first, h.count, a, m)
  BY DEF PoolInv
<1>2. /\ m \in Nat /\ A \subseteq ChunkNode
      /\ \A i \in 0..(m - 1) : a[i] \in A
      /\ \A i, j \in 0..(m - 1) : a[i] = a[j] => i = j
      /\ \A c \in A : \E i \in 0..(m - 1) : a[i] = c
  BY <1>1, ChunksFacts
<1>3. p \in Nat /\ F \subseteq PointNode
  BY <1>1, PointersFacts
<1>4. IsFiniteSet(ChunkNode)
  BY PoolAssumption, FS_Interval DEF ChunkNode
<1>5. IsFiniteSet(U)
  BY <1>1, <1>2, <1>4, FS_Subset
<1>6. m > 0
  BY <1>1 DEF Tiles
<1> QED BY <1>1, <1>2, <1>3, <1>4, <1>5, <1>6 DEF HeapType, Numbered

\* While a freed chunk is not in the free list, there is a node for it: free
\* chunks begin two blocks apart.
LEMMA PointLeft ==
    ASSUME NEW h, NEW a, NEW m, NEW A, NEW F, NEW p, NEW U, NEW x \in A,
           PoolInv(h, a, m, A, F, p, U, x, NULL)
    PROVE  p < Points
<1>1. PICK f : /\ \A i \in 0..(p - 1) : f[i] \in F
               /\ \A i, j \in 0..(p - 1) : f[i] = f[j] => i = j
  BY PointersFacts DEF PoolInv
<1>2. /\ h.first \in [ChunkNode -> Int] /\ h.count \in [ChunkNode -> Int]
      /\ Numbered(a, m) /\ p \in Nat /\ A \subseteq ChunkNode /\ m \in Nat
      /\ \A c \in A : \E i \in 0..(m - 1) : a[i] = c
  BY PoolFacts
<1>3. /\ Tiles(h.first, h.count, a, m) /\ Alternates(U, a, m, NULL)
      /\ Indexed(h, A, F, U, x) /\ x \notin U
  BY DEF PoolInv
<1> DEFINE c(i) == IF i < p THEN h.data[f[i]] ELSE x
           D == 0..p
           R == 0..((Blocks - 1) \div 2)
           half == [i \in D |-> h.first[c(i)] \div 2]
<1>4. \A i \in D : c(i) \in A /\ c(i) \notin U
  BY <1>1, <1>2, <1>3 DEF Indexed
<1>5. \A i, j \in D : c(i) = c(j) => i = j
  <2>1. \A i \in D : i < p => /\ f[i] \in F /\ c(i) = h.data[f[i]] /\ c(i) # x
                              /\ h.pfree[c(i)] = f[i] /\ i \in 0..(p - 1)
    BY <1>1, <1>2, <1>3 DEF Indexed
  <2>2. \A i \in D : ~ (i < p) => c(i) = x /\ i = p
    BY <1>2
  <2> HIDE DEF c
  <2> QED BY <1>1, <1>2, <2>1, <2>2
<1> HIDE DEF c
<1>6. \A i \in D : h.first[c(i)] \in Int /\ 0 <= h.first[c(i)] /\ h.first[c(i)] <= Blocks - 1
  <2> TAKE i \in D
  <2>1. PICK k \in 0..(m - 1) : a[k] = c(i)
    BY <1>2, <1>4
  <2>2. k <= h.first[a[k]] /\ h.first[a[k]] + h.count[a[k]] <= Blocks /\ 0 < h.count[a[k]]
    BY <1>2, <1>3, TilesBound
  <2>3. h.first[c(i)] \in Int /\ h.count[c(i)] \in Int
    BY <1>2, <1>4
  <2> QED BY <1>2, <2>1, <2>2, <2>3, PoolAssumption
<1>7. \A i, j \in D : i # j => \/ h.first[c(i)] + 2 <= h.first[c(j)]
                               \/ h.first[c(j)] + 2 <= h.first[c(i)]
  <2> TAKE i, j \in D
  <2> HAVE i # j
  <2>1. PICK k \in 0..(m - 1) : a[k] = c(i)
    BY <1>2, <1>4
  <2>2. PICK l \in 0..(m - 1) : a[l] = c(j)
    BY <1>2, <1>4
  <2>3. k # l /\ a[k] \notin U /\ a[l] \notin U
    BY <1>4, <1>5, <2>1, <2>2
  <2>4. h.first[a[k]] + 2 <= h.first[a[l]] \/ h.first[a[l]] + 2 <= h.first[a[k]]
    BY <1>2, <1>3, <2>3, FreeApart
  <2> QED BY <2>1, <2>2, <2>4
<1>8. half \in [D -> R]
  BY <1>6, PoolAssumption
<1>9. \A i, j \in D : i # j => half[i] # half[j]
  BY <1>6, <1>7
<1>10. /\ IsFiniteSet(D) /\ Cardinality(D) = p + 1
       /\ IsFiniteSet(R) /\ Cardinality(R) = (Blocks - 1) \div 2 + 1
  <2>1. (Blocks - 1) \div 2 \in Int /\ (Blocks - 1) \div 2 >= 0
    BY PoolAssumption
  <2> QED BY <1>2, <2>1, FS_Interval
<1> HIDE DEF D, R, half
<1>11. ~ (Cardinality(R) < Cardinality(D))
  BY <1>8, <1>9, <1>10, FS_PigeonHole
<1>12. (Blocks - 1) \div 2 <= Blocks \div 2 /\ (Blocks - 1) \div 2 \in Int /\ Blocks \div 2 \in Int
  BY PoolAssumption
<1> QED BY <1>2, <1>10, <1>11, <1>12 DEF Points

\* The freed chunk enters the free list.
LEMMA Listing ==
    ASSUME NEW h, NEW a, NEW m, NEW A, NEW F, NEW p, NEW U, NEW c \in A,
           PoolInv(h, a, m, A, F, p, U, c, NULL)
    PROVE  /\ \E w : PoolInv(AddFree(h, c), a, m, A, F \cup {w}, p + 1, U, NULL, NULL)
           /\ AddFree(h, c).bUse = h.bUse /\ AddFree(h, c).first = h.first
           /\ AddFree(h, c).count = h.count
<1> DEFINE w == h.next[free_cache]
           r == AddFree(h, c)
<1>1. /\ h \in HeapType /\ ChunkLists(h, a, m, A) /\ Pointers(h, F, p)
      /\ U \subseteq A /\ c \notin U
      /\ Tiles(h.first, h.count, a, m) /\ Alternates(U, a, m, NULL)
      /\ Indexed(h, A, F, U, c) /\ Owned(h, A, U)
      /\ h.used_size = BLOCKSIZE * SumOver(h.count, U)
  BY DEF PoolInv
<1>2. p < Points
  BY PointLeft
<1>3. c \in ChunkNode /\ A \subseteq ChunkNode /\ F \subseteq PointNode
      /\ h.data \in [PointNode -> Int] /\ h.pfree \in [ChunkNode -> Int]
  BY PoolFacts
<1>4. w \in PointNode \ F
  BY <1>1, <1>2, PointersFacts
<1>5. /\ r \in HeapType
      /\ r.count = h.count /\ r.first = h.first /\ r.bUse = h.bUse
      /\ r.owner = h.owner /\ r.used_size = h.used_size
      /\ r.data = [h.data EXCEPT ![w] = c] /\ r.pfree = [h.pfree EXCEPT ![c] = w]
      /\ ChunkLists(r, a, m, A) /\ Pointers(r, F \cup {w}, p + 1)
  BY <1>1, <1>2, <1>3, PointAdded
<1> HIDE DEF w, r
<1>6. Indexed(r, A, F \cup {w}, U, NULL)
  <2>0. NULL \notin ChunkNode
    BY NodeFacts
  <2>1. ASSUME NEW q \in F \cup {w}
        PROVE  /\ r.data[q] \in A /\ r.data[q] \notin U /\ r.data[q] # NULL
               /\ r.pfree[r.data[q]] = q
    <3>1. CASE q = w
      BY <1>1, <1>3, <1>4, <1>5, <2>0, <3>1
    <3>2. CASE q # w
      <4>1. q \in F /\ h.data[q] \in A /\ h.data[q] \notin U /\ h.data[q] # c
            /\ h.pfree[h.data[q]] = q
        BY <1>1, <3>2, <2>1 DEF Indexed
      <4>2. r.data[q] = h.data[q]
        BY <1>3, <1>5, <3>2, <4>1
      <4>3. r.pfree[h.data[q]] = q
        BY <1>3, <1>5, <4>1
      <4> QED BY <1>3, <2>0, <4>1, <4>2, <4>3
    <3> QED BY <3>1, <3>2
  <2>2. ASSUME NEW d \in A, d \notin U
        PROVE  r.pfree[d] \in F \cup {w} /\ r.data[r.pfree[d]] = d
    <3>1. CASE d = c
      BY <1>3, <1>4, <1>5, <3>1
    <3>2. CASE d # c
      <4>1. h.pfree[d] \in F /\ h.data[h.pfree[d]] = d
        BY <1>1, <2>2, <3>2 DEF Indexed
      <4>2. r.pfree[d] = h.pfree[d]
        BY <1>3, <1>5, <3>2
      <4>3. r.data[h.pfree[d]] = d
        BY <1>3, <1>4, <1>5, <4>1
      <4> QED BY <4>1, <4>2, <4>3
    <3> QED BY <3>1, <3>2
  <2> QED BY <2>1, <2>2 DEF Indexed
<1>7. Owned(r, A, U)
  BY <1>1, <1>5 DEF Owned
<1>8. NULL \notin U
  BY <1>1, <1>3, NodeFacts
<1>9. PoolInv(r, a, m, A, F \cup {w}, p + 1, U, NULL, NULL)
  BY <1>1, <1>5, <1>6, <1>7, <1>8 DEF PoolInv
<1> QED BY <1>5, <1>9 DEF r

\* A used chunk is free from now on: nobody has listed it yet, and a free chunk
\* may lie beside it.
LEMMA Releases ==
    ASSUME NEW h, NEW a, NEW m, NEW A, NEW F, NEW p, NEW U, NEW c \in U,
           PoolInv(h, a, m, A, F, p, U, NULL, NULL)
    PROVE  LET less == [h EXCEPT !.used_size = @ - h.count[c] * BLOCKSIZE]
           IN /\ PoolInv(less, a, m, A, F, p, U \ {c}, c, c)
              /\ less.bUse = h.bUse /\ less.first = h.first /\ less.count = h.count
              /\ less.prev = h.prev /\ less.next = h.next /\ less.pfree = h.pfree
<1> DEFINE less == [h EXCEPT !.used_size = @ - h.count[c] * BLOCKSIZE]
<1>1. /\ h \in HeapType /\ ChunkLists(h, a, m, A) /\ Pointers(h, F, p)
      /\ U \subseteq A
      /\ Tiles(h.first, h.count, a, m) /\ Alternates(U, a, m, NULL)
      /\ Indexed(h, A, F, U, NULL) /\ Owned(h, A, U)
      /\ h.used_size = BLOCKSIZE * SumOver(h.count, U)
  BY DEF PoolInv
<1>2. /\ c \in ChunkNode /\ A \subseteq ChunkNode /\ IsFiniteSet(U) /\ U \subseteq ChunkNode
      /\ \A d \in ChunkNode : h.count[d] \in Int
      /\ \A i \in 0..(m - 1) : a[i] \in A
      /\ h.used_size \in Int /\ BLOCKSIZE \in Int
  BY PoolFacts, PoolAssumption
<1>3. SumOver(h.count, U) = h.count[c] + SumOver(h.count, U \ {c})
      /\ SumOver(h.count, U \ {c}) \in Int
  <2>1. \A d \in U : h.count[d] \in Int
    BY <1>2
  <2>2. IsFiniteSet(U \ {c})
    BY <1>2, FS_Subset
  <2> QED BY <1>2, <2>1, <2>2, SumWithout, SumType
<1>4. /\ less \in HeapType /\ less.next = h.next /\ less.prev = h.prev
      /\ less.count = h.count /\ less.first = h.first /\ less.bUse = h.bUse
      /\ less.pfree = h.pfree /\ less.data = h.data /\ less.owner = h.owner
      /\ less.used_size = h.used_size - h.count[c] * BLOCKSIZE
  BY <1>1, <1>2 DEF HeapType
<1> HIDE DEF less
<1>5. less.used_size = BLOCKSIZE * SumOver(less.count, U \ {c})
  <2>1. \A e, s, b \in Int : b * (e + s) - e * b = b * s
    OBVIOUS
  <2> QED BY <1>1, <1>2, <1>3, <1>4, <2>1
<1>6. ChunkLists(less, a, m, A) /\ Pointers(less, F, p)
  BY <1>1, <1>4, ListsFrame
<1>7. Alternates(U \ {c}, a, m, c)
  <2>1. NULL \notin ChunkNode
    BY NodeFacts
  <2> QED BY <1>1, <1>2, <2>1 DEF Alternates
<1>8. Indexed(less, A, F, U \ {c}, c)
  BY <1>1, <1>2, <1>4, NodeFacts DEF Indexed
<1>9. Owned(less, A, U \ {c})
  BY <1>1, <1>4 DEF Owned
<1> QED BY <1>1, <1>4, <1>5, <1>6, <1>7, <1>8, <1>9 DEF PoolInv, less

\* A heap in which the chunk after the place j has gone into the one at it
Joined(h, r, a, m, A, U, j) ==
    /\ Tiles(r.first, r.count, Del(a, j + 1), m - 1)
    /\ Alternates(U, Del(a, j + 1), m - 1, a[j])
    /\ Owned(r, A \ {a[j + 1]}, U)
    /\ r.used_size = BLOCKSIZE * SumOver(r.count, U)
    /\ U \subseteq A \ {a[j + 1]}
    /\ \A c \in U : r.count[c] = h.count[c]

\* What the joining of the chunk after the place j to the one at it leaves of the
\* invariant, however the nodes are handled.
LEMMA Joining ==
    ASSUME NEW h, NEW a, NEW m, NEW A, NEW F, NEW p, NEW U, NEW x, NEW y,
           PoolInv(h, a, m, A, F, p, U, x, y),
           NEW j \in 0..(m - 1), j + 1 \in 0..(m - 1),
           a[j] \notin U, a[j + 1] \notin U, y = a[j] \/ y = a[j + 1],
           NEW r \in HeapType, r.first = h.first, r.owner = h.owner,
           r.used_size = h.used_size,
           r.count = [h.count EXCEPT ![a[j]] = @ + h.count[a[j + 1]]]
    PROVE  Joined(h, r, a, m, A, U, j)
<1> DEFINE c == a[j]
           d == a[j + 1]
           e == Del(a, j + 1)
<1>1. /\ h \in HeapType /\ U \subseteq A
      /\ Tiles(h.first, h.count, a, m) /\ Alternates(U, a, m, y)
      /\ Owned(h, A, U)
      /\ h.used_size = BLOCKSIZE * SumOver(h.count, U)
  BY DEF PoolInv
<1>2. /\ A \subseteq ChunkNode /\ IsFiniteSet(U) /\ U \subseteq ChunkNode
      /\ h.first \in [ChunkNode -> Int] /\ h.count \in [ChunkNode -> Int]
      /\ \A i \in 0..(m - 1) : a[i] \in A
      /\ \A b \in A : \E i \in 0..(m - 1) : a[i] = b
      /\ Numbered(a, m) /\ m \in Nat
  BY PoolFacts
<1>3. c \in ChunkNode /\ d \in ChunkNode /\ c # d /\ c \in A /\ d \in A
  BY <1>2 DEF Numbered
<1>4. /\ r.count \in [ChunkNode -> Int]
      /\ \A b \in ChunkNode : r.count[b] = IF b = c THEN h.count[c] + h.count[d] ELSE h.count[b]
  BY <1>2, <1>3
<1>5. Tiles(r.first, r.count, e, m - 1)
  BY <1>1, <1>2, <1>4, TilesJoin
<1>6. SumOver(r.count, U) = SumOver(h.count, U)
  BY <1>2, <1>4, SumSame
<1>7. Owned(r, A \ {d}, U)
  <2> SUFFICES ASSUME NEW b \in A \ {d}
               PROVE  r.owner[r.first[b]] = b \/ (r.count[b] = Blocks /\ b \notin U)
    BY DEF Owned
  <2>1. PICK i \in 0..(m - 1) : a[i] = b
    BY <1>2
  <2>2. h.count[b] # Blocks
    BY <1>1, <1>2, <2>1, TilesBound
  <2> QED BY <1>1, <2>2 DEF Owned
<1>8. Alternates(U, e, m - 1, c)
  <2> SUFFICES ASSUME NEW i \in 0..((m - 1) - 1), NEW k \in 0..((m - 1) - 1), k = i + 1
               PROVE  e[i] \in U \/ e[k] \in U \/ e[i] = c \/ e[k] = c
    BY DEF Alternates
  <2>1. \A l \in Nat : e[l] = IF l < j + 1 THEN a[l] ELSE a[l + 1]
    BY DEF Del
  <2>2. \A l \in 0..(m - 1), n \in 0..(m - 1) :
           n = l + 1 => a[l] \in U \/ a[n] \in U \/ a[l] = y \/ a[n] = y
    BY <1>1 DEF Alternates
  <2>3. \A l \in 0..(m - 1) : l # j /\ l # j + 1 => a[l] # y
    BY <1>2 DEF Numbered
  <2>4. CASE k < j
    BY <1>2, <2>1, <2>2, <2>3, <2>4
  <2>5. CASE k = j \/ i = j
    BY <1>2, <2>1, <2>5
  <2>6. CASE i > j
    <3>1. e[i] = a[i + 1] /\ e[k] = a[k + 1] /\ i + 1 \in 0..(m - 1) /\ k + 1 \in 0..(m - 1)
      BY <1>2, <2>1, <2>6
    <3>2. a[i + 1] # y /\ a[k + 1] # y /\ k + 1 = (i + 1) + 1
      BY <1>2, <2>3, <2>6, <3>1
    <3> QED BY <2>2, <3>1, <3>2
  <2> QED BY <1>2, <2>4, <2>5, <2>6
<1>9. \A b \in U : r.count[b] = h.count[b]
  BY <1>2, <1>4
<1> QED BY <1>1, <1>2, <1>5, <1>6, <1>7, <1>8, <1>9 DEF Joined

\* What joining the freed chunk to the one before it makes
JoinedPrev(h, r, a, m, A, F, p, U, j) ==
    /\ PoolInv(r, Del(a, j + 1), m - 1, A \ {a[j + 1]}, F, p, U, NULL, a[j])
    /\ r.bUse = [h.bUse EXCEPT ![a[j + 1]] = FALSE]
    /\ r.first = h.first /\ r.pfree = h.pfree
    /\ \A c \in U : r.count[c] = h.count[c]

\* The freed chunk is joined to the free one before it.
LEMMA JoinsPrev ==
    ASSUME NEW h, NEW a, NEW m, NEW A, NEW F, NEW p, NEW U, NEW j \in 0..(m - 1),
           j + 1 \in 0..(m - 1), a[j] \notin U,
           PoolInv(h, a, m, A, F, p, U, a[j + 1], a[j + 1])
    PROVE  JoinedPrev(h, MergeIntoPrev(h, a[j + 1]), a, m, A, F, p, U, j)
<1> DEFINE c == a[j + 1]
           joined == [h EXCEPT !.count[h.prev[c]] = @ + h.count[c]]
           s == PushFront(list_delete(joined, c), chunk_cache, c)
           r == [s EXCEPT !.bUse[c] = FALSE]
<1>1. /\ h \in HeapType /\ ChunkLists(h, a, m, A) /\ Pointers(h, F, p)
      /\ U \subseteq A /\ c \notin U
      /\ Indexed(h, A, F, U, c)
  BY DEF PoolInv
<1>2. /\ A \subseteq ChunkNode /\ m \in Nat
      /\ \A i \in 0..(m - 1) : a[i] \in A /\ a[i] \in ChunkNode
      /\ h.count \in [ChunkNode -> Int] /\ Numbered(a, m) /\ F \subseteq PointNode
  BY PoolFacts
<1>3. h.prev[c] = a[j]
  <2>1. h.prev[c] = Before(chunk_list, a, j + 1)
    BY <1>1, ChunksFacts
  <2>2. j + 1 # 0 /\ (j + 1) - 1 = j
    OBVIOUS
  <2> QED BY <2>1, <2>2 DEF Before
<1>4. c \in ChunkNode /\ a[j] \in ChunkNode /\ c # a[j] /\ c \in Chunk
  <2>1. c \in ChunkNode /\ a[j] \in ChunkNode
    BY <1>2
  <2>2. c # a[j]
    BY <1>2 DEF Numbered
  <2> QED BY <2>1, <2>2 DEF Chunk
<1>5. /\ joined \in HeapType /\ joined.next = h.next /\ joined.prev = h.prev
      /\ joined.count = [h.count EXCEPT ![a[j]] = @ + h.count[c]]
      /\ joined.first = h.first /\ joined.bUse = h.bUse
      /\ joined.pfree = h.pfree /\ joined.data = h.data /\ joined.owner = h.owner
      /\ joined.used_size = h.used_size
  BY <1>1, <1>2, <1>3, <1>4 DEF HeapType
<1> HIDE DEF joined
<1>6. ChunkLists(joined, a, m, A) /\ Pointers(joined, F, p)
  BY <1>1, <1>5, ListsFrame
<1>7. /\ s \in HeapType /\ SameData(joined, s)
      /\ ChunkLists(s, Del(a, j + 1), m - 1, A \ {c}) /\ Pointers(s, F, p)
  BY <1>5, <1>6, ChunkDropped
<1> HIDE DEF s
<1>8. /\ r \in HeapType /\ r.next = s.next /\ r.prev = s.prev
      /\ r.count = [h.count EXCEPT ![a[j]] = @ + h.count[c]]
      /\ r.first = h.first /\ r.bUse = [h.bUse EXCEPT ![c] = FALSE]
      /\ r.pfree = h.pfree /\ r.data = h.data /\ r.owner = h.owner
      /\ r.used_size = h.used_size
  BY <1>4, <1>5, <1>7 DEF HeapType, SameData
<1> HIDE DEF r
<1>9. ChunkLists(r, Del(a, j + 1), m - 1, A \ {c}) /\ Pointers(r, F, p)
  BY <1>7, <1>8, ListsFrame
<1>10. /\ Tiles(r.first, r.count, Del(a, j + 1), m - 1)
       /\ Alternates(U, Del(a, j + 1), m - 1, a[j])
       /\ Owned(r, A \ {c}, U)
       /\ r.used_size = BLOCKSIZE * SumOver(r.count, U)
       /\ U \subseteq A \ {c}
       /\ \A b \in U : r.count[b] = h.count[b]
  <2>1. Joined(h, r, a, m, A, U, j)
    BY <1>1, <1>8, Joining
  <2> QED BY <2>1 DEF Joined
<1>11. Indexed(r, A \ {c}, F, U, NULL)
  <2>1. NULL \notin ChunkNode
    BY NodeFacts
  <2> HIDE DEF c
  <2> QED BY <1>1, <1>2, <1>8, <2>1 DEF Indexed
<1>12. NULL \notin U
  BY <1>1, <1>2, NodeFacts
<1>13. PoolInv(r, Del(a, j + 1), m - 1, A \ {c}, F, p, U, NULL, a[j])
  BY <1>8, <1>9, <1>10, <1>11, <1>12 DEF PoolInv
<1>14. MergeIntoPrev(h, c) = r
  BY DEF MergeIntoPrev, r, s, joined
<1>15. JoinedPrev(h, r, a, m, A, F, p, U, j)
  BY <1>8, <1>10, <1>13 DEF JoinedPrev
<1> QED BY <1>14, <1>15

\* What joining the free chunk after the place j makes
JoinedNext(h, r, a, m, A, U, x, j) ==
    /\ \E G, q : PoolInv(r, Del(a, j + 1), m - 1, A \ {a[j + 1]}, G, q, U, x, a[j])
    /\ r.bUse = [h.bUse EXCEPT ![a[j]] = FALSE, ![a[j + 1]] = FALSE]
    /\ r.first = h.first
    /\ \A c \in U : r.count[c] = h.count[c]

\* The free chunk after it is joined to the freed one, or to what that has been
\* joined to.
LEMMA JoinsNext ==
    ASSUME NEW h, NEW a, NEW m, NEW A, NEW F, NEW p, NEW U, NEW x, NEW j \in 0..(m - 1),
           j + 1 \in 0..(m - 1), a[j] \notin U, a[j + 1] \notin U, a[j + 1] # x,
           PoolInv(h, a, m, A, F, p, U, x, a[j])
    PROVE  JoinedNext(h, MergeNext(h, a[j], a[j + 1]), a, m, A, U, x, j)
<1> DEFINE c == a[j]
           d == a[j + 1]
           z == h.pfree[d]
           joined == [h EXCEPT !.bUse[c] = FALSE, !.count[c] = @ + h.count[d],
                               !.bUse[d] = FALSE]
           s == PushFront(list_delete(joined, d), chunk_cache, d)
           r == DropFree(s, z)
<1>1. /\ h \in HeapType /\ ChunkLists(h, a, m, A) /\ Pointers(h, F, p)
      /\ U \subseteq A /\ x \notin U
      /\ Indexed(h, A, F, U, x)
  BY DEF PoolInv
<1>2. /\ A \subseteq ChunkNode /\ m \in Nat
      /\ \A i \in 0..(m - 1) : a[i] \in A /\ a[i] \in ChunkNode
      /\ h.count \in [ChunkNode -> Int] /\ Numbered(a, m) /\ F \subseteq PointNode
  BY PoolFacts
<1>3. c \in ChunkNode /\ d \in ChunkNode /\ c # d /\ c \in Chunk /\ d \in Chunk /\ d \in A
  <2>1. c \in ChunkNode /\ d \in ChunkNode /\ d \in A
    BY <1>2
  <2>2. c # d
    BY <1>2 DEF Numbered
  <2> QED BY <2>1, <2>2 DEF Chunk
<1>4. z \in F /\ h.data[z] = d
  BY <1>1, <1>3 DEF Indexed
<1> HIDE DEF z
<1>5. /\ joined \in HeapType /\ joined.next = h.next /\ joined.prev = h.prev
      /\ joined.count = [h.count EXCEPT ![c] = @ + h.count[d]]
      /\ joined.first = h.first
      /\ joined.bUse = [h.bUse EXCEPT ![c] = FALSE, ![d] = FALSE]
      /\ joined.pfree = h.pfree /\ joined.data = h.data /\ joined.owner = h.owner
      /\ joined.used_size = h.used_size
  <2> DEFINE k == h.count[c] + h.count[d]
  <2>1. k \in Int
    BY <1>2, <1>3
  <2>2. joined = [h EXCEPT !.bUse[c] = FALSE, !.count[c] = k, !.bUse[d] = FALSE]
    OBVIOUS
  <2>3. [h.count EXCEPT ![c] = @ + h.count[d]] = [h.count EXCEPT ![c] = k]
    OBVIOUS
  <2> HIDE DEF k, c, d, joined
  <2> QED BY <1>1, <1>3, <2>1, <2>2, <2>3 DEF HeapType
<1> HIDE DEF joined
<1>6. ChunkLists(joined, a, m, A) /\ Pointers(joined, F, p)
  BY <1>1, <1>5, ListsFrame
<1>7. /\ s \in HeapType /\ SameData(joined, s)
      /\ ChunkLists(s, Del(a, j + 1), m - 1, A \ {d}) /\ Pointers(s, F, p)
  BY <1>5, <1>6, ChunkDropped
<1> HIDE DEF s
<1>8. /\ r \in HeapType /\ SameData(s, r)
      /\ ChunkLists(r, Del(a, j + 1), m - 1, A \ {d}) /\ Pointers(r, F \ {z}, p - 1)
  BY <1>4, <1>7, PointDropped
<1> HIDE DEF r
<1>9. /\ r.count = [h.count EXCEPT ![c] = @ + h.count[d]]
      /\ r.first = h.first /\ r.bUse = [h.bUse EXCEPT ![c] = FALSE, ![d] = FALSE]
      /\ r.pfree = h.pfree /\ r.data = h.data /\ r.owner = h.owner
      /\ r.used_size = h.used_size
  BY <1>5, <1>7, <1>8 DEF SameData
<1>10. /\ Tiles(r.first, r.count, Del(a, j + 1), m - 1)
       /\ Alternates(U, Del(a, j + 1), m - 1, c)
       /\ Owned(r, A \ {d}, U)
       /\ r.used_size = BLOCKSIZE * SumOver(r.count, U)
       /\ U \subseteq A \ {d}
       /\ \A b \in U : r.count[b] = h.count[b]
  <2>1. /\ r \in HeapType /\ r.first = h.first /\ r.owner = h.owner
        /\ r.used_size = h.used_size
        /\ r.count = [h.count EXCEPT ![a[j]] = @ + h.count[a[j + 1]]]
    BY <1>8, <1>9
  <2>2. Joined(h, r, a, m, A, U, j)
    BY <2>1, Joining
  <2> QED BY <2>2 DEF Joined
<1>11. Indexed(r, A \ {d}, F \ {z}, U, x)
  BY <1>1, <1>4, <1>9 DEF Indexed, z
<1>12. PoolInv(r, Del(a, j + 1), m - 1, A \ {d}, F \ {z}, p - 1, U, x, c)
  BY <1>1, <1>8, <1>10, <1>11 DEF PoolInv
<1>13. MergeNext(h, c, d) = r
  BY DEF MergeNext, r, s, joined, z
<1>14. JoinedNext(h, r, a, m, A, U, x, j)
  BY <1>9, <1>10, <1>12 DEF JoinedNext
<1> QED BY <1>13, <1>14

\* When both its neighbours are used, there is no exception left.
LEMMA Settles ==
    ASSUME NEW h, NEW a, NEW m, NEW A, NEW F, NEW p, NEW U, NEW x, NEW j \in 0..(m - 1),
           PoolInv(h, a, m, A, F, p, U, x, a[j]),
           j > 0 => a[j - 1] \in U, j + 1 < m => a[j + 1] \in U
    PROVE  PoolInv(h, a, m, A, F, p, U, x, NULL)
<1>1. Numbered(a, m) /\ m \in Nat
  BY PoolFacts
<1>2. Alternates(U, a, m, a[j])
  BY DEF PoolInv
<1>3. Alternates(U, a, m, NULL)
  <2> SUFFICES ASSUME NEW i \in 0..(m - 1), NEW k \in 0..(m - 1), k = i + 1
               PROVE  a[i] \in U \/ a[k] \in U
    BY DEF Alternates
  <2>1. CASE i = j
    BY <1>1, <2>1
  <2>2. CASE k = j
    <3>1. i = j - 1 /\ j > 0
      BY <2>2
    <3> QED BY <3>1
  <2>3. CASE i # j /\ k # j
    BY <1>1, <1>2, <2>3 DEF Alternates, Numbered
  <2> QED BY <2>1, <2>2, <2>3
<1> QED BY <1>3 DEF PoolInv

\* What taking a whole free chunk makes
Taken(h, r, a, m, A, F, p, U, z) ==
    LET c == h.data[z]
    IN /\ PoolInv(r, a, m, A, F \ {z}, p - 1, U \cup {c}, NULL, NULL)
       /\ c \in A \ U
       /\ r.bUse = [h.bUse EXCEPT ![c] = TRUE]
       /\ r.first = h.first /\ r.count = h.count

\* A free chunk of the size asked for is taken as it is.
LEMMA Takes ==
    ASSUME NEW h, NEW a, NEW m, NEW A, NEW F, NEW p, NEW U,
           PoolInv(h, a, m, A, F, p, U, NULL, NULL), NEW z \in F,
           h.count[h.data[z]] # Blocks \/ U # {},
           NEW s, s = BLOCKSIZE * h.count[h.data[z]]
    PROVE  LET c == h.data[z]
               counted == [h EXCEPT !.used_size = @ + s]
               r == DropFree([counted EXCEPT !.bUse[c] = TRUE], z)
           IN Taken(h, r, a, m, A, F, p, U, z)
<1> DEFINE c == h.data[z]
           u == [[h EXCEPT !.used_size = @ + s] EXCEPT !.bUse[c] = TRUE]
           r == DropFree(u, z)
<1>1. /\ h \in HeapType /\ ChunkLists(h, a, m, A) /\ Pointers(h, F, p)
      /\ U \subseteq A /\ NULL \notin U
      /\ Tiles(h.first, h.count, a, m) /\ Alternates(U, a, m, NULL)
      /\ Indexed(h, A, F, U, NULL) /\ Owned(h, A, U)
      /\ h.used_size = BLOCKSIZE * SumOver(h.count, U)
  BY DEF PoolInv
<1>2. /\ A \subseteq ChunkNode /\ IsFiniteSet(U) /\ U \subseteq ChunkNode
      /\ h.first \in [ChunkNode -> Int] /\ h.count \in [ChunkNode -> Int]
      /\ h.used_size \in Int /\ BLOCKSIZE \in Int /\ Numbered(a, m) /\ m \in Nat
      /\ \A d \in A : \E i \in 0..(m - 1) : a[i] = d
  BY PoolFacts, PoolAssumption
<1>3. c \in A /\ c \notin U /\ c \in ChunkNode /\ c # NULL /\ h.pfree[c] = z
  <2>1. NULL \notin ChunkNode
    BY NodeFacts
  <2> QED BY <1>1, <1>2, <2>1 DEF Indexed
<1>4. c \in Chunk /\ h.count[c] \in Int /\ s \in Int
  BY <1>2, <1>3 DEF Chunk
<1>5. /\ u \in HeapType /\ u.next = h.next /\ u.prev = h.prev
      /\ u.count = h.count /\ u.first = h.first
      /\ u.bUse = [h.bUse EXCEPT ![c] = TRUE]
      /\ u.pfree = h.pfree /\ u.data = h.data /\ u.owner = h.owner
      /\ u.used_size = h.used_size + s
  <2> DEFINE v == [h EXCEPT !.used_size = @ + s]
  <2>1. /\ v \in HeapType /\ v.next = h.next /\ v.prev = h.prev
        /\ v.count = h.count /\ v.first = h.first /\ v.bUse = h.bUse
        /\ v.pfree = h.pfree /\ v.data = h.data /\ v.owner = h.owner
        /\ v.used_size = h.used_size + s
    BY <1>1, <1>2, <1>4 DEF HeapType
  <2> HIDE DEF c, v
  <2>2. u = [v EXCEPT !.bUse[c] = TRUE]
    BY DEF v
  <2> QED BY <1>4, <2>1, <2>2 DEF HeapType
<1> HIDE DEF u
<1>6. ChunkLists(u, a, m, A) /\ Pointers(u, F, p)
  BY <1>1, <1>5, ListsFrame
<1>7. /\ r \in HeapType /\ SameData(u, r)
      /\ ChunkLists(r, a, m, A) /\ Pointers(r, F \ {z}, p - 1)
  BY <1>5, <1>6, PointDropped
<1> HIDE DEF r
<1>8. /\ r.count = h.count /\ r.first = h.first
      /\ r.bUse = [h.bUse EXCEPT ![c] = TRUE]
      /\ r.pfree = h.pfree /\ r.data = h.data /\ r.owner = h.owner
      /\ r.used_size = h.used_size + s
  BY <1>5, <1>7 DEF SameData
<1>9. Alternates(U \cup {c}, a, m, NULL)
  BY <1>1 DEF Alternates
<1>10. Indexed(r, A, F \ {z}, U \cup {c}, NULL)
  <2> HIDE DEF c
  <2>1. h.data[z] = c
    BY DEF c
  <2> QED BY <1>1, <1>3, <1>8, <2>1 DEF Indexed
<1>11. h.owner[h.first[c]] = c
  <2> SUFFICES ASSUME h.count[c] = Blocks PROVE FALSE
    BY <1>1, <1>3 DEF Owned
  <2>1. PICK i \in 0..(m - 1) : a[i] = c
    BY <1>2, <1>3
  <2>2. m = 1
    BY <1>1, <1>2, <2>1, TilesBound
  <2>3. A = {c}
    BY <1>2, <1>3, <2>1, <2>2
  <2> QED BY <1>1, <1>3, <2>3
<1>12. Owned(r, A, U \cup {c})
  BY <1>1, <1>8, <1>11 DEF Owned
<1>13. r.used_size = BLOCKSIZE * SumOver(r.count, U \cup {c})
  <2> DEFINE V == U \cup {c}
  <2>1. IsFiniteSet(V) /\ V \ {c} = U /\ c \in V /\ \A d \in V : h.count[d] \in Int
    BY <1>2, <1>3, FS_AddElement
  <2> HIDE DEF V
  <2>2. SumOver(h.count, V) = h.count[c] + SumOver(h.count, U)
    BY <2>1, SumWithout
  <2>3. SumOver(h.count, U) \in Int
    BY <1>2, SumType
  <2>4. \A e, t, b \in Int : b * t + b * e = b * (e + t)
    OBVIOUS
  <2>5. r.used_size = BLOCKSIZE * SumOver(h.count, V)
    BY <1>1, <1>2, <1>4, <1>8, <2>2, <2>3, <2>4
  <2> QED BY <1>8, <2>5 DEF V
<1>14. PoolInv(r, a, m, A, F \ {z}, p - 1, U \cup {c}, NULL, NULL)
  <2>1. U \cup {c} \subseteq A /\ NULL \notin U \cup {c}
    BY <1>1, <1>3
  <2> QED BY <1>1, <1>7, <1>8, <1>9, <1>10, <1>12, <1>13, <2>1 DEF PoolInv
<1>15. Taken(h, r, a, m, A, F, p, U, z)
  BY <1>3, <1>8, <1>14 DEF Taken
<1> QED BY <1>15 DEF r, u

\* The data of the chunks when n blocks of c become the chunk w
Cut(h, c, w, n) ==
    LET at == h.first[c]
    IN [h EXCEPT !.first[w] = at, !.count[w] = n,
                 !.bUse[w] = TRUE, !.owner[at] = w,
                 !.first[c] = at + n, !.count[c] = @ - n,
                 !.owner[at + n] = c]

\* Split: the data of the two chunks after it
LEMMA CutIs ==
    ASSUME NEW h \in HeapType, NEW c \in ChunkNode, NEW w \in ChunkNode, c # w,
           NEW n \in Int, h.first[c] \in Block, h.first[c] + n \in Block, n # 0
    PROVE  LET r == Cut(h, c, w, n)
           IN /\ r \in HeapType /\ r.next = h.next /\ r.prev = h.prev
              /\ r.pfree = h.pfree /\ r.data = h.data /\ r.used_size = h.used_size
              /\ r.bUse = [h.bUse EXCEPT ![w] = TRUE]
              /\ \A d \in ChunkNode :
                   /\ r.first[d] = IF d = c THEN h.first[c] + n
                                   ELSE IF d = w THEN h.first[c] ELSE h.first[d]
                   /\ r.count[d] = IF d = c THEN h.count[c] - n
                                   ELSE IF d = w THEN n ELSE h.count[d]
              /\ \A b \in Block :
                   r.owner[b] = IF b = h.first[c] THEN w
                                ELSE IF b = h.first[c] + n THEN c ELSE h.owner[b]
<1> DEFINE at == h.first[c]
           k == h.count[c] - n
           v1 == [h EXCEPT !.first[w] = at, !.count[w] = n]
           v2 == [v1 EXCEPT !.bUse[w] = TRUE, !.owner[at] = w]
           v3 == [v2 EXCEPT !.first[c] = at + n, !.count[c] = k]
           r == [v3 EXCEPT !.owner[at + n] = c]
<1>1. /\ at \in Int /\ at + n \in Int /\ k \in Int /\ c \in Int /\ w \in Int
      /\ w \in Chunk /\ at \in Block /\ at + n \in Block /\ at # at + n
  <2>1. c \in Int /\ w \in Int /\ w \in Chunk
    BY DEF ChunkNode, Chunk
  <2>2. at \in Int /\ at + n \in Int /\ at # at + n
    BY PoolAssumption DEF Block
  <2>3. h.count[c] \in Int
    BY DEF HeapType
  <2> QED BY <2>1, <2>2, <2>3
<1>2. /\ h.first \in [ChunkNode -> Int] /\ h.count \in [ChunkNode -> Int]
      /\ h.owner \in [Block -> Int] /\ h.bUse \in [Chunk -> BOOLEAN]
  BY DEF HeapType
<1>3. Cut(h, c, w, n) = r
  <2>1. [h.count EXCEPT ![w] = n][c] = h.count[c]
    BY <1>2
  <2>2. v2.count[c] = h.count[c]
    BY <2>1 DEF HeapType
  <2>3. [v2 EXCEPT !.first[c] = at + n, !.count[c] = @ - n] = v3
    BY <2>2
  <2> QED BY <2>3 DEF Cut
<1> HIDE DEF k, at
<1>4. /\ v1 \in HeapType /\ v1.next = h.next /\ v1.prev = h.prev
      /\ v1.pfree = h.pfree /\ v1.data = h.data /\ v1.used_size = h.used_size
      /\ v1.first = [h.first EXCEPT ![w] = at] /\ v1.count = [h.count EXCEPT ![w] = n]
      /\ v1.bUse = h.bUse /\ v1.owner = h.owner
  BY <1>1 DEF HeapType
<1> HIDE DEF v1
<1>5. /\ v2 \in HeapType /\ v2.next = v1.next /\ v2.prev = v1.prev
      /\ v2.pfree = v1.pfree /\ v2.data = v1.data /\ v2.used_size = v1.used_size
      /\ v2.first = v1.first /\ v2.count = v1.count
      /\ v2.bUse = [v1.bUse EXCEPT ![w] = TRUE] /\ v2.owner = [v1.owner EXCEPT ![at] = w]
  BY <1>1, <1>4 DEF HeapType
<1> HIDE DEF v2
<1>6. /\ v3 \in HeapType /\ v3.next = v2.next /\ v3.prev = v2.prev
      /\ v3.pfree = v2.pfree /\ v3.data = v2.data /\ v3.used_size = v2.used_size
      /\ v3.first = [v2.first EXCEPT ![c] = at + n]
      /\ v3.count = [v2.count EXCEPT ![c] = k]
      /\ v3.bUse = v2.bUse /\ v3.owner = v2.owner
  BY <1>1, <1>5 DEF HeapType
<1> HIDE DEF v3
<1>7. /\ r \in HeapType /\ r.next = v3.next /\ r.prev = v3.prev
      /\ r.pfree = v3.pfree /\ r.data = v3.data /\ r.used_size = v3.used_size
      /\ r.first = v3.first /\ r.count = v3.count
      /\ r.bUse = v3.bUse /\ r.owner = [v3.owner EXCEPT ![at + n] = c]
  BY <1>1, <1>6 DEF HeapType
<1> HIDE DEF r
<1>8. \A d \in ChunkNode :
        /\ r.first[d] = IF d = c THEN at + n ELSE IF d = w THEN at ELSE h.first[d]
        /\ r.count[d] = IF d = c THEN k ELSE IF d = w THEN n ELSE h.count[d]
  BY <1>2, <1>4, <1>5, <1>6, <1>7
<1>9. \A b \in Block :
        r.owner[b] = IF b = at THEN w ELSE IF b = at + n THEN c ELSE h.owner[b]
  BY <1>1, <1>2, <1>4, <1>5, <1>6, <1>7
<1>10. r.bUse = [h.bUse EXCEPT ![w] = TRUE]
  BY <1>4, <1>5, <1>6, <1>7
<1> QED BY <1>3, <1>4, <1>5, <1>6, <1>7, <1>8, <1>9, <1>10 DEF at, k

\* The runs when the first n blocks of c become w's
Halves(first, count, first1, count1, c, w, n) ==
    \A d \in ChunkNode :
        /\ first1[d] = IF d = c THEN first[c] + n
                       ELSE IF d = w THEN first[c] ELSE first[d]
        /\ count1[d] = IF d = c THEN count[c] - n
                       ELSE IF d = w THEN n ELSE count[d]

\* A chunk that is cut in two still tiles its part of the pool.
LEMMA TilesHalved ==
    ASSUME NEW first \in [ChunkNode -> Int], NEW count \in [ChunkNode -> Int],
           NEW a, NEW m, Numbered(a, m), Tiles(first, count, a, m),
           NEW j \in 0..(m - 1), NEW w \in ChunkNode, \A i \in 0..(m - 1) : a[i] # w,
           NEW n \in Nat, 0 # n, n < count[a[j]],
           NEW first1 \in [ChunkNode -> Int], NEW count1 \in [ChunkNode -> Int],
           Halves(first, count, first1, count1, a[j], w, n)
    PROVE  Tiles(first1, count1, Ins(a, j, w), m + 1)
<1>1. \A c \in ChunkNode : /\ first1[c] = IF c = a[j] THEN first[a[j]] + n
                                          ELSE IF c = w THEN first[a[j]] ELSE first[c]
                           /\ count1[c] = IF c = a[j] THEN count[a[j]] - n
                                          ELSE IF c = w THEN n ELSE count[c]
  BY DEF Halves
<1> QED BY <1>1, TilesSplit

\* What cutting n blocks off a free chunk makes
CutOff(h, r, m, A, F, p, U, z, n) ==
    LET c == h.data[z]
        w == First(h, chunk_cache)
    IN /\ \E b : PoolInv(r, b, m + 1, A \cup {w}, F, p, U \cup {w}, NULL, NULL)
       /\ w \in ChunkNode \ A
       /\ r.bUse = [h.bUse EXCEPT ![w] = TRUE]
       /\ r.first[w] = h.first[c] /\ r.count[w] = n
       /\ \A d \in U : r.first[d] = h.first[d] /\ r.count[d] = h.count[d]

\* The first n blocks of a free chunk become a used chunk.
LEMMA Cuts ==
    ASSUME NEW h, NEW a, NEW m, NEW A, NEW F, NEW p, NEW U,
           PoolInv(h, a, m, A, F, p, U, NULL, NULL), NEW z \in F,
           NEW n \in Nat, 0 # n, n < h.count[h.data[z]],
           NEW s, s = BLOCKSIZE * n
    PROVE  LET c == h.data[z]
               w == First(h, chunk_cache)
               counted == [h EXCEPT !.used_size = @ + s]
               r == Split(Unlink(counted, chunk_cache), c, w, n)
           IN CutOff(h, r, m, A, F, p, U, z, n)
<1> DEFINE c == h.data[z]
           w == h.next[chunk_cache]
           counted == [h EXCEPT !.used_size = @ + s]
           v == Unlink(counted, chunk_cache)
           u == Cut(v, c, w, n)
           r == insert_before(u, c, w)
<1>1. /\ h \in HeapType /\ ChunkLists(h, a, m, A) /\ Pointers(h, F, p)
      /\ U \subseteq A /\ NULL \notin U
      /\ Tiles(h.first, h.count, a, m) /\ Alternates(U, a, m, NULL)
      /\ Indexed(h, A, F, U, NULL) /\ Owned(h, A, U)
      /\ h.used_size = BLOCKSIZE * SumOver(h.count, U)
  BY DEF PoolInv
<1>2. /\ A \subseteq ChunkNode /\ IsFiniteSet(U) /\ U \subseteq ChunkNode
      /\ h.first \in [ChunkNode -> Int] /\ h.count \in [ChunkNode -> Int]
      /\ h.used_size \in Int /\ BLOCKSIZE \in Int /\ Numbered(a, m) /\ m \in Nat
      /\ \A i \in 0..(m - 1) : a[i] \in A
      /\ \A d \in A : \E i \in 0..(m - 1) : a[i] = d
      /\ s \in Int
  BY PoolFacts, PoolAssumption
<1>3. c \in A /\ c \notin U /\ c \in ChunkNode
  BY <1>1, <1>2 DEF Indexed
<1>4. PICK j \in 0..(m - 1) : a[j] = c
  BY <1>2, <1>3
<1>5. /\ j <= h.first[c] /\ h.first[c] + h.count[c] <= Blocks
      /\ h.count[c] # 1 /\ m < Blocks
  <2>1. /\ j <= h.first[a[j]] /\ h.first[a[j]] + h.count[a[j]] <= Blocks
        /\ h.count[a[j]] # 1 => m < Blocks
    BY <1>1, <1>2, TilesBound
  <2>2. h.count[c] # 1
    BY <1>2, <1>3
  <2> QED BY <1>4, <2>1, <2>2
<1>6. w \in ChunkNode \ A /\ c # w
  BY <1>1, <1>3, <1>5, ChunksFacts
<1>7. h.first[c] \in Block /\ h.first[c] + n \in Block
  <2>1. h.first[c] \in Int /\ h.count[c] \in Int
    BY <1>2, <1>3
  <2> QED BY <1>5, <2>1, PoolAssumption DEF Block
<1>8. /\ counted \in HeapType /\ counted.next = h.next /\ counted.prev = h.prev
      /\ counted.count = h.count /\ counted.first = h.first
      /\ counted.bUse = h.bUse /\ counted.pfree = h.pfree
      /\ counted.data = h.data /\ counted.owner = h.owner
      /\ counted.used_size = h.used_size + s
  BY <1>1, <1>2 DEF HeapType
<1> HIDE DEF counted
<1>9. /\ v \in HeapType /\ v.next = Unlink(h, chunk_cache).next /\ v.prev = h.prev
      /\ v.count = h.count /\ v.first = h.first
      /\ v.bUse = h.bUse /\ v.pfree = h.pfree
      /\ v.data = h.data /\ v.owner = h.owner
      /\ v.used_size = h.used_size + s
  <2>1. chunk_cache \in Node /\ ChunkNode \subseteq Node
    BY NodeFacts
  <2>2. counted.next[chunk_cache] \in Node
    BY <1>6, <1>8, <2>1
  <2>3. /\ v \in HeapType /\ SameData(counted, v) /\ v.prev = counted.prev
    BY <1>8, <2>1, <2>2, UnlinkIs
  <2>4. v.next = Unlink(h, chunk_cache).next
    BY <1>1, <1>8 DEF HeapType, Unlink
  <2> QED BY <1>8, <2>3, <2>4 DEF SameData
<1> HIDE DEF v, c, w
<1>10. /\ u \in HeapType /\ u.next = v.next /\ u.prev = v.prev
       /\ u.pfree = v.pfree /\ u.data = v.data /\ u.used_size = v.used_size
       /\ u.bUse = [v.bUse EXCEPT ![w] = TRUE]
       /\ \A d \in ChunkNode :
            /\ u.first[d] = IF d = c THEN v.first[c] + n
                            ELSE IF d = w THEN v.first[c] ELSE v.first[d]
            /\ u.count[d] = IF d = c THEN v.count[c] - n
                            ELSE IF d = w THEN n ELSE v.count[d]
       /\ \A b \in Block :
            u.owner[b] = IF b = v.first[c] THEN w
                         ELSE IF b = v.first[c] + n THEN c ELSE v.owner[b]
  <2>1. v.first[c] \in Block /\ v.first[c] + n \in Block /\ n \in Int /\ n # 0
    BY <1>7, <1>9
  <2> QED BY <1>3, <1>6, <1>9, <2>1, CutIs
<1> HIDE DEF u
<1>11. /\ r \in HeapType /\ SameData(u, r)
       /\ ChunkLists(r, Ins(a, j, w), m + 1, A \cup {w}) /\ Pointers(r, F, p)
  <2>1. u.next = Unlink(h, chunk_cache).next /\ u.prev = h.prev
    BY <1>9, <1>10
  <2>2. LET new == h.next[chunk_cache]
            x == insert_before(u, a[j], new)
        IN /\ x \in HeapType /\ SameData(u, x)
           /\ ChunkLists(x, Ins(a, j, new), m + 1, A \cup {new}) /\ Pointers(x, F, p)
    BY <1>1, <1>5, <1>10, <2>1, ChunkInserted
  <2> QED BY <1>4, <2>2 DEF w
<1> HIDE DEF r
<1>12. /\ r.pfree = h.pfree /\ r.data = h.data /\ r.used_size = h.used_size + s
       /\ r.bUse = [h.bUse EXCEPT ![w] = TRUE]
       /\ r.first \in [ChunkNode -> Int] /\ r.count \in [ChunkNode -> Int]
       /\ \A d \in ChunkNode :
            /\ r.first[d] = IF d = c THEN h.first[c] + n
                            ELSE IF d = w THEN h.first[c] ELSE h.first[d]
            /\ r.count[d] = IF d = c THEN h.count[c] - n
                            ELSE IF d = w THEN n ELSE h.count[d]
       /\ \A b \in Block :
            r.owner[b] = IF b = h.first[c] THEN w
                         ELSE IF b = h.first[c] + n THEN c ELSE h.owner[b]
  <2>1. r.first \in [ChunkNode -> Int] /\ r.count \in [ChunkNode -> Int]
    BY <1>11 DEF HeapType
  <2>2. /\ r.pfree = u.pfree /\ r.data = u.data /\ r.used_size = u.used_size
        /\ r.bUse = u.bUse /\ r.first = u.first /\ r.count = u.count /\ r.owner = u.owner
    BY <1>11 DEF SameData
  <2> QED BY <1>9, <1>10, <2>1, <2>2
<1>13. Tiles(r.first, r.count, Ins(a, j, w), m + 1)
  <2>1. \A i \in 0..(m - 1) : a[i] # w
    BY <1>2, <1>6
  <2>2. \A d \in ChunkNode :
            /\ r.first[d] = IF d = a[j] THEN h.first[a[j]] + n
                            ELSE IF d = w THEN h.first[a[j]] ELSE h.first[d]
            /\ r.count[d] = IF d = a[j] THEN h.count[a[j]] - n
                            ELSE IF d = w THEN n ELSE h.count[d]
    BY <1>4, <1>12
  <2>3. n < h.count[a[j]]
    BY <1>4 DEF c
  <2>4. /\ Numbered(a, m) /\ Tiles(h.first, h.count, a, m) /\ w \in ChunkNode
        /\ h.first \in [ChunkNode -> Int] /\ h.count \in [ChunkNode -> Int]
        /\ r.first \in [ChunkNode -> Int] /\ r.count \in [ChunkNode -> Int]
    BY <1>1, <1>2, <1>6, <1>12
  <2>5. Halves(h.first, h.count, r.first, r.count, a[j], w, n)
    BY <2>2 DEF Halves
  <2> QED BY <2>1, <2>3, <2>4, <2>5, TilesHalved
<1>14. \A i \in Nat : Ins(a, j, w)[i] = IF i < j THEN a[i] ELSE IF i = j THEN w ELSE a[i - 1]
  BY DEF Ins
<1>15. Alternates(U \cup {w}, Ins(a, j, w), m + 1, NULL)
  <2> DEFINE e == Ins(a, j, w)
  <2> SUFFICES ASSUME NEW i \in 0..((m + 1) - 1), NEW k \in 0..((m + 1) - 1), k = i + 1
               PROVE  e[i] \in U \cup {w} \/ e[k] \in U \cup {w}
    BY DEF Alternates
  <2> HIDE DEF e
  <2>1. \A l \in Nat : e[l] = IF l < j THEN a[l] ELSE IF l = j THEN w ELSE a[l - 1]
    BY <1>14 DEF e
  <2>2. \A l, o \in 0..(m - 1) : o = l + 1 => a[l] \in U \/ a[o] \in U
    <3>1. \A l \in 0..(m - 1) : a[l] # NULL
      BY <1>2, NodeFacts
    <3> QED BY <1>1, <3>1 DEF Alternates
  <2>3. CASE i = j \/ k = j
    BY <1>2, <2>1, <2>3
  <2>4. CASE k < j
    <3>1. e[i] = a[i] /\ e[k] = a[k] /\ i \in 0..(m - 1) /\ k \in 0..(m - 1)
      BY <1>2, <2>1, <2>4
    <3> QED BY <2>2, <3>1
  <2>5. CASE i > j
    <3>1. /\ e[i] = a[i - 1] /\ e[k] = a[k - 1] /\ i - 1 \in 0..(m - 1)
          /\ k - 1 \in 0..(m - 1) /\ k - 1 = (i - 1) + 1
      BY <1>2, <2>1, <2>5
    <3> QED BY <2>2, <3>1
  <2> QED BY <1>2, <2>3, <2>4, <2>5
<1>16. Indexed(r, A \cup {w}, F, U \cup {w}, NULL)
  BY <1>1, <1>6, <1>12 DEF Indexed
<1>17. Owned(r, A \cup {w}, U \cup {w})
  <2> SUFFICES ASSUME NEW d \in A \cup {w}
               PROVE  r.owner[r.first[d]] = d \/ (r.count[d] = Blocks /\ d \notin U \cup {w})
    BY DEF Owned
  <2>0. h.first[c] \in Int /\ h.count[c] \in Int /\ h.first[c] # h.first[c] + n
    BY <1>2, <1>3
  <2>1. CASE d = w
    BY <1>6, <1>7, <1>12, <2>1
  <2>2. CASE d = c
    BY <1>3, <1>7, <1>12, <2>0, <2>2
  <2>3. CASE d # w /\ d # c
    <3>1. d \in A /\ d \in ChunkNode /\ h.first[d] \in Int /\ h.count[d] \in Int
      BY <1>2, <2>3
    <3>2. PICK i \in 0..(m - 1) : a[i] = d
      BY <1>2, <3>1
    <3>3. i # j
      BY <1>4, <2>3, <3>2
    <3>4. /\ \/ h.first[a[i]] + h.count[a[i]] <= h.first[a[j]]
             \/ h.first[a[j]] + h.count[a[j]] <= h.first[a[i]]
          /\ i <= h.first[a[i]] /\ h.first[a[i]] + h.count[a[i]] <= Blocks
          /\ 0 < h.count[a[i]]
      BY <1>1, <1>2, <3>3, TilesBound
    <3>5. h.first[d] # h.first[c] /\ h.first[d] # h.first[c] + n /\ h.first[d] \in Block
      <4>1. n < h.count[c]
        BY DEF c
      <4>2. /\ \/ h.first[d] + h.count[d] <= h.first[c]
               \/ h.first[c] + h.count[c] <= h.first[d]
            /\ i <= h.first[d] /\ h.first[d] + h.count[d] <= Blocks
            /\ 0 < h.count[d]
        BY <1>4, <3>2, <3>4
      <4> QED BY <2>0, <3>1, <4>1, <4>2, PoolAssumption DEF Block
    <3>6. r.first[d] = h.first[d] /\ r.count[d] = h.count[d]
          /\ r.owner[r.first[d]] = h.owner[h.first[d]]
      BY <1>12, <2>3, <3>1, <3>5
    <3> QED BY <1>1, <2>3, <3>1, <3>6 DEF Owned
  <2> QED BY <2>1, <2>2, <2>3
<1>18. \A d \in U : r.first[d] = h.first[d] /\ r.count[d] = h.count[d]
  BY <1>1, <1>2, <1>3, <1>6, <1>12
<1>19. r.used_size = BLOCKSIZE * SumOver(r.count, U \cup {w})
  <2> DEFINE V == U \cup {w}
  <2>1. IsFiniteSet(V) /\ V \ {w} = U /\ w \in V /\ V \subseteq ChunkNode
    BY <1>1, <1>2, <1>6, FS_AddElement
  <2>2. \A d \in V : r.count[d] \in Int
    BY <1>12, <2>1
  <2> HIDE DEF V
  <2>3. SumOver(r.count, V) = r.count[w] + SumOver(r.count, U)
    BY <2>1, <2>2, SumWithout
  <2>4. SumOver(r.count, U) = SumOver(h.count, U)
    BY <1>2, <1>18, SumSame
  <2>5. SumOver(h.count, U) \in Int
    BY <1>2, SumType
  <2>6. r.count[w] = n
    BY <1>6, <1>12
  <2>7. \A e, t, b \in Int : b * t + b * e = b * (e + t)
    OBVIOUS
  <2>8. r.used_size = BLOCKSIZE * SumOver(r.count, V)
    BY <1>1, <1>2, <1>12, <2>3, <2>4, <2>5, <2>6, <2>7
  <2> QED BY <2>8 DEF V
<1>20. PoolInv(r, Ins(a, j, w), m + 1, A \cup {w}, F, p, U \cup {w}, NULL, NULL)
  <2>1. U \cup {w} \subseteq A \cup {w} /\ NULL \notin U \cup {w}
    <3>1. NULL \notin ChunkNode
      BY NodeFacts
    <3> QED BY <1>1, <1>6, <3>1
  <2> QED BY <1>11, <1>13, <1>15, <1>16, <1>17, <1>19, <2>1 DEF PoolInv
<1>21. r = Split(Unlink(counted, chunk_cache), c, w, n)
  BY DEF r, u, v, Cut, Split
<1>22. r.first[w] = h.first[c] /\ r.count[w] = n
  BY <1>6, <1>12
<1>23. First(h, chunk_cache) = w
  BY DEF First, w
<1>24. CutOff(h, r, m, A, F, p, U, z, n)
  BY <1>6, <1>12, <1>18, <1>20, <1>22, <1>23 DEF CutOff, c
<1> QED BY <1>21, <1>23, <1>24 DEF counted, c

\* Only the use of a chunk differs.
LEMMA UseFrame ==
    ASSUME NEW h, NEW a, NEW m, NEW A, NEW F, NEW p, NEW U, NEW x, NEW y,
           PoolInv(h, a, m, A, F, p, U, x, y), NEW c \in ChunkNode
    PROVE  LET r == [h EXCEPT !.bUse[c] = FALSE]
           IN /\ PoolInv(r, a, m, A, F, p, U, x, y)
              /\ r.bUse = [h.bUse EXCEPT ![c] = FALSE]
              /\ r.first = h.first /\ r.count = h.count
<1> DEFINE r == [h EXCEPT !.bUse[c] = FALSE]
<1>1. /\ h \in HeapType /\ ChunkLists(h, a, m, A) /\ Pointers(h, F, p)
      /\ U \subseteq A /\ x \notin U
      /\ Tiles(h.first, h.count, a, m) /\ Alternates(U, a, m, y)
      /\ Indexed(h, A, F, U, x) /\ Owned(h, A, U)
      /\ h.used_size = BLOCKSIZE * SumOver(h.count, U)
  BY DEF PoolInv
<1>2. /\ r \in HeapType /\ r.next = h.next /\ r.prev = h.prev
      /\ r.count = h.count /\ r.first = h.first
      /\ r.bUse = [h.bUse EXCEPT ![c] = FALSE]
      /\ r.pfree = h.pfree /\ r.data = h.data /\ r.owner = h.owner
      /\ r.used_size = h.used_size
  BY <1>1 DEF HeapType, Chunk
<1> HIDE DEF r
<1>3. ChunkLists(r, a, m, A) /\ Pointers(r, F, p)
  BY <1>1, <1>2, ListsFrame
<1>4. Indexed(r, A, F, U, x) /\ Owned(r, A, U)
  BY <1>1, <1>2 DEF Indexed, Owned
<1>5. PoolInv(r, a, m, A, F, p, U, x, y)
  BY <1>1, <1>2, <1>3, <1>4 DEF PoolInv
<1> QED BY <1>2, <1>5 DEF r

\* The flag of a freed chunk is cleared.
LEMMA FlagCleared ==
    ASSUME NEW h, NEW r, NEW A, NEW W, NEW c \in ChunkNode,
           h.bUse \in [Chunk -> BOOLEAN], A \subseteq ChunkNode, Flags(h, A, W),
           r.bUse = [h.bUse EXCEPT ![c] = FALSE]
    PROVE  Flags(r, A, W \ {c})
<1>1. c # chunk_list
  BY NodeFacts
<1>2. c \in Chunk /\ chunk_list \in Chunk
  BY DEF Chunk
<1>3. r.bUse[chunk_list] = TRUE
  BY <1>1, <1>2 DEF Flags
<1>4. ASSUME NEW d \in A PROVE r.bUse[d] = (d \in W \ {c})
  <2>1. d \in Chunk /\ d \in A
    BY DEF Chunk
  <2>2. CASE d = c
    <3>1. r.bUse[d] = FALSE
      BY <1>2, <2>2
    <3>2. (d \in W \ {c}) = FALSE
      BY <2>2
    <3> QED BY <3>1, <3>2, Zenon
  <2>3. CASE d # c
    <3>1. r.bUse[d] = h.bUse[d]
      BY <2>1, <2>3
    <3>2. h.bUse[d] = (d \in W)
      BY <2>1, Zenon DEF Flags
    <3>3. (d \in W) = (d \in W \ {c})
      BY <2>3
    <3> QED BY <3>1, <3>2, <3>3, Zenon
  <2> QED BY <2>2, <2>3
<1> QED BY <1>3, <1>4 DEF Flags

\* Flags of fewer chunks
LEMMA FlagsFewer ==
    ASSUME NEW h, NEW A, NEW W, Flags(h, A, W), NEW B \in SUBSET A
    PROVE  Flags(h, B, W)
BY DEF Flags

\* The flag of a taken chunk is set.
LEMMA FlagSet ==
    ASSUME NEW h, NEW r, NEW A, NEW W, NEW c \in ChunkNode,
           h.bUse \in [Chunk -> BOOLEAN], A \subseteq ChunkNode, Flags(h, A, W),
           r.bUse = [h.bUse EXCEPT ![c] = TRUE]
    PROVE  Flags(r, A \cup {c}, W \cup {c})
<1>1. c # chunk_list
  BY NodeFacts
<1>2. c \in Chunk /\ chunk_list \in Chunk
  BY DEF Chunk
<1>3. r.bUse[chunk_list] = TRUE
  BY <1>1, <1>2 DEF Flags
<1>4. ASSUME NEW d \in A \cup {c} PROVE r.bUse[d] = (d \in W \cup {c})
  <2>2. CASE d = c
    <3>1. r.bUse[d] = TRUE
      BY <1>2, <2>2
    <3> QED BY <2>2, <3>1
  <2>3. CASE d # c
    <3>0. d \in A /\ d \in Chunk
      BY <2>3 DEF Chunk
    <3>1. r.bUse[d] = h.bUse[d]
      BY <2>3, <3>0
    <3>2. h.bUse[d] = (d \in W)
      BY <3>0, Zenon DEF Flags
    <3>3. (d \in W) = (d \in W \cup {c})
      BY <2>3
    <3> QED BY <3>1, <3>2, <3>3, Zenon
  <2> QED BY <2>2, <2>3
<1> QED BY <1>3, <1>4 DEF Flags

\* What a free makes of a heap of used chunks U: those of V are left as they were.
Freed(h, r, V) ==
    /\ \E b, l, B, G, q : /\ PoolInv(r, b, l, B, G, q, V, NULL, NULL)
                          /\ Flags(r, B, V)
    /\ \A d \in V : r.first[d] = h.first[d] /\ r.count[d] = h.count[d]

\* The chunk at the place j is not used any more; neither of its neighbours is free.
LEMMA FreesAlone ==
    ASSUME NEW h, NEW a, NEW m, NEW A, NEW F, NEW p, NEW U, NEW j \in 0..(m - 1),
           a[j] \notin U, PoolInv(h, a, m, A, F, p, U, a[j], a[j]),
           Flags(h, A, U \cup {a[j]}),
           j > 0 => a[j - 1] \in U, j + 1 < m => a[j + 1] \in U
    PROVE  Freed(h, AddFree([h EXCEPT !.bUse[a[j]] = FALSE], a[j]), U)
<1> DEFINE c == a[j]
           s == [h EXCEPT !.bUse[c] = FALSE]
           r == AddFree(s, c)
<1>1. /\ m \in Nat /\ c \in A /\ c \in ChunkNode /\ A \subseteq ChunkNode
      /\ h.bUse \in [Chunk -> BOOLEAN] /\ U \subseteq A
  BY PoolFacts DEF PoolInv
<1>2. /\ PoolInv(s, a, m, A, F, p, U, c, c)
      /\ s.bUse = [h.bUse EXCEPT ![c] = FALSE]
      /\ s.first = h.first /\ s.count = h.count
  BY <1>1, UseFrame
<1> HIDE DEF s
<1>3. PoolInv(s, a, m, A, F, p, U, c, NULL)
  BY <1>2, Settles
<1> HIDE DEF c
<1>4. /\ \E w : PoolInv(r, a, m, A, F \cup {w}, p + 1, U, NULL, NULL)
      /\ r.bUse = s.bUse /\ r.first = s.first /\ r.count = s.count
  BY <1>1, <1>3, Listing
<1> HIDE DEF r
<1>5. Flags(r, A, U)
  <2>1. r.bUse = [h.bUse EXCEPT ![c] = FALSE]
    BY <1>2, <1>4
  <2>2. Flags(h, A, U \cup {c}) /\ c \notin U
    BY DEF c
  <2>3. Flags(r, A, (U \cup {c}) \ {c})
    BY <1>1, <2>1, <2>2, FlagCleared
  <2>4. (U \cup {c}) \ {c} = U
    BY <2>2
  <2> QED BY <2>3, <2>4
<1>6. \E w : PoolInv(r, a, m, A, F \cup {w}, p + 1, U, NULL, NULL) /\ Flags(r, A, U)
  BY <1>4, <1>5
<1>7. Freed(h, r, U)
  BY <1>2, <1>4, <1>6, Zenon DEF Freed
<1>8. r = AddFree([h EXCEPT !.bUse[a[j]] = FALSE], a[j])
  BY Zenon DEF r, s, c
<1> QED BY <1>7, <1>8

\* The chunk after the freed one is free, the one before it is not.
LEMMA FreesBeforeFree ==
    ASSUME NEW h, NEW a, NEW m, NEW A, NEW F, NEW p, NEW U, NEW j \in 0..(m - 1),
           a[j] \notin U, PoolInv(h, a, m, A, F, p, U, a[j], a[j]),
           Flags(h, A, U \cup {a[j]}),
           j > 0 => a[j - 1] \in U,
           j + 1 \in 0..(m - 1), a[j + 1] \notin U,
           j + 2 < m => a[j + 2] \in U
    PROVE  Freed(h, AddFree(MergeNext(h, a[j], a[j + 1]), a[j]), U)
<1> DEFINE c == a[j]
           d == a[j + 1]
           e == Del(a, j + 1)
           s == MergeNext(h, c, d)
           r == AddFree(s, c)
<1>1. /\ m \in Nat /\ c \in A /\ c \in ChunkNode /\ A \subseteq ChunkNode
      /\ d \in A /\ d \in ChunkNode /\ c # d
      /\ h.bUse \in [Chunk -> BOOLEAN] /\ U \subseteq A
  <2>1. /\ m \in Nat /\ A \subseteq ChunkNode /\ Numbered(a, m) /\ U \subseteq A
        /\ \A i \in 0..(m - 1) : a[i] \in A /\ a[i] \in ChunkNode
        /\ h.bUse \in [Chunk -> BOOLEAN]
    BY PoolFacts DEF PoolInv
  <2>2. c # d
    BY <2>1 DEF Numbered
  <2> QED BY <2>1, <2>2
<1>0. JoinedNext(h, s, a, m, A, U, c, j)
  BY <1>1, JoinsNext
<1>2. PICK G, q : PoolInv(s, e, m - 1, A \ {d}, G, q, U, c, c)
  BY <1>0, Zenon DEF JoinedNext
<1>3. /\ s.bUse = [h.bUse EXCEPT ![c] = FALSE, ![d] = FALSE]
      /\ s.first = h.first /\ \A b \in U : s.count[b] = h.count[b]
  BY <1>0, Zenon DEF JoinedNext
<1> HIDE DEF s
<1>4. /\ \A i \in Nat : e[i] = IF i < j + 1 THEN a[i] ELSE a[i + 1]
      /\ j \in 0..((m - 1) - 1) /\ j \in Nat
  BY <1>1 DEF Del
<1> HIDE DEF e
<1>5. PoolInv(s, e, m - 1, A \ {d}, G, q, U, c, NULL)
  <2>1. e[j] = c
    BY <1>4
  <2>2. j > 0 => e[j - 1] \in U
    BY <1>4
  <2>3. j + 1 < m - 1 => e[j + 1] \in U
    BY <1>1, <1>4
  <2> HIDE DEF c
  <2> QED BY <1>2, <1>4, <2>1, <2>2, <2>3, Settles
<1>6. /\ \E w : PoolInv(r, e, m - 1, A \ {d}, G \cup {w}, q + 1, U, NULL, NULL)
      /\ r.bUse = s.bUse /\ r.first = s.first /\ r.count = s.count
  <2>1. c \in A \ {d}
    BY <1>1
  <2> HIDE DEF c, d
  <2> QED BY <1>5, <2>1, Listing
<1> HIDE DEF r
<1>7. Flags(r, A \ {d}, U)
  <2> DEFINE g == [bUse |-> [h.bUse EXCEPT ![c] = FALSE]]
  <2>1. g.bUse = [h.bUse EXCEPT ![c] = FALSE] /\ g.bUse \in [Chunk -> BOOLEAN]
    BY <1>1 DEF Chunk
  <2>2. Flags(h, A, U \cup {c})
    OBVIOUS
  <2> HIDE DEF c, d, g
  <2>3. Flags(g, A, (U \cup {c}) \ {c})
    BY <1>1, <2>1, <2>2, FlagCleared
  <2>4. r.bUse = [g.bUse EXCEPT ![d] = FALSE]
    BY <1>3, <1>6, <2>1
  <2>5. Flags(r, A, ((U \cup {c}) \ {c}) \ {d})
    <3>1. d \in ChunkNode /\ A \subseteq ChunkNode
      BY <1>1
    <3>2. g.bUse \in [Chunk -> BOOLEAN]
      BY <2>1
    <3> QED BY <3>1, <3>2, <2>3, <2>4, FlagCleared
  <2>6. Flags(r, A \ {d}, ((U \cup {c}) \ {c}) \ {d})
    BY <2>5, FlagsFewer
  <2>7. ((U \cup {c}) \ {c}) \ {d} = U
    BY DEF c, d
  <2> QED BY <2>6, <2>7
<1>8. \E B, G1, q1 : PoolInv(r, e, m - 1, B, G1, q1, U, NULL, NULL) /\ Flags(r, B, U)
  BY <1>6, <1>7, Zenon
<1>9. \A b \in U : r.first[b] = h.first[b] /\ r.count[b] = h.count[b]
  BY <1>3, <1>6
<1>10. Freed(h, r, U)
  BY <1>8, <1>9, Zenon DEF Freed
<1>11. r = AddFree(MergeNext(h, a[j], a[j + 1]), a[j])
  BY Zenon DEF r, s, c, d
<1> QED BY <1>10, <1>11

\* The chunk before the freed one is free, the one after it is not.
LEMMA FreesAfterFree ==
    ASSUME NEW h, NEW a, NEW m, NEW A, NEW F, NEW p, NEW U, NEW j \in 0..(m - 1),
           j + 1 \in 0..(m - 1), a[j] \notin U, a[j + 1] \notin U,
           PoolInv(h, a, m, A, F, p, U, a[j + 1], a[j + 1]),
           Flags(h, A, U \cup {a[j + 1]}),
           j > 0 => a[j - 1] \in U, j + 2 < m => a[j + 2] \in U
    PROVE  Freed(h, [MergeIntoPrev(h, a[j + 1]) EXCEPT !.bUse[a[j]] = FALSE], U)
<1> DEFINE c == a[j + 1]
           d == a[j]
           e == Del(a, j + 1)
           s == MergeIntoPrev(h, c)
           r == [s EXCEPT !.bUse[d] = FALSE]
<1>1. /\ m \in Nat /\ c \in A /\ c \in ChunkNode /\ A \subseteq ChunkNode
      /\ d \in A /\ d \in ChunkNode /\ c # d
      /\ h.bUse \in [Chunk -> BOOLEAN] /\ U \subseteq A
  <2>1. /\ m \in Nat /\ A \subseteq ChunkNode /\ Numbered(a, m) /\ U \subseteq A
        /\ \A i \in 0..(m - 1) : a[i] \in A /\ a[i] \in ChunkNode
        /\ h.bUse \in [Chunk -> BOOLEAN]
    BY PoolFacts DEF PoolInv
  <2>2. c # d
    BY <2>1 DEF Numbered
  <2> QED BY <2>1, <2>2
<1>2. /\ PoolInv(s, e, m - 1, A \ {c}, F, p, U, NULL, d)
      /\ s.bUse = [h.bUse EXCEPT ![c] = FALSE]
      /\ s.first = h.first /\ \A b \in U : s.count[b] = h.count[b]
  <2>1. JoinedPrev(h, s, a, m, A, F, p, U, j)
    BY <1>1, JoinsPrev
  <2> QED BY <2>1, Zenon DEF JoinedPrev
<1> HIDE DEF s
<1>3. /\ PoolInv(r, e, m - 1, A \ {c}, F, p, U, NULL, d)
      /\ r.bUse = [s.bUse EXCEPT ![d] = FALSE]
      /\ r.first = s.first /\ r.count = s.count
  <2> HIDE DEF c, d, e
  <2> QED BY <1>1, <1>2, UseFrame, ZenonT(60)
<1> HIDE DEF r
<1>4. /\ \A i \in Nat : e[i] = IF i < j + 1 THEN a[i] ELSE a[i + 1]
      /\ j \in 0..((m - 1) - 1) /\ j \in Nat
  BY <1>1 DEF Del
<1> HIDE DEF e
<1>5. PoolInv(r, e, m - 1, A \ {c}, F, p, U, NULL, NULL)
  <2>1. e[j] = d
    BY <1>4
  <2>2. j > 0 => e[j - 1] \in U
    BY <1>4
  <2>3. j + 1 < m - 1 => e[j + 1] \in U
    BY <1>1, <1>4
  <2> HIDE DEF d
  <2> QED BY <1>3, <1>4, <2>1, <2>2, <2>3, Settles
<1>6. Flags(r, A \ {c}, U)
  <2> DEFINE V == U \cup {c}
  <2>1. Flags(h, A, V)
    OBVIOUS
  <2>2. s.bUse \in [Chunk -> BOOLEAN]
    BY <1>1, <1>2 DEF Chunk
  <2> HIDE DEF c, d, V
  <2>3. Flags(s, A, V \ {c})
    BY <1>1, <1>2, <2>1, FlagCleared
  <2>4. Flags(r, A, (V \ {c}) \ {d})
    BY <1>1, <1>3, <2>2, <2>3, FlagCleared
  <2>5. Flags(r, A \ {c}, (V \ {c}) \ {d})
    BY <2>4, FlagsFewer
  <2>6. (V \ {c}) \ {d} = U
    BY DEF c, d, V
  <2> QED BY <2>5, <2>6
<1>7. \A b \in U : r.first[b] = h.first[b] /\ r.count[b] = h.count[b]
  BY <1>2, <1>3
<1>8. Freed(h, r, U)
  BY <1>5, <1>6, <1>7, Zenon DEF Freed
<1>9. r = [MergeIntoPrev(h, a[j + 1]) EXCEPT !.bUse[a[j]] = FALSE]
  BY DEF r, s, c, d
<1> QED BY <1>8, <1>9

\* Both are free.
LEMMA FreesBetween ==
    ASSUME NEW h, NEW a, NEW m, NEW A, NEW F, NEW p, NEW U, NEW j \in 0..(m - 1),
           j + 1 \in 0..(m - 1), j + 2 \in 0..(m - 1),
           a[j] \notin U, a[j + 1] \notin U, a[j + 2] \notin U,
           PoolInv(h, a, m, A, F, p, U, a[j + 1], a[j + 1]),
           Flags(h, A, U \cup {a[j + 1]}),
           j > 0 => a[j - 1] \in U, j + 3 < m => a[j + 3] \in U
    PROVE  Freed(h, MergeNext(MergeIntoPrev(h, a[j + 1]), a[j], a[j + 2]), U)
<1> DEFINE c == a[j + 1]
           d == a[j]
           f == a[j + 2]
           e == Del(a, j + 1)
           e2 == Del(e, j + 1)
           s == MergeIntoPrev(h, c)
           r == MergeNext(s, d, f)
<1>1. /\ m \in Nat /\ c \in A /\ c \in ChunkNode /\ A \subseteq ChunkNode
      /\ d \in A /\ d \in ChunkNode /\ f \in A /\ f \in ChunkNode
      /\ c # d /\ c # f /\ d # f /\ f # NULL
      /\ h.bUse \in [Chunk -> BOOLEAN] /\ U \subseteq A
  <2>1. /\ m \in Nat /\ A \subseteq ChunkNode /\ Numbered(a, m) /\ U \subseteq A
        /\ \A i \in 0..(m - 1) : a[i] \in A /\ a[i] \in ChunkNode
        /\ h.bUse \in [Chunk -> BOOLEAN]
    BY PoolFacts DEF PoolInv
  <2>2. c # d /\ c # f /\ d # f
    BY <2>1 DEF Numbered
  <2>3. NULL \notin ChunkNode
    BY NodeFacts
  <2>4. f # NULL
    BY <2>1, <2>3
  <2> QED BY <2>1, <2>2, <2>4
<1>2. /\ PoolInv(s, e, m - 1, A \ {c}, F, p, U, NULL, d)
      /\ s.bUse = [h.bUse EXCEPT ![c] = FALSE]
      /\ s.first = h.first /\ \A b \in U : s.count[b] = h.count[b]
  <2>1. JoinedPrev(h, s, a, m, A, F, p, U, j)
    BY <1>1, JoinsPrev
  <2> QED BY <2>1, Zenon DEF JoinedPrev
<1> HIDE DEF s
<1>3. /\ \A i \in Nat : e[i] = IF i < j + 1 THEN a[i] ELSE a[i + 1]
      /\ j \in 0..((m - 1) - 1) /\ j + 1 \in 0..((m - 1) - 1) /\ j \in Nat
      /\ j \in 0..(((m - 1) - 1) - 1)
  BY <1>1 DEF Del
<1> HIDE DEF e
<1>4. e[j] = d /\ e[j + 1] = f
  <2>1. (j + 1) + 1 = j + 2 /\ j + 1 \in Nat /\ ~ (j + 1 < j + 1) /\ j < j + 1
    BY <1>3
  <2> QED BY <1>3, <2>1
<1>5. /\ \E G, q : PoolInv(r, e2, (m - 1) - 1, (A \ {c}) \ {f}, G, q, U, NULL, d)
      /\ r.bUse = [s.bUse EXCEPT ![d] = FALSE, ![f] = FALSE]
      /\ r.first = s.first
      /\ \A b \in U : r.count[b] = s.count[b]
  <2>1. /\ e[j] \notin U /\ e[j + 1] \notin U /\ e[j + 1] # NULL
        /\ PoolInv(s, e, m - 1, A \ {c}, F, p, U, NULL, e[j])
    BY <1>1, <1>2, <1>4
  <2>2. JoinedNext(s, MergeNext(s, e[j], e[j + 1]), e, m - 1, A \ {c}, U, NULL, j)
    BY <1>3, <2>1, JoinsNext
  <2>3. JoinedNext(s, r, e, m - 1, A \ {c}, U, NULL, j)
    BY <1>4, <2>2
  <2> HIDE DEF c, d, f
  <2> QED BY <1>4, <2>3 DEF JoinedNext
<1> HIDE DEF r
<1>6. PICK G, q : PoolInv(r, e2, (m - 1) - 1, (A \ {c}) \ {f}, G, q, U, NULL, d)
  BY <1>5
<1>7. \A i \in Nat : e2[i] = IF i < j + 1 THEN e[i] ELSE e[i + 1]
  BY DEF Del
<1> HIDE DEF e2
<1>8. PoolInv(r, e2, (m - 1) - 1, (A \ {c}) \ {f}, G, q, U, NULL, NULL)
  <2>1. e2[j] = d
    BY <1>3, <1>4, <1>7
  <2>2. j > 0 => e2[j - 1] \in U
    BY <1>3, <1>7
  <2>3. j + 1 < (m - 1) - 1 => e2[j + 1] \in U
    <3>1. (j + 1) + 1 = j + 2 /\ (j + 2) + 1 = j + 3 /\ j + 1 \in Nat /\ j + 2 \in Nat
          /\ ~ (j + 1 < j + 1) /\ ~ (j + 2 < j + 1)
      BY <1>3
    <3>2. e2[j + 1] = a[j + 3]
      BY <1>3, <1>7, <3>1
    <3> QED BY <1>1, <3>2
  <2> HIDE DEF d
  <2> QED BY <1>3, <1>6, <2>1, <2>2, <2>3, Settles
<1>9. Flags(r, (A \ {c}) \ {f}, U)
  <2> DEFINE g == [bUse |-> [s.bUse EXCEPT ![d] = FALSE]]
             V == U \cup {c}
  <2>0. s.bUse \in [Chunk -> BOOLEAN]
    BY <1>1, <1>2 DEF Chunk
  <2>1. g.bUse = [s.bUse EXCEPT ![d] = FALSE] /\ g.bUse \in [Chunk -> BOOLEAN]
    BY <2>0
  <2>2. Flags(h, A, V)
    OBVIOUS
  <2> HIDE DEF c, d, f, g, V
  <2>3. Flags(s, A, V \ {c})
    BY <1>1, <1>2, <2>2, FlagCleared
  <2>4. Flags(g, A, (V \ {c}) \ {d})
    BY <1>1, <2>0, <2>1, <2>3, FlagCleared
  <2>5. r.bUse = [g.bUse EXCEPT ![f] = FALSE]
    BY <1>5, <2>1
  <2>6. Flags(r, A, ((V \ {c}) \ {d}) \ {f})
    <3>1. f \in ChunkNode /\ A \subseteq ChunkNode
      BY <1>1
    <3>2. g.bUse \in [Chunk -> BOOLEAN]
      BY <2>1
    <3> QED BY <3>1, <3>2, <2>4, <2>5, FlagCleared
  <2>7. Flags(r, (A \ {c}) \ {f}, ((V \ {c}) \ {d}) \ {f})
    BY <2>6, FlagsFewer
  <2>8. ((V \ {c}) \ {d}) \ {f} = U
    BY DEF c, d, f, V
  <2> QED BY <2>7, <2>8
<1>10. \A b \in U : r.first[b] = h.first[b] /\ r.count[b] = h.count[b]
  BY <1>2, <1>5
<1>11. Freed(h, r, U)
  BY <1>8, <1>9, <1>10, Zenon DEF Freed
<1>12. r = MergeNext(MergeIntoPrev(h, a[j + 1]), a[j], a[j + 2])
  BY Zenon DEF r, s, c, d, f
<1> QED BY <1>11, <1>12

-----------------------------------------------------------------------------
(* The calls of the pool. *)

\* The invariant of the heap between two calls
HeapInv(h) ==
    \E a, m, A, F, p : /\ PoolInv(h, a, m, A, F, p, UsedChunks(h), NULL, NULL)
                       /\ Flags(h, A, UsedChunks(h))

\* The used chunks are the ones the flags say.
LEMMA UsedAre ==
    ASSUME NEW h, NEW a, NEW m, NEW A, NEW F, NEW p, NEW U, NEW x, NEW y,
           PoolInv(h, a, m, A, F, p, U, x, y), Flags(h, A, U)
    PROVE  UsedChunks(h) = U /\ Chunks(h) = A
<1>1. ChunkLists(h, a, m, A) /\ U \subseteq A
  BY DEF PoolInv
<1>2. Chunks(h) = A
  BY <1>1, ChunksFacts
<1> QED BY <1>1, <1>2 DEF UsedChunks, Flags

\* The parts of the invariant make the invariant between two calls.
LEMMA HeapInvIs ==
    ASSUME NEW h, NEW a, NEW m, NEW A, NEW F, NEW p, NEW U,
           PoolInv(h, a, m, A, F, p, U, NULL, NULL), Flags(h, A, U)
    PROVE  HeapInv(h) /\ UsedChunks(h) = U
<1>1. UsedChunks(h) = U
  BY UsedAre
<1> QED BY <1>1 DEF HeapInv

\* What a heap promises of a used chunk: it is found from its address.
LEMMA UsedFacts ==
    ASSUME NEW h, HeapInv(h)
    PROVE  /\ UsedChunks(h) \subseteq ChunkNode /\ IsFiniteSet(UsedChunks(h))
           /\ \A k \in UsedChunks(h) :
                /\ h.first[k] \in Int /\ h.count[k] \in Int
                /\ 0 <= h.first[k] /\ 0 < h.count[k]
                /\ h.first[k] + h.count[k] <= Blocks
                /\ ChunkAt(h, h.first[k] * BLOCKSIZE) = k
           /\ \A k, l \in UsedChunks(h) :
                k # l => \/ h.first[k] + h.count[k] <= h.first[l]
                         \/ h.first[l] + h.count[l] <= h.first[k]
<1> DEFINE U == UsedChunks(h)
<1>1. PICK a, m, A, F, p : PoolInv(h, a, m, A, F, p, U, NULL, NULL) /\ Flags(h, A, U)
  BY DEF HeapInv
<1> HIDE DEF U
<1>2. /\ h.first \in [ChunkNode -> Int] /\ h.count \in [ChunkNode -> Int]
      /\ Numbered(a, m) /\ m \in Nat /\ A \subseteq ChunkNode /\ U \subseteq ChunkNode
      /\ IsFiniteSet(U)
      /\ \A c \in A : \E i \in 0..(m - 1) : a[i] = c
  BY <1>1, PoolFacts
<1>3. /\ U \subseteq A /\ Owned(h, A, U) /\ Tiles(h.first, h.count, a, m)
  BY <1>1 DEF PoolInv
<1>4. ASSUME NEW k \in U
      PROVE  /\ h.first[k] \in Int /\ h.count[k] \in Int
             /\ 0 <= h.first[k] /\ 0 < h.count[k]
             /\ h.first[k] + h.count[k] <= Blocks
             /\ ChunkAt(h, h.first[k] * BLOCKSIZE) = k
  <2>1. h.first[k] \in Int /\ h.count[k] \in Int
    BY <1>2
  <2>2. PICK i \in 0..(m - 1) : a[i] = k
    BY <1>2, <1>3
  <2>3. i <= h.first[a[i]] /\ h.first[a[i]] + h.count[a[i]] <= Blocks /\ 0 < h.count[a[i]]
    BY <1>2, <1>3, TilesBound
  <2>4. h.owner[h.first[k]] = k
    BY <1>3 DEF Owned
  <2>5. (h.first[k] * BLOCKSIZE) \div BLOCKSIZE = h.first[k]
    BY <2>1, PoolAssumption, DivOfMultiple
  <2>6. ChunkAt(h, h.first[k] * BLOCKSIZE) = k
    BY <2>4, <2>5 DEF ChunkAt
  <2>7. 0 <= i
    OBVIOUS
  <2> QED BY <2>1, <2>2, <2>3, <2>6, <2>7
<1>5. ASSUME NEW k \in U, NEW l \in U, k # l
      PROVE  \/ h.first[k] + h.count[k] <= h.first[l]
             \/ h.first[l] + h.count[l] <= h.first[k]
  <2>1. PICK i \in 0..(m - 1) : a[i] = k
    BY <1>2, <1>3
  <2>2. PICK j \in 0..(m - 1) : a[j] = l
    BY <1>2, <1>3
  <2>3. i # j
    BY <1>5, <2>1, <2>2
  <2>4. \/ h.first[a[i]] + h.count[a[i]] <= h.first[a[j]]
        \/ h.first[a[j]] + h.count[a[j]] <= h.first[a[i]]
    BY <1>2, <1>3, <2>3, TilesBound
  <2> QED BY <2>1, <2>2, <2>4
<1> QED BY <1>2, <1>4, <1>5 DEF U

\* A request is for a whole number of blocks that hold it.
LEMMA BlocksOf ==
    ASSUME NEW size \in Nat, 0 # size
    PROVE  LET n == uptoblock(size) \div BLOCKSIZE
           IN /\ n \in Nat /\ 0 # n /\ uptoblock(size) = BLOCKSIZE * n
              /\ BLOCKSIZE * n \in Nat /\ size <= BLOCKSIZE * n
<1> DEFINE q == (size + BLOCKSIZE - 1) \div BLOCKSIZE
<1>1. BLOCKSIZE \in Nat \ {0}
  BY PoolAssumption
<1>2. /\ q \in Int /\ BLOCKSIZE * q <= size + BLOCKSIZE - 1
      /\ size + BLOCKSIZE - 1 < BLOCKSIZE * q + BLOCKSIZE
  <2>1. size + BLOCKSIZE - 1 \in Int
    BY <1>1
  <2> QED BY <1>1, <2>1, DivBounds
<1> HIDE DEF q
<1>3. BLOCKSIZE * q \in Int /\ size <= BLOCKSIZE * q
  BY <1>1, <1>2
<1>4. q > 0
  <2>1. CASE q <= 0
    <3>1. BLOCKSIZE * q <= 0
      BY <1>1, <1>2, <2>1
    <3> QED BY <1>3, <3>1
  <2> QED BY <1>2, <2>1
<1>5. q * BLOCKSIZE = BLOCKSIZE * q
  BY <1>1, <1>2
<1>6. (q * BLOCKSIZE) \div BLOCKSIZE = q
  BY <1>1, <1>2, DivOfMultiple
<1>7. uptoblock(size) = q * BLOCKSIZE
  BY DEF uptoblock, q
<1> QED BY <1>2, <1>3, <1>4, <1>5, <1>6, <1>7

\* What the free list finds: a free chunk that has n blocks
LEMMA FitsIn ==
    ASSUME NEW h, NEW a, NEW m, NEW A, NEW F, NEW p, NEW U,
           PoolInv(h, a, m, A, F, p, U, NULL, NULL), NEW n, Fitting(h, n) # {}
    PROVE  LET z == Walk(h, free_list)[Min(Fitting(h, n))]
           IN z \in F /\ h.count[h.data[z]] >= n
<1> DEFINE i == Min(Fitting(h, n))
           z == Walk(h, free_list)[i]
<1>1. i \in Fitting(h, n)
  <2>1. Fitting(h, n) \in SUBSET Nat
    BY DEF Fitting
  <2> QED BY <2>1, MinIsLeast
<1>2. i \in 0..Points /\ z # NULL /\ h.count[h.data[z]] >= n
  BY <1>1 DEF Fitting
<1>3. PICK f : /\ \A j \in 0..(p - 1) : f[j] \in F
               /\ \A j \in Nat : j >= p => f[j] = NULL
               /\ \A j \in 0..(Blocks + Points + 1) : Walk(h, free_list)[j] = f[j]
  BY PointersFacts DEF PoolInv
<1>4. p \in Nat
  BY PoolFacts
<1> HIDE DEF i
<1>5. z = f[i]
  <2>1. i \in 0..(Blocks + Points + 1)
    BY <1>2, PoolAssumption, NodeFacts
  <2> QED BY <1>3, <2>1
<1>6. i \in Nat /\ ~ (i >= p)
  BY <1>2, <1>3, <1>5
<1>7. z \in F
  BY <1>3, <1>4, <1>5, <1>6
<1> QED BY <1>2, <1>7 DEF i

\* What an allocation does to the used chunks
Allocates(h, r, addr, n) ==
    \E k \in ChunkNode \ UsedChunks(h) :
        /\ UsedChunks(r) = UsedChunks(h) \cup {k}
        /\ r.first[k] * BLOCKSIZE = addr /\ r.count[k] = n
        /\ \A d \in UsedChunks(h) : r.first[d] = h.first[d] /\ r.count[d] = h.count[d]

\* poll_alloc
LEMMA AllocIs ==
    ASSUME NEW h, HeapInv(h), NEW size \in Nat, 0 # size, CanAlloc(h, size),
           uptoblock(size) \div BLOCKSIZE # Blocks \/ UsedChunks(h) # {}
    PROVE  LET got == poll_alloc(h, size)
           IN /\ HeapInv(got.heap)
              /\ Allocates(h, got.heap, got.addr, uptoblock(size) \div BLOCKSIZE)
<1> DEFINE U == UsedChunks(h)
           n == uptoblock(size) \div BLOCKSIZE
           s == uptoblock(size)
           z == Walk(h, free_list)[Min(Fitting(h, n))]
           c == h.data[z]
           w == First(h, chunk_cache)
           counted == [h EXCEPT !.used_size = @ + s]
           taken == DropFree([counted EXCEPT !.bUse[c] = TRUE], z)
           cut == Split(Unlink(counted, chunk_cache), c, w, n)
           got == poll_alloc(h, size)
<1>1. PICK a, m, A, F, p : PoolInv(h, a, m, A, F, p, U, NULL, NULL) /\ Flags(h, A, U)
  BY DEF HeapInv
<1>2. n \in Nat /\ 0 # n /\ s = BLOCKSIZE * n
  BY BlocksOf
<1>3. n # Blocks \/ U # {}
  OBVIOUS
<1>4. got = IF h.count[c] = n THEN [heap |-> taken, addr |-> h.first[c] * BLOCKSIZE]
            ELSE [heap |-> cut, addr |-> h.first[c] * BLOCKSIZE]
  BY DEF poll_alloc
<1>5. Fitting(h, n) # {}
  BY DEF CanAlloc
<1> HIDE DEF U, n, s, got
<1>6. z \in F /\ h.count[c] >= n
  BY <1>1, <1>5, FitsIn
<1> HIDE DEF z
<1>7. /\ A \subseteq ChunkNode /\ h.bUse \in [Chunk -> BOOLEAN] /\ U \subseteq A
      /\ h.count \in [ChunkNode -> Int] /\ c \in A /\ c \in ChunkNode
      /\ h.count[c] \in Int
  <2>1. A \subseteq ChunkNode /\ h.bUse \in [Chunk -> BOOLEAN]
        /\ h.count \in [ChunkNode -> Int]
    BY <1>1, PoolFacts
  <2>2. c \in A /\ U \subseteq A
    BY <1>1, <1>6 DEF PoolInv, Indexed
  <2> QED BY <2>1, <2>2
<1>8. CASE h.count[c] = n
  <2>1. /\ PoolInv(taken, a, m, A, F \ {z}, p - 1, U \cup {c}, NULL, NULL)
        /\ c \in A \ U
        /\ taken.bUse = [h.bUse EXCEPT ![c] = TRUE]
        /\ taken.first = h.first /\ taken.count = h.count
    <3>1. h.count[h.data[z]] # Blocks \/ U # {}
      BY <1>3, <1>8
    <3>2. s = BLOCKSIZE * h.count[h.data[z]]
      BY <1>2, <1>8
    <3>3. Taken(h, taken, a, m, A, F, p, U, z)
      BY <1>1, <1>6, <3>1, <3>2, Takes
    <3> QED BY <3>3 DEF Taken
  <2> HIDE DEF taken, c
  <2>2. Flags(taken, A \cup {c}, U \cup {c})
    BY <1>1, <1>7, <2>1, FlagSet
  <2>3. A \cup {c} = A
    BY <1>7
  <2>4. HeapInv(taken) /\ UsedChunks(taken) = U \cup {c}
    BY <2>1, <2>2, <2>3, HeapInvIs
  <2>5. got.heap = taken /\ got.addr = h.first[c] * BLOCKSIZE
    BY <1>4, <1>8
  <2>6. Allocates(h, taken, h.first[c] * BLOCKSIZE, n)
    <3>1. /\ c \in ChunkNode \ U /\ taken.first[c] * BLOCKSIZE = h.first[c] * BLOCKSIZE
          /\ taken.count[c] = n
          /\ \A d \in U : taken.first[d] = h.first[d] /\ taken.count[d] = h.count[d]
      BY <1>7, <1>8, <2>1
    <3> QED BY <2>4, <3>1 DEF Allocates, U
  <2> QED BY <2>4, <2>5, <2>6 DEF got, n
<1>9. CASE h.count[c] # n
  <2>0. n < h.count[c]
    BY <1>2, <1>6, <1>7, <1>9
  <2>1. /\ \E b : PoolInv(cut, b, m + 1, A \cup {w}, F, p, U \cup {w}, NULL, NULL)
        /\ w \in ChunkNode \ A
        /\ cut.bUse = [h.bUse EXCEPT ![w] = TRUE]
        /\ cut.first[w] = h.first[c] /\ cut.count[w] = n
        /\ \A d \in U : cut.first[d] = h.first[d] /\ cut.count[d] = h.count[d]
    <3>1. CutOff(h, cut, m, A, F, p, U, z, n)
      BY <1>1, <1>2, <1>6, <2>0, Cuts
    <3> QED BY <3>1 DEF CutOff
  <2> HIDE DEF cut, c, w
  <2>2. Flags(cut, A \cup {w}, U \cup {w})
    BY <1>1, <1>7, <2>1, FlagSet
  <2>4. HeapInv(cut) /\ UsedChunks(cut) = U \cup {w}
    BY <2>1, <2>2, HeapInvIs
  <2>5. got.heap = cut /\ got.addr = h.first[c] * BLOCKSIZE
    BY <1>4, <1>9
  <2>6. Allocates(h, cut, h.first[c] * BLOCKSIZE, n)
    <3>1. /\ w \in ChunkNode \ U /\ cut.first[w] * BLOCKSIZE = h.first[c] * BLOCKSIZE
          /\ cut.count[w] = n
          /\ \A d \in U : cut.first[d] = h.first[d] /\ cut.count[d] = h.count[d]
      BY <1>7, <2>1
    <3> QED BY <2>4, <3>1 DEF Allocates, U
  <2> QED BY <2>4, <2>5, <2>6 DEF got, n
<1> QED BY <1>8, <1>9

\* What a free does to the used chunks
Frees(h, r, k) ==
    /\ UsedChunks(r) = UsedChunks(h) \ {k}
    /\ \A d \in UsedChunks(r) : r.first[d] = h.first[d] /\ r.count[d] = h.count[d]

\* poll_free, of the chunk that the address leads to
FreeOf(h, c) ==
    LET less == [h EXCEPT !.used_size = @ - h.count[c] * BLOCKSIZE]
        joined == IF IsFree(h, h.prev[c]) THEN MergeIntoPrev(less, c) ELSE less
        kept == IF IsFree(h, h.prev[c]) THEN h.prev[c] ELSE c
        whole == IF IsFree(h, h.next[c]) THEN MergeNext(joined, kept, h.next[c])
                 ELSE [joined EXCEPT !.bUse[kept] = FALSE]
    IN IF ~ h.bUse[c] THEN h
       ELSE IF IsFree(h, h.prev[c]) THEN whole ELSE AddFree(whole, c)

\* poll_free: the freed chunk is joined to its free neighbours and what becomes of
\* them is in the free list.
LEMMA FreeIs ==
    ASSUME NEW h, HeapInv(h), NEW k \in UsedChunks(h)
    PROVE  LET r == poll_free(h, h.first[k] * BLOCKSIZE)
           IN HeapInv(r) /\ Frees(h, r, k)
<1> DEFINE U == UsedChunks(h)
           V == U \ {k}
           addr == h.first[k] * BLOCKSIZE
           before == h.prev[k]
           after == h.next[k]
           less == [h EXCEPT !.used_size = @ - h.count[k] * BLOCKSIZE]
           merged == MergeIntoPrev(less, k)
           r == poll_free(h, addr)
<1>1. PICK a, m, A, F, p : PoolInv(h, a, m, A, F, p, U, NULL, NULL) /\ Flags(h, A, U)
  BY DEF HeapInv
<1>2. /\ m \in Nat /\ A \subseteq ChunkNode /\ U \subseteq A /\ Numbered(a, m)
      /\ h.bUse \in [Chunk -> BOOLEAN]
      /\ \A i \in 0..(m - 1) : a[i] \in A /\ a[i] \in ChunkNode
      /\ \A c \in A : \E i \in 0..(m - 1) : a[i] = c
      /\ ChunkLists(h, a, m, A) /\ Alternates(U, a, m, NULL)
  BY <1>1, PoolFacts DEF PoolInv
<1>3. PICK j \in 0..(m - 1) : a[j] = k
  BY <1>2
<1>4. ChunkAt(h, addr) = k /\ h.bUse[k] = TRUE
  <2>1. ChunkAt(h, addr) = k
    BY UsedFacts
  <2>2. h.bUse[k] = TRUE
    BY <1>1, <1>2 DEF Flags
  <2> QED BY <2>1, <2>2
<1>5. /\ PoolInv(less, a, m, A, F, p, V, k, k)
      /\ less.bUse = h.bUse /\ less.first = h.first /\ less.count = h.count
  BY <1>1, Releases
<1>6. r = LET joined == IF IsFree(h, before) THEN merged ELSE less
              kept == IF IsFree(h, before) THEN before ELSE k
              whole == IF IsFree(h, after) THEN MergeNext(joined, kept, after)
                       ELSE [joined EXCEPT !.bUse[kept] = FALSE]
          IN IF IsFree(h, before) THEN whole ELSE AddFree(whole, k)
  <2>1. r = FreeOf(h, ChunkAt(h, addr))
    BY Zenon DEF poll_free, FreeOf
  <2>2. r = FreeOf(h, k)
    <3> HIDE DEF r, addr
    <3> QED BY <1>4, <2>1
  <2> HIDE DEF r, less
  <2>3. FreeOf(h, k) =
          LET joined == IF IsFree(h, before) THEN merged ELSE less
              kept == IF IsFree(h, before) THEN before ELSE k
              whole == IF IsFree(h, after) THEN MergeNext(joined, kept, after)
                       ELSE [joined EXCEPT !.bUse[kept] = FALSE]
          IN IF ~ h.bUse[k] THEN h ELSE IF IsFree(h, before) THEN whole ELSE AddFree(whole, k)
    BY Zenon DEF FreeOf, less
  <2> QED BY <1>4, <2>2, <2>3
<1>7. /\ h.prev[k] = Before(chunk_list, a, j) /\ h.next[k] = a[j + 1]
      /\ \A i \in Nat : i >= m => a[i] = NULL
  BY <1>2, <1>3, ChunksFacts
<1> HIDE DEF r, merged, less, U
<1>8. k \in U /\ k \notin V /\ U = V \cup {k} /\ V \subseteq A
  BY <1>2 DEF U
<1>9. \A i \in 0..(m - 1) : a[i] # k => (IsFree(h, a[i]) <=> a[i] \notin V)
  <2>1. NULL \notin ChunkNode
    BY NodeFacts
  <2>2. \A i \in 0..(m - 1) : a[i] # NULL /\ (h.bUse[a[i]] <=> a[i] \in U)
    BY <1>1, <1>2, <2>1 DEF Flags
  <2> QED BY <1>8, <2>2 DEF IsFree
<1>10. \A i \in 0..(m - 1) : i # j => a[i] # k
  BY <1>2, <1>3 DEF Numbered
<1>11. \A i, l \in 0..(m - 1) : l = i + 1 => a[i] \in U \/ a[l] \in U
  <2>1. NULL \notin ChunkNode
    BY NodeFacts
  <2> QED BY <1>2, <2>1 DEF Alternates
<1>12. /\ IsFree(h, before) => j > 0 /\ before = a[j - 1] /\ a[j - 1] \notin V
       /\ ~ IsFree(h, before) /\ j > 0 => a[j - 1] \in V
  <2>1. CASE j = 0
    <3>1. before = chunk_list
      BY <1>7, <2>1 DEF Before
    <3>2. ~ IsFree(h, before)
      BY <1>1, <3>1 DEF IsFree, Flags
    <3> QED BY <2>1, <3>2
  <2>2. CASE j # 0
    <3>1. before = a[j - 1] /\ j > 0
      BY <1>7, <2>2 DEF Before
    <3>2. j - 1 \in 0..(m - 1) /\ j - 1 # j
      BY <1>2, <2>2
    <3>3. IsFree(h, a[j - 1]) <=> a[j - 1] \notin V
      BY <1>9, <1>10, <3>2
    <3> QED BY <3>1, <3>3
  <2> QED BY <2>1, <2>2
<1>13. /\ IsFree(h, after) => j + 1 < m /\ after = a[j + 1] /\ a[j + 1] \notin V
       /\ ~ IsFree(h, after) /\ j + 1 < m => a[j + 1] \in V
  <2>1. CASE ~ (j + 1 < m)
    <3>1. a[j + 1] = NULL
      BY <1>2, <1>7, <2>1
    <3>2. ~ IsFree(h, after)
      BY <1>7, <3>1 DEF IsFree
    <3> QED BY <2>1, <3>2
  <2>2. CASE j + 1 < m
    <3>1. after = a[j + 1]
      BY <1>7
    <3>2. j + 1 \in 0..(m - 1) /\ j + 1 # j
      BY <1>2, <2>2
    <3>3. IsFree(h, a[j + 1]) <=> a[j + 1] \notin V
      BY <1>9, <1>10, <3>2
    <3> QED BY <2>2, <3>1, <3>3
  <2> QED BY <2>1, <2>2
<1>14. /\ j > 1 /\ a[j - 1] \notin V => a[j - 2] \in V
       /\ j + 2 < m /\ a[j + 1] \notin V => a[j + 2] \in V
  <2>1. ASSUME j > 1, a[j - 1] \notin V PROVE a[j - 2] \in V
    <3>1. /\ j - 2 \in 0..(m - 1) /\ j - 1 \in 0..(m - 1) /\ j - 1 = (j - 2) + 1
          /\ j - 2 # j /\ j - 1 # j
      BY <1>2, <2>1
    <3>2. a[j - 2] \in U \/ a[j - 1] \in U
      BY <1>11, <3>1
    <3> QED BY <1>8, <1>10, <2>1, <3>1, <3>2
  <2>2. ASSUME j + 2 < m, a[j + 1] \notin V PROVE a[j + 2] \in V
    <3>1. /\ j + 1 \in 0..(m - 1) /\ j + 2 \in 0..(m - 1) /\ j + 2 = (j + 1) + 1
          /\ j + 1 # j /\ j + 2 # j
      BY <1>2, <2>2
    <3>2. a[j + 1] \in U \/ a[j + 2] \in U
      BY <1>11, <3>1
    <3> QED BY <1>8, <1>10, <2>2, <3>1, <3>2
  <2> QED BY <2>1, <2>2
<1>15. Flags(less, A, V \cup {k})
  BY <1>1, <1>5, <1>8 DEF Flags
<1> HIDE DEF V
<1>16. Freed(less, r, V)
  <2>1. CASE ~ IsFree(h, before) /\ ~ IsFree(h, after)
    <3>1. r = AddFree([less EXCEPT !.bUse[k] = FALSE], k)
      BY <1>6, <2>1
    <3>2. /\ a[j] \notin V /\ PoolInv(less, a, m, A, F, p, V, a[j], a[j])
          /\ Flags(less, A, V \cup {a[j]})
          /\ j > 0 => a[j - 1] \in V
          /\ j + 1 < m => a[j + 1] \in V
      BY <1>3, <1>5, <1>8, <1>12, <1>13, <1>15, <2>1
    <3>3. Freed(less, AddFree([less EXCEPT !.bUse[a[j]] = FALSE], a[j]), V)
      BY <3>2, FreesAlone
    <3> QED BY <1>3, <3>1, <3>3
  <2>2. CASE ~ IsFree(h, before) /\ IsFree(h, after)
    <3>1. r = AddFree(MergeNext(less, k, after), k)
      BY <1>6, <2>2
    <3>2. /\ a[j] \notin V /\ PoolInv(less, a, m, A, F, p, V, a[j], a[j])
          /\ Flags(less, A, V \cup {a[j]})
          /\ j > 0 => a[j - 1] \in V
          /\ j + 1 \in 0..(m - 1) /\ a[j + 1] \notin V
          /\ j + 2 < m => a[j + 2] \in V
      BY <1>2, <1>3, <1>5, <1>8, <1>12, <1>13, <1>14, <1>15, <2>2
    <3>3. Freed(less, AddFree(MergeNext(less, a[j], a[j + 1]), a[j]), V)
      BY <3>2, FreesBeforeFree
    <3>4. after = a[j + 1]
      BY <1>7
    <3> QED BY <1>3, <3>1, <3>3, <3>4
  <2>3. CASE IsFree(h, before) /\ ~ IsFree(h, after)
    <3> DEFINE i == j - 1
    <3>0. i + 1 = j /\ i + 2 = j + 1 /\ i - 1 = j - 2 /\ i \in 0..(m - 1) /\ j > 0
          /\ (i > 0 <=> j > 1)
      BY <1>2, <1>12, <2>3
    <3>1. r = [merged EXCEPT !.bUse[a[i]] = FALSE]
      BY <1>6, <1>12, <2>3
    <3> HIDE DEF i
    <3>2. a[i] \notin V /\ a[i + 1] \notin V /\ i + 1 \in 0..(m - 1)
      BY <1>3, <1>8, <1>12, <2>3, <3>0 DEF i
    <3>3. /\ PoolInv(less, a, m, A, F, p, V, a[i + 1], a[i + 1])
          /\ Flags(less, A, V \cup {a[i + 1]})
      BY <1>3, <1>5, <1>15, <3>0
    <3>4. i > 0 => a[i - 1] \in V
      BY <1>14, <3>0, <3>2 DEF i
    <3>5. i + 2 < m => a[i + 2] \in V
      BY <1>13, <2>3, <3>0
    <3>6. Freed(less, [MergeIntoPrev(less, a[i + 1]) EXCEPT !.bUse[a[i]] = FALSE], V)
      BY <3>0, <3>2, <3>3, <3>4, <3>5, FreesAfterFree
    <3> QED BY <1>3, <3>0, <3>1, <3>6 DEF merged
  <2>4. CASE IsFree(h, before) /\ IsFree(h, after)
    <3> DEFINE i == j - 1
    <3>0. /\ i + 1 = j /\ i + 2 = j + 1 /\ i + 3 = j + 2 /\ i - 1 = j - 2
          /\ i \in 0..(m - 1) /\ j > 0 /\ (i > 0 <=> j > 1)
      BY <1>2, <1>12, <2>4
    <3>1. r = MergeNext(merged, a[i], after)
      BY <1>6, <1>12, <2>4
    <3> HIDE DEF i
    <3>2. /\ a[i] \notin V /\ a[i + 1] \notin V /\ i + 1 \in 0..(m - 1)
          /\ a[i + 2] \notin V /\ i + 2 \in 0..(m - 1)
      BY <1>2, <1>3, <1>8, <1>12, <1>13, <2>4, <3>0 DEF i
    <3>3. /\ PoolInv(less, a, m, A, F, p, V, a[i + 1], a[i + 1])
          /\ Flags(less, A, V \cup {a[i + 1]})
      BY <1>3, <1>5, <1>15, <3>0
    <3>4. i > 0 => a[i - 1] \in V
      BY <1>14, <3>0, <3>2 DEF i
    <3>5. i + 3 < m => a[i + 3] \in V
      BY <1>14, <3>0, <3>2
    <3>6. Freed(less, MergeNext(MergeIntoPrev(less, a[i + 1]), a[i], a[i + 2]), V)
      BY <3>0, <3>2, <3>3, <3>4, <3>5, FreesBetween
    <3>7. after = a[i + 2]
      BY <1>7, <3>0
    <3> QED BY <1>3, <3>0, <3>1, <3>6, <3>7 DEF merged
  <2> QED BY <2>1, <2>2, <2>3, <2>4
<1>17. HeapInv(r) /\ UsedChunks(r) = V
  BY <1>16, HeapInvIs DEF Freed
<1>18. \A d \in V : r.first[d] = h.first[d] /\ r.count[d] = h.count[d]
  BY <1>5, <1>16 DEF Freed
<1> QED BY <1>17, <1>18 DEF Frees, r, U, V

\* The heap of create_memory_poll before its one chunk is put into the lists
Bare ==
    LET chain(from, to) == [n \in from..to |-> IF n = to THEN NULL ELSE n + 1]
    IN [next |-> [n \in Node |->
                CASE n = chunk_cache -> 1
                  [] n = free_cache -> Blocks + 1
                  [] n \in ChunkNode -> chain(1, Blocks)[n]
                  [] n \in PointNode -> chain(Blocks + 1, Blocks + Points)[n]
                  [] OTHER -> NULL],
              prev |-> [n \in Node |->
                CASE n = 1 -> chunk_cache
                  [] n = Blocks + 1 -> free_cache
                  [] n \in Head -> NULL
                  [] OTHER -> n - 1],
              count |-> [c \in ChunkNode |-> IF c = 1 THEN Blocks ELSE 0],
              first |-> [c \in ChunkNode |-> 0],
              bUse |-> [c \in Chunk |-> c = chunk_list],
              pfree |-> [c \in ChunkNode |-> NULL],
              data |-> [p \in PointNode |-> NULL],
              owner |-> [b \in Block |-> NULL],
              used_size |-> 0]

\* The fields of the bare heap
LEMMA BareIs ==
    /\ Bare \in HeapType
    /\ Bare.next[chunk_list] = NULL /\ Bare.next[free_list] = NULL
    /\ Bare.next[chunk_cache] = 1 /\ Bare.next[free_cache] = Blocks + 1
    /\ \A n \in ChunkNode : Bare.next[n] = IF n = Blocks THEN NULL ELSE n + 1
    /\ \A n \in PointNode : Bare.next[n] = IF n = Blocks + Points THEN NULL ELSE n + 1
    /\ 1 \in ChunkNode /\ Bare.count[1] = Blocks /\ Bare.first[1] = 0
    /\ Bare.bUse[chunk_list] = TRUE /\ Bare.bUse[1] = FALSE
    /\ Bare.used_size = 0
<1> DEFINE N(n) == CASE n = chunk_cache -> 1
                     [] n = free_cache -> Blocks + 1
                     [] n \in ChunkNode -> [i \in 1..Blocks |-> IF i = Blocks THEN NULL ELSE i + 1][n]
                     [] n \in PointNode -> [i \in (Blocks + 1)..(Blocks + Points) |->
                                             IF i = Blocks + Points THEN NULL ELSE i + 1][n]
                     [] OTHER -> NULL
           P(n) == CASE n = 1 -> chunk_cache
                     [] n = Blocks + 1 -> free_cache
                     [] n \in Head -> NULL
                     [] OTHER -> n - 1
<1>1. /\ Blocks \in Nat /\ Blocks > 0 /\ Points \in Nat /\ NULL = 0
      /\ chunk_list = -1 /\ chunk_cache = -2 /\ free_list = -3 /\ free_cache = -4
      /\ Head = {chunk_list, chunk_cache, free_list, free_cache}
      /\ ChunkNode = 1..Blocks /\ PointNode = (Blocks + 1)..(Blocks + Points)
  BY PoolAssumption, NodeFacts
     DEF NULL, chunk_list, chunk_cache, free_list, free_cache, Head, ChunkNode, PointNode
<1>2. /\ N(chunk_list) = NULL /\ N(free_list) = NULL
      /\ N(chunk_cache) = 1 /\ N(free_cache) = Blocks + 1
  BY <1>1
<1>3. \A n \in ChunkNode : N(n) = IF n = Blocks THEN NULL ELSE n + 1
  BY <1>1
<1>4. \A n \in PointNode : N(n) = IF n = Blocks + Points THEN NULL ELSE n + 1
  BY <1>1
<1>5. \A n \in Node : N(n) \in Int
  <2> TAKE n \in Node
  <2>1. n \in ChunkNode \/ n \in PointNode \/ n \in {chunk_list, chunk_cache, free_list, free_cache}
    BY DEF Node, Head
  <2> HIDE DEF N
  <2> QED BY <1>1, <1>2, <1>3, <1>4, <2>1
<1>6. \A n \in Node : P(n) \in Int
  <2> TAKE n \in Node
  <2>1. n \in Int
    BY NodeFacts
  <2> QED BY <1>1, <2>1
<1> DEFINE r == [next |-> [n \in Node |-> N(n)], prev |-> [n \in Node |-> P(n)],
              count |-> [c \in ChunkNode |-> IF c = 1 THEN Blocks ELSE 0],
              first |-> [c \in ChunkNode |-> 0],
              bUse |-> [c \in Chunk |-> c = chunk_list],
              pfree |-> [c \in ChunkNode |-> NULL],
              data |-> [p \in PointNode |-> NULL],
              owner |-> [b \in Block |-> NULL],
              used_size |-> 0]
<1>7. Bare = r
  BY Zenon DEF Bare
<1> HIDE DEF N, P
<1>8. r \in HeapType
  BY <1>1, <1>5, <1>6 DEF HeapType
<1>9. /\ chunk_list \in Node /\ chunk_cache \in Node /\ free_list \in Node
      /\ free_cache \in Node /\ ChunkNode \subseteq Node /\ PointNode \subseteq Node
      /\ chunk_list \in Chunk /\ 1 \in Chunk /\ 1 \in ChunkNode /\ 1 # chunk_list
  BY <1>1 DEF Node, Chunk, Head
<1>10. /\ r.bUse[chunk_list] = TRUE /\ r.bUse[1] = FALSE
  BY <1>9
<1> QED BY <1>1, <1>2, <1>3, <1>4, <1>7, <1>8, <1>9, <1>10

\* Before anything is allocated, all nodes are in the caches.
LEMMA BareLists ==
    /\ Sharing(Bare, chunk_list, [i \in Nat |-> NULL], 0, {}, chunk_cache,
               [i \in Nat |-> IF i < Blocks THEN i + 1 ELSE NULL], Blocks,
               ChunkNode, ChunkNode)
    /\ Pointers(Bare, {}, 0)
<1> DEFINE s == [i \in Nat |-> NULL]
           t == [i \in Nat |-> IF i < Blocks THEN i + 1 ELSE NULL]
           u == [i \in Nat |-> IF i < Points THEN Blocks + i + 1 ELSE NULL]
<1>1. Blocks \in Nat /\ Blocks > 0 /\ Points \in Nat /\ Points > 0 /\ NULL = 0
  <2>1. Points > 0
    BY PoolAssumption, DivBounds DEF Points
  <2> QED BY <2>1, PoolAssumption, NodeFacts
<1>2. /\ \A i \in Nat : s[i] = NULL
      /\ \A i \in Nat : t[i] = IF i < Blocks THEN i + 1 ELSE NULL
      /\ \A i \in Nat : u[i] = IF i < Points THEN Blocks + i + 1 ELSE NULL
  OBVIOUS
<1> HIDE DEF s, t, u
<1>3. List(Bare.next, chunk_list, s, 0, {}) /\ List(Bare.next, free_list, s, 0, {})
  BY <1>2, BareIs DEF List
<1>4. List(Bare.next, chunk_cache, t, Blocks, ChunkNode)
  <2>1. Bare.next[chunk_cache] = t[0]
    BY <1>1, <1>2, BareIs
  <2>2. ASSUME NEW i \in Nat
        PROVE  IF i < Blocks THEN t[i] \in ChunkNode /\ Bare.next[t[i]] = t[i + 1]
               ELSE t[i] = NULL
    <3>1. CASE i < Blocks
      <4>1. t[i] = i + 1 /\ i + 1 \in ChunkNode
        BY <1>1, <1>2, <3>1 DEF ChunkNode
      <4>2. Bare.next[i + 1] = IF i + 1 = Blocks THEN NULL ELSE (i + 1) + 1
        BY <4>1, BareIs
      <4>3. t[i + 1] = IF i + 1 < Blocks THEN (i + 1) + 1 ELSE NULL
        BY <1>2
      <4> QED BY <1>1, <3>1, <4>1, <4>2, <4>3
    <3>2. CASE ~ (i < Blocks)
      BY <1>2, <3>2
    <3> QED BY <3>1, <3>2
  <2>3. \A i, j \in 0..(Blocks - 1) : t[i] = t[j] => i = j
    BY <1>1, <1>2
  <2>4. \A x \in ChunkNode : \E i \in 0..(Blocks - 1) : t[i] = x
    <3> TAKE x \in ChunkNode
    <3>1. x - 1 \in 0..(Blocks - 1) /\ t[x - 1] = x
      BY <1>1, <1>2 DEF ChunkNode
    <3> QED BY <3>1
  <2> QED BY <1>1, <2>1, <2>2, <2>3, <2>4 DEF List
<1>5. List(Bare.next, free_cache, u, Points, PointNode)
  <2>1. Bare.next[free_cache] = u[0]
    BY <1>1, <1>2, BareIs
  <2>2. ASSUME NEW i \in Nat
        PROVE  IF i < Points THEN u[i] \in PointNode /\ Bare.next[u[i]] = u[i + 1]
               ELSE u[i] = NULL
    <3>1. CASE i < Points
      <4>1. u[i] = Blocks + i + 1 /\ Blocks + i + 1 \in PointNode
        BY <1>1, <1>2, <3>1 DEF PointNode
      <4>2. Bare.next[Blocks + i + 1] =
              IF Blocks + i + 1 = Blocks + Points THEN NULL ELSE (Blocks + i + 1) + 1
        BY <4>1, BareIs
      <4>3. u[i + 1] = IF i + 1 < Points THEN Blocks + (i + 1) + 1 ELSE NULL
        BY <1>2
      <4> QED BY <1>1, <3>1, <4>1, <4>2, <4>3
    <3>2. CASE ~ (i < Points)
      BY <1>2, <3>2
    <3> QED BY <3>1, <3>2
  <2>3. \A i, j \in 0..(Points - 1) : u[i] = u[j] => i = j
    BY <1>1, <1>2
  <2>4. \A x \in PointNode : \E i \in 0..(Points - 1) : u[i] = x
    <3> TAKE x \in PointNode
    <3>1. (x - 1) - Blocks \in 0..(Points - 1) /\ u[(x - 1) - Blocks] = x
      BY <1>1, <1>2 DEF PointNode
    <3> QED BY <3>1
  <2> QED BY <1>1, <2>1, <2>2, <2>3, <2>4 DEF List
<1>6. /\ Back(Bare.prev, chunk_list, s, 0) /\ Back(Bare.prev, free_list, s, 0)
  BY DEF Back
<1>7. /\ ChunkNode \subseteq Node /\ PointNode \subseteq Node
      /\ NULL \notin ChunkNode /\ NULL \notin PointNode
      /\ chunk_list \notin ChunkNode /\ chunk_cache \notin ChunkNode
      /\ free_list \notin PointNode /\ free_cache \notin PointNode
      /\ chunk_list # chunk_cache /\ free_list # free_cache
      /\ chunk_list \in Node /\ chunk_cache \in Node
      /\ free_list \in Node /\ free_cache \in Node
  BY NodeFacts
<1>8. Sharing(Bare, chunk_list, s, 0, {}, chunk_cache, t, Blocks, ChunkNode, ChunkNode)
  BY <1>3, <1>4, <1>6, <1>7 DEF Sharing, Shared
<1>9. Sharing(Bare, free_list, s, 0, {}, free_cache, u, Points, PointNode, PointNode)
  BY <1>3, <1>5, <1>6, <1>7 DEF Sharing, Shared
<1>10. Pointers(Bare, {}, 0)
  <2>1. 0 + Points = Points
    BY <1>1
  <2> QED BY <1>9, <2>1 DEF Pointers
<1> QED BY <1>8, <1>10 DEF s, t

\* What putting the first node of the cache into a list makes
Enlisted(h, u, r, head, s, m, S, spare, t, n, T, X) ==
    /\ r \in HeapType /\ SameData(u, r)
    /\ Sharing(r, head, Ins(s, 0, t[0]), m + 1, S \cup {t[0]},
               spare, Del(t, 0), n - 1, T \ {t[0]}, X)
    /\ Apart(h, r, head, spare, X)

\* Enlists, with its conclusion named
LEMMA EnlistsIn ==
    ASSUME NEW h \in HeapType, NEW head, NEW s, NEW m, NEW S, NEW spare, NEW t,
           NEW n, NEW T, NEW X, Sharing(h, head, s, m, S, spare, t, n, T, X),
           n # 0, NEW u \in HeapType, u.next = Unlink(h, spare).next,
           u.prev = h.prev
    PROVE  Enlisted(h, u, PushFront(u, head, t[0]), head, s, m, S, spare, t, n, T, X)
<1>1. LET r == PushFront(u, head, t[0])
      IN /\ t[0] \in T /\ h.next[spare] = t[0]
         /\ r \in HeapType /\ SameData(u, r)
         /\ Sharing(r, head, Ins(s, 0, t[0]), m + 1, S \cup {t[0]},
                    spare, Del(t, 0), n - 1, T \ {t[0]}, X)
         /\ Apart(h, r, head, spare, X)
  BY Enlists, ZenonT(60)
<1> QED BY <1>1, Zenon DEF Enlisted

\* create_memory_poll
LEMMA FreshIs ==
    HeapInv(FreshHeap) /\ UsedChunks(FreshHeap) = {}
<1> DEFINE s == [i \in Nat |-> NULL]
           t == [i \in Nat |-> IF i < Blocks THEN i + 1 ELSE NULL]
           u == Unlink(Bare, chunk_cache)
           r == PushFront(u, chunk_list, 1)
           a == Ins(s, 0, 1)
<1>1. FreshHeap = AddFree(r, 1)
  BY Zenon DEF FreshHeap, Bare
<1>2. /\ Sharing(Bare, chunk_list, s, 0, {}, chunk_cache, t, Blocks, ChunkNode, ChunkNode)
      /\ Pointers(Bare, {}, 0)
  BY BareLists
<1>3. t[0] = 1 /\ Blocks # 0 /\ Blocks \in Nat
  BY PoolAssumption
<1>4. /\ u \in HeapType /\ SameData(Bare, u) /\ u.prev = Bare.prev
      /\ u.next = Unlink(Bare, chunk_cache).next
  <2>1. Bare.next[chunk_cache] \in Node /\ chunk_cache \in Node /\ Bare \in HeapType
    BY BareIs, NodeFacts
  <2> QED BY <2>1, UnlinkIs
<1> HIDE DEF s, t, u
<1>5. /\ r \in HeapType /\ SameData(u, r)
      /\ Sharing(r, chunk_list, Ins(s, 0, t[0]), 0 + 1, {} \cup {t[0]},
                 chunk_cache, Del(t, 0), Blocks - 1, ChunkNode \ {t[0]}, ChunkNode)
      /\ Apart(Bare, r, chunk_list, chunk_cache, ChunkNode)
  <2>1. Bare \in HeapType
    BY BareIs
  <2>2. Enlisted(Bare, u, PushFront(u, chunk_list, t[0]), chunk_list, s, 0, {},
                 chunk_cache, t, Blocks, ChunkNode, ChunkNode)
    BY <1>2, <1>3, <1>4, <2>1, EnlistsIn
  <2>3. Enlisted(Bare, u, r, chunk_list, s, 0, {}, chunk_cache, t, Blocks, ChunkNode, ChunkNode)
    BY <1>3, <2>2
  <2> HIDE DEF r
  <2> QED BY <2>3, Zenon DEF Enlisted
<1> HIDE DEF r
<1>6. ChunkLists(r, a, 1, {1}) /\ Pointers(r, {}, 0)
  <2>1. Sharing(r, chunk_list, a, 1, {1}, chunk_cache, Del(t, 0), Blocks - 1,
                ChunkNode \ {1}, ChunkNode)
    <3>1. 0 + 1 = 1 /\ {} \cup {1} = {1}
      OBVIOUS
    <3> HIDE DEF a
    <3>2. Ins(s, 0, t[0]) = a
      BY <1>3 DEF a
    <3> QED BY <1>3, <1>5, <3>1, <3>2
  <2>2. 1 + (Blocks - 1) = Blocks
    BY <1>3
  <2>3. Pointers(r, {}, 0)
    BY <1>2, <1>5, ChunksApart
  <2> QED BY <2>1, <2>2, <2>3 DEF ChunkLists
<1>7. /\ r.first[1] = 0 /\ r.count[1] = Blocks /\ r.used_size = 0
      /\ r.bUse[chunk_list] = TRUE /\ r.bUse[1] = FALSE /\ 1 \in ChunkNode
  BY <1>4, <1>5, BareIs DEF SameData
<1>8. a[0] = 1
  BY DEF Ins
<1> HIDE DEF a
<1>9. PoolInv(r, a, 1, {1}, {}, 0, {}, 1, NULL)
  <2>1. Tiles(r.first, r.count, a, 1)
    BY <1>3, <1>7, <1>8 DEF Tiles, Ends
  <2>2. Alternates({}, a, 1, NULL)
    BY DEF Alternates
  <2>3. Indexed(r, {1}, {}, {}, 1)
    BY DEF Indexed
  <2>4. Owned(r, {1}, {})
    BY <1>7 DEF Owned
  <2>5. r.used_size = BLOCKSIZE * SumOver(r.count, {})
    BY <1>7, SumOfNone, PoolAssumption
  <2> QED BY <1>5, <1>6, <2>1, <2>2, <2>3, <2>4, <2>5 DEF PoolInv
<1>10. /\ \E w : PoolInv(AddFree(r, 1), a, 1, {1}, {} \cup {w}, 0 + 1, {}, NULL, NULL)
       /\ AddFree(r, 1).bUse = r.bUse
  <2>1. 1 \in {1}
    OBVIOUS
  <2> QED BY <1>9, <2>1, Listing, ZenonT(60)
<1>11. Flags(AddFree(r, 1), {1}, {})
  <2>1. AddFree(r, 1).bUse[chunk_list] = TRUE /\ AddFree(r, 1).bUse[1] = FALSE
    BY <1>7, <1>10
  <2>2. \A c \in {1} : (c \in {}) = FALSE /\ c = 1
    OBVIOUS
  <2> QED BY <2>1, <2>2, Zenon DEF Flags
<1> QED BY <1>1, <1>10, <1>11, HeapInvIs

-----------------------------------------------------------------------------
(* What the invariant says of the heap. *)

\* The chunks tile the pool and the free list has every free one once.
LEMMA TiledIs ==
    ASSUME NEW h, HeapInv(h)
    PROVE  Tiled(h) /\ FreeIndexed(h)
<1> DEFINE U == UsedChunks(h)
           at == Walk(h, chunk_list)
<1>1. PICK a, m, A, F, p : PoolInv(h, a, m, A, F, p, U, NULL, NULL) /\ Flags(h, A, U)
  BY DEF HeapInv
<1>2. /\ ChunkLists(h, a, m, A) /\ Pointers(h, F, p) /\ U \subseteq A
      /\ Tiles(h.first, h.count, a, m) /\ Alternates(U, a, m, NULL)
      /\ Indexed(h, A, F, U, NULL)
  BY <1>1 DEF PoolInv
<1>3. /\ m \in Nat /\ m > 0 /\ m <= Blocks /\ Blocks \in Nat /\ Points \in Nat
      /\ \A i \in 0..(m - 1) : a[i] \in A /\ a[i] # NULL
      /\ \A i \in Nat : i >= m => a[i] = NULL
      /\ \A i \in 0..(m - 1) : h.prev[a[i]] = Before(chunk_list, a, i)
      /\ \A i \in 0..(Blocks + Points + 1) : at[i] = a[i]
      /\ Chunks(h) = A
  <2>1. m \in Nat /\ m > 0
    BY <1>1, PoolFacts
  <2>2. Blocks \in Nat /\ Points \in Nat
    BY PoolAssumption, NodeFacts
  <2> QED BY <1>2, <2>1, <2>2, ChunksFacts
<1> HIDE DEF at
<1>4. at[0] # NULL /\ h.first[at[0]] = 0 /\ h.prev[at[0]] = chunk_list
  <2>1. at[0] = a[0] /\ 0 \in 0..(m - 1)
    BY <1>3
  <2>2. h.prev[a[0]] = chunk_list
    BY <1>3, <2>1 DEF Before
  <2> QED BY <1>2, <1>3, <2>1, <2>2 DEF Tiles
<1>5. ASSUME NEW i \in 0..(Blocks - 1), at[i] # NULL
      PROVE  /\ h.count[at[i]] > 0
             /\ IF at[i + 1] = NULL
                THEN h.first[at[i]] + h.count[at[i]] = Blocks
                ELSE /\ h.first[at[i + 1]] = h.first[at[i]] + h.count[at[i]]
                     /\ h.prev[at[i + 1]] = at[i]
                     /\ h.bUse[at[i]] \/ h.bUse[at[i + 1]]
  <2>1. at[i] = a[i] /\ at[i + 1] = a[i + 1]
    BY <1>3
  <2>2. i \in 0..(m - 1)
    BY <1>3, <1>5, <2>1
  <2>3. h.count[a[i]] > 0 /\ h.first[a[i]] + h.count[a[i]] = Ends(h.first, a, m, i)
    BY <1>2, <2>2 DEF Tiles
  <2>4. CASE a[i + 1] = NULL
    <3>1. ~ (i + 1 < m)
      BY <1>3, <2>4
    <3> QED BY <2>1, <2>3, <2>4, <3>1 DEF Ends
  <2>5. CASE a[i + 1] # NULL
    <3>1. i + 1 < m /\ i + 1 \in 0..(m - 1) /\ i + 1 # 0 /\ (i + 1) - 1 = i
      BY <1>3, <2>5
    <3>2. h.prev[a[i + 1]] = a[i]
      BY <1>3, <3>1 DEF Before
    <3>3. a[i] \in U \/ a[i + 1] \in U
      BY <1>2, <1>3, <2>2, <3>1 DEF Alternates
    <3>4. h.bUse[a[i]] \/ h.bUse[a[i + 1]]
      BY <3>3 DEF UsedChunks
    <3> QED BY <2>1, <2>3, <2>5, <3>1, <3>2, <3>4 DEF Ends
  <2> QED BY <2>4, <2>5
<1>6. Tiled(h)
  BY <1>4, <1>5 DEF Tiled, at
<1>7. Listed(h, free_list) = F
  BY <1>2, PointersFacts
<1>8. FreeChunks(h) = A \ U
  BY <1>3 DEF FreeChunks
<1>9. \A q \in F : h.data[q] \in A \ U /\ h.pfree[h.data[q]] = q
  BY <1>2 DEF Indexed
<1>10. \A c \in A \ U : \E q \in F : h.data[q] = c
  <2>1. NULL \notin A
    BY <1>1, PoolFacts, NodeFacts
  <2> QED BY <1>2, <2>1 DEF Indexed
<1>11. {h.data[q] : q \in F} = A \ U
  BY <1>9, <1>10
<1>12. FreeIndexed(h)
  BY <1>7, <1>8, <1>9, <1>11 DEF FreeIndexed
<1> QED BY <1>6, <1>12

\* Every node is in one list of its kind, and used_size counts what is out.
LEMMA NodesAre ==
    ASSUME NEW h, HeapInv(h)
    PROVE  /\ Chunks(h) \cap Listed(h, chunk_cache) = {}
           /\ Chunks(h) \cup Listed(h, chunk_cache) = ChunkNode
           /\ Listed(h, free_list) \cap Listed(h, free_cache) = {}
           /\ Listed(h, free_list) \cup Listed(h, free_cache) = PointNode
           /\ h.used_size = BLOCKSIZE * SumOver(h.count, UsedChunks(h))
<1>1. PICK a, m, A, F, p : PoolInv(h, a, m, A, F, p, UsedChunks(h), NULL, NULL)
  BY DEF HeapInv
<1>2. /\ ChunkLists(h, a, m, A) /\ Pointers(h, F, p)
      /\ h.used_size = BLOCKSIZE * SumOver(h.count, UsedChunks(h))
  BY <1>1 DEF PoolInv
<1>3. Chunks(h) = A /\ Listed(h, chunk_cache) = ChunkNode \ A /\ A \subseteq ChunkNode
  BY <1>2, ChunksFacts
<1>4. Listed(h, free_list) = F /\ Listed(h, free_cache) = PointNode \ F /\ F \subseteq PointNode
  BY <1>2, PointersFacts
<1> QED BY <1>2, <1>3, <1>4

-----------------------------------------------------------------------------
(* The calls as the buffers see them: by addresses. *)

\* The addresses that are handed out
Addresses(h) == {h.first[k] * BLOCKSIZE : k \in UsedChunks(h)}

\* There are size bytes at the address b.
Room(h, b, size) ==
    \A k \in UsedChunks(h) : h.first[k] * BLOCKSIZE = b => size <= h.count[k] * BLOCKSIZE

\* Two used chunks have two addresses.
LEMMA AddressFacts ==
    ASSUME NEW h, HeapInv(h)
    PROVE  /\ \A k, l \in UsedChunks(h) :
                h.first[k] * BLOCKSIZE = h.first[l] * BLOCKSIZE => k = l
           /\ \A b \in Addresses(h) : b \in Nat /\ b # None
           /\ \A b \in Addresses(h) :
                /\ ChunkAt(h, b) \in UsedChunks(h)
                /\ h.first[ChunkAt(h, b)] * BLOCKSIZE = b
<1>1. \A k \in UsedChunks(h) : /\ h.first[k] \in Int /\ 0 <= h.first[k]
                               /\ h.count[k] \in Int /\ 0 < h.count[k]
                               /\ ChunkAt(h, h.first[k] * BLOCKSIZE) = k
  BY UsedFacts
<1>2. \A k \in UsedChunks(h) : h.first[k] * BLOCKSIZE \in Nat
  BY <1>1, PoolAssumption
<1>3. \A b \in Nat : b # None
  BY DEF None
<1> QED BY <1>1, <1>2, <1>3 DEF Addresses

\* What an allocation does to them
Hands(h, r, b, size) ==
    /\ HeapInv(r)
    /\ b \in Nat /\ b # None /\ b \notin Addresses(h)
    /\ Addresses(r) = Addresses(h) \cup {b}
    /\ Room(r, b, size)
    /\ \A e, z : e # b /\ Room(h, e, z) => Room(r, e, z)

\* poll_alloc hands out an address that nobody has, with the room asked for.
LEMMA AllocHands ==
    ASSUME NEW h, HeapInv(h), NEW size \in Nat, 0 # size, CanAlloc(h, size),
           uptoblock(size) \div BLOCKSIZE # Blocks \/ UsedChunks(h) # {}
    PROVE  Hands(h, poll_alloc(h, size).heap, poll_alloc(h, size).addr, size)
<1> DEFINE r == poll_alloc(h, size).heap
           b == poll_alloc(h, size).addr
           n == uptoblock(size) \div BLOCKSIZE
           U == UsedChunks(h)
<1>1. HeapInv(r) /\ Allocates(h, r, b, n)
  BY AllocIs
<1>2. n \in Nat /\ size <= BLOCKSIZE * n
  BY BlocksOf
<1> HIDE DEF r, b, n
<1>3. PICK k \in ChunkNode \ U :
        /\ UsedChunks(r) = U \cup {k}
        /\ r.first[k] * BLOCKSIZE = b /\ r.count[k] = n
        /\ \A d \in U : r.first[d] = h.first[d] /\ r.count[d] = h.count[d]
  BY <1>1 DEF Allocates
<1> HIDE DEF U
<1>4. /\ \A d, l \in U \cup {k} : r.first[d] * BLOCKSIZE = r.first[l] * BLOCKSIZE => d = l
      /\ \A e \in Addresses(r) : e \in Nat /\ e # None
  BY <1>1, <1>3, AddressFacts
<1>5. Addresses(r) = Addresses(h) \cup {b}
  BY <1>3 DEF Addresses, U
<1>6. b \notin Addresses(h)
  <2> SUFFICES ASSUME NEW d \in U, h.first[d] * BLOCKSIZE = b PROVE FALSE
    BY DEF Addresses, U
  <2>1. r.first[d] * BLOCKSIZE = r.first[k] * BLOCKSIZE
    BY <1>3
  <2> QED BY <1>3, <1>4, <2>1
<1>7. Room(r, b, size)
  <2>1. \A d \in U \cup {k} : r.first[d] * BLOCKSIZE = b => d = k
    BY <1>3, <1>4
  <2>2. size <= r.count[k] * BLOCKSIZE
    BY <1>2, <1>3, PoolAssumption
  <2> QED BY <1>3, <2>1, <2>2 DEF Room
<1>8. ASSUME NEW e, NEW z, e # b, Room(h, e, z) PROVE Room(r, e, z)
  BY <1>3, <1>8 DEF Room, U
<1>9. b \in Addresses(r)
  BY <1>5
<1> QED BY <1>1, <1>4, <1>5, <1>6, <1>7, <1>8, <1>9 DEF Hands, r, b

\* What a free does to them
Returns(h, r, b) ==
    /\ HeapInv(r)
    /\ Addresses(r) = Addresses(h) \ {b}
    /\ \A e, z : Room(h, e, z) => Room(r, e, z)

\* poll_free takes one address back and leaves the others.
LEMMA FreeReturns ==
    ASSUME NEW h, HeapInv(h), NEW b \in Addresses(h)
    PROVE  Returns(h, poll_free(h, b), b)
<1> DEFINE r == poll_free(h, b)
           U == UsedChunks(h)
<1>1. PICK k \in U : h.first[k] * BLOCKSIZE = b
  BY DEF Addresses
<1>2. HeapInv(r) /\ Frees(h, r, k)
  <2>1. HeapInv(poll_free(h, h.first[k] * BLOCKSIZE))
        /\ Frees(h, poll_free(h, h.first[k] * BLOCKSIZE), k)
    BY FreeIs
  <2> QED BY <1>1, <2>1
<1> HIDE DEF r
<1>3. /\ UsedChunks(r) = U \ {k}
      /\ \A d \in U \ {k} : r.first[d] = h.first[d] /\ r.count[d] = h.count[d]
  BY <1>2 DEF Frees
<1>4. \A d, l \in U : h.first[d] * BLOCKSIZE = h.first[l] * BLOCKSIZE => d = l
  BY AddressFacts
<1>5. Addresses(r) = Addresses(h) \ {b}
  <2>1. Addresses(r) = {h.first[d] * BLOCKSIZE : d \in U \ {k}}
    BY <1>3 DEF Addresses
  <2>2. Addresses(h) = {h.first[d] * BLOCKSIZE : d \in U}
    BY DEF Addresses
  <2> HIDE DEF U
  <2> QED BY <1>1, <1>4, <2>1, <2>2
<1>6. \A e, z : Room(h, e, z) => Room(r, e, z)
  BY <1>3 DEF Room
<1> QED BY <1>2, <1>5, <1>6 DEF Returns, r

-----------------------------------------------------------------------------
(* The invariant of the buffers. *)

\* The types of _dataCache and of a buffer that is growing
CacheType == [buf : Int, size : Nat, index : Nat, use : Nat]
GrowType == [buf : Int, size : Nat, add : Nat]

\* An item's buffer
CacheKept(c) ==
    /\ cache[c].buf = None => cache[c] = NoCache
    /\ cache[c].index + cache[c].use <= cache[c].size
    /\ cache[c].buf # None => /\ cache[c].use > 0
                              /\ Room(heap, cache[c].buf, cache[c].size)

\* A buffer that is growing: no close gets in between, which would give the old
\* one back.
GrowthKept(c) ==
    grow[c] # NoGrowth =>
        /\ grow[c].buf # None /\ cache[c].buf # None /\ cache[c].buf # grow[c].buf
        /\ cache[c].use + grow[c].add <= grow[c].size
        /\ Room(heap, grow[c].buf, grow[c].size)
        /\ c \notin closing

\* The inductive invariant: the heap is sound, and the addresses handed out are
\* those of the buffers, each of one item.
BufInv ==
    /\ HeapInv(heap)
    /\ cache \in [Item -> CacheType] /\ grow \in [Item -> GrowType]
    /\ closing \subseteq Item
    /\ \A c \in Item : CacheKept(c) /\ GrowthKept(c)
    /\ Addresses(heap) = UNION {Buffers(c) : c \in Item}
    /\ \A c, d \in Item : c # d => Buffers(c) \cap Buffers(d) = {}

\* A size is rounded up to whole units of kChunkSize.
LEMMA RoundUpIs ==
    ASSUME NEW n \in Nat, 0 # n
    PROVE  RoundUp(n) \in Nat /\ n <= RoundUp(n) /\ 0 # RoundUp(n)
<1> DEFINE q == (n + kChunkSize - 1) \div kChunkSize
<1>1. kChunkSize \in Nat \ {0}
  BY BuffersAssumption
<1>2. /\ q \in Int /\ n + kChunkSize - 1 < kChunkSize * q + kChunkSize
  <2>1. n + kChunkSize - 1 \in Int
    BY <1>1
  <2> QED BY <1>1, <2>1, DivBounds
<1> HIDE DEF q
<1>3. kChunkSize * q \in Int /\ n <= kChunkSize * q
  BY <1>1, <1>2
<1>4. q * kChunkSize = kChunkSize * q
  BY <1>1, <1>2
<1>5. RoundUp(n) = q * kChunkSize
  BY DEF RoundUp, q
<1> QED BY <1>3, <1>4, <1>5

\* Nothing is allocated at first.
LEMMA InitBufInv ==
    Init => BufInv
<1> SUFFICES ASSUME Init PROVE BufInv
  OBVIOUS
<1>1. /\ heap = FreshHeap /\ cache = [c \in Item |-> NoCache]
      /\ grow = [c \in Item |-> NoGrowth] /\ closing = {}
  BY DEF Init
<1>2. HeapInv(heap) /\ UsedChunks(heap) = {}
  BY <1>1, FreshIs
<1>3. NoCache \in CacheType /\ NoGrowth \in GrowType
  BY DEF NoCache, NoGrowth, CacheType, GrowType, None
<1>4. \A c \in Item : CacheKept(c) /\ GrowthKept(c) /\ Buffers(c) = {}
  BY <1>1 DEF CacheKept, GrowthKept, Buffers, NoCache, NoGrowth
<1>5. Addresses(heap) = {}
  BY <1>2 DEF Addresses
<1> QED BY <1>1, <1>2, <1>3, <1>4, <1>5 DEF BufInv

-----------------------------------------------------------------------------
(* A step is one of an item: the others keep what they have. *)

\* The types of one item
LEMMA InvTypes ==
    ASSUME BufInv, NEW c \in Item
    PROVE  /\ cache[c] \in CacheType /\ grow[c] \in GrowType
           /\ cache[c].buf \in Int /\ cache[c].size \in Nat
           /\ cache[c].index \in Nat /\ cache[c].use \in Nat
           /\ grow[c].buf \in Int /\ grow[c].size \in Nat /\ grow[c].add \in Nat
<1>1. cache[c] \in CacheType /\ grow[c] \in GrowType
  BY DEF BufInv
<1> QED BY <1>1 DEF CacheType, GrowType

\* When a step changes the buffers of one item, it is enough to look at that item.
LEMMA ItemStep ==
    ASSUME BufInv, NEW c \in Item, NEW v \in CacheType, NEW g \in GrowType,
           cache' = [cache EXCEPT ![c] = v], grow' = [grow EXCEPT ![c] = g],
           closing' \subseteq Item, HeapInv(heap'),
           \A d \in Item : grow[d] # NoGrowth /\ d # c => d \notin closing',
           \A e, z : e \in Addresses(heap) /\ Room(heap, e, z) => Room(heap', e, z),
           CacheKept(c)', GrowthKept(c)',
           Addresses(heap') = (Addresses(heap) \ Buffers(c)) \cup Buffers(c)',
           Buffers(c)' \cap (Addresses(heap) \ Buffers(c)) = {}
    PROVE  BufInv'
<1>1. /\ cache \in [Item -> CacheType] /\ grow \in [Item -> GrowType]
      /\ \A d \in Item : CacheKept(d) /\ GrowthKept(d)
      /\ Addresses(heap) = UNION {Buffers(d) : d \in Item}
      /\ \A d, e \in Item : d # e => Buffers(d) \cap Buffers(e) = {}
  BY DEF BufInv
<1>2. /\ cache' \in [Item -> CacheType] /\ grow' \in [Item -> GrowType]
      /\ \A d \in Item : d # c => cache'[d] = cache[d] /\ grow'[d] = grow[d]
  BY <1>1
<1>3. ASSUME NEW d \in Item, d # c PROVE Buffers(d)' = Buffers(d)
  BY <1>2, <1>3 DEF Buffers
<1>4. ASSUME NEW d \in Item, d # c PROVE CacheKept(d)' /\ GrowthKept(d)'
  <2>1. cache'[d] = cache[d] /\ grow'[d] = grow[d] /\ CacheKept(d) /\ GrowthKept(d)
    BY <1>1, <1>2, <1>4
  <2>2. cache[d].buf # None => cache[d].buf \in Addresses(heap)
    BY <1>1 DEF Buffers
  <2>3. grow[d].buf # None => grow[d].buf \in Addresses(heap)
    BY <1>1 DEF Buffers
  <2>4. CacheKept(d)'
    BY <2>1, <2>2 DEF CacheKept
  <2>5. GrowthKept(d)'
    BY <1>4, <2>1, <2>3 DEF GrowthKept
  <2> QED BY <2>4, <2>5
<1>5. \A d \in Item : CacheKept(d)' /\ GrowthKept(d)'
  BY <1>4
<1>6. Addresses(heap) \ Buffers(c) = UNION {Buffers(d) : d \in Item \ {c}}
  BY <1>1
<1>7. Addresses(heap') = UNION {Buffers(d)' : d \in Item}
  BY <1>3, <1>6
<1>8. \A d, e \in Item : d # e => Buffers(d)' \cap Buffers(e)' = {}
  <2>1. \A d \in Item \ {c} : Buffers(d)' \subseteq Addresses(heap) \ Buffers(c)
    BY <1>3, <1>6
  <2>2. \A d, e \in Item \ {c} : d # e => Buffers(d)' \cap Buffers(e)' = {}
    BY <1>1, <1>3
  <2> QED BY <2>1, <2>2
<1>9. Addresses(heap)' = UNION {Buffers(d) : d \in Item}'
  BY <1>7, Zenon DEF Addresses
<1> QED BY <1>2, <1>5, <1>7, <1>8 DEF BufInv

\* The lock of the pair: nobody is in the middle of something there.
LEMMA HandleFacts ==
    ASSUME NEW c \in Item, MayHandle(c)
    PROVE  /\ partner[c] \in Item
           /\ grow[c] = NoGrowth /\ grow[partner[c]] = NoGrowth
           /\ c \notin closing /\ partner[c] \notin closing
  BY BuffersAssumption DEF MayHandle, Pair, Handled

\* The bytes of an item that keeps its buffer
LEMMA SameBuffer ==
    ASSUME BufInv, NEW c \in Item, NEW i \in Nat, NEW u \in Nat,
           grow[c] = NoGrowth, cache[c].buf # None,
           0 < u, i + u <= cache[c].size,
           cache' = [cache EXCEPT ![c] = [cache[c] EXCEPT !.index = i, !.use = u]],
           UNCHANGED <<heap, grow, closing>>
    PROVE  BufInv'
<1> DEFINE v == [cache[c] EXCEPT !.index = i, !.use = u]
<1>1. /\ cache \in [Item -> CacheType] /\ grow \in [Item -> GrowType]
      /\ closing \subseteq Item /\ HeapInv(heap)
      /\ \A d \in Item : CacheKept(d) /\ GrowthKept(d)
      /\ Addresses(heap) = UNION {Buffers(d) : d \in Item}
  BY DEF BufInv
<1>2. cache[c] \in CacheType
  BY <1>1
<1>3. /\ v \in CacheType /\ v.buf = cache[c].buf /\ v.size = cache[c].size
      /\ v.index = i /\ v.use = u
  BY <1>2 DEF CacheType
<1> HIDE DEF v
<1>4. cache' = [cache EXCEPT ![c] = v] /\ cache'[c] = v
  BY <1>1 DEF v
<1>5. grow' = [grow EXCEPT ![c] = grow[c]] /\ grow[c] \in GrowType
  BY <1>1
<1>6. Buffers(c)' = Buffers(c) /\ Buffers(c) \subseteq Addresses(heap)
  <2>1. cache'[c].buf = cache[c].buf /\ grow'[c] = grow[c]
    BY <1>3, <1>4
  <2>2. Buffers(c)' = Buffers(c)
    BY <2>1 DEF Buffers
  <2> QED BY <1>1, <2>2
<1>7. CacheKept(c)'
  <2>1. Room(heap, cache[c].buf, cache[c].size)
    BY <1>1 DEF CacheKept
  <2> QED BY <1>3, <1>4, <2>1 DEF CacheKept
<1>8. GrowthKept(c)'
  BY DEF GrowthKept
<1>9. \A d \in Item : grow[d] # NoGrowth /\ d # c => d \notin closing'
  BY <1>1 DEF GrowthKept
<1>10. /\ closing' \subseteq Item /\ HeapInv(heap')
       /\ \A e, z : e \in Addresses(heap) /\ Room(heap, e, z) => Room(heap', e, z)
  BY <1>1
<1>11. Addresses(heap') = (Addresses(heap) \ Buffers(c)) \cup Buffers(c)'
  BY <1>6
<1>12. Buffers(c)' \cap (Addresses(heap) \ Buffers(c)) = {}
  BY <1>6
<1> QED BY <1>3, <1>4, <1>5, <1>7, <1>8, <1>9, <1>10, <1>11, <1>12, ItemStep

\* Only the closing items are others.
LEMMA MoreClosing ==
    ASSUME BufInv, NEW c \in Item, MayHandle(c), closing' = closing \cup Pair(c),
           UNCHANGED <<heap, cache, grow>>
    PROVE  BufInv'
<1>1. /\ cache \in [Item -> CacheType] /\ grow \in [Item -> GrowType]
      /\ closing \subseteq Item /\ HeapInv(heap)
      /\ \A d \in Item : CacheKept(d) /\ GrowthKept(d)
      /\ Addresses(heap) = UNION {Buffers(d) : d \in Item}
      /\ \A d, e \in Item : d # e => Buffers(d) \cap Buffers(e) = {}
  BY DEF BufInv
<1>2. /\ partner[c] \in Item /\ grow[c] = NoGrowth /\ grow[partner[c]] = NoGrowth
  BY HandleFacts
<1>3. closing' \subseteq Item
  BY <1>1, <1>2 DEF Pair
<1>4. \A d \in Item : Buffers(d)' = Buffers(d)
  BY DEF Buffers
<1>5. \A d \in Item : CacheKept(d)' /\ GrowthKept(d)'
  <2> TAKE d \in Item
  <2>1. CacheKept(d) /\ GrowthKept(d)
    BY <1>1
  <2>2. CacheKept(d)'
    BY <2>1 DEF CacheKept
  <2>3. grow[d] # NoGrowth => d \notin Pair(c)
    BY <1>2 DEF Pair
  <2>4. GrowthKept(d)'
    BY <2>1, <2>3 DEF GrowthKept
  <2> QED BY <2>2, <2>4
<1>6. Addresses(heap') = UNION {Buffers(d)' : d \in Item}
  BY <1>1, <1>4
<1>7. \A d, e \in Item : d # e => Buffers(d)' \cap Buffers(e)' = {}
  BY <1>1, <1>4
<1>8. /\ cache' \in [Item -> CacheType] /\ grow' \in [Item -> GrowType] /\ HeapInv(heap')
  BY <1>1
<1> QED BY <1>3, <1>5, <1>6, <1>7, <1>8 DEF BufInv

\* The buffer goes back, if there is one.
LEMMA Resets ==
    ASSUME BufInv, NEW c \in Item, grow[c] = NoGrowth, resetData(c),
           closing' \subseteq closing, UNCHANGED grow
    PROVE  BufInv'
<1>1. /\ cache \in [Item -> CacheType] /\ grow \in [Item -> GrowType]
      /\ closing \subseteq Item /\ HeapInv(heap)
      /\ \A d \in Item : CacheKept(d) /\ GrowthKept(d)
      /\ Addresses(heap) = UNION {Buffers(d) : d \in Item}
  BY DEF BufInv
<1>2. /\ heap' = IF cache[c].buf = None THEN heap ELSE poll_free(heap, cache[c].buf)
      /\ cache' = [cache EXCEPT ![c] = NoCache] /\ cache'[c] = NoCache
  BY <1>1 DEF resetData
<1>3. NoCache \in CacheType /\ grow[c] \in GrowType /\ grow' = [grow EXCEPT ![c] = grow[c]]
  BY <1>1 DEF NoCache, CacheType, None
<1>4. Buffers(c) = {cache[c].buf} \ {None} /\ Buffers(c)' = {}
  BY <1>2 DEF Buffers, NoCache, NoGrowth
<1>5. CacheKept(c)' /\ GrowthKept(c)'
  BY <1>2 DEF CacheKept, GrowthKept, NoCache
<1>6. /\ HeapInv(heap') /\ Addresses(heap') = Addresses(heap) \ Buffers(c)
      /\ \A e, z : Room(heap, e, z) => Room(heap', e, z)
  <2>1. CASE cache[c].buf = None
    <3>1. heap' = heap
      BY <1>2, <2>1
    <3> QED BY <1>1, <1>4, <2>1, <3>1
  <2>2. CASE cache[c].buf # None
    <3>1. heap' = poll_free(heap, cache[c].buf)
      BY <1>2, <2>2
    <3>2. cache[c].buf \in Addresses(heap)
      BY <1>1, <1>4, <2>2
    <3>3. Returns(heap, heap', cache[c].buf)
      BY <1>1, <3>1, <3>2, FreeReturns
    <3>4. Buffers(c) = {cache[c].buf}
      BY <1>4, <2>2
    <3> QED BY <3>3, <3>4 DEF Returns
  <2> QED BY <2>1, <2>2
<1>7. \A d \in Item : grow[d] # NoGrowth /\ d # c => d \notin closing'
  BY <1>1 DEF GrowthKept
<1>8. closing' \subseteq Item
  BY <1>1
<1>9. Addresses(heap') = (Addresses(heap) \ Buffers(c)) \cup Buffers(c)'
  BY <1>4, <1>6
<1>10. Buffers(c)' \cap (Addresses(heap) \ Buffers(c)) = {}
  BY <1>4
<1>11. \A e, z : e \in Addresses(heap) /\ Room(heap, e, z) => Room(heap', e, z)
  BY <1>6
<1>12. HeapInv(heap') /\ cache' = [cache EXCEPT ![c] = NoCache]
  BY <1>2, <1>6
<1> QED BY <1>3, <1>5, <1>7, <1>8, <1>9, <1>10, <1>11, <1>12, ItemStep

\* addDataBuffer when the buffer has room, behind the bytes or before them
LEMMA AppendStep ==
    ASSUME BufInv, NEW c \in Item, NEW n \in Sizes, MayHandle(c),
           Append(c, n) \/ Compact(c, n)
    PROVE  BufInv'
<1>1. /\ n \in Nat /\ n > 0
      /\ cache[c].size \in Nat /\ cache[c].index \in Nat /\ cache[c].use \in Nat
      /\ cache[c] \in CacheType /\ cache \in [Item -> CacheType]
  BY BuffersAssumption, InvTypes DEF BufInv
<1>2. CacheKept(c) /\ grow[c] = NoGrowth
  BY HandleFacts DEF BufInv
<1>3. cache[c].use + n <= cache[c].size
  BY <1>1 DEF Append, Compact
<1>4. cache[c].buf # None
  BY <1>1, <1>2, <1>3 DEF CacheKept, NoCache
<1>5. CASE Append(c, n)
  <2> DEFINE i == cache[c].index
             u == cache[c].use + n
  <2>1. /\ UNCHANGED <<heap, grow, closing>> /\ i + u <= cache[c].size
        /\ i \in Nat /\ u \in Nat /\ 0 < u
    BY <1>1, <1>5 DEF Append
  <2>2. cache' = [cache EXCEPT ![c].use = @ + n]
    BY <1>5 DEF Append
  <2>3. [cache[c] EXCEPT !.use = u] = [cache[c] EXCEPT !.index = i, !.use = u]
    BY <1>1 DEF CacheType
  <2>4. cache' = [cache EXCEPT ![c] = [cache[c] EXCEPT !.index = i, !.use = u]]
    BY <1>1, <2>2, <2>3
  <2> HIDE DEF i, u
  <2> QED BY <1>2, <1>4, <2>1, <2>4, SameBuffer
<1>6. CASE Compact(c, n)
  <2> DEFINE i == 0
             u == cache[c].use + n
  <2>1. /\ UNCHANGED <<heap, grow, closing>> /\ i + u <= cache[c].size
        /\ i \in Nat /\ u \in Nat /\ 0 < u
    BY <1>1, <1>6 DEF Compact
  <2>2. cache' = [cache EXCEPT ![c].index = 0, ![c].use = @ + n]
    BY <1>6 DEF Compact
  <2>4. cache' = [cache EXCEPT ![c] = [cache[c] EXCEPT !.index = i, !.use = u]]
    BY <1>1, <2>2 DEF CacheType
  <2> HIDE DEF i, u
  <2> QED BY <1>2, <1>4, <2>1, <2>4, SameBuffer
<1> QED BY <1>5, <1>6

\* onEventEpollOut keeps the invariant.
LEMMA EpollOutStep ==
    ASSUME BufInv, NEW c \in Item, NEW n \in Sizes, onEventEpollOut(c, n)
    PROVE  BufInv'
<1>1. /\ n \in Nat /\ n > 0
      /\ cache[c].size \in Nat /\ cache[c].index \in Nat /\ cache[c].use \in Nat
      /\ cache[c] \in CacheType /\ cache \in [Item -> CacheType]
  BY BuffersAssumption, InvTypes DEF BufInv
<1>2. MayHandle(c) /\ n <= cache[c].use /\ UNCHANGED <<grow, closing>>
  BY DEF onEventEpollOut
<1>3. CacheKept(c) /\ grow[c] = NoGrowth
  BY <1>2, HandleFacts DEF BufInv
<1>4. CASE n = cache[c].use
  <2>1. resetData(c)
    BY <1>4 DEF onEventEpollOut
  <2> QED BY <1>2, <1>3, <2>1, Resets
<1>5. CASE n # cache[c].use
  <2> DEFINE i == cache[c].index + n
             u == cache[c].use - n
  <2>1. /\ cache' = [cache EXCEPT ![c].index = @ + n, ![c].use = @ - n]
        /\ UNCHANGED heap
    BY <1>5 DEF onEventEpollOut
  <2>2. i \in Nat /\ u \in Nat /\ 0 < u /\ i + u <= cache[c].size
    BY <1>1, <1>2, <1>3, <1>5 DEF CacheKept
  <2>3. cache[c].buf # None
    BY <1>1, <1>2, <1>3 DEF CacheKept, NoCache
  <2>4. cache' = [cache EXCEPT ![c] = [cache[c] EXCEPT !.index = i, !.use = u]]
    BY <1>1, <2>1 DEF CacheType
  <2> HIDE DEF i, u
  <2>5. UNCHANGED <<heap, grow, closing>>
    BY <1>2, <2>1
  <2> QED BY <1>3, <2>2, <2>3, <2>4, <2>5, SameBuffer
<1> QED BY <1>4, <1>5

\* addDataBuffer into no buffer: the message is smaller than the pool.
LEMMA NewBufferStep ==
    ASSUME BufInv, NEW c \in Item, NEW n \in Sizes, MayHandle(c), NewBuffer(c, n)
    PROVE  BufInv'
<1> DEFINE size == RoundUp(n)
           b == poll_alloc(heap, size).addr
           r == poll_alloc(heap, size).heap
           v == [buf |-> b, size |-> size, index |-> 0, use |-> n]
<1>1. /\ cache \in [Item -> CacheType] /\ grow \in [Item -> GrowType]
      /\ closing \subseteq Item /\ HeapInv(heap)
      /\ \A d \in Item : CacheKept(d) /\ GrowthKept(d)
      /\ Addresses(heap) = UNION {Buffers(d) : d \in Item}
  BY DEF BufInv
<1>2. /\ n \in Nat /\ 0 # n /\ size \in Nat /\ n <= size /\ 0 # size
      /\ uptoblock(size) \div BLOCKSIZE # Blocks
  BY BuffersAssumption, MessagesAssumption, RoundUpIs
<1>3. cache[c].buf = None /\ grow[c] = NoGrowth /\ UNCHANGED grow
  BY HandleFacts DEF NewBuffer
<1>4. CASE ~ CanAlloc(heap, size)
  <2>1. closing' = closing \cup Pair(c) /\ UNCHANGED <<heap, cache, grow>>
    BY <1>4 DEF NewBuffer
  <2> QED BY <2>1, MoreClosing
<1>5. CASE CanAlloc(heap, size)
  <2>1. heap' = r /\ cache' = [cache EXCEPT ![c] = v] /\ UNCHANGED closing
    BY <1>5 DEF NewBuffer
  <2> HIDE DEF size
  <2>2. Hands(heap, r, b, size)
    BY <1>1, <1>2, <1>5, AllocHands
  <2> HIDE DEF r, b
  <2>3. /\ HeapInv(r) /\ b \in Nat /\ b # None /\ b \notin Addresses(heap)
        /\ Addresses(r) = Addresses(heap) \cup {b} /\ Room(r, b, size)
        /\ \A e, z : e # b /\ Room(heap, e, z) => Room(r, e, z)
    BY <2>2 DEF Hands
  <2>4. v \in CacheType /\ v.buf = b /\ v.size = size /\ v.index = 0 /\ v.use = n
    BY <1>2, <2>3 DEF CacheType
  <2> HIDE DEF v
  <2>5. cache'[c] = v /\ grow'[c] = NoGrowth
    BY <1>1, <1>3, <2>1
  <2>6. Buffers(c) = {} /\ Buffers(c)' = {b}
    BY <1>3, <2>3, <2>4, <2>5 DEF Buffers, NoGrowth
  <2>7. CacheKept(c)' /\ GrowthKept(c)'
    BY <1>2, <2>1, <2>3, <2>4, <2>5 DEF CacheKept, GrowthKept
  <2>8. grow[c] \in GrowType /\ grow' = [grow EXCEPT ![c] = grow[c]]
    BY <1>1, <1>3
  <2>9. \A d \in Item : grow[d] # NoGrowth /\ d # c => d \notin closing'
    BY <1>1, <2>1 DEF GrowthKept
  <2>10. closing' \subseteq Item /\ HeapInv(heap')
    BY <1>1, <2>1, <2>3
  <2>11. \A e, z : e \in Addresses(heap) /\ Room(heap, e, z) => Room(heap', e, z)
    BY <2>1, <2>3
  <2>12. Addresses(heap') = (Addresses(heap) \ Buffers(c)) \cup Buffers(c)'
    BY <2>1, <2>3, <2>6
  <2>13. Buffers(c)' \cap (Addresses(heap) \ Buffers(c)) = {}
    BY <2>3, <2>6
  <2> QED BY <2>1, <2>4, <2>7, <2>8, <2>9, <2>10, <2>11, <2>12, <2>13, ItemStep
<1> QED BY <1>4, <1>5

\* addDataBuffer allocates a larger buffer: the old one is not yet given back.
LEMMA GrowStep ==
    ASSUME BufInv, NEW c \in Item, NEW n \in Sizes, MayHandle(c), Grow(c, n)
    PROVE  BufInv'
<1> DEFINE size == RoundUp(cache[c].use + n)
           b == poll_alloc(heap, size).addr
           r == poll_alloc(heap, size).heap
           g == [buf |-> b, size |-> size, add |-> n]
<1>1. /\ cache \in [Item -> CacheType] /\ grow \in [Item -> GrowType]
      /\ closing \subseteq Item /\ HeapInv(heap)
      /\ \A d \in Item : CacheKept(d) /\ GrowthKept(d)
      /\ Addresses(heap) = UNION {Buffers(d) : d \in Item}
  BY DEF BufInv
<1>2. /\ n \in Nat /\ 0 # n /\ cache[c].use + n \in Nat /\ size \in Nat
      /\ cache[c].use + n <= size /\ 0 # size
  <2>1. n \in Nat /\ 0 # n /\ cache[c].use \in Nat
    BY BuffersAssumption, InvTypes
  <2>2. cache[c].use + n \in Nat /\ 0 # cache[c].use + n
    BY <2>1
  <2> QED BY <2>1, <2>2, RoundUpIs
<1>3. /\ cache[c].buf # None /\ grow[c] = NoGrowth /\ c \notin closing /\ UNCHANGED cache
  BY HandleFacts DEF Grow
<1>4. CASE ~ CanAlloc(heap, size)
  <2>1. closing' = closing \cup Pair(c) /\ UNCHANGED <<heap, cache, grow>>
    BY <1>4 DEF Grow
  <2> QED BY <2>1, MoreClosing
<1>5. CASE CanAlloc(heap, size)
  <2>1. heap' = r /\ grow' = [grow EXCEPT ![c] = g] /\ UNCHANGED closing
    BY <1>5 DEF Grow
  <2>0. cache[c].buf \in Addresses(heap) /\ UsedChunks(heap) # {}
    <3>1. cache[c].buf \in Addresses(heap)
      BY <1>1, <1>3 DEF Buffers
    <3> QED BY <3>1 DEF Addresses
  <2> HIDE DEF size
  <2>2. Hands(heap, r, b, size)
    BY <1>1, <1>2, <1>5, <2>0, AllocHands
  <2> HIDE DEF r, b
  <2>3. /\ HeapInv(r) /\ b \in Nat /\ b # None /\ b \notin Addresses(heap)
        /\ Addresses(r) = Addresses(heap) \cup {b} /\ Room(r, b, size)
        /\ \A e, z : e # b /\ Room(heap, e, z) => Room(r, e, z)
    BY <2>2 DEF Hands
  <2>4. g \in GrowType /\ g.buf = b /\ g.size = size /\ g.add = n
    BY <1>2, <2>3 DEF GrowType
  <2> HIDE DEF g
  <2>5. grow'[c] = g /\ cache'[c] = cache[c]
    BY <1>1, <1>3, <2>1
  <2>6. Buffers(c) = {cache[c].buf} /\ Buffers(c)' = {cache[c].buf, b}
    BY <1>3, <2>3, <2>4, <2>5 DEF Buffers, NoGrowth
  <2>7. CacheKept(c)' /\ GrowthKept(c)'
    <3>1. CacheKept(c) /\ cache[c].buf # b
      BY <1>1, <2>0, <2>3
    <3>2. CacheKept(c)'
      BY <2>1, <2>3, <2>5, <3>1 DEF CacheKept
    <3>3. GrowthKept(c)'
      BY <1>2, <1>3, <2>1, <2>3, <2>4, <2>5, <3>1 DEF GrowthKept
    <3> QED BY <3>2, <3>3
  <2>8. cache[c] \in CacheType /\ cache' = [cache EXCEPT ![c] = cache[c]]
    BY <1>1, <1>3
  <2>9. \A d \in Item : grow[d] # NoGrowth /\ d # c => d \notin closing'
    BY <1>1, <2>1 DEF GrowthKept
  <2>10. closing' \subseteq Item /\ HeapInv(heap')
    BY <1>1, <2>1, <2>3
  <2>11. \A e, z : e \in Addresses(heap) /\ Room(heap, e, z) => Room(heap', e, z)
    BY <2>1, <2>3
  <2>12. Addresses(heap') = (Addresses(heap) \ Buffers(c)) \cup Buffers(c)'
    BY <2>0, <2>1, <2>3, <2>6
  <2>13. Buffers(c)' \cap (Addresses(heap) \ Buffers(c)) = {}
    BY <2>3, <2>6
  <2> QED BY <2>1, <2>4, <2>7, <2>8, <2>9, <2>10, <2>11, <2>12, <2>13, ItemStep
<1> QED BY <1>4, <1>5

\* addDataBuffer gives the old buffer back: no close was able to do it before.
LEMMA GrownStep ==
    ASSUME BufInv, NEW c \in Item, Grown(c)
    PROVE  BufInv'
<1> DEFINE b == cache[c].buf
           v == [buf |-> grow[c].buf, size |-> grow[c].size, index |-> 0,
                 use |-> cache[c].use + grow[c].add]
<1>1. /\ cache \in [Item -> CacheType] /\ grow \in [Item -> GrowType]
      /\ closing \subseteq Item /\ HeapInv(heap)
      /\ \A d \in Item : CacheKept(d) /\ GrowthKept(d)
      /\ Addresses(heap) = UNION {Buffers(d) : d \in Item}
  BY DEF BufInv
<1>2. /\ grow[c] # NoGrowth /\ heap' = poll_free(heap, b)
      /\ cache' = [cache EXCEPT ![c] = v]
      /\ grow' = [grow EXCEPT ![c] = NoGrowth] /\ UNCHANGED closing
  BY <1>1 DEF Grown
<1>3. /\ grow[c].buf # None /\ b # None /\ b # grow[c].buf
      /\ cache[c].use + grow[c].add <= grow[c].size
      /\ Room(heap, grow[c].buf, grow[c].size) /\ cache[c].use > 0
  BY <1>1, <1>2 DEF GrowthKept, CacheKept
<1>4. Buffers(c) = {b, grow[c].buf}
  BY <1>3 DEF Buffers
<1> HIDE DEF b
<1>5. b \in Addresses(heap)
  BY <1>1, <1>4
<1>6. Returns(heap, heap', b)
  BY <1>1, <1>2, <1>5, FreeReturns
<1>7. /\ HeapInv(heap') /\ Addresses(heap') = Addresses(heap) \ {b}
      /\ \A e, z : Room(heap, e, z) => Room(heap', e, z)
  BY <1>6 DEF Returns
<1>8. /\ v \in CacheType /\ v.buf = grow[c].buf /\ v.size = grow[c].size
      /\ v.index = 0 /\ v.use = cache[c].use + grow[c].add /\ v.use > 0
      /\ v.index + v.use <= v.size
  <2>1. /\ cache[c].use \in Nat /\ grow[c].add \in Nat /\ grow[c].size \in Nat
        /\ grow[c].buf \in Int
    BY InvTypes
  <2> QED BY <1>3, <2>1 DEF CacheType
<1> HIDE DEF v
<1>9. cache'[c] = v /\ grow'[c] = NoGrowth /\ NoGrowth \in GrowType
  BY <1>1, <1>2 DEF NoGrowth, GrowType, None
<1>10. Buffers(c)' = {grow[c].buf}
  BY <1>3, <1>8, <1>9 DEF Buffers, NoGrowth
<1>11. CacheKept(c)'
  <2>1. cache'[c].buf # None /\ Room(heap', cache'[c].buf, cache'[c].size)
    BY <1>3, <1>7, <1>8, <1>9
  <2> QED BY <1>8, <1>9, <2>1 DEF CacheKept
<1>12. GrowthKept(c)'
  BY <1>9 DEF GrowthKept
<1>13. \A d \in Item : grow[d] # NoGrowth /\ d # c => d \notin closing'
  BY <1>1, <1>2 DEF GrowthKept
<1>14. closing' \subseteq Item
  BY <1>1, <1>2
<1>15. \A e, z : e \in Addresses(heap) /\ Room(heap, e, z) => Room(heap', e, z)
  BY <1>7
<1>16. Addresses(heap') = (Addresses(heap) \ Buffers(c)) \cup Buffers(c)'
  BY <1>1, <1>3, <1>4, <1>7, <1>10
<1>17. Buffers(c)' \cap (Addresses(heap) \ Buffers(c)) = {}
  BY <1>4, <1>10
<1> QED BY <1>2, <1>7, <1>8, <1>9, <1>11, <1>12, <1>13, <1>14, <1>15, <1>16, <1>17, ItemStep

\* Every step keeps the invariant.
LEMMA NextBufInv ==
    BufInv /\ [Next]_vars => BufInv'
<1> SUFFICES ASSUME BufInv, [Next]_vars PROVE BufInv'
  OBVIOUS
<1>1. ASSUME NEW c \in Item, NEW n \in Sizes, addDataBuffer(c, n) PROVE BufInv'
  <2>1. MayHandle(c) /\ (Append(c, n) \/ NewBuffer(c, n) \/ Grow(c, n) \/ Compact(c, n))
    BY <1>1 DEF addDataBuffer
  <2> QED BY <2>1, AppendStep, NewBufferStep, GrowStep
<1>2. ASSUME NEW c \in Item, CloseSocket(c) PROVE BufInv'
  <2>1. /\ MayHandle(c) /\ closing' = closing \cup Pair(c)
        /\ UNCHANGED <<heap, cache, grow>>
    BY <1>2 DEF CloseSocket
  <2> QED BY <2>1, MoreClosing
<1>3. ASSUME NEW c \in Item, resumeData(c) PROVE BufInv'
  <2>1. c \in closing /\ resetData(c) /\ closing' \subseteq closing /\ UNCHANGED grow
    BY <1>3 DEF resumeData
  <2>2. grow[c] = NoGrowth
    BY <2>1 DEF BufInv, GrowthKept
  <2> QED BY <2>1, <2>2, Resets
<1>4. CASE UNCHANGED vars
  <2>1. UNCHANGED <<heap, cache, grow, closing>>
    BY <1>4 DEF vars
  <2>2. /\ \A d \in Item : Buffers(d)' = Buffers(d)
        /\ \A d \in Item : CacheKept(d)' <=> CacheKept(d)
        /\ \A d \in Item : GrowthKept(d)' <=> GrowthKept(d)
    BY <2>1 DEF Buffers, CacheKept, GrowthKept
  <2>3. /\ HeapInv(heap') <=> HeapInv(heap)
        /\ Addresses(heap') = Addresses(heap)
    BY <2>1
  <2>4. UNION {Buffers(d)' : d \in Item} = UNION {Buffers(d) : d \in Item}
    BY <2>2
  <2> QED BY <2>1, <2>2, <2>3, <2>4 DEF BufInv
<1> QED BY <1>1, <1>2, <1>3, <1>4, EpollOutStep, GrownStep DEF Next

-----------------------------------------------------------------------------
(* The theorems. *)

\* The invariant implies that the buffers are the used chunks.
LEMMA BuffersOwnedIs ==
    BufInv => BuffersOwned
<1> SUFFICES ASSUME BufInv PROVE BuffersOwned
  OBVIOUS
<1>1. /\ HeapInv(heap)
      /\ \A c \in Item : CacheKept(c) /\ GrowthKept(c)
      /\ Addresses(heap) = UNION {Buffers(c) : c \in Item}
      /\ \A c, d \in Item : c # d => Buffers(c) \cap Buffers(d) = {}
  BY DEF BufInv
<1>2. {heap.first[k] * BLOCKSIZE : k \in UsedChunks(heap)} = UNION {Buffers(c) : c \in Item}
  BY <1>1 DEF Addresses
<1>3. ASSUME NEW c \in Item
      PROVE  /\ cache[c].index + cache[c].use <= cache[c].size
             /\ cache[c].buf # None =>
                  LET k == ChunkAt(heap, cache[c].buf)
                  IN k \in UsedChunks(heap) /\ cache[c].use > 0
                       /\ heap.count[k] * BLOCKSIZE >= cache[c].size
  <2>1. CacheKept(c)
    BY <1>1
  <2> SUFFICES ASSUME cache[c].buf # None
               PROVE  LET k == ChunkAt(heap, cache[c].buf)
                      IN k \in UsedChunks(heap) /\ cache[c].use > 0
                           /\ heap.count[k] * BLOCKSIZE >= cache[c].size
    BY <2>1 DEF CacheKept
  <2> DEFINE k == ChunkAt(heap, cache[c].buf)
  <2>2. cache[c].buf \in Addresses(heap)
    BY <1>1 DEF Buffers
  <2>3. k \in UsedChunks(heap) /\ heap.first[k] * BLOCKSIZE = cache[c].buf
    BY <1>1, <2>2, AddressFacts
  <2> HIDE DEF k
  <2>4. cache[c].use > 0 /\ cache[c].size <= heap.count[k] * BLOCKSIZE
    BY <2>1, <2>3 DEF CacheKept, Room
  <2>5. cache[c].size \in Int /\ heap.count[k] * BLOCKSIZE \in Int
    <3>1. heap.count[k] \in Int
      BY <1>1, <2>3, UsedFacts
    <3> QED BY <3>1, InvTypes, PoolAssumption
  <2> QED BY <2>3, <2>4, <2>5 DEF k
<1> QED BY <1>1, <1>2, <1>3 DEF BuffersOwned

\* The invariant implies that no list node is lost.
LEMMA NodesKeptIs ==
    BufInv => NodesKept
<1> SUFFICES ASSUME BufInv PROVE NodesKept
  OBVIOUS
<1>1. HeapInv(heap)
  BY DEF BufInv
<1>2. SumOver(heap.count, UsedChunks(heap))
        = MapThenSumSet(LAMBDA k : heap.count[k], UsedChunks(heap))
  BY DEF SumOver
<1> QED BY <1>1, <1>2, NodesAre DEF NodesKept

\* Whatever the sizes of the messages and the order in which the threads send,
\* grow, free and close, the pool is sound and its addresses are the buffers'.
THEOREM BufInvHolds ==
    Spec => []BufInv
<1> QED BY InitBufInv, NextBufInv, PTL DEF Spec

\* addDataBuffer, skipDataBuffer and resetData never make two items share a
\* buffer, leak one, or let the bytes that wait reach beyond their chunk.
THEOREM BuffersOwnedHolds ==
    Spec => []BuffersOwned
<1> QED BY BufInvHolds, BuffersOwnedIs, PTL

\* After any series of poll_alloc and poll_free the chunks tile the pool, no two
\* free ones lie side by side, and the free list holds each free chunk once.
THEOREM HeapTiledHolds ==
    Spec => []HeapTiled
<1>1. BufInv => HeapTiled
  BY TiledIs DEF BufInv, HeapTiled
<1> QED BY <1>1, BufInvHolds, PTL

\* poll_alloc and poll_free lose no list node and put none into two lists, so that
\* getchunk never finds a cache empty, and used_size is what is handed out.
THEOREM NodesKeptHolds ==
    Spec => []NodesKept
<1> QED BY BufInvHolds, NodesKeptIs, PTL

\* The runs that are handed out
Runs(h) == {[first |-> h.first[k], count |-> h.count[k]] : k \in UsedChunks(h)}

\* A call hands out one free run or takes one back.
Moves(h, r) ==
    \/ \E q \in Pool!Run :
         /\ q.first + q.count <= Blocks
         /\ \A s \in Runs(h) : Pool!Span(s) \cap Pool!Span(q) = {}
         /\ Runs(r) = Runs(h) \cup {q}
    \/ \E q \in Runs(h) : Runs(r) = Runs(h) \ {q}

\* poll_alloc takes a free run of blocks.
LEMMA AllocMoves ==
    ASSUME NEW h, HeapInv(h), NEW size \in Nat, 0 # size, CanAlloc(h, size),
           uptoblock(size) \div BLOCKSIZE # Blocks \/ UsedChunks(h) # {}
    PROVE  Moves(h, poll_alloc(h, size).heap)
<1> DEFINE r == poll_alloc(h, size).heap
           b == poll_alloc(h, size).addr
           n == uptoblock(size) \div BLOCKSIZE
           U == UsedChunks(h)
<1>1. HeapInv(r) /\ Allocates(h, r, b, n)
  BY AllocIs
<1> HIDE DEF r, b, n
<1>2. PICK k \in ChunkNode \ U :
        /\ UsedChunks(r) = U \cup {k}
        /\ \A d \in U : r.first[d] = h.first[d] /\ r.count[d] = h.count[d]
  BY <1>1 DEF Allocates
<1> DEFINE q == [first |-> r.first[k], count |-> r.count[k]]
<1>3. /\ r.first[k] \in Int /\ r.count[k] \in Int /\ 0 <= r.first[k] /\ 0 < r.count[k]
      /\ r.first[k] + r.count[k] <= Blocks
  BY <1>1, <1>2, UsedFacts
<1>4. q \in Pool!Run /\ q.first + q.count <= Blocks
  BY <1>3, PoolAssumption DEF Pool!Run
<1>5. ASSUME NEW d \in U
      PROVE  Pool!Span([first |-> h.first[d], count |-> h.count[d]]) \cap Pool!Span(q) = {}
  <2>1. d \in UsedChunks(r) /\ k \in UsedChunks(r) /\ d # k
    BY <1>2
  <2>2. /\ r.first[d] \in Int /\ r.count[d] \in Int
        /\ \/ r.first[d] + r.count[d] <= r.first[k]
           \/ r.first[k] + r.count[k] <= r.first[d]
    BY <1>1, <2>1, UsedFacts
  <2>3. h.first[d] = r.first[d] /\ h.count[d] = r.count[d]
    BY <1>2
  <2> QED BY <1>3, <2>2, <2>3 DEF Pool!Span
<1>6. Runs(r) = Runs(h) \cup {q}
  <2>1. Runs(r) = {[first |-> r.first[d], count |-> r.count[d]] : d \in U} \cup {q}
    BY <1>2 DEF Runs
  <2>2. Runs(h) = {[first |-> r.first[d], count |-> r.count[d]] : d \in U}
    BY <1>2 DEF Runs
  <2> QED BY <2>1, <2>2
<1>7. \A s \in Runs(h) : Pool!Span(s) \cap Pool!Span(q) = {}
  BY <1>5 DEF Runs
<1> HIDE DEF q
<1> QED BY <1>4, <1>6, <1>7 DEF Moves, r

\* poll_free gives a run back as it was handed out.
LEMMA FreeMoves ==
    ASSUME NEW h, HeapInv(h), NEW b \in Addresses(h)
    PROVE  Moves(h, poll_free(h, b))
<1> DEFINE U == UsedChunks(h)
           r == poll_free(h, b)
           F(d) == [first |-> h.first[d], count |-> h.count[d]]
<1>1. PICK k \in U : h.first[k] * BLOCKSIZE = b
  BY DEF Addresses
<1>2. Frees(h, r, k)
  <2>1. Frees(h, poll_free(h, h.first[k] * BLOCKSIZE), k)
    BY FreeIs
  <2> QED BY <1>1, <2>1
<1> HIDE DEF r
<1>3. /\ UsedChunks(r) = U \ {k}
      /\ \A d \in U \ {k} : r.first[d] = h.first[d] /\ r.count[d] = h.count[d]
  BY <1>2 DEF Frees
<1>4. \A d \in U : d # k => F(d) # F(k)
  <2> TAKE d \in U
  <2> HAVE d # k
  <2>1. /\ h.first[d] \in Int /\ h.count[d] \in Int /\ 0 < h.count[d]
        /\ h.first[k] \in Int /\ h.count[k] \in Int /\ 0 < h.count[k]
        /\ \/ h.first[d] + h.count[d] <= h.first[k]
           \/ h.first[k] + h.count[k] <= h.first[d]
    BY UsedFacts
  <2>2. h.first[d] # h.first[k]
    BY <2>1
  <2>3. F(d).first = h.first[d] /\ F(k).first = h.first[k]
    OBVIOUS
  <2> HIDE DEF F
  <2> QED BY <2>2, <2>3
<1>5. Runs(h) = {F(d) : d \in U}
  BY DEF Runs
<1>6. Runs(r) = {F(d) : d \in U \ {k}}
  BY <1>3 DEF Runs
<1> HIDE DEF F, U
<1>7. Runs(r) = Runs(h) \ {F(k)} /\ F(k) \in Runs(h)
  BY <1>1, <1>4, <1>5, <1>6
<1> QED BY <1>7 DEF Moves, r

\* Every step of the buffers is a call or leaves the pool alone.
LEMMA StepMoves ==
    ASSUME BufInv, Next
    PROVE  heap' = heap \/ Moves(heap, heap')
<1>1. /\ HeapInv(heap) /\ Addresses(heap) = UNION {Buffers(c) : c \in Item}
      /\ \A c \in Item : GrowthKept(c)
  BY DEF BufInv
<1>2. ASSUME NEW c \in Item, cache[c].buf # None
      PROVE  /\ cache[c].buf \in Addresses(heap) /\ UsedChunks(heap) # {}
             /\ Moves(heap, poll_free(heap, cache[c].buf))
  <2>1. cache[c].buf \in Addresses(heap)
    BY <1>1, <1>2 DEF Buffers
  <2>2. UsedChunks(heap) # {}
    BY <2>1 DEF Addresses
  <2> QED BY <1>1, <2>1, <2>2, FreeMoves
<1>3. ASSUME NEW c \in Item, NEW n \in Sizes, NewBuffer(c, n)
      PROVE  heap' = heap \/ Moves(heap, heap')
  <2>1. /\ RoundUp(n) \in Nat /\ 0 # RoundUp(n)
        /\ uptoblock(RoundUp(n)) \div BLOCKSIZE # Blocks
    <3>1. n \in Nat /\ 0 # n
      BY BuffersAssumption
    <3> QED BY <3>1, MessagesAssumption, RoundUpIs
  <2>2. heap' # heap => /\ CanAlloc(heap, RoundUp(n))
                        /\ heap' = poll_alloc(heap, RoundUp(n)).heap
    BY <1>3 DEF NewBuffer
  <2> QED BY <1>1, <2>1, <2>2, AllocMoves
<1>4. ASSUME NEW c \in Item, NEW n \in Sizes, Grow(c, n)
      PROVE  heap' = heap \/ Moves(heap, heap')
  <2> DEFINE size == RoundUp(cache[c].use + n)
  <2>1. size \in Nat /\ 0 # size
    <3>1. n \in Nat /\ 0 # n /\ cache[c].use \in Nat
      BY BuffersAssumption, InvTypes
    <3>2. cache[c].use + n \in Nat /\ 0 # cache[c].use + n
      BY <3>1
    <3> QED BY <3>2, RoundUpIs
  <2>2. heap' # heap => CanAlloc(heap, size) /\ heap' = poll_alloc(heap, size).heap
    BY <1>4 DEF Grow
  <2>3. UsedChunks(heap) # {}
    BY <1>2, <1>4 DEF Grow
  <2> HIDE DEF size
  <2> QED BY <1>1, <2>1, <2>2, <2>3, AllocMoves
<1>5. ASSUME NEW c \in Item, resetData(c) PROVE heap' = heap \/ Moves(heap, heap')
  BY <1>2, <1>5 DEF resetData
<1>6. ASSUME NEW c \in Item, Grown(c) PROVE Moves(heap, heap')
  BY <1>1, <1>2, <1>6 DEF Grown, GrowthKept
<1>7. ASSUME NEW c \in Item, NEW n \in Sizes, addDataBuffer(c, n)
      PROVE  heap' = heap \/ Moves(heap, heap')
  BY <1>3, <1>4, <1>7 DEF addDataBuffer, Append, Compact
<1>8. ASSUME NEW c \in Item, NEW n \in Sizes, onEventEpollOut(c, n)
      PROVE  heap' = heap \/ Moves(heap, heap')
  BY <1>5, <1>8 DEF onEventEpollOut
<1> QED BY <1>5, <1>6, <1>7, <1>8 DEF Next, CloseSocket, resumeData

\* Every step of the buffers on the pool (poll_alloc, poll_free) is a step of
\* BlockPool or leaves what is handed out alone.
THEOREM HandsOutRunsHolds ==
    Spec => HandsOutRuns
<1>1. Init => Pool!Init
  <2> SUFFICES ASSUME Init PROVE Pool!Init
    OBVIOUS
  <2>1. UsedChunks(heap) = {}
    BY FreshIs DEF Init
  <2> QED BY <2>1 DEF Pool!Init
<1>2. ASSUME BufInv, [Next]_vars
      PROVE  [Pool!Take \/ Pool!Give]_(Runs(heap))
  <2>1. CASE heap' = heap
    BY <2>1
  <2>2. CASE Moves(heap, heap')
    <3>1. CASE \E q \in Pool!Run :
                 /\ q.first + q.count <= Blocks
                 /\ \A s \in Runs(heap) : Pool!Span(s) \cap Pool!Span(q) = {}
                 /\ Runs(heap') = Runs(heap) \cup {q}
      <4>1. Pool!Take
        BY <3>1 DEF Pool!Take, Pool!Free, Runs
      <4> QED BY <4>1
    <3>2. CASE \E q \in Runs(heap) : Runs(heap') = Runs(heap) \ {q}
      <4>1. Pool!Give
        BY <3>2 DEF Pool!Give, Runs
      <4> QED BY <4>1
    <3> QED BY <2>2, <3>1, <3>2 DEF Moves
  <2>3. CASE UNCHANGED vars
    BY <2>3 DEF vars
  <2> QED BY <1>2, <2>1, <2>2, <2>3, StepMoves
<1>3. BufInv /\ [Next]_vars =>
        [Pool!Take \/ Pool!Give]_{[first |-> heap.first[k], count |-> heap.count[k]] :
                                    k \in UsedChunks(heap)}
  BY <1>2 DEF Runs
<1> QED BY <1>1, <1>3, BufInvHolds, PTL DEF Spec, HandsOutRuns, Pool!PoolSpec

\* Whoever implements BlockPool hands out runs that share no block and lie in the
\* pool.
THEOREM DisjointHolds ==
    Pool!PoolSpec => []Pool!Disjoint
<1> DEFINE held == {[first |-> heap.first[k], count |-> heap.count[k]] :
                      k \in UsedChunks(heap)}
<1>1. Pool!Init => Pool!Disjoint
  BY DEF Pool!Init, Pool!Disjoint
<1>2. ASSUME Pool!Disjoint, Pool!Take PROVE Pool!Disjoint'
  <2>1. PICK r \in Pool!Run : /\ r.first + r.count <= Blocks
                              /\ Pool!Free(r)
                              /\ held' = held \cup {r}
    BY <1>2 DEF Pool!Take
  <2>2. \A q \in held : /\ Pool!Span(q) \cap Pool!Span(r) = {}
                        /\ Pool!Span(r) \cap Pool!Span(q) = {}
    BY <2>1 DEF Pool!Free
  <2>3. /\ held \subseteq Pool!Run
        /\ \A q, t \in held : q # t => Pool!Span(q) \cap Pool!Span(t) = {}
        /\ \A q \in held : q.first + q.count <= Blocks
    BY <1>2 DEF Pool!Disjoint
  <2> HIDE DEF held
  <2>4. /\ held' \subseteq Pool!Run
        /\ \A q, t \in held' : q # t => Pool!Span(q) \cap Pool!Span(t) = {}
        /\ \A q \in held' : q.first + q.count <= Blocks
    BY <2>1, <2>2, <2>3
  <2> QED BY <2>4 DEF Pool!Disjoint, held
<1>3. ASSUME Pool!Disjoint, Pool!Give PROVE Pool!Disjoint'
  <2>1. PICK r \in held : held' = held \ {r}
    BY <1>3 DEF Pool!Give
  <2>2. /\ held \subseteq Pool!Run
        /\ \A q, t \in held : q # t => Pool!Span(q) \cap Pool!Span(t) = {}
        /\ \A q \in held : q.first + q.count <= Blocks
    BY <1>3 DEF Pool!Disjoint
  <2> HIDE DEF held
  <2>3. /\ held' \subseteq Pool!Run
        /\ \A q, t \in held' : q # t => Pool!Span(q) \cap Pool!Span(t) = {}
        /\ \A q \in held' : q.first + q.count <= Blocks
    BY <2>1, <2>2
  <2> QED BY <2>3 DEF Pool!Disjoint, held
<1>4. ASSUME Pool!Disjoint, UNCHANGED held PROVE Pool!Disjoint'
  <2>1. /\ held \subseteq Pool!Run
        /\ \A q, t \in held : q # t => Pool!Span(q) \cap Pool!Span(t) = {}
        /\ \A q \in held : q.first + q.count <= Blocks
    BY <1>4 DEF Pool!Disjoint
  <2>2. held' = held
    BY <1>4
  <2> HIDE DEF held
  <2>3. /\ held' \subseteq Pool!Run
        /\ \A q, t \in held' : q # t => Pool!Span(q) \cap Pool!Span(t) = {}
        /\ \A q \in held' : q.first + q.count <= Blocks
    BY <2>1, <2>2
  <2> QED BY <2>3 DEF Pool!Disjoint, held
<1> QED BY <1>1, <1>2, <1>3, <1>4, PTL DEF Pool!PoolSpec

\* What poll_alloc has handed out to the buffers shares no block, at any time.
THEOREM NobodysMemoryHolds ==
    Spec => []Pool!Disjoint
<1> QED BY HandsOutRunsHolds, DisjointHolds, PTL DEF HandsOutRuns
=============================================================================
