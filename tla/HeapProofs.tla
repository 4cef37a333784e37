------------------------------- MODULE HeapProofs -------------------------------
(***************************************************************************)
(* Theorems about Heap for every size of the page and all sizes of requests, *)
(* as long as nobody asks for memory while there is a hole (Freeing =        *)
(* "batch"; the run heap_reuse shows why).  The inductive invariant is IInv. *)
(***************************************************************************)
EXTENDS Heap, SequenceTheorems, NatLemmas, TLAPS

Headers == [at : heap_first .. PageEnd, size : Nat, free : BOOLEAN]
Held == [ptr : heap_first .. PageEnd, size : Sizes]

End(b) == b.at + Header + b.size

(* The next header lies where the one before ends, all of them in the page, *)
(* and together they claim no less than the page.                           *)
Linked(c) ==
  /\ c \in Seq(Headers)
  /\ Len(c) >= 1 /\ c[1].at = heap_first
  /\ \A i \in 1 .. Len(c) : c[i].at + Header <= PageEnd
  /\ \A i \in 1 .. Len(c) - 1 : c[i + 1].at = End(c[i])
  /\ \A i, j \in 1 .. Len(c) : i < j => End(c[i]) <= c[j].at
  /\ End(c[Len(c)]) >= PageEnd

(* The used blocks of a chain, as their owners know them; and the places    *)
(* where two free blocks meet.                                              *)
Known(b) == [ptr |-> b.at + Header, size |-> b.size]
Used(c) == {Known(c[i]) : i \in {j \in 1 .. Len(c) : ~c[j].free}}
Split(c) == {i \in 1 .. Len(c) - 1 : c[i].free /\ c[i + 1].free}

(* Who holds what: nobody asks while there is a hole, so blocks are handed  *)
(* out at the end of the chain and the newest is the last.                  *)
Owned ==
  /\ live \in Seq(Held)
  /\ Used(chain) = {live[i] : i \in 1 .. Len(live)}
  /\ \A i, j \in 1 .. Len(live) : i < j => live[i].ptr < live[j].ptr

IInv == Linked(chain) /\ Split(chain) = {} /\ Owned /\ halted \in BOOLEAN
--------------------------------------------------------------------------------
(* Sums with a header in them.                                              *)
LEMMA HeaderSums ==
  /\ \A x, y \in Nat : x + Header + y \in Nat
  /\ \A x \in Int : \A y, z \in Nat :
       x + Header + (y + Header + z) = (x + Header + y) + Header + z
  /\ \A x, y \in Int : \A z \in Nat : x + Header + z <= y
       => ~(y + Header = x + Header \/ y + Header < x + Header)
  BY DEF Header

(* The elements a + 1 .. b of a sequence replaced by others.                *)
Spliced(s, a, m, b) == SubSeq(s, 1, a) \o m \o SubSeq(s, b + 1, Len(s))

LEMMA Splice ==
  ASSUME NEW S, NEW s \in Seq(S), NEW m \in Seq(S),
         NEW a \in 0 .. Len(s), NEW b \in a .. Len(s)
  PROVE  /\ Spliced(s, a, m, b) \in Seq(S)
         /\ Len(Spliced(s, a, m, b)) = a + Len(m) + (Len(s) - b)
         /\ \A j \in 1 .. a : Spliced(s, a, m, b)[j] = s[j]
         /\ \A j \in 1 .. Len(m) : Spliced(s, a, m, b)[a + j] = m[j]
         /\ \A j \in b + 1 .. Len(s) : Spliced(s, a, m, b)[a + Len(m) + (j - b)] = s[j]
<1> DEFINE front == SubSeq(s, 1, a)
           back == SubSeq(s, b + 1, Len(s))
           mid == front \o m
           n == Len(s)
           k == Len(m)
<1>1. n \in Nat /\ k \in Nat /\ a \in Int /\ b \in Int  BY LenProperties
<1>2. \A j \in 1 .. n : s[j] \in S  BY ElementOfSeq
<1>3. front \in Seq(S) /\ Len(front) = a /\ \A j \in 1 .. a : front[j] = s[j]
  <2>1. \A j \in 1 .. a : s[j] \in S  BY <1>1, <1>2
  <2>2. /\ front \in Seq(S) /\ Len(front) = IF 1 <= a THEN a - 1 + 1 ELSE 0
        /\ \A j \in 1 .. a - 1 + 1 : front[j] = s[1 + j - 1]
    BY <1>1, <2>1, SubSeqProperties
  <2> QED  BY <1>1, <2>2
<1>4. back \in Seq(S) /\ Len(back) = n - b /\ \A j \in 1 .. n - b : back[j] = s[b + j]
  <2>1. \A j \in b + 1 .. n : s[j] \in S  BY <1>1, <1>2
  <2>2. b + 1 \in Int  BY <1>1
  <2>3. /\ back \in Seq(S) /\ Len(back) = IF b + 1 <= n THEN n - (b + 1) + 1 ELSE 0
        /\ \A j \in 1 .. n - (b + 1) + 1 : back[j] = s[(b + 1) + j - 1]
    BY <1>1, <2>1, <2>2, SubSeqProperties
  <2> HIDE DEF front, back, n
  <2>4. /\ n - (b + 1) + 1 = n - b /\ (IF b + 1 <= n THEN n - (b + 1) + 1 ELSE 0) = n - b
        /\ \A j \in 1 .. n - b : (b + 1) + j - 1 = b + j
    BY <1>1 DEF n
  <2> QED  BY <2>3, <2>4
<1> HIDE DEF front, back, n
<1>5. /\ mid \in Seq(S) /\ Len(mid) = a + k
      /\ \A j \in 1 .. a + k : mid[j] = IF j <= a THEN front[j] ELSE m[j - a]
  BY <1>1, <1>3, ConcatProperties
<1> HIDE DEF mid, k
<1>6. /\ mid \o back \in Seq(S) /\ Len(mid \o back) = (a + k) + (n - b)
      /\ \A j \in 1 .. (a + k) + (n - b) :
           (mid \o back)[j] = IF j <= a + k THEN mid[j] ELSE back[j - (a + k)]
  <2>1. /\ mid \o back \in Seq(S) /\ Len(mid \o back) = Len(mid) + Len(back)
        /\ \A j \in 1 .. Len(mid) + Len(back) :
             (mid \o back)[j] = IF j <= Len(mid) THEN mid[j] ELSE back[j - Len(mid)]
    BY <1>4, <1>5, ConcatProperties
  <2> QED  BY <2>1, <1>4, <1>5, Zenon
<1> DEFINE t == Spliced(s, a, m, b)
<1>t. t = mid \o back  BY DEF Spliced, mid, front, back, n
<1> HIDE DEF t
<1> DEFINE z == mid \o back
<1> HIDE DEF z
<1>z. t = z  BY <1>t DEF z
<1>7. t \in Seq(S) /\ Len(t) = a + k + (n - b)  BY <1>1, <1>6, <1>t
<1>8. \A j \in 1 .. a : t[j] = s[j]
  <2>1. \A j \in 1 .. a : z[j] = s[j]  BY <1>1, <1>3, <1>5, <1>6 DEF z, n
  <2> QED  BY <1>z, <2>1
<1>9. \A j \in 1 .. k : t[a + j] = m[j]
  <2>1. ASSUME NEW j \in 1 .. k PROVE z[a + j] = m[j]
    <3>1. /\ a + j \in 1 .. a + k /\ a + j \in 1 .. (a + k) + (n - b)
          /\ a + j <= a + k /\ ~(a + j <= a) /\ (a + j) - a = j
      BY <1>1 DEF n
    <3>2. z[a + j] = mid[a + j]  BY <1>6, <3>1 DEF z
    <3>3. mid[a + j] = m[j]  BY <1>5, <3>1
    <3> QED  BY <3>2, <3>3
  <2> QED  BY <1>z, <2>1
<1>10. \A j \in b + 1 .. n : t[a + k + (j - b)] = s[j]
  <2> SUFFICES ASSUME NEW j \in b + 1 .. n PROVE t[a + k + (j - b)] = s[j]
    OBVIOUS
  <2>1. j - b \in 1 .. n - b /\ b + (j - b) = j  BY <1>1 DEF n
  <2>2. back[j - b] = s[j]  BY <1>4, <2>1
  <2>3. (a + k) + (j - b) \in 1 .. (a + k) + (n - b) /\ ~((a + k) + (j - b) <= a + k)
        /\ ((a + k) + (j - b)) - (a + k) = j - b
    BY <1>1, <2>1 DEF n
  <2> QED  BY <1>6, <1>t, <2>2, <2>3
<1> QED  BY <1>7, <1>8, <1>9, <1>10 DEF n, k, t

(* Its parts, one by one.                                                   *)
LEMMA SplicedFront ==
  ASSUME NEW S, NEW s \in Seq(S), NEW m \in Seq(S),
         NEW a \in 0 .. Len(s), NEW b \in a .. Len(s), NEW j \in 1 .. a
  PROVE  Spliced(s, a, m, b)[j] = s[j]
  BY Splice

LEMMA SplicedMiddle ==
  ASSUME NEW S, NEW s \in Seq(S), NEW m \in Seq(S),
         NEW a \in 0 .. Len(s), NEW b \in a .. Len(s), NEW j \in 1 .. Len(m)
  PROVE  Spliced(s, a, m, b)[a + j] = m[j]
  BY Splice

LEMMA SplicedBack ==
  ASSUME NEW S, NEW s \in Seq(S), NEW m \in Seq(S),
         NEW a \in 0 .. Len(s), NEW b \in a .. Len(s), NEW j \in b + 1 .. Len(s)
  PROVE  Spliced(s, a, m, b)[a + Len(m) + (j - b)] = s[j]
  BY Splice

(* Taking out one element.                                                  *)
LEMMA TakeOut ==
  ASSUME NEW S, NEW s \in Seq(S), NEW k \in 1 .. Len(s)
  PROVE  LET t == SubSeq(s, 1, k - 1) \o SubSeq(s, k + 1, Len(s))
         IN  /\ t \in Seq(S) /\ Len(t) = Len(s) - 1
             /\ \A j \in 1 .. Len(s) - 1 : t[j] = s[IF j < k THEN j ELSE j + 1]
<1> DEFINE n == Len(s)
           front == SubSeq(s, 1, k - 1)
           back == SubSeq(s, k + 1, n)
<1>1. n \in Nat /\ k \in Int  BY LenProperties
<1>2. \A j \in 1 .. n : s[j] \in S  BY ElementOfSeq
<1>3. front \in Seq(S) /\ Len(front) = k - 1 /\ \A j \in 1 .. k - 1 : front[j] = s[j]
  <2>1. (\A j \in 1 .. k - 1 : s[j] \in S) /\ k - 1 \in Int  BY <1>1, <1>2
  <2>2. /\ front \in Seq(S) /\ Len(front) = IF 1 <= k - 1 THEN (k - 1) - 1 + 1 ELSE 0
        /\ \A j \in 1 .. (k - 1) - 1 + 1 : front[j] = s[1 + j - 1]
    BY <1>1, <2>1, SubSeqProperties
  <2> QED  BY <1>1, <2>2
<1>4. back \in Seq(S) /\ Len(back) = n - k /\ \A j \in 1 .. n - k : back[j] = s[k + j]
  <2>1. \A j \in k + 1 .. n : s[j] \in S  BY <1>1, <1>2
  <2>2. k + 1 \in Int  BY <1>1
  <2>3. /\ back \in Seq(S) /\ Len(back) = IF k + 1 <= n THEN n - (k + 1) + 1 ELSE 0
        /\ \A j \in 1 .. n - (k + 1) + 1 : back[j] = s[(k + 1) + j - 1]
    BY <1>1, <2>1, <2>2, SubSeqProperties
  <2> QED  BY <1>1, <2>3
<1> HIDE DEF front, back, n
<1>5. /\ front \o back \in Seq(S) /\ Len(front \o back) = (k - 1) + (n - k)
      /\ \A j \in 1 .. (k - 1) + (n - k) :
           (front \o back)[j] = IF j <= k - 1 THEN front[j] ELSE back[j - (k - 1)]
  <2>1. /\ front \o back \in Seq(S) /\ Len(front \o back) = Len(front) + Len(back)
        /\ \A j \in 1 .. Len(front) + Len(back) :
             (front \o back)[j] = IF j <= Len(front) THEN front[j] ELSE back[j - Len(front)]
    BY <1>3, <1>4, ConcatProperties
  <2> QED  BY <2>1, <1>3, <1>4, Zenon
<1> DEFINE t == front \o back
<1> HIDE DEF t
<1>6. ASSUME NEW j \in 1 .. n - 1 PROVE t[j] = s[IF j < k THEN j ELSE j + 1]
  <2>1. CASE j < k  BY <1>1, <1>3, <1>5, <2>1 DEF t, n
  <2>2. CASE ~(j < k)
    <3>1. j - (k - 1) \in 1 .. n - k /\ k + (j - (k - 1)) = j + 1
      BY <1>1, <2>2 DEF n
    <3>2. back[j - (k - 1)] = s[j + 1]  BY <1>4, <3>1
    <3>3. j \in 1 .. (k - 1) + (n - k) /\ ~(j <= k - 1)  BY <1>1, <2>2 DEF n
    <3>4. t[j] = back[j - (k - 1)]  BY <1>5, <3>3 DEF t
    <3> QED  BY <2>2, <3>2, <3>4
  <2> QED  BY <2>1, <2>2
<1>7. t \in Seq(S) /\ Len(t) = n - 1  BY <1>1, <1>5 DEF t, n
<1> QED  BY <1>6, <1>7 DEF t, front, back, n
--------------------------------------------------------------------------------
Skip(i, j) == IF j <= i THEN j ELSE j + 1

(* A header with another size.                                              *)
LEMMA Resize ==
  ASSUME NEW h \in Headers, NEW s \in Nat, NEW e, e = [h EXCEPT !.size = s]
  PROVE  /\ e \in Headers /\ e.at = h.at /\ e.size = s
         /\ e.free <=> h.free
<1>1. e = [at |-> h.at, size |-> s, free |-> h.free]  BY DEF Headers
<1>2. e.free <=> h.free  BY <1>1, Zenon
<1>3. e.at = h.at /\ e.size = s  BY <1>1, Zenon
<1>4. e \in Headers  BY <1>1 DEF Headers
<1> QED  BY <1>2, <1>3, <1>4

(* What a merge writes: one header instead of two, the rest as it was.      *)
LEMMA AbsorbIs ==
  ASSUME NEW c \in Seq(Headers), NEW i \in 1 .. Len(c) - 1
  PROVE  LET a == Absorb(c, i)
         IN  /\ a \in Seq(Headers) /\ Len(a) = Len(c) - 1
             /\ \A j \in 1 .. Len(c) - 1 : j # i => a[j] = c[Skip(i, j)]
             /\ a[i].at = c[i].at /\ a[i].size = c[i].size + Header + c[i + 1].size
             /\ a[i].free <=> c[i].free
<1> DEFINE e == [c[i] EXCEPT !.size = @ + Header + c[i + 1].size]
           a == SubSeq(c, 1, i - 1) \o <<e>> \o SubSeq(c, i + 2, Len(c))
           n == Len(c)
<1>1. n \in Nat /\ i \in 1 .. n /\ i + 1 \in 1 .. n /\ i \in Int
  <2>1. n \in Nat  BY LenProperties
  <2> QED  BY <2>1
<1>2. c[i] \in Headers /\ c[i + 1] \in Headers  BY <1>1, ElementOfSeq
<1>3. /\ e \in Headers /\ e.at = c[i].at /\ e.size = c[i].size + Header + c[i + 1].size
      /\ e.free <=> c[i].free
  <2> DEFINE size == c[i].size + Header + c[i + 1].size
  <2>1. size \in Nat
    <3>1. c[i].size \in Nat /\ c[i + 1].size \in Nat  BY <1>2 DEF Headers
    <3> QED  BY <3>1, HeaderSums, Zenon
  <2>2. e = [c[i] EXCEPT !.size = size]  OBVIOUS
  <2> HIDE DEF size, e
  <2>3. e \in Headers /\ e.at = c[i].at /\ e.size = size /\ (e.free <=> c[i].free)
    BY <1>2, <2>1, <2>2, Resize
  <2> QED  BY <2>3 DEF size
<1> HIDE DEF e
<1>5. <<e>> \in Seq(Headers) /\ Len(<<e>>) = 1 /\ <<e>>[1] = e  BY <1>3
<1>6. i - 1 \in 0 .. n /\ i + 1 \in i - 1 .. n /\ (i + 1) + 1 = i + 2  BY <1>1
<1>7. /\ a \in Seq(Headers) /\ Len(a) = (i - 1) + Len(<<e>>) + (n - (i + 1))
      /\ \A j \in 1 .. i - 1 : a[j] = c[j]
      /\ \A j \in 1 .. Len(<<e>>) : a[i - 1 + j] = <<e>>[j]
      /\ \A j \in (i + 1) + 1 .. n : a[(i - 1) + Len(<<e>>) + (j - (i + 1))] = c[j]
  <2> DEFINE m == <<e>>
             l == i - 1
             r == i + 1
             t == Spliced(c, l, m, r)
  <2>1. m \in Seq(Headers) /\ l \in 0 .. Len(c) /\ r \in l .. Len(c)  BY <1>5, <1>6
  <2> HIDE DEF m, l, r
  <2>2. /\ t \in Seq(Headers) /\ Len(t) = l + Len(m) + (Len(c) - r)
        /\ \A j \in 1 .. l : t[j] = c[j]
        /\ \A j \in 1 .. Len(m) : t[l + j] = m[j]
        /\ \A j \in r + 1 .. Len(c) : t[l + Len(m) + (j - r)] = c[j]
    <3>1. t \in Seq(Headers) /\ Len(t) = l + Len(m) + (Len(c) - r)  BY <2>1, Splice
    <3>2. \A j \in 1 .. l : t[j] = c[j]  BY <2>1, SplicedFront
    <3>3. \A j \in 1 .. Len(m) : t[l + j] = m[j]  BY <2>1, SplicedMiddle
    <3>4. \A j \in r + 1 .. Len(c) : t[l + Len(m) + (j - r)] = c[j]  BY <2>1, SplicedBack
    <3> QED  BY <3>1, <3>2, <3>3, <3>4
  <2>3. t = a  BY <1>6 DEF Spliced, l, m, r
  <2> HIDE DEF t
  <2> QED  BY <2>2, <2>3, Zenon DEF l, m, r
<1> HIDE DEF a
<1>8. Len(a) = n - 1  BY <1>1, <1>5, <1>7
<1>9. a[i] = e
  <2>1. 1 \in 1 .. Len(<<e>>) /\ i - 1 + 1 = i  BY <1>1, <1>5
  <2> QED  BY <1>5, <1>7, <2>1
<1>10. ASSUME NEW j \in 1 .. n - 1, j # i PROVE a[j] = c[Skip(i, j)]
  <2>1. CASE j < i  BY <1>1, <1>7, <2>1 DEF Skip
  <2>2. CASE j > i
    <3>1. j + 1 \in (i + 1) + 1 .. n  BY <1>1, <2>2
    <3>2. (i - 1) + Len(<<e>>) + ((j + 1) - (i + 1)) = j  BY <1>1, <1>5
    <3>3. a[j] = c[j + 1]  BY <1>7, <3>1, <3>2
    <3> QED  BY <1>1, <2>2, <3>3 DEF Skip
  <2> QED  BY <1>1, <1>10, <2>1, <2>2
<1>11. Absorb(c, i) = a  BY DEF Absorb, a, e
<1> QED  BY <1>3, <1>7, <1>8, <1>9, <1>10, <1>11, Zenon DEF n

(* Merging two free neighbours keeps the chain whole and the used blocks as *)
(* they are, and makes no new pair of free neighbours.                      *)
LEMMA AbsorbKeeps ==
  ASSUME NEW c, Linked(c), NEW i \in 1 .. Len(c) - 1, c[i].free, c[i + 1].free
  PROVE  LET a == Absorb(c, i)
         IN  /\ Linked(a) /\ Len(a) = Len(c) - 1
             /\ Used(a) = Used(c)
             /\ \A j \in Split(a) : IF j < i THEN j \in Split(c) ELSE j + 1 \in Split(c)
             /\ \A j \in 1 .. i : a[j].free <=> c[j].free
<1> DEFINE a == Absorb(c, i)
           n == Len(c)
<1>1. c \in Seq(Headers) /\ n \in Nat
  <2>1. c \in Seq(Headers)  BY DEF Linked
  <2> QED  BY <2>1, LenProperties
<1>2. /\ a \in Seq(Headers) /\ Len(a) = n - 1
      /\ \A j \in 1 .. n - 1 : j # i => a[j] = c[Skip(i, j)]
      /\ a[i].at = c[i].at /\ a[i].size = c[i].size + Header + c[i + 1].size
      /\ a[i].free <=> c[i].free
  BY <1>1, AbsorbIs
<1> HIDE DEF a
<1>3. \A j \in 1 .. n : c[j].at \in Int /\ c[j].size \in Nat
  <2>1. \A j \in 1 .. n : c[j] \in Headers  BY <1>1, ElementOfSeq
  <2> QED  BY <2>1 DEF Headers, heap_first, PageEnd
<1>4. /\ c[1].at = heap_first /\ i \in 1 .. n /\ i + 1 \in 1 .. n /\ i \in Int
      /\ \A j \in 1 .. n : c[j].at + Header <= PageEnd
      /\ \A j \in 1 .. n - 1 : c[j + 1].at = End(c[j])
      /\ \A j, k \in 1 .. n : j < k => End(c[j]) <= c[k].at
      /\ End(c[n]) >= PageEnd
  BY <1>1 DEF Linked
<1>5. /\ \A j \in 1 .. n - 1 : a[j].at = c[Skip(i, j)].at
      /\ \A j \in 1 .. n - 1 : Skip(i, j) \in 1 .. n
  BY <1>1, <1>2, <1>4 DEF Skip
<1>6. /\ \A j \in 1 .. n - 1 : j # i => End(a[j]) = End(c[Skip(i, j)])
      /\ End(a[i]) = End(c[i + 1])
  <2>1. c[i + 1].at = c[i].at + Header + c[i].size  BY <1>4 DEF End
  <2>2. c[i].at \in Int /\ c[i].size \in Nat /\ c[i + 1].size \in Nat  BY <1>3, <1>4
  <2>3. End(a[i]) = End(c[i + 1])
    <3>1. End(a[i]) = c[i].at + Header + (c[i].size + Header + c[i + 1].size)
      BY <1>2, Zenon DEF End
    <3>2. End(c[i + 1]) = (c[i].at + Header + c[i].size) + Header + c[i + 1].size
      BY <2>1, Zenon DEF End
    <3> QED  BY <2>2, <3>1, <3>2, HeaderSums, Zenon
  <2>4. \A j \in 1 .. n - 1 : j # i => End(a[j]) = End(c[Skip(i, j)])  BY <1>2, Zenon
  <2> QED  BY <2>3, <2>4
<1>7. Linked(a)
  <2>1. Len(a) >= 1  BY <1>1, <1>2, <1>4
  <2>2. a[1].at = heap_first  BY <1>1, <1>4, <1>5 DEF Skip
  <2>3. \A j \in 1 .. n - 1 : a[j].at + Header <= PageEnd  BY <1>4, <1>5
  <2>4. ASSUME NEW j \in 1 .. n - 2 PROVE a[j + 1].at = End(a[j])
    <3>1. j \in 1 .. n - 1 /\ j + 1 \in 1 .. n - 1  BY <1>1
    <3>2. CASE j < i
      <4>1. Skip(i, j) = j /\ Skip(i, j + 1) = j + 1  BY <1>4, <3>2 DEF Skip
      <4> QED  BY <1>4, <1>5, <1>6, <3>1, <3>2, <4>1
    <3>3. CASE j = i
      <4>1. Skip(i, j + 1) = i + 2 /\ i + 1 \in 1 .. n - 1 /\ (i + 1) + 1 = i + 2
        BY <1>4, <3>1, <3>3 DEF Skip
      <4>2. c[i + 2].at = End(c[i + 1])  BY <1>4, <4>1
      <4> QED  BY <1>5, <1>6, <3>1, <3>3, <4>1, <4>2
    <3>4. CASE j > i
      <4>1. Skip(i, j) = j + 1 /\ Skip(i, j + 1) = (j + 1) + 1  BY <1>4, <3>4 DEF Skip
      <4>2. c[(j + 1) + 1].at = End(c[j + 1])  BY <1>4, <3>1
      <4> QED  BY <1>5, <1>6, <3>1, <3>4, <4>1, <4>2
    <3> QED  BY <1>1, <1>4, <3>2, <3>3, <3>4
  <2>5. ASSUME NEW j \in 1 .. n - 1, NEW k \in 1 .. n - 1, j < k
        PROVE  End(a[j]) <= a[k].at
    <3>1. a[k].at = c[Skip(i, k)].at /\ Skip(i, k) \in 1 .. n  BY <1>5
    <3>2. CASE j = i
      <4>1. i + 1 < Skip(i, k)  BY <1>1, <1>4, <2>5, <3>2 DEF Skip
      <4> QED  BY <1>4, <1>6, <3>1, <3>2, <4>1
    <3>3. CASE j # i
      <4>1. Skip(i, j) < Skip(i, k) /\ Skip(i, j) \in 1 .. n
        BY <1>1, <1>4, <2>5, <3>3 DEF Skip
      <4> QED  BY <1>4, <1>6, <3>1, <3>3, <4>1
    <3> QED  BY <3>2, <3>3
  <2>6. End(a[n - 1]) >= PageEnd
    <3>1. n - 1 \in 1 .. n - 1  BY <1>1, <1>4
    <3>2. CASE i = n - 1
      <4>1. i + 1 = n  BY <1>1, <3>2
      <4> QED  BY <1>4, <1>6, <3>2, <4>1
    <3>3. CASE i # n - 1
      <4>1. Skip(i, n - 1) = n  BY <1>1, <1>4, <3>3 DEF Skip
      <4> QED  BY <1>4, <1>6, <3>1, <3>3, <4>1
    <3> QED  BY <3>2, <3>3
  <2>7. n - 1 - 1 = n - 2  BY <1>1
  <2> QED  BY <1>2, <2>1, <2>2, <2>3, <2>4, <2>5, <2>6, <2>7 DEF Linked
<1>8. \A j \in 1 .. n - 1 : a[j].free <=> c[Skip(i, j)].free
  <2>1. Skip(i, i) = i  BY <1>4 DEF Skip
  <2> QED  BY <1>2, <2>1, Zenon
<1>9. Used(a) = Used(c)
  <2> DEFINE Of(d, j) == Known(d[j])
             UsedIn(d) == {j \in 1 .. Len(d) : ~d[j].free}
  <2>1. ASSUME NEW j \in UsedIn(a)
        PROVE  Skip(i, j) \in UsedIn(c) /\ Of(a, j) = Of(c, Skip(i, j))
    <3>1. j \in 1 .. n - 1 /\ ~a[j].free  BY <1>2
    <3>2. j # i  BY <1>2, <3>1
    <3>3. a[j] = c[Skip(i, j)]  BY <1>2, <3>1, <3>2
    <3>4. ~c[Skip(i, j)].free  BY <3>1, <3>3, Zenon
    <3> QED  BY <1>5, <3>1, <3>3, <3>4
  <2>2. ASSUME NEW j \in UsedIn(c)
        PROVE  \E k \in UsedIn(a) : Of(a, k) = Of(c, j)
    <3>1. j \in 1 .. n /\ ~c[j].free  OBVIOUS
    <3>2. j # i /\ j # i + 1  BY <3>1
    <3>3. PICK k \in 1 .. n - 1 : k # i /\ Skip(i, k) = j
      <4>1. CASE j < i  BY <1>1, <1>4, <3>1, <4>1 DEF Skip
      <4>2. CASE j > i
        <5>1. j - 1 \in 1 .. n - 1 /\ j - 1 # i /\ Skip(i, j - 1) = j
          BY <1>1, <1>4, <3>1, <3>2, <4>2 DEF Skip
        <5> QED  BY <5>1
      <4> QED  BY <1>1, <1>4, <3>1, <3>2, <4>1, <4>2
    <3>4. a[k] = c[j]  BY <1>2, <3>3
    <3>5. ~a[k].free  BY <3>1, <3>4, Zenon
    <3> QED  BY <1>2, <3>3, <3>4, <3>5
  <2>3. Used(a) = {Of(a, j) : j \in UsedIn(a)} /\ Used(c) = {Of(c, j) : j \in UsedIn(c)}
    BY DEF Used
  <2> HIDE DEF Of, UsedIn
  <2> QED  BY <2>1, <2>2, <2>3
<1>10. ASSUME NEW j \in Split(a)
       PROVE  IF j < i THEN j \in Split(c) ELSE j + 1 \in Split(c)
  <2>1. j \in 1 .. n - 2 /\ a[j].free /\ a[j + 1].free
    <3>1. n - 1 - 1 = n - 2  BY <1>1
    <3> QED  BY <1>2, <3>1 DEF Split
  <2>2. j \in 1 .. n - 1 /\ j + 1 \in 1 .. n - 1  BY <1>1, <2>1
  <2>3. c[Skip(i, j)].free /\ c[Skip(i, j + 1)].free  BY <1>8, <2>1, <2>2
  <2>4. CASE j < i
    <3>1. Skip(i, j) = j /\ Skip(i, j + 1) = j + 1  BY <1>4, <2>1, <2>4 DEF Skip
    <3>2. c[j].free /\ c[j + 1].free  BY <2>3, <3>1
    <3> QED  BY <2>2, <2>4, <3>2 DEF Split
  <2>5. CASE ~(j < i)
    <3>1. Skip(i, j + 1) = (j + 1) + 1  BY <1>4, <2>1, <2>5 DEF Skip
    <3>2. c[(j + 1) + 1].free  BY <2>3, <3>1
    <3>3. c[j + 1].free
      <4>1. CASE j = i  BY <4>1
      <4>2. CASE j # i
        <5>1. Skip(i, j) = j + 1  BY <1>4, <2>1, <2>5, <4>2 DEF Skip
        <5> QED  BY <2>3, <5>1
      <4> QED  BY <4>1, <4>2
    <3> QED  BY <2>2, <2>5, <3>2, <3>3 DEF Split
  <2> QED  BY <2>4, <2>5
<1>11. \A j \in 1 .. i : a[j].free <=> c[j].free
  <2> SUFFICES ASSUME NEW j \in 1 .. i PROVE a[j].free <=> c[j].free
    OBVIOUS
  <2>1. j \in 1 .. n - 1 /\ Skip(i, j) = j  BY <1>1, <1>4 DEF Skip
  <2> QED  BY <1>8, <2>1
<1> QED  BY <1>2, <1>7, <1>9, <1>10, <1>11 DEF a
--------------------------------------------------------------------------------
(* Headers lie in the order of the chain, each at a place of its own.       *)
LEMMA ChainFacts ==
  ASSUME NEW c, Linked(c)
  PROVE  /\ c \in Seq(Headers) /\ Len(c) \in Nat /\ Len(c) >= 1
         /\ \A j \in 1 .. Len(c) : /\ c[j] \in Headers
                                   /\ c[j].at \in heap_first .. PageEnd /\ c[j].at \in Int
                                   /\ c[j].size \in Nat
         /\ \A j, k \in 1 .. Len(c) : j < k => c[j].at + Header + c[j].size <= c[k].at
         /\ \A j, k \in 1 .. Len(c) : c[j].at = c[k].at => j = k
<1>1. c \in Seq(Headers) /\ Len(c) \in Nat /\ Len(c) >= 1
  <2>1. c \in Seq(Headers) /\ Len(c) >= 1  BY DEF Linked
  <2> QED  BY <2>1, LenProperties
<1>2. \A j \in 1 .. Len(c) : /\ c[j] \in Headers
                             /\ c[j].at \in heap_first .. PageEnd /\ c[j].at \in Int
                             /\ c[j].size \in Nat
  <2>1. \A j \in 1 .. Len(c) : c[j] \in Headers  BY <1>1, ElementOfSeq
  <2> QED  BY <2>1, HeapAssumption DEF Headers, heap_first, PageEnd
<1>3. \A j, k \in 1 .. Len(c) : j < k => c[j].at + Header + c[j].size <= c[k].at
  BY DEF Linked, End
<1>4. ASSUME NEW j \in 1 .. Len(c), NEW k \in 1 .. Len(c), j < k
      PROVE  c[j].at # c[k].at
  <2>1. c[j].at + Header + c[j].size <= c[k].at  BY <1>3, <1>4
  <2> QED  BY <1>2, <2>1 DEF Header
<1>5. ASSUME NEW j \in 1 .. Len(c), NEW k \in 1 .. Len(c), c[j].at = c[k].at
      PROVE  j = k
  <2>1. j < k \/ k < j \/ j = k  BY <1>1
  <2> QED  BY <1>4, <1>5, <2>1
<1> QED  BY <1>1, <1>2, <1>3, <1>5

(* kfree marks the header free: one block less in use, and no pair of free  *)
(* neighbours but with the block just freed.                                *)
LEMMA MarkKeeps ==
  ASSUME NEW c, Linked(c), Split(c) = {}, NEW i \in 1 .. Len(c), ~c[i].free
  PROVE  LET m == [c EXCEPT ![i].free = TRUE]
         IN  /\ Linked(m) /\ Len(m) = Len(c) /\ m[i].free
             /\ Split(m) \subseteq {i - 1, i}
             /\ Used(m) = Used(c) \ {Known(c[i])}
<1> DEFINE e == [c[i] EXCEPT !.free = TRUE]
           m == [c EXCEPT ![i] = e]
           n == Len(c)
<1>1. /\ c \in Seq(Headers) /\ n \in Nat /\ n >= 1 /\ i \in Int
      /\ \A j \in 1 .. n : c[j] \in Headers
      /\ \A j, k \in 1 .. n : c[j].at = c[k].at => j = k
  BY ChainFacts
<1>2. e = [at |-> c[i].at, size |-> c[i].size, free |-> TRUE]
  <2>1. \A h \in Headers : \A v :
          [h EXCEPT !.free = v] = [at |-> h.at, size |-> h.size, free |-> v]
    BY DEF Headers
  <2> QED  BY <1>1, <2>1, Zenon
<1>3. e.free  BY <1>2, Zenon
<1>4. e.at = c[i].at /\ e.size = c[i].size  BY <1>2, Zenon
<1>5. e \in Headers
  <2>1. c[i].at \in heap_first .. PageEnd /\ c[i].size \in Nat  BY <1>1 DEF Headers
  <2> QED  BY <1>2, <2>1 DEF Headers
<1> HIDE DEF e
<1>6. /\ m \in Seq(Headers) /\ Len(m) = n /\ m[i] = e
      /\ \A j \in 1 .. n : j # i => m[j] = c[j]
  BY <1>1, <1>5, ExceptSeq
<1> HIDE DEF m
<1>7. /\ \A j \in 1 .. n : m[j].at = c[j].at /\ m[j].size = c[j].size
      /\ \A j \in 1 .. n : End(m[j]) = End(c[j]) /\ Known(m[j]) = Known(c[j])
  <2>1. \A j \in 1 .. n : m[j].at = c[j].at /\ m[j].size = c[j].size
    BY <1>4, <1>6, Zenon
  <2> QED  BY <2>1, Zenon DEF End, Known
<1>8. Linked(m)
  <2>1. n \in 1 .. n /\ 1 \in 1 .. n /\ \A j \in 1 .. n - 1 : j \in 1 .. n /\ j + 1 \in 1 .. n
    BY <1>1
  <2>2. /\ c[1].at = heap_first
        /\ \A j \in 1 .. n : c[j].at + Header <= PageEnd
        /\ \A j \in 1 .. n - 1 : c[j + 1].at = End(c[j])
        /\ \A j, k \in 1 .. n : j < k => End(c[j]) <= c[k].at
        /\ End(c[n]) >= PageEnd
    BY DEF Linked
  <2>3. /\ m[1].at = heap_first
        /\ \A j \in 1 .. n : m[j].at + Header <= PageEnd
        /\ \A j \in 1 .. n - 1 : m[j + 1].at = End(m[j])
        /\ \A j, k \in 1 .. n : j < k => End(m[j]) <= m[k].at
        /\ End(m[n]) >= PageEnd
    BY <1>7, <2>1, <2>2, Zenon
  <2> QED  BY <1>1, <1>6, <2>3 DEF Linked
<1>9. m[i].free  BY <1>3, <1>6, Zenon
<1>10. ASSUME NEW j \in Split(m) PROVE j \in {i - 1, i}
  <2>1. j \in 1 .. n - 1 /\ m[j].free /\ m[j + 1].free  BY <1>6 DEF Split
  <2>2. j \in 1 .. n /\ j + 1 \in 1 .. n /\ j \in Int  BY <1>1, <2>1
  <2> SUFFICES ASSUME j # i, j + 1 # i PROVE FALSE
    BY <1>1, <2>2
  <2>3. c[j].free /\ c[j + 1].free  BY <1>6, <2>1, <2>2
  <2> QED  BY <2>1, <2>3 DEF Split
<1>11. Used(m) = Used(c) \ {Known(c[i])}
  <2> DEFINE UsedIn(d) == {j \in 1 .. Len(d) : ~d[j].free}
  <2>1. ASSUME NEW j \in UsedIn(m)
        PROVE  j \in UsedIn(c) /\ Known(m[j]) = Known(c[j]) /\ Known(m[j]) # Known(c[i])
    <3>1. j \in 1 .. n /\ ~m[j].free  BY <1>6
    <3>2. j # i  BY <1>9, <3>1
    <3>3. m[j] = c[j]  BY <1>6, <3>1, <3>2
    <3>4. ~c[j].free  BY <3>1, <3>3, Zenon
    <3>5. Known(c[j]) # Known(c[i])
      <4> SUFFICES ASSUME Known(c[j]) = Known(c[i]) PROVE FALSE
        OBVIOUS
      <4>1. c[j].at + Header = c[i].at + Header  BY Zenon DEF Known
      <4>2. c[j].at \in Int /\ c[i].at \in Int  BY <3>1, ChainFacts
      <4>3. c[j].at = c[i].at  BY <4>1, <4>2 DEF Header
      <4> QED  BY <1>1, <3>1, <3>2, <4>3
    <3> QED  BY <3>1, <3>3, <3>4, <3>5
  <2>2. ASSUME NEW j \in UsedIn(c), Known(c[j]) # Known(c[i])
        PROVE  j \in UsedIn(m) /\ Known(m[j]) = Known(c[j])
    <3>1. j \in 1 .. n /\ ~c[j].free /\ j # i  BY <2>2
    <3>2. m[j] = c[j]  BY <1>6, <3>1
    <3>3. ~m[j].free  BY <3>1, <3>2, Zenon
    <3> QED  BY <1>6, <3>1, <3>2, <3>3
  <2>3. Used(m) = {Known(m[j]) : j \in UsedIn(m)} /\ Used(c) = {Known(c[j]) : j \in UsedIn(c)}
    BY DEF Used
  <2> HIDE DEF UsedIn
  <2> QED  BY <2>1, <2>2, <2>3
<1>12. [c EXCEPT ![i].free = TRUE] = m  BY DEF m, e
<1> QED  BY <1>6, <1>8, <1>9, <1>10, <1>11, <1>12

(* The two merges of kfree (heap.c:74-93): forward, then backward.          *)
LEMMA MergesKeep ==
  ASSUME NEW m, Linked(m), NEW i \in 1 .. Len(m), m[i].free,
         Split(m) \subseteq {i - 1, i}
  PROVE  LET r == MergeBackward(MergeForward(m, i), i)
         IN  Linked(r) /\ Split(r) = {} /\ Used(r) = Used(m)
<1> DEFINE f == MergeForward(m, i)
           r == MergeBackward(f, i)
<1>1. Len(m) \in Nat /\ i \in Int  BY ChainFacts
<1>2. /\ Linked(f) /\ i \in 1 .. Len(f) /\ Used(f) = Used(m) /\ f[i].free
      /\ Split(f) \subseteq {i - 1}
  <2>1. CASE i < Len(m) /\ m[i + 1].free
    <3>1. f = Absorb(m, i) /\ i \in 1 .. Len(m) - 1  BY <1>1, <2>1 DEF MergeForward
    <3>2. /\ Linked(f) /\ Len(f) = Len(m) - 1 /\ Used(f) = Used(m)
          /\ \A j \in Split(f) : IF j < i THEN j \in Split(m) ELSE j + 1 \in Split(m)
          /\ \A j \in 1 .. i : f[j].free <=> m[j].free
      <4> HIDE DEF f
      <4> QED  BY <2>1, <3>1, AbsorbKeeps
    <3> HIDE DEF f
    <3>3. ASSUME NEW j \in Split(f) PROVE j = i - 1
      <4>1. j \in Int  BY DEF Split
      <4> QED  BY <1>1, <3>2, <4>1
    <3> QED  BY <1>1, <3>1, <3>2, <3>3
  <2>2. CASE ~(i < Len(m) /\ m[i + 1].free)
    <3>1. f = m  BY <2>2 DEF MergeForward
    <3>2. i \notin Split(m)  BY <1>1, <2>2 DEF Split
    <3> HIDE DEF f
    <3> QED  BY <3>1, <3>2
  <2> QED  BY <2>1, <2>2
<1> HIDE DEF f
<1>3. Len(f) \in Nat  BY <1>2, ChainFacts
<1>4. Linked(r) /\ Split(r) = {} /\ Used(r) = Used(f)
  <2>1. CASE i > 1 /\ f[i - 1].free
    <3>1. r = Absorb(f, i - 1) /\ i - 1 \in 1 .. Len(f) - 1 /\ (i - 1) + 1 = i
      BY <1>1, <1>2, <1>3, <2>1 DEF MergeBackward
    <3>2. f[(i - 1) + 1].free  BY <1>2, <3>1
    <3> DEFINE l == i - 1
    <3>3. l \in 1 .. Len(f) - 1 /\ f[l].free /\ f[l + 1].free /\ r = Absorb(f, l)
      BY <2>1, <3>1, <3>2
    <3> HIDE DEF l, r
    <3>4. /\ Linked(r) /\ Used(r) = Used(f)
          /\ \A j \in Split(r) : IF j < l THEN j \in Split(f) ELSE j + 1 \in Split(f)
      BY <1>2, <3>3, AbsorbKeeps
    <3>5. ASSUME NEW j \in Split(r) PROVE FALSE
      <4>1. j \in Int  BY DEF Split
      <4> QED  BY <1>1, <1>2, <3>4, <4>1 DEF l
    <3> QED  BY <3>4, <3>5
  <2>2. CASE ~(i > 1 /\ f[i - 1].free)
    <3>1. r = f  BY <2>2 DEF MergeBackward
    <3>2. i - 1 \notin Split(f)
      <4>1. i - 1 \in Split(f) => i > 1 /\ f[i - 1].free  BY <1>1 DEF Split
      <4> QED  BY <2>2, <4>1
    <3> HIDE DEF r
    <3> QED  BY <1>2, <3>1, <3>2
  <2> QED  BY <2>1, <2>2
<1> QED  BY <1>2, <1>4 DEF r, f

(* The end of a sequence replaced by others.                                *)
LEMMA SpliceLast ==
  ASSUME NEW S, NEW s \in Seq(S), NEW m \in Seq(S), NEW l \in 0 .. Len(s)
  PROVE  /\ Spliced(s, l, m, Len(s)) \in Seq(S)
         /\ Len(Spliced(s, l, m, Len(s))) = l + Len(m)
         /\ \A j \in 1 .. l : Spliced(s, l, m, Len(s))[j] = s[j]
         /\ \A j \in 1 .. Len(m) : Spliced(s, l, m, Len(s))[l + j] = m[j]
<1>1. Len(s) \in l .. Len(s) /\ Len(s) \in Nat /\ l \in Int
  <2>1. Len(s) \in Nat  BY LenProperties
  <2> QED  BY <2>1
<1>2. Len(m) \in Nat  BY LenProperties
<1>3. /\ Spliced(s, l, m, Len(s)) \in Seq(S)
      /\ Len(Spliced(s, l, m, Len(s))) = l + Len(m) + (Len(s) - Len(s))
  BY <1>1, Splice
<1>4. \A j \in 1 .. l : Spliced(s, l, m, Len(s))[j] = s[j]
  BY <1>1, SplicedFront
<1>5. \A j \in 1 .. Len(m) : Spliced(s, l, m, Len(s))[l + j] = m[j]
  <2> SUFFICES ASSUME NEW j \in 1 .. Len(m)
               PROVE  Spliced(s, l, m, Len(s))[l + j] = m[j]
    OBVIOUS
  <2> DEFINE n == Len(s)
  <2>1. n \in l .. Len(s)  BY <1>1
  <2> HIDE DEF n
  <2>2. Spliced(s, l, m, n)[l + j] = m[j]  BY <2>1, SplicedMiddle
  <2> QED  BY <2>2 DEF n
<1>6. Len(Spliced(s, l, m, Len(s))) = l + Len(m)  BY <1>1, <1>2, <1>3
<1> QED  BY <1>3, <1>4, <1>5, <1>6

(* kmalloc takes the last block of the chain, whole or with the rest linked *)
(* behind it: the new block lies above every block in use before.           *)
Takes(c, req, p, d) ==
  /\ c[Len(c)].free /\ c[Len(c)].size >= req
  /\ \A j \in 1 .. Len(c) - 1 : ~c[j].free
  /\ p = Carve(c[Len(c)], req)
  /\ Len(p) = 2 => p[2].at + Header <= PageEnd
  /\ d = Spliced(c, Len(c) - 1, p, Len(c))

LEMMA GrantKeeps ==
  ASSUME NEW c, Linked(c), NEW req \in Nat \ {0}, NEW p, NEW d, Takes(c, req, p, d)
  PROVE  /\ Linked(d) /\ Split(d) = {}
         /\ Used(d) = Used(c) \cup {[ptr |-> c[Len(c)].at + Header, size |-> req]}
         /\ \A u \in Used(c) : u.ptr < c[Len(c)].at + Header
<1> DEFINE n == Len(c)
           leftover == c[n].size - req
           used == Block(c[n].at, req, FALSE)
           rest == Block(c[n].at + Header + req, leftover, TRUE)
           k == Len(d)
<1>1. /\ c \in Seq(Headers) /\ n \in Nat /\ n >= 1 /\ n \in 1 .. n /\ n - 1 \in Nat
      /\ \A j \in 1 .. n : /\ c[j] \in Headers
                           /\ c[j].at \in heap_first .. PageEnd /\ c[j].at \in Int
                           /\ c[j].size \in Nat
      /\ \A i, j \in 1 .. n : c[i].at = c[j].at => i = j
  <2>1. n \in Nat /\ n >= 1 => n \in 1 .. n /\ n - 1 \in Nat  OBVIOUS
  <2> QED  BY <2>1, ChainFacts
<1>2. /\ c[1].at = heap_first
      /\ \A j \in 1 .. n : c[j].at + Header <= PageEnd
      /\ \A j \in 1 .. n - 1 : c[j + 1].at = End(c[j])
      /\ \A i, j \in 1 .. n : i < j => End(c[i]) <= c[j].at
      /\ End(c[n]) >= PageEnd
  BY DEF Linked
<1>3. /\ \A at, size, free : /\ Block(at, size, free).at = at
                             /\ Block(at, size, free).size = size
      /\ \A at, size : ~Block(at, size, FALSE).free /\ Block(at, size, TRUE).free
  BY Zenon DEF Block
<1>4. /\ used.at = c[n].at /\ used.size = req /\ ~used.free
      /\ rest.at = c[n].at + Header + req /\ rest.size = leftover /\ rest.free
  <2>1. used.at = c[n].at /\ used.size = req  BY Zenon DEF Block
  <2>2. rest.at = c[n].at + Header + req /\ rest.size = leftover  BY Zenon DEF Block
  <2>3. ~used.free  BY <1>3, Zenon
  <2>4. rest.free  BY <1>3, Zenon
  <2> QED  BY <2>1, <2>2, <2>3, <2>4, Zenon
<1>5. p = IF leftover > 0 THEN <<used, rest>> ELSE <<used>>
  <2>1. p = Carve(c[n], req)  BY DEF Takes
  <2> QED  BY <2>1 DEF Carve
<1>6. c[n].size >= req /\ c[n].free /\ \A j \in 1 .. n - 1 : ~c[j].free
  BY DEF Takes
<1>7. d = Spliced(c, n - 1, p, n) /\ (Len(p) = 2 => p[2].at + Header <= PageEnd)
  BY DEF Takes
<1>8. req \in Nat /\ req > 0 /\ leftover \in Nat /\ (leftover = 0 => req = c[n].size)
  BY <1>1, <1>6
<1>9. leftover > 0 => c[n].at + Header + req + Header <= PageEnd
  <2>1. leftover > 0 => p = <<used, rest>>  BY <1>5
  <2> HIDE DEF used, rest
  <2>2. leftover > 0 => Len(p) = 2 /\ p[2] = rest  BY <2>1
  <2>3. leftover > 0 => rest.at + Header <= PageEnd  BY <1>7, <2>2, Zenon
  <2> QED  BY <1>4, <2>3, Zenon
<1>10. used \in Headers /\ (leftover > 0 => rest \in Headers)
  <2>1. c[n].at \in heap_first .. PageEnd  BY <1>1
  <2>2. used \in Headers  BY <1>8, <2>1 DEF Headers, Block
  <2>3. leftover > 0 => c[n].at + Header + req \in heap_first .. PageEnd
    BY <1>1, <1>8, <1>9, <2>1, HeapAssumption DEF Header, heap_first, PageEnd
  <2>4. leftover > 0 => rest \in Headers  BY <1>8, <2>3 DEF Headers, Block
  <2> QED  BY <2>2, <2>4
<1>11. p \in Seq(Headers)
  <2>1. CASE leftover > 0
    <3>1. p = <<used, rest>>  BY <1>5, <2>1
    <3> HIDE DEF used, rest
    <3> QED  BY <1>10, <2>1, <3>1
  <2>2. CASE ~(leftover > 0)
    <3>1. p = <<used>>  BY <1>5, <2>2
    <3> HIDE DEF used, rest
    <3> QED  BY <1>10, <3>1
  <2> QED  BY <2>1, <2>2
<1>12. /\ Len(p) = IF leftover > 0 THEN 2 ELSE 1
       /\ p[1] = used /\ (leftover > 0 => p[2] = rest)
  <2> HIDE DEF used, rest
  <2>1. CASE leftover > 0
    <3>1. p = <<used, rest>>  BY <1>5, <2>1
    <3> QED  BY <2>1, <3>1
  <2>2. CASE ~(leftover > 0)
    <3>1. p = <<used>>  BY <1>5, <2>2
    <3> QED  BY <2>2, <3>1
  <2> QED  BY <2>1, <2>2
<1> HIDE DEF used, rest, leftover, n
<1>13. /\ d \in Seq(Headers) /\ k = (n - 1) + Len(p)
       /\ \A j \in 1 .. n - 1 : d[j] = c[j]
       /\ \A j \in 1 .. Len(p) : d[(n - 1) + j] = p[j]
  <2> DEFINE l == n - 1
             t == Spliced(c, l, p, Len(c))
  <2>1. l \in 0 .. Len(c)  BY <1>1 DEF n
  <2>2. d = t  BY <1>7 DEF n
  <2> HIDE DEF l
  <2>3. t \in Seq(Headers) /\ Len(t) = l + Len(p)  BY <1>1, <1>11, <2>1, SpliceLast
  <2>4. \A j \in 1 .. l : t[j] = c[j]  BY <1>1, <1>11, <2>1, SpliceLast
  <2>5. \A j \in 1 .. Len(p) : t[l + j] = p[j]  BY <1>1, <1>11, <2>1, SpliceLast
  <2> HIDE DEF t
  <2> QED  BY <2>2, <2>3, <2>4, <2>5 DEF l
<1> HIDE DEF k
<1>14. d[n] = used
  <2>1. 1 \in 1 .. Len(p) /\ (n - 1) + 1 = n  BY <1>1, <1>12
  <2> QED  BY <1>12, <1>13, <2>1
<1>15. leftover > 0 => k = n + 1 /\ d[n + 1] = rest
  <2>1. leftover > 0 => 2 \in 1 .. Len(p) /\ (n - 1) + 2 = n + 1  BY <1>1, <1>12
  <2> QED  BY <1>12, <1>13, <2>1
<1>16. ~(leftover > 0) => k = n  BY <1>1, <1>12, <1>13
<1>17. /\ d[n].at = c[n].at /\ d[n].size = req /\ ~d[n].free
       /\ End(d[n]) = c[n].at + Header + req
  <2>1. d[n].at = c[n].at /\ d[n].size = req /\ ~d[n].free  BY <1>4, <1>14, Zenon
  <2> QED  BY <2>1 DEF End
<1>18. leftover > 0 => /\ d[n + 1].at = c[n].at + Header + req /\ d[n + 1].free
                       /\ End(d[n + 1]) = c[n].at + Header + req + Header + leftover
  <2>1. leftover > 0 => /\ d[n + 1].at = c[n].at + Header + req /\ d[n + 1].free
                        /\ d[n + 1].size = leftover
    BY <1>4, <1>15, Zenon
  <2> QED  BY <2>1 DEF End
<1>19. Linked(d)
  <2>1. k \in Nat /\ k >= 1 /\ k \in {n, n + 1} /\ n \in 1 .. k  BY <1>1, <1>8, <1>15, <1>16
  <2>2. d[1].at = heap_first
    <3>1. n = 1 \/ 1 \in 1 .. n - 1  BY <1>1
    <3> QED  BY <1>2, <1>13, <1>17, <3>1
  <2>3. ASSUME NEW j \in 1 .. k PROVE d[j].at + Header <= PageEnd
    <3>1. j \in 1 .. n - 1 \/ j = n \/ (j = n + 1 /\ leftover > 0)
      BY <1>1, <1>8, <1>15, <1>16
    <3>2. \A i \in 1 .. n - 1 : i \in 1 .. n  BY <1>1
    <3> QED  BY <1>1, <1>2, <1>9, <1>13, <1>17, <1>18, <3>1, <3>2
  <2>4. ASSUME NEW j \in 1 .. k - 1 PROVE d[j + 1].at = End(d[j])
    <3>1. \/ j \in 1 .. n - 1 /\ j + 1 \in 1 .. n - 1
          \/ j \in 1 .. n - 1 /\ j + 1 = n
          \/ j = n /\ leftover > 0
      BY <1>1, <1>8, <1>15, <1>16
    <3>2. CASE j \in 1 .. n - 1 /\ j + 1 \in 1 .. n - 1  BY <1>2, <1>13, <3>2
    <3>3. CASE j \in 1 .. n - 1 /\ j + 1 = n  BY <1>2, <1>13, <1>17, <3>3
    <3>4. CASE j = n /\ leftover > 0  BY <1>17, <1>18, <3>4
    <3> QED  BY <3>1, <3>2, <3>3, <3>4
  <2>5. ASSUME NEW i \in 1 .. k, NEW j \in 1 .. k, i < j PROVE End(d[i]) <= d[j].at
    <3>1. \/ i \in 1 .. n - 1 /\ j \in 1 .. n - 1
          \/ i \in 1 .. n - 1 /\ j = n
          \/ i \in 1 .. n - 1 /\ j = n + 1 /\ leftover > 0
          \/ i = n /\ j = n + 1 /\ leftover > 0
      BY <1>1, <1>8, <1>15, <1>16, <2>5
    <3>2. i \in 1 .. n - 1 => i \in 1 .. n /\ i < n  BY <1>1
    <3>3. CASE i \in 1 .. n - 1 /\ j \in 1 .. n - 1
      <4>1. j \in 1 .. n  BY <1>1, <3>3
      <4> QED  BY <1>2, <1>13, <2>5, <3>2, <3>3, <4>1
    <3>4. CASE i \in 1 .. n - 1 /\ j = n  BY <1>1, <1>2, <1>13, <1>17, <3>2, <3>4
    <3>5. CASE i \in 1 .. n - 1 /\ j = n + 1 /\ leftover > 0
      <4>1. End(c[i]) <= c[n].at /\ d[i] = c[i]  BY <1>1, <1>2, <1>13, <3>2, <3>5
      <4>2. c[i].at \in Int /\ c[i].size \in Nat /\ c[n].at \in Int  BY <1>1, <3>2, <3>5
      <4>3. End(c[i]) \in Int  BY <4>2 DEF End, Header
      <4>4. End(c[i]) <= c[n].at + Header + req  BY <1>8, <4>1, <4>2, <4>3 DEF Header
      <4> QED  BY <1>18, <3>5, <4>1, <4>4
    <3>6. CASE i = n /\ j = n + 1 /\ leftover > 0
      <4>1. c[n].at + Header + req <= c[n].at + Header + req  BY <1>1, <1>8 DEF Header
      <4> QED  BY <1>17, <1>18, <3>6, <4>1
    <3> QED  BY <3>1, <3>3, <3>4, <3>5, <3>6
  <2>6. End(d[k]) >= PageEnd
    <3>1. c[n].at + Header + c[n].size >= PageEnd  BY <1>2 DEF End
    <3>2. c[n].at \in Int /\ c[n].size \in Nat /\ PageEnd \in Int
      BY <1>1, HeapAssumption DEF PageEnd, heap_first
    <3>3. CASE leftover > 0
      <4>1. leftover = c[n].size - req  BY DEF leftover
      <4>2. c[n].at + Header + req + Header + leftover >= PageEnd
        BY <1>8, <3>1, <3>2, <3>3, <4>1 DEF Header
      <4> QED  BY <1>15, <1>18, <3>3, <4>2
    <3>4. CASE ~(leftover > 0)
      <4>1. req = c[n].size  BY <1>8, <3>4
      <4> QED  BY <1>16, <1>17, <3>1, <3>4, <4>1
    <3> QED  BY <3>3, <3>4
  <2> QED  BY <1>13, <2>1, <2>2, <2>3, <2>4, <2>5, <2>6 DEF Linked, k
<1>20. \A j \in 1 .. n : ~d[j].free
  <2> SUFFICES ASSUME NEW j \in 1 .. n PROVE ~d[j].free
    OBVIOUS
  <2>1. j = n \/ j \in 1 .. n - 1  BY <1>1
  <2>2. j \in 1 .. n - 1 => ~d[j].free
    <3>1. j \in 1 .. n - 1 => d[j] = c[j] /\ ~c[j].free  BY <1>6, <1>13
    <3> QED  BY <3>1, Zenon
  <2> QED  BY <1>17, <2>1, <2>2
<1>21. Split(d) = {}
  <2> SUFFICES ASSUME NEW j \in Split(d) PROVE FALSE
    OBVIOUS
  <2>1. j \in 1 .. k - 1 /\ d[j].free  BY DEF Split, k
  <2>2. j \in 1 .. n  BY <1>1, <1>8, <1>15, <1>16, <2>1
  <2> QED  BY <1>20, <2>1, <2>2
<1>22. {j \in 1 .. k : ~d[j].free} = 1 .. n
  <2>1. ASSUME NEW j \in 1 .. k, ~d[j].free PROVE j \in 1 .. n
    <3>1. j \in 1 .. n \/ (j = n + 1 /\ leftover > 0)  BY <1>1, <1>8, <1>15, <1>16
    <3> QED  BY <1>18, <2>1, <3>1
  <2>2. ASSUME NEW j \in 1 .. n PROVE j \in 1 .. k  BY <1>1, <1>8, <1>15, <1>16
  <2> QED  BY <1>20, <2>1, <2>2
<1>23. {j \in 1 .. n : ~c[j].free} = 1 .. n - 1
  <2>1. ASSUME NEW j \in 1 .. n, ~c[j].free PROVE j \in 1 .. n - 1
    <3>1. j = n \/ j \in 1 .. n - 1  BY <1>1
    <3> QED  BY <1>6, <2>1, <3>1
  <2>2. ASSUME NEW j \in 1 .. n - 1 PROVE j \in 1 .. n  BY <1>1
  <2> QED  BY <1>6, <2>1, <2>2
<1>24. Used(d) = Used(c) \cup {[ptr |-> c[n].at + Header, size |-> req]}
  <2>1. Used(d) = {Known(d[j]) : j \in 1 .. n}  BY <1>22 DEF Used, k
  <2>2. Used(c) = {Known(c[j]) : j \in 1 .. n - 1}  BY <1>23 DEF Used, n
  <2>3. Known(d[n]) = [ptr |-> c[n].at + Header, size |-> req]  BY <1>17 DEF Known
  <2>4. \A j \in 1 .. n - 1 : Known(d[j]) = Known(c[j])  BY <1>13
  <2>5. \A j \in 1 .. n : j = n \/ j \in 1 .. n - 1  BY <1>1
  <2>6. \A j \in 1 .. n - 1 : j \in 1 .. n  BY <1>1
  <2>7. n \in 1 .. n  BY <1>1
  <2> DEFINE new == [ptr |-> c[n].at + Header, size |-> req]
  <2>8. Known(d[n]) = new  BY <2>3
  <2> HIDE DEF new
  <2>9. Used(d) = Used(c) \cup {new}  BY <2>1, <2>2, <2>4, <2>5, <2>6, <2>7, <2>8, Zenon
  <2> QED  BY <2>9 DEF new
<1>25. ASSUME NEW u \in Used(c) PROVE u.ptr < c[n].at + Header
  <2>1. PICK j \in 1 .. n - 1 : u = Known(c[j])  BY <1>23 DEF Used, n
  <2>2. j \in 1 .. n /\ j < n  BY <1>1, <2>1
  <2>3. End(c[j]) <= c[n].at /\ c[j].at \in Int /\ c[j].size \in Nat /\ c[n].at \in Int
    BY <1>1, <1>2, <2>2
  <2>4. u.ptr = c[j].at + Header  BY <2>1 DEF Known
  <2>5. c[j].at + Header < c[n].at + Header  BY <2>3 DEF End, Header
  <2> QED  BY <2>4, <2>5
<1> QED  BY <1>19, <1>21, <1>24, <1>25 DEF n
--------------------------------------------------------------------------------
LEMMA InitInv == Init => IInv
<1> SUFFICES ASSUME Init PROVE IInv
  OBVIOUS
<1> DEFINE b == Block(heap_first, Page - Header, TRUE)
<1>1. chain = <<b>> /\ live = <<>> /\ halted = FALSE  BY DEF Init
<1>2. b \in Headers
  <2>1. heap_first \in heap_first .. PageEnd /\ Page - Header \in Nat
    BY HeapAssumption DEF heap_first, PageEnd, Header
  <2> QED  BY <2>1 DEF Block, Headers
<1>3. b.at = heap_first /\ b.size = Page - Header /\ b.free
  <2>1. b.at = heap_first /\ b.size = Page - Header  BY Zenon DEF Block
  <2>2. b.free  BY Zenon DEF Block
  <2> QED  BY <2>1, <2>2
<1> HIDE DEF b
<1>4. chain \in Seq(Headers) /\ Len(chain) = 1 /\ chain[1] = b  BY <1>1, <1>2
<1>5. End(b) = PageEnd /\ b.at + Header <= PageEnd
  BY <1>3, HeapAssumption DEF End, PageEnd, heap_first, Header
<1>6. Linked(chain)
  <2>1. PageEnd >= PageEnd  BY HeapAssumption DEF PageEnd, heap_first
  <2>2. \A j \in 1 .. 1 : j = 1  OBVIOUS
  <2>3. 1 .. 1 - 1 = {} /\ \A i, j \in 1 .. 1 : ~(i < j)  OBVIOUS
  <2> QED  BY <1>3, <1>4, <1>5, <2>1, <2>2, <2>3 DEF Linked
<1>7. Split(chain) = {}  BY <1>4 DEF Split
<1>8. Used(chain) = {}
  <2>1. \A j \in 1 .. 1 : chain[j].free  BY <1>3, <1>4
  <2> QED  BY <1>4, <2>1 DEF Used
<1>9. Owned
  <2>1. live \in Seq(Held) /\ Len(live) = 0  BY <1>1
  <2> QED  BY <1>8, <2>1 DEF Owned
<1> QED  BY <1>1, <1>6, <1>7, <1>9 DEF IInv

(* With no hole only the last block can be taken; what kmalloc then hands   *)
(* out is the newest block of the newest caller.                            *)
LEMMA Granting ==
  ASSUME IInv, ~Hole, NEW req \in Sizes, kmalloc(req)
  PROVE  IInv'
<1> DEFINE n == Len(chain)
           p == Carve(chain[n], req)
<1>1. /\ Linked(chain) /\ Split(chain) = {} /\ Owned /\ halted \in BOOLEAN
      /\ n \in Nat /\ n >= 1 /\ n \in 1 .. n
  <2>1. Linked(chain) /\ Split(chain) = {} /\ Owned /\ halted \in BOOLEAN  BY DEF IInv
  <2>2. n \in Nat /\ n >= 1  BY <2>1, ChainFacts
  <2> QED  BY <2>1, <2>2
<1>2. \A j \in 1 .. n - 1 : ~chain[j].free  BY DEF Hole
<1>3. DOMAIN chain = 1 .. n
  <2>1. chain \in Seq(Headers)  BY <1>1 DEF Linked
  <2> QED  BY <2>1, LenProperties
<1>4. Fitting(req) # {} => Fitting(req) = {n} /\ chain[n].free /\ chain[n].size >= req
  <2>1. ASSUME NEW i \in Fitting(req)
        PROVE  i = n /\ chain[n].free /\ chain[n].size >= req
    <3>1. i \in 1 .. n /\ chain[i].free /\ chain[i].size >= req  BY <1>3 DEF Fitting
    <3>2. i = n \/ i \in 1 .. n - 1  BY <1>1, <3>1
    <3>3. i = n  BY <1>2, <3>1, <3>2
    <3> QED  BY <3>1, <3>3
  <2> HIDE DEF n
  <2> QED  BY <2>1
<1>5. Fitting(req) # {} => Min(Fitting(req)) = n
  <2>1. n <= n  BY <1>1
  <2> HIDE DEF n
  <2> QED  BY <1>4, <2>1 DEF Min
<1>6. CASE UNCHANGED <<chain, live>> /\ halted' \in BOOLEAN
  BY <1>1, <1>6 DEF IInv, Owned
<1>7. CASE /\ Fitting(req) # {} /\ ~(Len(p) = 2 /\ p[2].at + Header > PageEnd)
           /\ chain' = SubSeq(chain, 1, n - 1) \o p \o SubSeq(chain, n + 1, n)
           /\ live' = Append(live, [ptr |-> chain[n].at + Header, size |-> req])
           /\ UNCHANGED halted
  <2> DEFINE new == [ptr |-> chain[n].at + Header, size |-> req]
             m == Len(live)
  <2>1. req \in Nat \ {0} /\ req \in Nat  BY HeapAssumption
  <2>2. Len(p) = 2 => p[2].at + Header <= PageEnd
    <3>1. Len(p) = 2 => p[2].at \in Int
      <4> DEFINE used == Block(chain[n].at, req, FALSE)
                 rest == Block(chain[n].at + Header + req, chain[n].size - req, TRUE)
      <4>1. p = <<used, rest>> \/ p = <<used>>  BY DEF Carve
      <4>2. rest.at = chain[n].at + Header + req  BY Zenon DEF Block
      <4>3. chain[n].at \in Int  BY <1>1, ChainFacts
      <4> HIDE DEF used, rest, p
      <4>4. rest.at \in Int  BY <2>1, <4>2, <4>3 DEF Header
      <4>5. Len(p) = 2 => p[2] = rest  BY <4>1
      <4> QED  BY <4>4, <4>5
    <3>2. PageEnd \in Int  BY HeapAssumption DEF PageEnd, heap_first
    <3> DEFINE at == p[2].at
    <3>3. ~(Len(p) = 2 /\ at + Header > PageEnd) /\ (Len(p) = 2 => at \in Int)
      BY <1>7, <3>1
    <3> HIDE DEF at, p
    <3>4. Len(p) = 2 => at + Header <= PageEnd  BY <3>2, <3>3 DEF Header
    <3> QED  BY <3>4 DEF at
  <2>3. Takes(chain, req, p, chain')
    BY <1>2, <1>4, <1>7, <2>2, Zenon DEF Takes, Spliced
  <2>4. /\ Linked(chain') /\ Split(chain') = {}
        /\ Used(chain') = Used(chain) \cup {new}
        /\ \A u \in Used(chain) : u.ptr < new.ptr
    <3> HIDE DEF p
    <3>1. /\ Linked(chain') /\ Split(chain') = {}
          /\ Used(chain') = Used(chain) \cup {[ptr |-> chain[n].at + Header, size |-> req]}
          /\ \A u \in Used(chain) : u.ptr < chain[n].at + Header
      BY <1>1, <2>1, <2>3, GrantKeeps
    <3> QED  BY <3>1
  <2>5. new \in Held
    <3>1. chain[n].at \in heap_first .. PageEnd  BY <1>1, ChainFacts
    <3>2. chain[n].at + Header <= PageEnd  BY <1>1 DEF Linked
    <3>3. chain[n].at + Header \in heap_first .. PageEnd
      BY <3>1, <3>2, HeapAssumption DEF Header, heap_first, PageEnd
    <3> QED  BY <3>3 DEF Held
  <2>6. live' = Append(live, new)  BY <1>7
  <2>7. /\ live \in Seq(Held) /\ m \in Nat
        /\ Used(chain) = {live[i] : i \in 1 .. m}
        /\ \A i, j \in 1 .. m : i < j => live[i].ptr < live[j].ptr
    <3>1. live \in Seq(Held)  BY <1>1 DEF Owned
    <3> QED  BY <1>1, <3>1, LenProperties DEF Owned
  <2> HIDE DEF new, n, p, m
  <2>8. /\ live' \in Seq(Held) /\ Len(live') = m + 1 /\ live'[m + 1] = new
        /\ \A j \in 1 .. m : live'[j] = live[j]
    BY <2>5, <2>6, <2>7, AppendProperties DEF m
  <2>9. \A j \in 1 .. m + 1 : j \in 1 .. m \/ j = m + 1  BY <2>7
  <2>10. (\A j \in 1 .. m : j \in 1 .. m + 1) /\ m + 1 \in 1 .. m + 1  BY <2>7
  <2>11. Used(chain') = {live'[i] : i \in 1 .. m + 1}
    BY <2>4, <2>7, <2>8, <2>9, <2>10, Zenon
  <2>12. ASSUME NEW i \in 1 .. m + 1, NEW j \in 1 .. m + 1, i < j
         PROVE  live'[i].ptr < live'[j].ptr
    <3>1. i \in 1 .. m  BY <2>7, <2>12
    <3>2. CASE j \in 1 .. m  BY <2>7, <2>8, <2>12, <3>1, <3>2
    <3>3. CASE j = m + 1
      <4>1. live[i] \in Used(chain)  BY <2>7, <3>1
      <4> QED  BY <2>4, <2>8, <3>1, <3>3, <4>1
    <3> QED  BY <2>9, <3>2, <3>3
  <2>13. Owned'  BY <2>8, <2>11, <2>12 DEF Owned
  <2> QED  BY <1>1, <1>7, <2>4, <2>13 DEF IInv
<1> QED
  <2>1. \/ Fitting(req) = {} /\ UNCHANGED <<chain, live, halted>>
        \/ Fitting(req) # {} /\ halted' = TRUE /\ UNCHANGED <<chain, live>>
        \/ LET i == Min(Fitting(req))
               q == Carve(chain[i], req)
           IN  /\ Fitting(req) # {} /\ ~(Len(q) = 2 /\ q[2].at + Header > PageEnd)
               /\ chain' = SubSeq(chain, 1, i - 1) \o q \o SubSeq(chain, i + 1, Len(chain))
               /\ live' = Append(live, [ptr |-> chain[i].at + Header, size |-> req])
               /\ UNCHANGED halted
    BY Zenon DEF kmalloc
  <2>2. \/ UNCHANGED <<chain, live>> /\ halted' \in BOOLEAN
        \/ /\ Fitting(req) # {} /\ ~(Len(p) = 2 /\ p[2].at + Header > PageEnd)
           /\ chain' = SubSeq(chain, 1, n - 1) \o p \o SubSeq(chain, n + 1, n)
           /\ live' = Append(live, [ptr |-> chain[n].at + Header, size |-> req])
           /\ UNCHANGED halted
    <3> HIDE DEF p
    <3>1. TRUE \in BOOLEAN  OBVIOUS
    <3> QED  BY <1>1, <1>5, <2>1, <3>1, Zenon DEF p
  <2> HIDE DEF p, n
  <2> QED  BY <1>6, <1>7, <2>2

(* kfree finds the header of the block it is handed, and leaves the chain   *)
(* with one block less in use, in no pieces that touch.                     *)
LEMMA Freed ==
  ASSUME IInv, NEW k \in DOMAIN live, kfree(k)
  PROVE  IInv'
<1> DEFINE n == Len(chain)
           m == Len(live)
           Of(j) == chain[j].at + Header = live[k].ptr
           i == CHOOSE j \in DOMAIN chain : Of(j)
           marked == [chain EXCEPT ![i].free = TRUE]
<1>1. /\ Linked(chain) /\ Split(chain) = {} /\ Owned /\ halted \in BOOLEAN
      /\ live \in Seq(Held) /\ m \in Nat
      /\ Used(chain) = {live[j] : j \in 1 .. m}
      /\ \A j, l \in 1 .. m : j < l => live[j].ptr < live[l].ptr
  <2>1. Linked(chain) /\ Split(chain) = {} /\ Owned /\ halted \in BOOLEAN  BY DEF IInv
  <2>2. live \in Seq(Held)  BY <2>1 DEF Owned
  <2> QED  BY <2>1, <2>2, LenProperties DEF Owned
<1>2. DOMAIN chain = 1 .. n /\ DOMAIN live = 1 .. m
  <2>1. chain \in Seq(Headers)  BY <1>1 DEF Linked
  <2> QED  BY <1>1, <2>1, LenProperties
<1>3. k \in 1 .. m  BY <1>2
<1>4. PICK z \in 1 .. n : ~chain[z].free /\ live[k] = Known(chain[z])
  <2>1. live[k] \in Used(chain)  BY <1>1, <1>3
  <2> QED  BY <2>1 DEF Used
<1>0. \A b : Known(b).ptr = b.at + Header  BY DEF Known
<1>5. i \in 1 .. n /\ Of(i)
  <2>1. Of(z)  BY <1>0, <1>4, Zenon
  <2> HIDE DEF Of
  <2> QED  BY <1>2, <2>1
<1>6. i = z
  <2> HIDE DEF i
  <2>1. chain[i].at + Header = chain[z].at + Header  BY <1>0, <1>4, <1>5, Zenon
  <2>2. chain[i].at \in Int /\ chain[z].at \in Int  BY <1>1, <1>5, ChainFacts
  <2>3. chain[i].at = chain[z].at  BY <2>1, <2>2 DEF Header
  <2> QED  BY <1>1, <1>5, <2>3, ChainFacts
<1> HIDE DEF i
<1>7. ~chain[i].free /\ live[k] = Known(chain[i])  BY <1>4, <1>6, Zenon
<1>8. /\ Linked(marked) /\ Len(marked) = n /\ marked[i].free
      /\ Split(marked) \subseteq {i - 1, i}
      /\ Used(marked) = Used(chain) \ {Known(chain[i])}
  BY <1>1, <1>5, <1>7, MarkKeeps
<1> DEFINE after == MergeBackward(MergeForward(marked, i), i)
<1>9. Linked(after) /\ Split(after) = {} /\ Used(after) = Used(chain) \ {live[k]}
  <2> HIDE DEF marked
  <2>1. Linked(after) /\ Split(after) = {} /\ Used(after) = Used(marked)
    BY <1>5, <1>8, MergesKeep
  <2> QED  BY <1>7, <1>8, <2>1, Zenon
<1>10. chain' = after /\ UNCHANGED halted
       /\ live' = SubSeq(live, 1, k - 1) \o SubSeq(live, k + 1, Len(live))
  BY Zenon DEF kfree, i
<1> HIDE DEF after
<1> DEFINE rest == SubSeq(live, 1, k - 1) \o SubSeq(live, k + 1, Len(live))
           Old(j) == IF j < k THEN j ELSE j + 1
<1>11. /\ rest \in Seq(Held) /\ Len(rest) = m - 1
       /\ \A j \in 1 .. m - 1 : rest[j] = live[Old(j)]
  <2>1. live \in Seq(Held) /\ k \in 1 .. Len(live)  BY <1>1, <1>3
  <2>2. /\ rest \in Seq(Held) /\ Len(rest) = Len(live) - 1
        /\ \A j \in 1 .. Len(live) - 1 : rest[j] = live[IF j < k THEN j ELSE j + 1]
    BY <2>1, TakeOut, Zenon
  <2> HIDE DEF rest
  <2> QED  BY <2>2
<1>12. live' = rest  BY <1>10
<1> HIDE DEF rest
<1>13. /\ \A j \in 1 .. m - 1 : Old(j) \in 1 .. m /\ Old(j) # k
       /\ \A j, l \in 1 .. m - 1 : j < l => Old(j) < Old(l)
       /\ \A l \in 1 .. m : l # k => \E j \in 1 .. m - 1 : Old(j) = l
  <2>1. \A j \in 1 .. m - 1 : Old(j) \in 1 .. m /\ Old(j) # k  BY <1>1, <1>3
  <2>2. \A j, l \in 1 .. m - 1 : j < l => Old(j) < Old(l)  BY <1>1, <1>3
  <2>3. ASSUME NEW l \in 1 .. m, l # k PROVE \E j \in 1 .. m - 1 : Old(j) = l
    <3>1. CASE l < k
      <4>1. l \in 1 .. m - 1 /\ Old(l) = l  BY <1>1, <1>3, <3>1
      <4> QED  BY <4>1
    <3>2. CASE l > k
      <4>1. l - 1 \in 1 .. m - 1 /\ Old(l - 1) = l  BY <1>1, <1>3, <3>2
      <4> QED  BY <4>1
    <3> QED  BY <1>1, <1>3, <2>3, <3>1, <3>2
  <2> QED  BY <2>1, <2>2, <2>3
<1> HIDE DEF Old
<1>14. \A l \in 1 .. m : l # k => live[l] # live[k]
  <2> SUFFICES ASSUME NEW l \in 1 .. m, l # k PROVE live[l] # live[k]
    OBVIOUS
  <2>1. live[l] \in Held /\ live[k] \in Held  BY <1>1, <1>3, ElementOfSeq
  <2>2. live[l].ptr \in Int /\ live[k].ptr \in Int
    BY <2>1 DEF Held
  <2>3. l < k \/ k < l  BY <1>3
  <2>4. live[l].ptr < live[k].ptr \/ live[k].ptr < live[l].ptr  BY <1>1, <1>3, <2>3
  <2>5. live[l].ptr # live[k].ptr  BY <2>2, <2>4
  <2> QED  BY <2>5
<1>15. Used(chain) \ {live[k]} = {rest[j] : j \in 1 .. m - 1}
  <2>1. ASSUME NEW u \in Used(chain), u # live[k] PROVE \E j \in 1 .. m - 1 : u = rest[j]
    <3>1. PICK l \in 1 .. m : u = live[l]  BY <1>1
    <3>2. PICK q \in 1 .. m - 1 : Old(q) = l  BY <1>13, <2>1, <3>1
    <3> QED  BY <1>11, <3>1, <3>2
  <2>2. ASSUME NEW l \in 1 .. m - 1
        PROVE  rest[l] \in Used(chain) /\ rest[l] # live[k]
    <3>1. Old(l) \in 1 .. m /\ Old(l) # k /\ rest[l] = live[Old(l)]  BY <1>11, <1>13
    <3>2. live[Old(l)] \in Used(chain) /\ live[Old(l)] # live[k]  BY <1>1, <1>14, <3>1
    <3> QED  BY <3>1, <3>2
  <2> HIDE DEF m
  <2> QED  BY <2>1, <2>2
<1>16. \A x, y \in 1 .. m - 1 : x < y => rest[x].ptr < rest[y].ptr
  <2> SUFFICES ASSUME NEW x \in 1 .. m - 1, NEW y \in 1 .. m - 1, x < y
               PROVE  rest[x].ptr < rest[y].ptr
    OBVIOUS
  <2>1. Old(x) \in 1 .. m /\ Old(y) \in 1 .. m /\ Old(x) < Old(y)  BY <1>13
  <2>2. rest[x] = live[Old(x)] /\ rest[y] = live[Old(y)]  BY <1>11
  <2> QED  BY <1>1, <2>1, <2>2
<1>17. Owned'
  <2>1. Used(chain') = {live'[q] : q \in 1 .. Len(live')}
    BY <1>9, <1>10, <1>11, <1>12, <1>15, Zenon
  <2>2. live' \in Seq(Held) /\ Len(live') = m - 1  BY <1>11, <1>12
  <2>3. \A x, y \in 1 .. m - 1 : x < y => live'[x].ptr < live'[y].ptr
    BY <1>12, <1>16
  <2> QED  BY <2>1, <2>2, <2>3 DEF Owned
<1> QED
  <2>1. Linked(chain') /\ Split(chain') = {} /\ halted' \in BOOLEAN  BY <1>1, <1>9, <1>10
  <2> QED  BY <1>17, <2>1 DEF IInv
--------------------------------------------------------------------------------
(* heap.c:29, 61: however often callers ask and give back in this order, the *)
(* chain is whole, without neighbouring free blocks, and its used headers    *)
(* are the callers' blocks.                                                 *)
THEOREM Invariance == Freeing = "batch" => (Spec => []IInv)
<1> SUFFICES ASSUME Freeing = "batch" PROVE Spec => []IInv
  OBVIOUS
<1>1. Init => IInv  BY InitInv
<1>2. IInv /\ [Next]_vars => IInv'
  <2> SUFFICES ASSUME IInv, [Next]_vars PROVE IInv'
    OBVIOUS
  <2>1. CASE CallersAllocate /\ \E req \in Sizes : kmalloc(req)
    <3>1. ~Hole  BY <2>1 DEF CallersAllocate
    <3> QED  BY <2>1, <3>1, Granting
  <2>2. CASE \E k \in DOMAIN live : kfree(k)  BY <2>2, Freed
  <2>3. CASE UNCHANGED vars
    BY <2>3, Zenon DEF vars, IInv, Owned
  <2> QED  BY <2>1, <2>2, <2>3 DEF Next
<1> QED  BY <1>1, <1>2, PTL DEF Spec

(* The types of the model hold: every header and every block handed out     *)
(* starts in the page heap_init mapped (heap.c:11-24).                      *)
THEOREM TypeCorrect == Freeing = "batch" => (Spec => []TypeOK)
<1> SUFFICES ASSUME Freeing = "batch" PROVE Spec => []TypeOK
  OBVIOUS
<1>1. IInv => TypeOK
  <2> SUFFICES ASSUME IInv PROVE TypeOK
    OBVIOUS
  <2>1. chain \in Seq(Headers) /\ live \in Seq(Held) /\ halted \in BOOLEAN
    BY DEF IInv, Linked, Owned
  <2> QED  BY <2>1, Zenon DEF TypeOK, Headers, Held
<1>2. Spec => []IInv  BY Invariance
<1> QED  BY <1>1, <1>2, PTL

(* Ranges that do not reach each other share nothing.                       *)
LEMMA Disjoint ==
  ASSUME NEW a \in Int, NEW b \in Int, NEW c \in Int, NEW d \in Int,
         b < c \/ d < a
  PROVE  (a .. b) \cap (c .. d) = {}
  OBVIOUS

(* Of two headers one lies behind the words of the other.                   *)
LEMMA Behind ==
  ASSUME NEW x \in Int, NEW s \in Nat, NEW y \in Int, NEW t \in Nat,
         x + Header + s <= y \/ y + Header + t <= x
  PROVE  /\ x + Header - 1 < y \/ y + Header - 1 < x
         /\ x + Header + s - 1 < y \/ y + Header - 1 < x + Header
         /\ x + Header + s - 1 < y + Header \/ y + Header + t - 1 < x + Header
  BY DEF Header

(* No word of a block in a caller's hands is a word of another block or of  *)
(* a header (heap.c:29-60).                                                 *)
THEOREM BlocksApart == Freeing = "batch" => (Spec => []LiveApart)
<1> SUFFICES ASSUME Freeing = "batch" PROVE Spec => []LiveApart
  OBVIOUS
<1>1. IInv => LiveApart
  <2> SUFFICES ASSUME IInv PROVE Apart
    BY DEF LiveApart
  <2> DEFINE n == Len(chain)
             m == Len(live)
  <2>1. /\ Linked(chain) /\ live \in Seq(Held) /\ m \in Nat
        /\ Used(chain) = {live[j] : j \in 1 .. m}
        /\ \A j, l \in 1 .. m : j < l => live[j].ptr < live[l].ptr
    <3>1. Linked(chain) /\ Owned  BY DEF IInv
    <3>2. live \in Seq(Held)  BY <3>1 DEF Owned
    <3> QED  BY <3>1, <3>2, LenProperties DEF Owned
  <2>2. DOMAIN chain = 1 .. n /\ DOMAIN live = 1 .. m
    <3>1. chain \in Seq(Headers)  BY <2>1 DEF Linked
    <3> QED  BY <2>1, <3>1, LenProperties
  <2>3. /\ n \in Nat
        /\ \A j \in 1 .. n : chain[j].at \in Int /\ chain[j].size \in Nat
        /\ \A j, l \in 1 .. n : j < l => chain[j].at + Header + chain[j].size <= chain[l].at
    BY <2>1, ChainFacts
  <2>4. ASSUME NEW i \in 1 .. m
        PROVE  \E a \in 1 .. n : /\ live[i].ptr = chain[a].at + Header
                                 /\ live[i].size = chain[a].size
    <3>1. PICK a \in 1 .. n : live[i] = Known(chain[a])
      <4>1. live[i] \in Used(chain)  BY <2>1
      <4> QED  BY <4>1 DEF Used
    <3> QED  BY <3>1 DEF Known
  <2>5. ASSUME NEW a \in 1 .. n, NEW b \in 1 .. n, a # b
        PROVE  /\ chain[a].at # chain[b].at
               /\ \/ chain[a].at + Header + chain[a].size <= chain[b].at
                  \/ chain[b].at + Header + chain[b].size <= chain[a].at
    <3>1. a < b \/ b < a  BY <2>3, <2>5
    <3>2. \/ chain[a].at + Header + chain[a].size <= chain[b].at
          \/ chain[b].at + Header + chain[b].size <= chain[a].at
      BY <2>3, <3>1
    <3> QED  BY <2>3, <3>2 DEF Header
  <2>6. \A i, j \in 1 .. m : i # j => Span(live[i]) \cap Span(live[j]) = {}
    <3> SUFFICES ASSUME NEW i \in 1 .. m, NEW j \in 1 .. m, i # j
                 PROVE  Span(live[i]) \cap Span(live[j]) = {}
      OBVIOUS
    <3>1. PICK a \in 1 .. n : live[i].ptr = chain[a].at + Header /\ live[i].size = chain[a].size
      BY <2>4
    <3>2. PICK b \in 1 .. n : live[j].ptr = chain[b].at + Header /\ live[j].size = chain[b].size
      BY <2>4
    <3>3. live[i].ptr < live[j].ptr \/ live[j].ptr < live[i].ptr
      <4>1. i < j \/ j < i  BY <2>1
      <4> QED  BY <2>1, <4>1
    <3>4. a # b  BY <2>3, <3>1, <3>2, <3>3 DEF Header
    <3> DEFINE x == live[i].ptr
               y == live[i].ptr + live[i].size - 1
               v == live[j].ptr
               w == live[j].ptr + live[j].size - 1
    <3>5. /\ chain[a].at \in Int /\ chain[a].size \in Nat
          /\ chain[b].at \in Int /\ chain[b].size \in Nat
      BY <2>3
    <3>6. \/ chain[a].at + Header + chain[a].size <= chain[b].at
          \/ chain[b].at + Header + chain[b].size <= chain[a].at
      BY <2>5, <3>4
    <3>8. /\ x = chain[a].at + Header /\ y = chain[a].at + Header + chain[a].size - 1
          /\ v = chain[b].at + Header /\ w = chain[b].at + Header + chain[b].size - 1
      BY <3>1, <3>2, Zenon
    <3>9. y < v \/ w < x
      <4>1. chain[a].at + Header + chain[a].size - 1 < chain[b].at + Header
            \/ chain[b].at + Header + chain[b].size - 1 < chain[a].at + Header
        BY <3>5, <3>6, Behind
      <4> QED  BY <3>8, <4>1, Zenon
    <3>10. x \in Int /\ y \in Int /\ v \in Int /\ w \in Int
      <4>1. \A p \in Int, s \in Nat : p + Header \in Int /\ p + Header + s - 1 \in Int
        BY DEF Header
      <4> HIDE DEF x, y, v, w
      <4> QED  BY <3>5, <3>8, <4>1, Zenon
    <3>7. Span(live[i]) = x .. y /\ Span(live[j]) = v .. w  BY DEF Span
    <3> HIDE DEF x, y, v, w
    <3> QED  BY <3>7, <3>9, <3>10, Disjoint
  <2>7. \A i, j \in 1 .. n : i # j => HeaderSpan(chain[i]) \cap HeaderSpan(chain[j]) = {}
    <3> SUFFICES ASSUME NEW i \in 1 .. n, NEW j \in 1 .. n, i # j
                 PROVE  HeaderSpan(chain[i]) \cap HeaderSpan(chain[j]) = {}
      OBVIOUS
    <3> DEFINE x == chain[i].at
               y == chain[i].at + Header - 1
               v == chain[j].at
               w == chain[j].at + Header - 1
    <3>1. x \in Int /\ y \in Int /\ v \in Int /\ w \in Int  BY <2>3 DEF Header
    <3>2. y < v \/ w < x
      <4>1. /\ chain[i].at \in Int /\ chain[i].size \in Nat
            /\ chain[j].at \in Int /\ chain[j].size \in Nat
        BY <2>3
      <4>2. \/ chain[i].at + Header + chain[i].size <= chain[j].at
            \/ chain[j].at + Header + chain[j].size <= chain[i].at
        BY <2>5
      <4> QED  BY <4>1, <4>2, Behind
    <3>3. HeaderSpan(chain[i]) = x .. y /\ HeaderSpan(chain[j]) = v .. w
      BY DEF HeaderSpan
    <3> HIDE DEF x, y, v, w
    <3> QED  BY <3>1, <3>2, <3>3, Disjoint
  <2>8. \A i \in 1 .. m, j \in 1 .. n : Span(live[i]) \cap HeaderSpan(chain[j]) = {}
    <3> SUFFICES ASSUME NEW i \in 1 .. m, NEW j \in 1 .. n
                 PROVE  Span(live[i]) \cap HeaderSpan(chain[j]) = {}
      OBVIOUS
    <3>1. PICK a \in 1 .. n : live[i].ptr = chain[a].at + Header /\ live[i].size = chain[a].size
      BY <2>4
    <3> DEFINE x == live[i].ptr
               y == live[i].ptr + live[i].size - 1
               v == chain[j].at
               w == chain[j].at + Header - 1
    <3>2. x \in Int /\ y \in Int /\ v \in Int /\ w \in Int
      BY <2>3, <3>1 DEF Header
    <3>3. CASE a = j
      <4>1. w < x  BY <2>3, <3>1, <3>3 DEF Header
      <4> QED  BY <3>2, <4>1, Disjoint DEF Span, HeaderSpan
    <3>4. CASE a # j
      <4>1. y < v \/ w < x
        <5>1. /\ chain[a].at \in Int /\ chain[a].size \in Nat
              /\ chain[j].at \in Int /\ chain[j].size \in Nat
          BY <2>3
        <5>2. \/ chain[a].at + Header + chain[a].size <= chain[j].at
              \/ chain[j].at + Header + chain[j].size <= chain[a].at
          BY <2>5, <3>4
        <5>3. /\ x = chain[a].at + Header /\ y = chain[a].at + Header + chain[a].size - 1
              /\ v = chain[j].at /\ w = chain[j].at + Header - 1
          BY <3>1, Zenon
        <5>4. chain[a].at + Header + chain[a].size - 1 < chain[j].at
              \/ chain[j].at + Header - 1 < chain[a].at + Header
          BY <5>1, <5>2, Behind
        <5> QED  BY <5>3, <5>4, Zenon
      <4> QED  BY <3>2, <4>1, Disjoint DEF Span, HeaderSpan
    <3> QED  BY <3>3, <3>4
  <2> QED  BY <2>2, <2>6, <2>7, <2>8 DEF Apart
<1>2. Spec => []IInv  BY Invariance
<1> QED  BY <1>1, <1>2, PTL

(* The used headers are the callers' blocks, and each header lies where the *)
(* one before it says (heap.c:34-48, 68-93).                                *)
THEOREM TruthfulHeaders == Freeing = "batch" => (Spec => []HeadersTrue)
<1> SUFFICES ASSUME Freeing = "batch" PROVE Spec => []HeadersTrue
  OBVIOUS
<1>1. IInv => HeadersTrue
  <2> SUFFICES ASSUME IInv PROVE HeadersTrue
    OBVIOUS
  <2>1. Linked(chain) /\ Owned  BY DEF IInv
  <2>2. DOMAIN chain = 1 .. Len(chain) /\ DOMAIN live = 1 .. Len(live)
    <3>1. chain \in Seq(Headers) /\ live \in Seq(Held)  BY <2>1 DEF Linked, Owned
    <3> QED  BY <3>1, LenProperties
  <2>3. {[ptr |-> chain[i].at + Header, size |-> chain[i].size] :
           i \in {j \in DOMAIN chain : ~chain[j].free}} = {live[i] : i \in DOMAIN live}
    BY <2>1, <2>2, Zenon DEF Owned, Used, Known
  <2>4. \A i \in 1 .. Len(chain) - 1 :
          chain[i + 1].at = chain[i].at + Header + chain[i].size
    BY <2>1, Zenon DEF Linked, End
  <2> QED  BY <2>3, <2>4, Zenon DEF HeadersTrue
<1>2. Spec => []IInv  BY Invariance
<1> QED  BY <1>1, <1>2, PTL

(* The merges of kfree leave no two free blocks side by side (heap.c:69-93). *)
THEOREM NoNeighbours == Freeing = "batch" => (Spec => []Coalesced)
<1> SUFFICES ASSUME Freeing = "batch" PROVE Spec => []Coalesced
  OBVIOUS
<1>1. IInv => Coalesced  BY DEF IInv, Split, Coalesced
<1>2. Spec => []IInv  BY Invariance
<1> QED  BY <1>1, <1>2, PTL

(* When every caller has given its block back, the page is one free block   *)
(* again, no smaller than heap_init made it (heap.c:22).                    *)
THEOREM AllComesBack == Freeing = "batch" => (Spec => []NothingLost)
<1> SUFFICES ASSUME Freeing = "batch" PROVE Spec => []NothingLost
  OBVIOUS
<1>1. IInv => NothingLost
  <2> SUFFICES ASSUME IInv, live = <<>>
               PROVE  Len(chain) = 1 /\ chain[1].free /\ chain[1].size >= Page - Header
    BY DEF NothingLost
  <2> DEFINE n == Len(chain)
  <2>1. Linked(chain) /\ Split(chain) = {} /\ Owned /\ n \in Nat /\ n >= 1
    <3>1. Linked(chain) /\ Split(chain) = {} /\ Owned  BY DEF IInv
    <3> QED  BY <3>1, ChainFacts
  <2>2. \A j \in 1 .. n : chain[j].free
    <3>1. Len(live) = 0  OBVIOUS
    <3>2. Used(chain) = {}  BY <2>1, <3>1 DEF Owned
    <3> QED  BY <3>2 DEF Used
  <2>3. n = 1
    <3>0. n \in Nat /\ n >= 1  BY <2>1
    <3> HIDE DEF n
    <3> SUFFICES ASSUME n > 1 PROVE FALSE
      BY <3>0
    <3>1. 1 \in 1 .. n - 1 /\ 1 \in 1 .. n /\ 1 + 1 \in 1 .. n  BY <3>0
    <3>2. chain[1].free /\ chain[1 + 1].free  BY <2>2, <3>1
    <3> QED  BY <2>1, <3>1, <3>2 DEF Split, n
  <2>4. chain[1].at = heap_first /\ End(chain[1]) >= PageEnd  BY <2>1, <2>3 DEF Linked
  <2>5. chain[1].size \in Nat /\ 1 \in 1 .. n  BY <2>1, <2>3, ChainFacts
  <2>6. chain[1].size >= Page - Header
    BY <2>4, <2>5, HeapAssumption DEF End, PageEnd, heap_first, Header
  <2> QED  BY <2>2, <2>3, <2>5, <2>6
<1>2. Spec => []IInv  BY Invariance
<1> QED  BY <1>1, <1>2, PTL

(* The newest caller holds the last used block of the chain.                *)
LEMMA Newest ==
  ASSUME IInv, NEW r \in 1 .. Len(chain), ~chain[r].free,
         \A j \in 1 .. Len(chain) : ~chain[j].free => j <= r
  PROVE  Top = End(chain[r])
<1> DEFINE m == Len(live)
<1>1. /\ Linked(chain) /\ live \in Seq(Held) /\ m \in Nat
      /\ Used(chain) = {live[j] : j \in 1 .. m}
      /\ \A j, l \in 1 .. m : j < l => live[j].ptr < live[l].ptr
  <2>1. Linked(chain) /\ Owned  BY DEF IInv
  <2>2. live \in Seq(Held)  BY <2>1 DEF Owned
  <2> QED  BY <2>1, <2>2, LenProperties DEF Owned
<1>2. PICK j \in 1 .. m : live[j] = Known(chain[r])
  <2>1. Known(chain[r]) \in Used(chain)  BY DEF Used
  <2> QED  BY <1>1, <2>1
<1>3. m \in 1 .. m  BY <1>1, <1>2
<1>4. PICK b \in 1 .. Len(chain) : ~chain[b].free /\ live[m] = Known(chain[b])
  <2>1. live[m] \in Used(chain)  BY <1>1, <1>3
  <2> QED  BY <2>1 DEF Used
<1>5. \A h : Known(h).ptr = h.at + Header /\ Known(h).size = h.size  BY DEF Known
<1>6. live[j].ptr = chain[r].at + Header  BY <1>2, <1>5, Zenon
<1>7. live[m].ptr = chain[b].at + Header /\ live[m].size = chain[b].size
  BY <1>4, <1>5, Zenon
<1>8. b = r
  <2>1. b <= r  BY <1>4
  <2>2. Len(chain) \in Nat  BY <1>1, ChainFacts
  <2> SUFFICES ASSUME b < r PROVE FALSE
    BY <2>1, <2>2
  <2>3. /\ chain[b].at + Header + chain[b].size <= chain[r].at
        /\ chain[b].at \in Int /\ chain[b].size \in Nat /\ chain[r].at \in Int
    BY <1>1, ChainFacts
  <2>4. j = m \/ j < m  BY <1>1
  <2>5. live[j].ptr = live[m].ptr \/ live[j].ptr < live[m].ptr  BY <1>1, <1>3, <2>4
  <2>6. ~(chain[r].at + Header = chain[b].at + Header \/ chain[r].at + Header < chain[b].at + Header)
    BY <2>3, HeaderSums, Zenon
  <2> QED  BY <1>6, <1>7, <2>5, <2>6, Zenon
<1>9. live # <<>>  BY <1>1, <1>3
<1>10. Top = live[m].ptr + live[m].size  BY <1>9 DEF Top
<1> QED  BY <1>7, <1>8, <1>10 DEF End

(* Without holes kmalloc answers NULL only when the words above the newest  *)
(* block cannot hold the request and its header (heap.c:31-64).             *)
THEOREM HonestRefusal == Freeing = "batch" => (Spec => []RefusalHonest)
<1> SUFFICES ASSUME Freeing = "batch" PROVE Spec => []RefusalHonest
  OBVIOUS
<1>1. IInv => RefusalHonest
  <2> SUFFICES ASSUME IInv, ~Hole, NEW req \in Sizes, Fitting(req) = {}
               PROVE  Top + Header + req > PageEnd
    BY DEF RefusalHonest
  <2> DEFINE n == Len(chain)
  <2>1. /\ Linked(chain) /\ Owned /\ n \in Nat /\ n >= 1 /\ n \in 1 .. n
        /\ chain[n].at \in Int /\ chain[n].size \in Nat
    <3>1. Linked(chain) /\ Owned  BY DEF IInv
    <3>2. n \in Nat /\ n >= 1  BY <3>1, ChainFacts
    <3>3. n \in 1 .. n  BY <3>2
    <3> QED  BY <3>1, <3>2, <3>3, ChainFacts
  <2>2. \A j \in 1 .. n - 1 : ~chain[j].free  BY DEF Hole
  <2>3. End(chain[n]) >= PageEnd /\ chain[1].at = heap_first
        /\ \A j \in 1 .. n - 1 : chain[j + 1].at = End(chain[j])
    BY <2>1 DEF Linked
  <2>4. req \in Nat /\ req > 0 /\ PageEnd \in Int
    BY HeapAssumption DEF PageEnd, heap_first
  <2>5. CASE chain[n].free
    <3>1. chain[n].size < req
      <4>1. n \in DOMAIN chain
        <5>1. chain \in Seq(Headers)  BY <2>1 DEF Linked
        <5> QED  BY <2>1, <5>1, LenProperties
      <4>2. ~(chain[n].size >= req)  BY <2>5, <4>1 DEF Fitting
      <4> QED  BY <2>1, <2>4, <4>2
    <3>2. Top = chain[n].at
      <4>1. CASE n = 1
        <5>1. Used(chain) = {}  BY <2>5, <4>1 DEF Used
        <5>2. live = <<>>
          <6>1. live \in Seq(Held) /\ {live[i] : i \in 1 .. Len(live)} = {}
            BY <2>1, <5>1 DEF Owned
          <6>2. Len(live) \in Nat  BY <6>1, LenProperties
          <6>3. ~(1 \in 1 .. Len(live))  BY <6>1
          <6>4. Len(live) = 0  BY <6>2, <6>3
          <6> QED  BY <6>1, <6>4, EmptySeq
        <5> QED  BY <2>3, <4>1, <5>2 DEF Top
      <4>2. CASE n # 1
        <5> DEFINE r == n - 1
        <5>0. n \in Nat /\ n >= 1  BY <2>1
        <5>1. r \in 1 .. n - 1 /\ r \in 1 .. Len(chain) /\ r + 1 = n
          <6>1. n = Len(chain)  OBVIOUS
          <6> HIDE DEF n
          <6> QED  BY <4>2, <5>0, <6>1
        <5>2. ~chain[r].free  BY <2>2, <5>1
        <5>3. ASSUME NEW j \in 1 .. Len(chain), ~chain[j].free PROVE j <= r
          <6>1. j # n  BY <2>5, <5>3
          <6> QED  BY <2>1, <6>1
        <5> HIDE DEF r
        <5>4. Top = End(chain[r])  BY <5>1, <5>2, <5>3, Newest
        <5> QED  BY <2>3, <5>1, <5>4
      <4> QED  BY <4>1, <4>2
    <3> QED  BY <2>1, <2>3, <2>4, <3>1, <3>2 DEF End, Header
  <2>6. CASE ~chain[n].free
    <3>1. \A j \in 1 .. Len(chain) : ~chain[j].free => j <= n  BY <2>1
    <3>2. Top = End(chain[n])  BY <2>1, <2>6, <3>1, Newest
    <3> QED  BY <2>1, <2>3, <2>4, <3>2 DEF End, Header
  <2> QED  BY <2>5, <2>6
<1>2. Spec => []IInv  BY Invariance
<1> QED  BY <1>1, <1>2, PTL
================================================================================
