----------------------------- MODULE ConsoleProofs -----------------------------
(***************************************************************************)
(* Theorems about the text functions of Shell, for every text, every number *)
(* of digits and any four names of commands, and about Console for every    *)
(* size of the screen, every prompt and buffer, every set of keys and any   *)
(* number of keys struck early.                                             *)
(***************************************************************************)
EXTENDS Console, MC_Shell, SequenceTheorems, NatLemmas, TLAPS
--------------------------------------------------------------------------------
(* Powers of a base, and the number that digits name in it.                 *)
Powering(p, base, n) == /\ p \in [0 .. n -> Nat \ {0}] /\ p[0] = 1
                        /\ \A k \in 1 .. n : p[k] = base * p[k - 1]
Totalling(t, v, p, n) == /\ t \in [0 .. n -> Nat] /\ t[0] = 0
                         /\ \A k \in 1 .. n : t[k] = t[k - 1] + v[k] * p[n - k]

LEMMA Powers ==
  ASSUME NEW base \in Nat \ {0}, NEW n \in Nat
  PROVE  Powering(CHOOSE h : h = [k \in 0 .. n |-> IF k = 0 THEN 1 ELSE base * h[k - 1]],
                  base, n)
<1> DEFINE T == Nat \ {0}
           step == [x \in (0 + 1 .. n) \X T |-> base * x[2]]
           R(h) == h = [k \in 0 .. n |-> IF k = 0 THEN 1 ELSE base * h[k - 1]]
           f == CHOOSE h : R(h)
<1>1. Step(T, 0, n, 1, step)
  <2>1. \A x \in T : base * x \in T  OBVIOUS
  <2> QED  BY <2>1 DEF Step
<1>2. PICK g : Stepped(T, 0, n, 1, step, g)
  <2> HIDE DEF step, T
  <2> QED  BY <1>1, Stepping
<1>3. g \in [0 .. n -> T] /\ g[0] = 1  BY <1>2 DEF Stepped
<1>4. ASSUME NEW k \in 1 .. n PROVE g[k] = base * g[k - 1]
  <2>1. k \in 0 + 1 .. n /\ k - 1 \in 0 .. n  OBVIOUS
  <2>2. g[k - 1] \in T  BY <1>3, <2>1
  <2> HIDE DEF T
  <2>3. step[<<k, g[k - 1]>>] = base * g[k - 1]  BY <2>1, <2>2
  <2> HIDE DEF step
  <2> QED  BY <1>2, <2>1, <2>3 DEF Stepped
<1>5. R(g)
  <2>1. ASSUME NEW k \in 0 .. n PROVE g[k] = IF k = 0 THEN 1 ELSE base * g[k - 1]
    <3>1. k # 0 => k \in 1 .. n  OBVIOUS
    <3> QED  BY <1>3, <1>4, <3>1, Zenon
  <2> HIDE DEF T
  <2> QED  BY <1>3, <2>1
<1>6. R(f)
  <2> HIDE DEF R
  <2> QED  BY <1>5
<1> HIDE DEF f
<1>7. f[0] = 1 /\ \A k \in 1 .. n : f[k] = base * f[k - 1]
  <2>1. f[0] = 1  BY <1>6
  <2>2. ASSUME NEW k \in 1 .. n PROVE f[k] = base * f[k - 1]
    <3>1. k \in 0 .. n /\ k # 0  OBVIOUS
    <3> QED  BY <1>6, <3>1, Zenon
  <2> QED  BY <2>1, <2>2
<1>8. \A k \in 0 .. n : f[k] \in T
  <2>1. \A x \in T : base * x \in T  OBVIOUS
  <2>2. 1 \in T  OBVIOUS
  <2> HIDE DEF T
  <2>3. Stays(T, 0, n, f)  BY <1>7, <2>1, <2>2 DEF Stays
  <2> QED  BY <2>3, Staying
<1>9. f \in [0 .. n -> T]  BY <1>6, <1>8
<1>10. Powering(f, base, n)  BY <1>7, <1>9 DEF Powering
<1> QED  BY <1>10 DEF f

(* What the digits name is their total, each times the power of its place.   *)
LEMMA Naming ==
  ASSUME NEW base \in Nat \ {0}, NEW v \in Seq(Nat)
  PROVE  \E p, t : /\ Powering(p, base, Len(v)) /\ Totalling(t, v, p, Len(v))
                   /\ Named(base, v) = t[Len(v)]
<1> DEFINE n == Len(v)
           p == CHOOSE h : h = [k \in 0 .. n |-> IF k = 0 THEN 1 ELSE base * h[k - 1]]
           R(h) == h = [k \in 0 .. n |-> IF k = 0 THEN 0 ELSE h[k - 1] + v[k] * p[n - k]]
           f == CHOOSE h : R(h)
           step == [x \in (0 + 1 .. n) \X Nat |-> x[2] + v[x[1]] * p[n - x[1]]]
<1>1. Named(base, v) = f[n]  BY DEF Named
<1>2. n \in Nat /\ \A k \in 1 .. n : v[k] \in Nat  OBVIOUS
<1>3. Powering(p, base, n)
  <2> HIDE DEF n
  <2> QED  BY <1>2, Powers
<1> HIDE DEF n, p
<1>4. \A k \in 1 .. n : v[k] * p[n - k] \in Nat
  <2> SUFFICES ASSUME NEW k \in 1 .. n PROVE v[k] * p[n - k] \in Nat
    OBVIOUS
  <2>1. n - k \in 0 .. n  BY <1>2
  <2>2. p[n - k] \in Nat  BY <1>3, <2>1 DEF Powering
  <2>3. v[k] \in Nat  BY <1>2
  <2> QED  BY <2>2, <2>3
<1>5. Step(Nat, 0, n, 0, step)
  <2>1. ASSUME NEW x \in (0 + 1 .. n) \X Nat
        PROVE  x[2] + v[x[1]] * p[n - x[1]] \in Nat
    <3> DEFINE k == x[1]
               d == v[k] * p[n - k]
    <3>1. k \in 1 .. n /\ x[2] \in Nat  OBVIOUS
    <3>2. d \in Nat
      <4> HIDE DEF k
      <4> QED  BY <1>4, <3>1
    <3> HIDE DEF d
    <3>3. x[2] + d \in Nat  BY <3>1, <3>2
    <3> QED  BY <3>3 DEF d
  <2>2. step \in [(0 + 1 .. n) \X Nat -> Nat]  BY <2>1
  <2> HIDE DEF step
  <2> QED  BY <1>2, <2>2 DEF Step
<1>6. PICK g : Stepped(Nat, 0, n, 0, step, g)
  <2> HIDE DEF step
  <2> QED  BY <1>5, Stepping
<1>7. g \in [0 .. n -> Nat] /\ g[0] = 0  BY <1>6 DEF Stepped
<1>8. ASSUME NEW k \in 1 .. n PROVE g[k] = g[k - 1] + v[k] * p[n - k]
  <2>1. k \in 0 + 1 .. n /\ k - 1 \in 0 .. n  BY <1>2
  <2>2. g[k - 1] \in Nat  BY <1>7, <2>1
  <2>3. <<k, g[k - 1]>> \in (0 + 1 .. n) \X Nat  BY <2>1, <2>2
  <2>4. step[<<k, g[k - 1]>>] = g[k - 1] + v[k] * p[n - k]  BY <2>3, Zenon
  <2> HIDE DEF step
  <2> QED  BY <1>6, <2>1, <2>4, Zenon DEF Stepped
<1>9. R(g)
  <2>1. ASSUME NEW k \in 0 .. n
        PROVE  g[k] = IF k = 0 THEN 0 ELSE g[k - 1] + v[k] * p[n - k]
    <3>1. k # 0 => k \in 1 .. n  BY <1>2
    <3> QED  BY <1>7, <1>8, <3>1, Zenon
  <2> QED  BY <1>7, <2>1, Zenon
<1>10. R(f)
  <2> HIDE DEF R
  <2> QED  BY <1>9
<1> HIDE DEF f
<1>11. f[0] = 0 /\ \A k \in 1 .. n : f[k] = f[k - 1] + v[k] * p[n - k]
  <2>1. 0 \in 0 .. n  BY <1>2
  <2>2. f[0] = 0  BY <1>10, <2>1, Zenon
  <2>3. ASSUME NEW k \in 1 .. n PROVE f[k] = f[k - 1] + v[k] * p[n - k]
    <3>1. k \in 0 .. n /\ k # 0  BY <1>2
    <3> QED  BY <1>10, <3>1, Zenon
  <2> QED  BY <2>2, <2>3
<1>12. \A k \in 0 .. n : f[k] \in Nat
  <2>1. ASSUME NEW k \in 0 + 1 .. n, f[k - 1] \in Nat PROVE f[k] \in Nat
    <3> DEFINE d == v[k] * p[n - k]
    <3>1. k \in 1 .. n  OBVIOUS
    <3>2. d \in Nat /\ f[k] = f[k - 1] + d  BY <1>4, <1>11, <3>1, Zenon
    <3> HIDE DEF d
    <3> QED  BY <2>1, <3>2
  <2>2. Stays(Nat, 0, n, f)  BY <1>2, <1>11, <2>1 DEF Stays
  <2> QED  BY <2>2, Staying
<1>13. f \in [0 .. n -> Nat]  BY <1>10, <1>12
<1>14. Totalling(f, v, p, n)  BY <1>11, <1>13, Zenon DEF Totalling
<1> QED  BY <1>1, <1>3, <1>14 DEF n

(* The table of Shell holds the powers of 16.                                *)
LEMMA Power16s == Powering(Power16, 16, HexDigits)
<1>1. Power16 = CHOOSE h : h = [k \in 0 .. HexDigits |-> IF k = 0 THEN 1 ELSE 16 * h[k - 1]]
  BY DEF Power16
<1>2. HexDigits \in Nat /\ 16 \in Nat \ {0}  BY ShellAssumption
<1> QED  BY <1>1, <1>2, Powers

(* There are numbers to keep.                                                *)
LEMMA UintRange == Uint \in Nat \ {0}
<1>1. HexDigits \in 0 .. HexDigits  BY ShellAssumption
<1> QED  BY <1>1, Power16s DEF Uint, Powering

(* A digit as the shell reads it and as it is written.                      *)
LEMMA DigitTable ==
  /\ DOMAIN Lower = 1 .. 16 /\ DOMAIN Upper = 1 .. 16
  /\ \A d \in 1 .. 16 : /\ Lower[d] = IF d <= 10 THEN 47 + d ELSE 86 + d
                        /\ Upper[d] = IF d <= 10 THEN 47 + d ELSE 54 + d
<1>1. DOMAIN Lower = 1 .. 16 /\ DOMAIN Upper = 1 .. 16  BY DEF Lower, Upper
<1>2. ASSUME NEW d \in 1 .. 16
      PROVE  /\ Lower[d] = IF d <= 10 THEN 47 + d ELSE 86 + d
             /\ Upper[d] = IF d <= 10 THEN 47 + d ELSE 54 + d
  BY DEF Lower, Upper
<1> QED  BY <1>1, <1>2

(* What HexVal makes of a character: its place in the tables of digits, or -1. *)
LEMMA DigitValues ==
  ASSUME NEW c \in Nat
  PROVE  /\ HexVal(c) \in -1 .. 15 /\ (IsDigit(c) <=> HexVal(c) # -1)
         /\ IsDigit(c) => Value(c) = HexVal(c)
<1> DEFINE Shows(d) == c \in {Lower[d], Upper[d]}
<1>1. \A d \in 1 .. 16 : Shows(d) => HexVal(c) = d - 1
  <2> SUFFICES ASSUME NEW d \in 1 .. 16, Shows(d) PROVE HexVal(c) = d - 1
    OBVIOUS
  <2>1. c = (IF d <= 10 THEN 47 + d ELSE 86 + d) \/ c = (IF d <= 10 THEN 47 + d ELSE 54 + d)
    BY DigitTable
  <2> QED  BY <2>1 DEF HexVal
<1>2. HexVal(c) \in -1 .. 15  BY DEF HexVal
<1>3. HexVal(c) # -1 => Shows(HexVal(c) + 1) /\ HexVal(c) + 1 \in 1 .. 16
  <2> SUFFICES ASSUME HexVal(c) # -1
               PROVE  Shows(HexVal(c) + 1) /\ HexVal(c) + 1 \in 1 .. 16
    OBVIOUS
  <2> DEFINE d == HexVal(c) + 1
  <2>1. d \in 1 .. 16  BY <1>2
  <2>2. \/ c = IF d <= 10 THEN 47 + d ELSE 86 + d
        \/ c = IF d <= 10 THEN 47 + d ELSE 54 + d
    BY DEF HexVal
  <2> HIDE DEF d
  <2>3. Shows(d)  BY <2>1, <2>2, DigitTable
  <2> QED  BY <2>1, <2>3 DEF d
<1>4. IsDigit(c) <=> \E d \in 1 .. 16 : Shows(d)
  <2>1. Range(Lower) = {Lower[d] : d \in 1 .. 16} /\ Range(Upper) = {Upper[d] : d \in 1 .. 16}
    BY DigitTable, Zenon DEF Range
  <2> HIDE DEF Shows
  <2>2. IsDigit(c) <=> \E d \in 1 .. 16 : c = Lower[d] \/ c = Upper[d]
    BY <2>1 DEF IsDigit
  <2> QED  BY <2>2 DEF Shows
<1>5. Value(c) = (CHOOSE d \in 1 .. 16 : Shows(d)) - 1  BY DEF Value
<1> HIDE DEF Shows
<1>6. ASSUME IsDigit(c) PROVE Value(c) = HexVal(c)
  <2> DEFINE d == CHOOSE e \in 1 .. 16 : Shows(e)
  <2>1. d \in 1 .. 16 /\ Shows(d)  BY <1>4, <1>6
  <2> HIDE DEF d
  <2>2. HexVal(c) = d - 1  BY <1>1, <2>1
  <2> QED  BY <1>5, <2>2 DEF d
<1>7. IsDigit(c) <=> HexVal(c) # -1
  <2>1. ASSUME NEW d \in 1 .. 16, Shows(d) PROVE HexVal(c) # -1
    <3>1. HexVal(c) = d - 1  BY <1>1, <2>1
    <3> QED  BY <3>1
  <2> QED  BY <1>3, <1>4, <2>1
<1> QED  BY <1>2, <1>6, <1>7

(* textohex, digit by digit.                                                *)
HexState == [result : 0 .. Uint - 1, done : BOOLEAN]
HexStep(r, c) == IF r.done \/ HexVal(c) = -1 THEN [r EXCEPT !.done = TRUE]
                 ELSE [r EXCEPT !.result = (@ * 16 + HexVal(c)) % Uint]
HexSteps(f, s, b) == /\ f \in [b .. Len(s) -> HexState]
                     /\ f[b] = [result |-> 0, done |-> FALSE]
                     /\ \A k \in b + 1 .. Len(s) : f[k] = HexStep(f[k - 1], s[k])

(* What textohex returns is the last result of its steps.                    *)
LEMMA HexReading ==
  ASSUME NEW s \in Seq(Nat)
  PROVE  \E f : /\ HexSteps(f, s, SkipPrefix(s) - 1)
                /\ SkipPrefix(s) - 1 \in 0 .. Len(s)
                /\ textohex(s) = f[Len(s)].result
<1> DEFINE n == Len(s)
           b == SkipPrefix(s) - 1
           T == HexState
           zero == [result |-> 0, done |-> FALSE]
           step == [x \in (b + 1 .. n) \X T |-> HexStep(x[2], s[x[1]])]
           R(h) == h = [i \in b .. n |-> IF i = b THEN zero ELSE HexStep(h[i - 1], s[i])]
           f == CHOOSE h : R(h)
<1>1. b \in Nat /\ n \in Nat /\ b <= n /\ \A k \in b + 1 .. n : s[k] \in Nat
  <2>1. Len(s) \in Nat  OBVIOUS
  <2>2. SkipPrefix(s) = 1 \/ (SkipPrefix(s) = 3 /\ Len(s) >= 2)  BY DEF SkipPrefix
  <2> QED  BY <2>1, <2>2
<1>2. zero \in T  BY UintRange DEF HexState
<1>3. ASSUME NEW r \in T, NEW c \in Nat PROVE HexStep(r, c) \in T
  <2>1. r.result \in Nat  BY UintRange DEF HexState
  <2>2. CASE r.done \/ HexVal(c) = -1  BY <2>2 DEF HexState, HexStep
  <2>3. CASE ~(r.done \/ HexVal(c) = -1)
    <3>1. HexVal(c) \in Nat
      <4>1. HexVal(c) \in {-1} \cup 0 .. 15  BY DEF HexVal
      <4> QED  BY <2>3, <4>1
    <3>2. (r.result * 16 + HexVal(c)) % Uint \in 0 .. Uint - 1
      <4>1. r.result * 16 + HexVal(c) \in Nat  BY <2>1, <3>1
      <4> QED  BY <4>1, UintRange, ModNat
    <3> DEFINE v == (r.result * 16 + HexVal(c)) % Uint
    <3>3. HexStep(r, c) = [r EXCEPT !.result = v]  BY <2>3 DEF HexStep
    <3> HIDE DEF v
    <3> QED  BY <3>2, <3>3 DEF v, HexState
  <2> QED  BY <2>2, <2>3
<1> HIDE DEF T, zero, b, n
<1>4. Step(T, b, n, zero, step)
  <2>1. ASSUME NEW x \in (b + 1 .. n) \X T PROVE HexStep(x[2], s[x[1]]) \in T
    <3>1. x[1] \in b + 1 .. n /\ x[2] \in T  OBVIOUS
    <3> QED  BY <1>1, <1>3, <3>1
  <2> QED  BY <1>1, <1>2, <2>1 DEF Step
<1>5. PICK g : Stepped(T, b, n, zero, step, g)
  <2> HIDE DEF step
  <2> QED  BY <1>4, Stepping
<1>6. g \in [b .. n -> T] /\ g[b] = zero  BY <1>5 DEF Stepped
<1>7. ASSUME NEW k \in b + 1 .. n PROVE g[k] = HexStep(g[k - 1], s[k])
  <2>1. k - 1 \in b .. n  BY <1>1
  <2>2. g[k - 1] \in T  BY <1>6, <2>1
  <2>3. step[<<k, g[k - 1]>>] = HexStep(g[k - 1], s[k])  BY <2>2
  <2> HIDE DEF step
  <2> QED  BY <1>5, <2>3 DEF Stepped
<1>8. R(g)
  <2>1. ASSUME NEW i \in b .. n PROVE g[i] = IF i = b THEN zero ELSE HexStep(g[i - 1], s[i])
    <3>1. i # b => i \in b + 1 .. n  BY <1>1
    <3> QED  BY <1>6, <1>7, <3>1
  <2> QED  BY <1>6, <2>1
<1>9. textohex(s) = f[n].result  BY DEF textohex, HexStep, zero, b, n
<1>10. R(f)
  <2> HIDE DEF R
  <2> QED  BY <1>8
<1> HIDE DEF f
<1>11. Stays(T, b, n, f)
  <2>1. f[b] = zero  BY <1>1, <1>10
  <2>2. ASSUME NEW k \in b + 1 .. n PROVE f[k] = HexStep(f[k - 1], s[k])
    <3>1. k \in b .. n /\ k # b  BY <1>1
    <3> QED  BY <1>10, <3>1
  <2> QED  BY <1>1, <1>2, <1>3, <2>1, <2>2 DEF Stays
<1>12. \A k \in b .. n : f[k] \in T  BY <1>1, <1>11, Staying
<1>13. f \in [b .. n -> T]  BY <1>10, <1>12
<1>14. \A k \in b + 1 .. n : f[k] = HexStep(f[k - 1], s[k])
  <2> SUFFICES ASSUME NEW k \in b + 1 .. n PROVE f[k] = HexStep(f[k - 1], s[k])
    OBVIOUS
  <2>1. k \in b .. n /\ k # b  BY <1>1
  <2> QED  BY <1>10, <2>1, Zenon
<1>15. f[b] = zero  BY <1>1, <1>10
<1>16. HexSteps(f, s, b)  BY <1>13, <1>14, <1>15, Zenon DEF HexSteps, T, zero, n
<1>17. b \in 0 .. n  BY <1>1
<1> QED  BY <1>9, <1>16, <1>17 DEF b, n

(* It keeps below Uint.                                                      *)
LEMMA HexRead ==
  ASSUME NEW s \in Seq(Nat)
  PROVE  textohex(s) \in 0 .. Uint - 1
<1> DEFINE b == SkipPrefix(s) - 1
<1>1. PICK f : HexSteps(f, s, b) /\ b \in 0 .. Len(s) /\ textohex(s) = f[Len(s)].result
  BY HexReading
<1> HIDE DEF b
<1>2. Len(s) \in b .. Len(s)  BY <1>1
<1>3. f[Len(s)] \in HexState  BY <1>1, <1>2 DEF HexSteps
<1> QED  BY <1>1, <1>3 DEF HexState


(* The end of a text from position a on.                                    *)
LEMMA Rest ==
  ASSUME NEW s \in Seq(Nat), NEW a \in Nat, 1 <= a, a <= Len(s) + 1
  PROVE  /\ SubSeq(s, a, Len(s)) \in Seq(Nat)
         /\ Len(SubSeq(s, a, Len(s))) = (Len(s) - a) + 1
         /\ \A k \in 1 .. (Len(s) - a) + 1 : SubSeq(s, a, Len(s))[k] = s[(a + k) - 1]
<1> DEFINE n == Len(s)
           w == SubSeq(s, a, n)
<1>1. n \in Nat /\ \A k \in a .. n : s[k] \in Nat  OBVIOUS
<1>2. /\ w \in Seq(Nat) /\ Len(w) = IF a <= n THEN (n - a) + 1 ELSE 0
      /\ \A k \in 1 .. (n - a) + 1 : w[k] = s[(a + k) - 1]
  BY <1>1, SubSeqProperties
<1> HIDE DEF w
<1>3. ~(a <= n) => (n - a) + 1 = 0
  <2> HIDE DEF n
  <2> QED  BY <1>1 DEF n
<1> QED  BY <1>2, <1>3 DEF w

(* The prefix, and what is left without it.                                 *)
LEMMA TwoBefore ==
  ASSUME NEW s \in Seq(Nat), NEW a \in Nat, NEW c \in Nat
  PROVE  IsPrefix(<<a, c>>, s) <=> Len(s) >= 2 /\ s[1] = a /\ s[2] = c
<1> DEFINE t == <<a, c>>
           u == SubSeq(s, 1, 2)
<1>1. t \in Seq(Nat) /\ Len(t) = 2 /\ t[1] = a /\ t[2] = c  OBVIOUS
<1>2. SubSeq(t, 1, 2) = t
  <2> DEFINE v == SubSeq(t, 1, 2)
  <2> HIDE DEF t
  <2>1. v \in Seq(Nat) /\ Len(v) = 2 /\ v[1] = t[1] /\ v[2] = t[2]  BY <1>1
  <2> HIDE DEF v
  <2>2. \A k \in 1 .. Len(v) : v[k] = t[k]
    <3>1. 1 .. Len(v) = {1, 2}  BY <2>1
    <3> QED  BY <2>1, <3>1
  <2>3. v = t  BY <1>1, <2>1, <2>2, SeqEqual
  <2> QED  BY <2>3 DEF v
<1>3. ASSUME Len(s) >= 2 PROVE u = t <=> s[1] = a /\ s[2] = c
  <2>1. u \in Seq(Nat) /\ Len(u) = 2 /\ u[1] = s[1] /\ u[2] = s[2]  BY <1>3
  <2> HIDE DEF u, t
  <2>2. ASSUME u[1] = t[1], u[2] = t[2] PROVE u = t
    <3>1. \A k \in 1 .. Len(u) : u[k] = t[k]
      <4>1. 1 .. Len(u) = {1, 2}  BY <2>1
      <4> QED  BY <2>2, <4>1
    <3> QED  BY <1>1, <2>1, <3>1, SeqEqual
  <2> QED  BY <1>1, <2>1, <2>2
<1>4. IsPrefix(t, s) <=> Len(s) >= 2 /\ t = u
  <2> HIDE DEF t, u
  <2>1. IsPrefix(t, s) <=> 2 <= Len(s) /\ t = SubSeq(s, 1, 2)
    BY <1>1, <1>2, Zenon DEF IsPrefix
  <2> QED  BY <2>1 DEF u
<1> QED  BY <1>3, <1>4

(* Its 0x is left out: what remains is the text that Unprefixed gives.       *)
LEMMA Prefixed ==
  ASSUME NEW s \in Seq(Nat)
  PROVE  LET b == SkipPrefix(s) - 1
             w == Unprefixed(s)
         IN  /\ b \in 0 .. Len(s) /\ w \in Seq(Nat) /\ Len(w) = Len(s) - b
             /\ \A k \in 1 .. Len(w) : w[k] = s[b + k]
<1> DEFINE b == SkipPrefix(s) - 1
           w == Unprefixed(s)
           n == Len(s)
<1>1. n \in Nat  OBVIOUS
<1>2. CASE n >= 2 /\ s[1] = 48 /\ s[2] \in {88, 120}
  <2>1. b = 2  BY <1>2 DEF SkipPrefix
  <2>2. w = SubSeq(s, 3, n)  BY <1>2, TwoBefore DEF Unprefixed
  <2>3. w \in Seq(Nat) /\ Len(w) = n - 2 /\ \A k \in 1 .. n - 2 : w[k] = s[2 + k]
    <3> HIDE DEF w
    <3> DEFINE a == 3
    <3>1. a \in Nat /\ 1 <= a /\ a <= n + 1  BY <1>1, <1>2
    <3>2. (n - a) + 1 = n - 2 /\ \A k \in 1 .. n - 2 : (a + k) - 1 = 2 + k  BY <1>1
    <3> HIDE DEF a
    <3>3. /\ SubSeq(s, a, n) \in Seq(Nat) /\ Len(SubSeq(s, a, n)) = (n - a) + 1
          /\ \A k \in 1 .. (n - a) + 1 : SubSeq(s, a, n)[k] = s[(a + k) - 1]
      BY <3>1, Rest
    <3>4. w = SubSeq(s, a, n)  BY <2>2 DEF a
    <3> QED  BY <3>2, <3>3, <3>4
  <2> HIDE DEF w, b
  <2> QED  BY <1>1, <1>2, <2>1, <2>3 DEF w, b
<1>3. CASE ~(n >= 2 /\ s[1] = 48 /\ s[2] \in {88, 120})
  <2>1. b = 0  BY <1>3 DEF SkipPrefix
  <2>2. w = s  BY <1>3, TwoBefore DEF Unprefixed
  <2>3. \A k \in 1 .. n : 0 + k = k  OBVIOUS
  <2> HIDE DEF w, b
  <2> QED  BY <1>1, <2>1, <2>2, <2>3 DEF w, b
<1> QED  BY <1>2, <1>3

(* The largest of a set of naturals that is bounded.                        *)
LEMMA Largest ==
  ASSUME NEW n \in Nat, NEW S, \A x \in S : x \in 0 .. n, S # {}
  PROVE  Max(S) \in S /\ \A y \in S : y <= Max(S)
<1> DEFINE Below == {n - x : x \in S}
<1>1. Below \in SUBSET Nat /\ Below # {}  OBVIOUS
<1>2. PICK z \in Below : \A y \in Below : z <= y  BY <1>1, LeastElement
<1>3. PICK x \in S : z = n - x  BY <1>2
<1>4. \A y \in S : x >= y
  <2> SUFFICES ASSUME NEW y \in S PROVE x >= y
    OBVIOUS
  <2>1. z <= n - y  BY <1>2
  <2>2. x \in Nat /\ y \in Nat  OBVIOUS
  <2> QED  BY <1>3, <2>1, <2>2
<1>5. Max(S) \in S /\ \A y \in S : Max(S) >= y  BY <1>4 DEF Max
<1>6. \A y \in S : y \in Nat  OBVIOUS
<1> QED  BY <1>5, <1>6

(* The run of digits: as long as it is, digits to its end and none behind it. *)
LEMMA RunOf ==
  ASSUME NEW w \in Seq(Nat)
  PROVE  /\ HexRun(w) \in Seq(Nat) /\ Len(HexRun(w)) \in 0 .. Len(w)
         /\ \A k \in 1 .. Len(HexRun(w)) : HexRun(w)[k] = w[k] /\ IsDigit(w[k])
         /\ Len(HexRun(w)) < Len(w) => ~IsDigit(w[Len(HexRun(w)) + 1])
<1> DEFINE n == Len(w)
           Digits == {j \in 0 .. n : \A k \in 1 .. j : IsDigit(w[k])}
           m == Max(Digits)
           r == HexRun(w)
<1>1. n \in Nat /\ 0 \in Digits /\ \A x \in Digits : x \in 0 .. n  OBVIOUS
<1>2. m \in Digits /\ \A y \in Digits : y <= m
  <2> HIDE DEF Digits, n
  <2>1. Digits # {}  BY <1>1
  <2> QED  BY <1>1, <2>1, Largest
<1>3. r = SubSeq(w, 1, m)  BY DEF HexRun
<1> HIDE DEF m
<1>4. m \in 0 .. n /\ \A k \in 1 .. m : IsDigit(w[k])  BY <1>2
<1>5. ASSUME m < n PROVE ~IsDigit(w[m + 1])
  <2> SUFFICES ASSUME IsDigit(w[m + 1]) PROVE FALSE
    OBVIOUS
  <2>1. m + 1 \in 0 .. n /\ ~(m + 1 <= m)  BY <1>1, <1>4, <1>5
  <2>2. ASSUME NEW k \in 1 .. m + 1 PROVE IsDigit(w[k])
    <3>1. k = m + 1 \/ k \in 1 .. m  BY <1>4
    <3> QED  BY <1>4, <3>1
  <2>3. m + 1 \in Digits  BY <2>1, <2>2
  <2> QED  BY <1>2, <2>1, <2>3
<1>6. r \in Seq(Nat) /\ Len(r) = m /\ \A k \in 1 .. m : r[k] = w[k]
  BY <1>1, <1>3, <1>4
<1> HIDE DEF r
<1> QED  BY <1>4, <1>5, <1>6 DEF r

(* Numbers below Uint take another digit as if they had been kept whole.     *)
LEMMA HexKept ==
  ASSUME NEW x \in Nat, NEW d \in Nat
  PROVE  ((x % Uint) * 16 + d) % Uint = (x * 16 + d) % Uint
<1> DEFINE base == 16
           u == Uint
<1>1. base \in Nat /\ u \in Nat \ {0}  BY UintRange
<1> HIDE DEF base, u
<1>2. ((x % u) * base + d) % u = (x * base + d) % u  BY <1>1, ModStep, ZenonT(60)
<1> QED  BY <1>2 DEF base, u

(* What textohex returns is what the longest run of digits names.           *)
LEMMA HexNames ==
  ASSUME NEW s \in Seq(Nat)
  PROVE  LET run == HexRun(Unprefixed(s))
         IN  textohex(s) = Named(16, [k \in 1 .. Len(run) |-> Value(run[k])]) % Uint
<1> DEFINE b == SkipPrefix(s) - 1
           w == Unprefixed(s)
           n == Len(s)
           r == HexRun(w)
           m == Len(r)
           v == [k \in 1 .. m |-> Value(r[k])]
<1>1. /\ b \in 0 .. n /\ n \in Nat /\ w \in Seq(Nat) /\ Len(w) = n - b
      /\ \A k \in 1 .. Len(w) : w[k] = s[b + k]
  BY Prefixed
<1>2. /\ m \in 0 .. Len(w) /\ \A k \in 1 .. m : r[k] = w[k] /\ IsDigit(w[k])
      /\ m < Len(w) => ~IsDigit(w[m + 1])
  BY <1>1, RunOf
<1>3. PICK f : /\ HexSteps(f, s, b) /\ textohex(s) = f[n].result
  BY HexReading
<1> HIDE DEF b, w, n, r
<1>4. b \in Nat /\ m \in Nat /\ b + m \in 0 .. n  BY <1>1, <1>2
<1>5. ASSUME NEW k \in 1 .. m
      PROVE  /\ HexVal(s[b + k]) \in 0 .. 15 /\ v[k] = HexVal(s[b + k])
             /\ b + k \in b + 1 .. n
  <2>1. k \in 1 .. Len(w)  BY <1>1, <1>2
  <2>2. w[k] \in Nat /\ IsDigit(w[k]) /\ r[k] = w[k] /\ w[k] = s[b + k]
    <3>1. w[k] \in Nat /\ w[k] = s[b + k]
      <4>1. w \in Seq(Nat)  BY <1>1
      <4>2. w[k] \in Nat  BY <2>1, <4>1
      <4>3. w[k] = s[b + k]  BY <1>1, <2>1, Zenon
      <4> QED  BY <4>2, <4>3
    <3>2. IsDigit(w[k]) /\ r[k] = w[k]  BY <1>2, Zenon
    <3> QED  BY <3>1, <3>2
  <2>3. HexVal(w[k]) \in -1 .. 15 /\ HexVal(w[k]) # -1 /\ Value(w[k]) = HexVal(w[k])
    BY <2>2, DigitValues
  <2>4. HexVal(w[k]) \in 0 .. 15  BY <2>3
  <2>5. b + k \in b + 1 .. n  BY <1>1, <1>2
  <2>6. v[k] = Value(r[k])  OBVIOUS
  <2> QED  BY <2>2, <2>3, <2>4, <2>5, <2>6, Zenon
<1>6. v \in Seq(Nat) /\ Len(v) = m
  <2>1. \A k \in 1 .. m : Value(r[k]) \in Nat
    <3> SUFFICES ASSUME NEW k \in 1 .. m PROVE Value(r[k]) \in Nat
      OBVIOUS
    <3>1. v[k] = Value(r[k])  OBVIOUS
    <3> HIDE DEF v
    <3>2. v[k] \in 0 .. 15  BY <1>5
    <3> QED  BY <3>1, <3>2
  <2> HIDE DEF m
  <2> QED  BY <1>4, <2>1
<1> HIDE DEF m, v
<1>7. PICK p, t : /\ Powering(p, 16, m) /\ Totalling(t, v, p, m) /\ Named(16, v) = t[m]
  <2>1. 16 \in Nat \ {0}  OBVIOUS
  <2> QED  BY <1>6, <2>1, Naming
<1> DEFINE Has(j, x) == /\ t[j] = x * p[m - j] /\ f[b + j].result = x % Uint
                        /\ f[b + j].done = FALSE
           Good == {j \in 0 .. m : \E x \in Nat : Has(j, x)}
<1>8. 0 \in Good
  <2>1. f[b] = [result |-> 0, done |-> FALSE]  BY <1>3 DEF HexSteps
  <2>2. f[b + 0].result = 0 /\ f[b + 0].done = FALSE  BY <1>4, <2>1
  <2>3. 0 % Uint = 0  BY UintRange, DivSmall
  <2>4. t[0] = 0  BY <1>7 DEF Totalling
  <2>5. p[m - 0] \in Nat
    <3>1. m - 0 \in 0 .. m  BY <1>4
    <3> QED  BY <1>7, <3>1 DEF Powering
  <2>6. t[0] = 0 * p[m - 0]  BY <2>4, <2>5
  <2>7. Has(0, 0)  BY <2>2, <2>3, <2>6
  <2> HIDE DEF Has
  <2> QED  BY <1>4, <2>7
<1>9. ASSUME NEW j \in 0 + 1 .. m, j - 1 \in Good PROVE j \in Good
  <2>1. j \in 1 .. m /\ j - 1 \in 0 .. m /\ m - j \in 0 .. m /\ m - (j - 1) \in 1 .. m
        /\ (m - (j - 1)) - 1 = m - j /\ b + (j - 1) = (b + j) - 1
    BY <1>4
  <2>2. PICK x \in Nat : Has(j - 1, x)  BY <1>9
  <2> DEFINE d == HexVal(s[b + j])
             y == x * 16 + d
             q == p[m - j]
             prev == f[(b + j) - 1]
  <2>3. d \in 0 .. 15 /\ v[j] = d /\ b + j \in b + 1 .. n  BY <1>5, <2>1
  <2>4. q \in Nat /\ p[m - (j - 1)] = 16 * q  BY <1>7, <2>1 DEF Powering
  <2>5. t[j] = t[j - 1] + v[j] * p[m - j]  BY <1>7, <2>1 DEF Totalling
  <2>6. t[j - 1] = x * (16 * q)  BY <2>2, <2>4
  <2>7. t[j] = x * (16 * q) + d * q  BY <2>3, <2>5, <2>6
  <2>8. prev.result = x % Uint /\ prev.done = FALSE  BY <2>1, <2>2
  <2>9. f[b + j] = HexStep(prev, s[b + j])  BY <1>3, <2>3 DEF HexSteps, n
  <2>10. (b + j) - 1 \in b .. n
    <3>1. b + j \in b + 1 .. n /\ b \in Nat /\ n \in Nat  BY <1>1, <1>4, <2>3
    <3> QED  BY <3>1
  <2>11. prev \in HexState  BY <1>3, <2>10 DEF HexSteps, n
  <2> DEFINE after == (prev.result * 16 + d) % Uint
  <2>12. f[b + j] = [prev EXCEPT !.result = after]
    <3>1. d # -1
      <4>1. d \in 0 .. 15  BY <2>3
      <4> HIDE DEF d
      <4> QED  BY <4>1
    <3>2. ~(prev.done \/ d = -1)  BY <2>8, <3>1, Zenon
    <3> QED  BY <2>9, <3>2, Zenon DEF HexStep
  <2> HIDE DEF d, q, prev
  <2>13. after = y % Uint
    <3>1. d \in Nat  BY <2>3
    <3>2. ((x % Uint) * 16 + d) % Uint = (x * 16 + d) % Uint
      BY <3>1, HexKept
    <3> QED  BY <2>8, <3>2
  <2>14. t[j] = y * q /\ y \in Nat  BY <2>3, <2>4, <2>7
  <2> HIDE DEF y, after
  <2>15. f[b + j].result = after /\ f[b + j].done = FALSE
    BY <2>8, <2>11, <2>12 DEF HexState
  <2>16. Has(j, y)  BY <2>13, <2>14, <2>15, Zenon DEF q
  <2> HIDE DEF Has
  <2> QED  BY <1>4, <2>14, <2>16
<1>10. PICK x \in Nat : Has(m, x)
  <2> HIDE DEF Good
  <2>1. 0 \in Nat /\ m \in 0 .. m  BY <1>4
  <2>2. \A j \in 0 .. m : j \in Good  BY <1>4, <1>8, <1>9, Climb
  <2>3. m \in Good  BY <2>1, <2>2
  <2> QED  BY <2>3 DEF Good
<1>11. t[m] = x /\ f[b + m].result = x % Uint /\ f[b + m].done = FALSE
  <2>1. m - m = 0  BY <1>4
  <2>2. p[m - m] = 1  BY <1>7, <2>1 DEF Powering
  <2> QED  BY <1>10, <2>2
<1> HIDE DEF Good
<1> DEFINE Rest1 == {k \in b + m .. n : /\ f[k].result = x % Uint
                                        /\ k # b + m => f[k].done = TRUE}
<1>12. b + m \in Rest1  BY <1>4, <1>11
<1>13. ASSUME NEW k \in (b + m) + 1 .. n, k - 1 \in Rest1 PROVE k \in Rest1
  <2> DEFINE prev == f[k - 1]
  <2>1. k \in b + 1 .. n /\ k \in b + m .. n /\ k - 1 \in b .. n /\ k # b + m
    BY <1>1, <1>4
  <2>2. f[k] = HexStep(prev, s[k]) /\ prev \in HexState
    BY <1>3, <2>1 DEF HexSteps, n
  <2>3. prev.done = TRUE \/ HexVal(s[k]) = -1
    <3>1. CASE k - 1 = b + m
      <4>1. m < Len(w) /\ k = b + (m + 1) /\ m + 1 \in 1 .. Len(w)  BY <1>1, <1>4, <3>1
      <4>2. w[m + 1] = s[k] /\ ~IsDigit(s[k]) /\ s[k] \in Nat  BY <1>1, <1>2, <4>1
      <4> QED  BY <4>2, DigitValues
    <3>2. CASE k - 1 # b + m  BY <1>13, <3>2
    <3> QED  BY <3>1, <3>2
  <2>4. f[k] = [prev EXCEPT !.done = TRUE]  BY <2>2, <2>3, Zenon DEF HexStep
  <2>5. prev.result = x % Uint  BY <1>13
  <2> HIDE DEF prev
  <2>6. f[k].result = prev.result /\ f[k].done = TRUE  BY <2>2, <2>4 DEF HexState
  <2> QED  BY <2>1, <2>5, <2>6
<1>14. n \in Rest1
  <2> HIDE DEF Rest1
  <2>1. b + m \in Nat /\ n \in Nat /\ n \in b + m .. n  BY <1>1, <1>4
  <2>2. \A k \in b + m .. n : k \in Rest1  BY <1>12, <1>13, <2>1, Climb
  <2> QED  BY <2>1, <2>2
<1>15. textohex(s) = Named(16, v) % Uint  BY <1>3, <1>7, <1>11, <1>14
<1> QED  BY <1>15 DEF v, m, r, w

(* Digits are characters.                                                   *)
LEMMA HexDigitsPrinted ==
  ASSUME NEW num \in Nat
  PROVE  vga_hex_print(num) \in Seq(Nat)
<1> DEFINE digits == [i \in 1 .. HexDigits |->
                        HexChar((num \div Power16[HexDigits - i]) % 16)]
<1>1. digits \in Seq(Nat)
  <2>1. ASSUME NEW i \in 1 .. HexDigits
        PROVE  HexChar((num \div Power16[HexDigits - i]) % 16) \in Nat
    <3>1. HexDigits - i \in 0 .. HexDigits  BY ShellAssumption
    <3>2. Power16[HexDigits - i] \in Nat \ {0}  BY <3>1, Power16s DEF Powering
    <3>3. num \div Power16[HexDigits - i] \in Nat  BY <3>2, DivNat
    <3>4. (num \div Power16[HexDigits - i]) % 16 \in 0 .. 15  BY <3>3
    <3> QED  BY <3>4 DEF HexChar
  <2>2. HexDigits \in Nat  BY ShellAssumption
  <2> QED  BY <2>1, <2>2
<1>2. <<48, 120>> \in Seq(Nat)  OBVIOUS
<1>3. vga_hex_print(num) = <<48, 120>> \o digits  BY DEF vga_hex_print
<1> HIDE DEF digits
<1> QED  BY <1>1, <1>2, <1>3, ConcatProperties

(* One sequence behind another, place by place.                              *)
LEMMA Joined ==
  ASSUME NEW a \in Seq(Nat), NEW c \in Seq(Nat)
  PROVE  /\ a \o c \in Seq(Nat) /\ Len(a \o c) = Len(a) + Len(c)
         /\ \A k \in 1 .. Len(a) + Len(c) :
              (a \o c)[k] = IF k <= Len(a) THEN a[k] ELSE c[k - Len(a)]
  BY ConcatProperties

(* What vga_hex_print shows, digit by digit, and what textohex makes of it.  *)
LEMMA HexShown ==
  ASSUME NEW num \in Nat
  PROVE  LET s == vga_hex_print(num)
         IN  /\ Len(s) = HexDigits + 2 /\ s[1] = 48 /\ s[2] = 120
             /\ \A k \in 1 .. HexDigits :
                  s[2 + k] = HexChar((num \div Power16[HexDigits - k]) % 16)
<1> DEFINE H == HexDigits
           D(i) == HexChar((num \div Power16[H - i]) % 16)
           digits == [i \in 1 .. H |-> D(i)]
           front == <<48, 120>>
           s == front \o digits
<1>1. H \in Nat  BY ShellAssumption
<1>2. Len(digits) = H /\ \A k \in 1 .. H : digits[k] = D(k)
  <2> HIDE DEF D
  <2> QED  BY <1>1
<1>3. front \in Seq(Nat) /\ Len(front) = 2 /\ front[1] = 48 /\ front[2] = 120  OBVIOUS
<1>4. digits \in Seq(Nat)
  <2>1. ASSUME NEW i \in 1 .. H PROVE D(i) \in Nat
    <3>1. H - i \in 0 .. H  BY <1>1
    <3>2. Power16[H - i] \in Nat \ {0}  BY <3>1, Power16s DEF Powering
    <3>3. num \div Power16[H - i] \in Nat  BY <3>2, DivNat
    <3>4. (num \div Power16[H - i]) % 16 \in 0 .. 15  BY <3>3
    <3> QED  BY <3>4 DEF HexChar
  <2> HIDE DEF D
  <2> QED  BY <1>1, <2>1
<1>5. vga_hex_print(num) = s  BY DEF vga_hex_print
<1> HIDE DEF digits, front, D, H
<1>6. /\ Len(s) = Len(front) + Len(digits)
      /\ \A k \in 1 .. Len(front) + Len(digits) :
           s[k] = IF k <= Len(front) THEN front[k] ELSE digits[k - Len(front)]
  <2>1. front \in Seq(Nat)  BY <1>3
  <2> QED  BY <1>4, <2>1, Joined, Zenon
<1> HIDE DEF s
<1>7. Len(s) = H + 2 /\ s[1] = 48 /\ s[2] = 120
  <2>1. Len(s) = H + 2 /\ 1 \in 1 .. Len(s) /\ 2 \in 1 .. Len(s)
        /\ 1 <= Len(front) /\ 2 <= Len(front)
    BY <1>1, <1>2, <1>3, <1>6
  <2> QED  BY <1>3, <1>6, <2>1
<1>8. ASSUME NEW k \in 1 .. H PROVE s[2 + k] = D(k)
  <2>1. 2 + k \in 1 .. Len(s) /\ ~(2 + k <= Len(front)) /\ (2 + k) - Len(front) = k
    BY <1>1, <1>3, <1>7
  <2> QED  BY <1>2, <1>6, <2>1
<1> QED  BY <1>5, <1>7, <1>8 DEF D, H

(* A digit written and read again is the same digit.                         *)
LEMMA DigitsMatch == \A d \in 0 .. 15 : HexChar(d) \in Nat /\ HexVal(HexChar(d)) = d
  BY DEF HexChar, HexVal

(* A number of HexDigits digits shown in hex and typed back is the same number.     *)
LEMMA HexReadBack ==
  ASSUME NEW num \in Nat, num < Uint
  PROVE  textohex(vga_hex_print(num)) = num
<1> DEFINE H == HexDigits
           s == vga_hex_print(num)
           P == Power16
<1>1. H \in Nat  BY ShellAssumption
<1>2. /\ s \in Seq(Nat) /\ Len(s) = H + 2 /\ s[1] = 48 /\ s[2] = 120
      /\ \A k \in 1 .. H : s[2 + k] = HexChar((num \div P[H - k]) % 16)
  BY HexShown, HexDigitsPrinted
<1> HIDE DEF s
<1>3. SkipPrefix(s) - 1 = 2  BY <1>1, <1>2 DEF SkipPrefix
<1>4. PICK f : HexSteps(f, s, 2) /\ textohex(s) = f[H + 2].result
  BY <1>2, <1>3, HexReading
<1>5. Powering(P, 16, H)  BY Power16s
<1> HIDE DEF P, H
<1> DEFINE Good == {j \in 0 .. H : /\ f[2 + j].result = num \div P[H - j]
                                   /\ f[2 + j].done = FALSE}
<1>6. 0 \in Good
  <2>1. f[2] = [result |-> 0, done |-> FALSE]  BY <1>4 DEF HexSteps
  <2>2. f[2 + 0].result = 0 /\ f[2 + 0].done = FALSE  BY <2>1
  <2>3. P[H - 0] = Uint  BY <1>1 DEF Uint, P, H
  <2>4. num \div Uint = 0  BY UintRange, DivSmall
  <2> QED  BY <1>1, <2>2, <2>3, <2>4
<1>7. ASSUME NEW j \in 0 + 1 .. H, j - 1 \in Good PROVE j \in Good
  <2> DEFINE q == P[H - j]
             a == num \div q
             d == a % 16
             prev == f[(2 + j) - 1]
             after == (prev.result * 16 + d) % Uint
  <2>1. j \in 1 .. H /\ H - j \in 0 .. H /\ H - (j - 1) \in 1 .. H
        /\ (H - (j - 1)) - 1 = H - j /\ 2 + (j - 1) = (2 + j) - 1
        /\ 2 + j \in 2 + 1 .. H + 2 /\ (2 + j) - 1 \in 2 .. H + 2
    BY <1>1
  <2>2. q \in Nat \ {0} /\ P[H - (j - 1)] = 16 * q  BY <1>5, <2>1 DEF Powering
  <2>3. s[2 + j] = HexChar(d)  BY <1>2, <2>1
  <2>4. prev.result = num \div (16 * q) /\ prev.done = FALSE  BY <1>7, <2>1, <2>2
  <2>5. f[2 + j] = HexStep(prev, s[2 + j]) /\ prev \in HexState
    BY <1>2, <1>4, <2>1 DEF HexSteps
  <2> HIDE DEF q, prev
  <2>6. a \in Nat /\ a < Uint
    <3>1. a \in Nat /\ a * q <= num  BY <2>2, DivNat, DivMulBelow
    <3> HIDE DEF a
    <3>2. a <= a * q  BY <2>2, <3>1
    <3>3. a * q \in Nat  BY <2>2, <3>1
    <3> QED  BY <3>1, <3>2, <3>3, UintRange
  <2>7. num \div (16 * q) = a \div 16
    <3>1. num \div (q * 16) = (num \div q) \div 16
      <4>1. 16 \in Nat \ {0}  OBVIOUS
      <4> QED  BY <2>2, <4>1, DivDiv
    <3>2. 16 * q = q * 16  BY <2>2
    <3> QED  BY <3>1, <3>2
  <2> HIDE DEF a
  <2>8. d \in 0 .. 15 /\ (a \div 16) * 16 + d = a  BY <2>6
  <2> HIDE DEF d
  <2>9. HexVal(s[2 + j]) = d /\ d # -1  BY <2>3, <2>8, DigitsMatch
  <2>10. f[2 + j] = [prev EXCEPT !.result = after]
    BY <2>4, <2>5, <2>9, Zenon DEF HexStep
  <2>11. after = a
    <3>1. after = a % Uint  BY <2>4, <2>7, <2>8
    <3> QED  BY <2>6, <3>1, UintRange, DivSmall
  <2> HIDE DEF after
  <2>12. f[2 + j].result = after /\ f[2 + j].done = FALSE
    BY <2>4, <2>5, <2>10 DEF HexState
  <2> QED  BY <2>1, <2>11, <2>12 DEF a, q
<1>8. H \in Good
  <2> HIDE DEF Good
  <2>1. 0 \in Nat /\ H \in 0 .. H  BY <1>1
  <2>2. \A k \in 0 .. H : k \in Good  BY <1>1, <1>6, <1>7, Climb
  <2> QED  BY <2>1, <2>2
<1>9. num \div P[H - H] = num
  <2>1. H - H = 0 /\ P[0] = 1  BY <1>1, <1>5 DEF Powering
  <2> QED  BY <2>1
<1>10. 2 + H = H + 2  BY <1>1
<1> QED  BY <1>4, <1>8, <1>9, <1>10 DEF s

(* vga_print_dec: its digits are there, the last of them first.             *)
LEMMA Tenth ==
  \A n \in Nat \ {0} : /\ n \div 10 \in 0 .. n - 1 /\ n % 10 \in 0 .. 9
                       /\ n = 10 * (n \div 10) + (n % 10)
<1> TAKE n \in Nat \ {0}
<1> DEFINE q == n \div 10
           r == n % 10
<1>1. 10 \in Nat \ {0}  OBVIOUS
<1>2. q \in Nat /\ r \in 0 .. 10 - 1 /\ n = q * 10 + r
  BY <1>1, DivNat, ModNat, DivModSplit
<1> HIDE DEF q, r
<1>3. q \in 0 .. n - 1 /\ r \in 0 .. 9 /\ n = 10 * q + r  BY <1>2
<1> QED  BY <1>3 DEF q, r

Digits(g, m) == /\ g \in [0 .. m -> Seq(Nat)] /\ g[0] = <<>>
                /\ \A n \in 1 .. m : g[n] = <<48 + (n % 10)>> \o g[n \div 10]

(* The digits of vga_print_dec, one division after the other.                *)
LEMMA DigitsThere ==
  ASSUME NEW num \in Nat
  PROVE  \E g : Digits(g, num)
<1> DEFINE Good == {m \in Nat : \E g : Digits(g, m)}
<1>1. 0 \in Good
  <2> DEFINE g == [n \in 0 .. 0 |-> <<>>]
  <2>1. <<>> \in Seq(Nat) /\ 0 \in 0 .. 0 /\ 1 .. 0 = {}  OBVIOUS
  <2>2. g \in [0 .. 0 -> Seq(Nat)] /\ g[0] = <<>>  BY <2>1
  <2> HIDE DEF g
  <2>3. Digits(g, 0)  BY <2>1, <2>2 DEF Digits
  <2> QED  BY <2>3
<1>2. ASSUME NEW m \in 0 + 1 .. num, m - 1 \in Good PROVE m \in Good
  <2>1. m \in Nat \ {0} /\ m - 1 \in Nat  OBVIOUS
  <2>2. PICK g : Digits(g, m - 1)  BY <1>2
  <2> DEFINE next == <<48 + (m % 10)>> \o g[m \div 10]
             h == [k \in 0 .. m |-> IF k = m THEN next ELSE g[k]]
  <2>3. next \in Seq(Nat)
    <3>1. m \div 10 \in 0 .. m - 1 /\ 48 + (m % 10) \in Nat  BY <2>1, Tenth
    <3>2. g[m \div 10] \in Seq(Nat)  BY <2>2, <3>1 DEF Digits
    <3>3. <<48 + (m % 10)>> \in Seq(Nat)  BY <3>1
    <3> QED  BY <3>2, <3>3, Joined
  <2> HIDE DEF next
  <2>4. h \in [0 .. m -> Seq(Nat)]
    <3>1. ASSUME NEW k \in 0 .. m PROVE (IF k = m THEN next ELSE g[k]) \in Seq(Nat)
      <4>1. k # m => k \in 0 .. m - 1  BY <2>1
      <4>2. k # m => g[k] \in Seq(Nat)  BY <2>2, <4>1 DEF Digits
      <4> QED  BY <2>3, <4>2
    <3> QED  BY <3>1
  <2>5. h[0] = <<>>
    <3>1. 0 \in 0 .. m /\ 0 # m  BY <2>1
    <3>2. g[0] = <<>>  BY <2>2 DEF Digits
    <3> QED  BY <3>1, <3>2
  <2>6. ASSUME NEW n \in 1 .. m PROVE h[n] = <<48 + (n % 10)>> \o h[n \div 10]
    <3>1. n \in Nat \ {0} /\ n \in 0 .. m  OBVIOUS
    <3>2. n \div 10 \in 0 .. n - 1  BY <3>1, Tenth
    <3>3. n \div 10 \in 0 .. m /\ n \div 10 # m  BY <3>1, <3>2
    <3>4. h[n \div 10] = g[n \div 10]  BY <3>3
    <3>5. CASE n = m
      <4>1. h[n] = next  BY <3>1, <3>5
      <4> QED  BY <3>4, <3>5, <4>1 DEF next
    <3>6. CASE n # m
      <4>1. h[n] = g[n] /\ n \in 1 .. m - 1  BY <3>1, <3>6
      <4>2. g[n] = <<48 + (n % 10)>> \o g[n \div 10]  BY <2>2, <4>1, Zenon DEF Digits
      <4> QED  BY <3>4, <4>1, <4>2, Zenon
    <3> QED  BY <3>5, <3>6
  <2> HIDE DEF h
  <2>7. Digits(h, m)  BY <2>4, <2>5, <2>6, Zenon DEF Digits
  <2> QED  BY <2>1, <2>7
<1> HIDE DEF Good
<1>3. 0 \in Nat /\ num \in 0 .. num  OBVIOUS
<1>4. \A m \in 0 .. num : m \in Good  BY <1>1, <1>2, <1>3, Climb
<1>5. num \in Good  BY <1>3, <1>4
<1> QED  BY <1>5 DEF Good

(* A number shown in decimal is its digits, the last one computed first.      *)
LEMMA DecPrinted ==
  ASSUME NEW num \in Nat
  PROVE  \E f : Digits(f, num) /\ (num # 0 => vga_print_dec(num) = Reverse(f[num]))
<1> DEFINE R(h) == h = [n \in 0 .. num |-> IF n = 0 THEN <<>>
                                          ELSE <<48 + (n % 10)>> \o h[n \div 10]]
           f == CHOOSE h : R(h)
<1>1. PICK g : Digits(g, num)  BY DigitsThere
<1>2. R(g)
  <2>1. ASSUME NEW n \in 0 .. num
        PROVE  g[n] = IF n = 0 THEN <<>> ELSE <<48 + (n % 10)>> \o g[n \div 10]
    <3>1. n # 0 => n \in 1 .. num  OBVIOUS
    <3> QED  BY <1>1, <3>1, Zenon DEF Digits
  <2>2. g \in [0 .. num -> Seq(Nat)]  BY <1>1 DEF Digits
  <2> QED  BY <2>1, <2>2, Zenon
<1>3. num # 0 => vga_print_dec(num) = Reverse(f[num])  BY Zenon DEF vga_print_dec
<1>4. R(f)
  <2> HIDE DEF R
  <2> QED  BY <1>2
<1> HIDE DEF f
<1>5. f[0] = <<>> /\ \A n \in 1 .. num : f[n] = <<48 + (n % 10)>> \o f[n \div 10]
  <2>1. 0 \in 0 .. num  OBVIOUS
  <2>2. f[0] = <<>>  BY <1>4, <2>1, Zenon
  <2>3. ASSUME NEW n \in 1 .. num PROVE f[n] = <<48 + (n % 10)>> \o f[n \div 10]
    <3>1. n \in 0 .. num /\ n # 0  OBVIOUS
    <3> QED  BY <1>4, <3>1, Zenon
  <2> QED  BY <2>2, <2>3, Zenon
<1> DEFINE Bad == {n \in 0 .. num : f[n] \notin Seq(Nat)}
<1>6. Bad = {}
  <2> SUFFICES ASSUME Bad # {} PROVE FALSE
    OBVIOUS
  <2>1. Bad \in SUBSET Nat  OBVIOUS
  <2>2. PICK n \in Bad : \A y \in Bad : n <= y  BY <2>1, LeastElement
  <2>3. n # 0
    <3>1. <<>> \in Seq(Nat)  OBVIOUS
    <3> QED  BY <1>5, <2>2, <3>1, Zenon
  <2>4. n \in Nat \ {0} /\ n \in 1 .. num  BY <2>2, <2>3
  <2>5. n \div 10 \in 0 .. n - 1 /\ n % 10 \in 0 .. 9  BY <2>4, Tenth
  <2>6. n \div 10 \in 0 .. num /\ ~(n <= n \div 10) /\ 48 + (n % 10) \in Nat  BY <2>4, <2>5
  <2>7. n \div 10 \notin Bad  BY <2>2, <2>6, Zenon
  <2>8. f[n \div 10] \in Seq(Nat)  BY <2>6, <2>7, Zenon
  <2>9. <<48 + (n % 10)>> \in Seq(Nat)  BY <2>6
  <2>10. <<48 + (n % 10)>> \o f[n \div 10] \in Seq(Nat)  BY <2>8, <2>9, Joined
  <2>11. f[n] \in Seq(Nat)  BY <1>5, <2>4, <2>10, Zenon
  <2> QED  BY <2>2, <2>11, Zenon
<1>7. \A n \in 0 .. num : f[n] \in Seq(Nat)  BY <1>6
<1>8. f \in [0 .. num -> Seq(Nat)]  BY <1>4, <1>7, Zenon
<1>9. Digits(f, num)  BY <1>5, <1>8, Zenon DEF Digits
<1> QED  BY <1>3, <1>9

(* The digits of n, the last first: place i counts 10^(i - 1), no place is   *)
(* missing and the highest is not 0.                                        *)
Figure(d) == 48 + d
Shows(s, n) ==
  /\ n = 0 => Len(s) = 0
  /\ \A p : Powering(p, 10, Len(s)) =>
       /\ n \div p[Len(s)] = 0
       /\ \A i \in 1 .. Len(s) : s[i] = Figure((n \div p[i - 1]) % 10)
       /\ n # 0 => Len(s) >= 1 /\ n \div p[Len(s) - 1] \in 1 .. 9

(* One digit more.                                                          *)
LEMMA ShowsNext ==
  ASSUME NEW n \in Nat \ {0}, NEW t \in Seq(Nat), Shows(t, n \div 10)
  PROVE  Shows(<<48 + (n % 10)>> \o t, n)
<1> DEFINE q == n \div 10
           c == 48 + (n % 10)
           s == <<c>> \o t
           l == Len(t)
<1>1. q \in Nat /\ q \in 0 .. n - 1 /\ n % 10 \in 0 .. 9 /\ n = 10 * q + (n % 10) /\ l \in Nat
  BY Tenth
<1>2. /\ Len(s) = l + 1 /\ s[1] = c
      /\ \A i \in 2 .. l + 1 : s[i] = t[i - 1]
  <2> DEFINE e == <<c>>
  <2>1. c \in Nat  BY <1>1
  <2> HIDE DEF c
  <2>2. e \in Seq(Nat) /\ Len(e) = 1 /\ e[1] = c  BY <2>1
  <2> HIDE DEF e, l
  <2>3. /\ Len(e \o t) = Len(e) + Len(t)
        /\ \A k \in 1 .. Len(e) + Len(t) :
             (e \o t)[k] = IF k <= Len(e) THEN e[k] ELSE t[k - Len(e)]
    BY <2>2, Joined, Zenon
  <2>4. s = e \o t  BY DEF e
  <2> HIDE DEF s
  <2>5. Len(s) = l + 1  BY <1>1, <2>2, <2>3, <2>4 DEF l
  <2>6. s[1] = c
    <3>1. 1 \in 1 .. Len(e) + Len(t) /\ 1 <= Len(e)  BY <1>1, <2>2 DEF l
    <3> QED  BY <2>2, <2>3, <2>4, <3>1
  <2>7. ASSUME NEW i \in 2 .. l + 1 PROVE s[i] = t[i - 1]
    <3>1. i \in 1 .. Len(e) + Len(t) /\ ~(i <= Len(e))  BY <1>1, <2>2 DEF l
    <3> QED  BY <2>2, <2>3, <2>4, <3>1
  <2> QED  BY <2>5, <2>6, <2>7
<1> HIDE DEF s, c, l
<1> SUFFICES ASSUME NEW p, Powering(p, 10, l + 1)
             PROVE  /\ n \div p[l + 1] = 0
                    /\ \A i \in 1 .. l + 1 : s[i] = Figure((n \div p[i - 1]) % 10)
                    /\ n # 0 => l + 1 >= 1 /\ n \div p[(l + 1) - 1] \in 1 .. 9
  <2>1. Len(s) = l + 1  BY <1>2
  <2> QED  BY <2>1, Zenon DEF Shows, s, c
<1> DEFINE r == [k \in 0 .. l |-> p[k]]
<1>3. /\ \A k \in 0 .. l + 1 : p[k] \in Nat \ {0}
      /\ p[0] = 1 /\ \A k \in 1 .. l + 1 : p[k] = 10 * p[k - 1]
  BY DEF Powering
<1>4. Powering(r, 10, l)
  <2>1. r \in [0 .. l -> Nat \ {0}]
    <3>1. \A k \in 0 .. l : k \in 0 .. l + 1  BY <1>1
    <3> QED  BY <1>3, <3>1
  <2>2. r[0] = 1  BY <1>1, <1>3
  <2>3. ASSUME NEW k \in 1 .. l PROVE r[k] = 10 * r[k - 1]
    <3>1. k \in 0 .. l /\ k - 1 \in 0 .. l /\ k \in 1 .. l + 1  BY <1>1
    <3>2. p[k] = 10 * p[k - 1]  BY <1>3, <3>1
    <3> QED  BY <3>1, <3>2
  <2> HIDE DEF r
  <2> QED  BY <2>1, <2>2, <2>3, Zenon DEF Powering
<1>5. \A k \in 0 .. l : r[k] = p[k]  OBVIOUS
<1> HIDE DEF r, q
<1>6. /\ q \div p[l] = 0
      /\ \A i \in 1 .. l : t[i] = Figure((q \div p[i - 1]) % 10)
      /\ q # 0 => l >= 1 /\ q \div p[l - 1] \in 1 .. 9
  <2>1. /\ q \div r[l] = 0
        /\ \A i \in 1 .. l : t[i] = Figure((q \div r[i - 1]) % 10)
        /\ q # 0 => l >= 1 /\ q \div r[l - 1] \in 1 .. 9
    BY <1>4, Zenon DEF Shows, q, l
  <2>2. r[l] = p[l] /\ \A i \in 1 .. l : r[i - 1] = p[i - 1]
    <3>1. l \in 0 .. l /\ \A i \in 1 .. l : i - 1 \in 0 .. l  BY <1>1
    <3> QED  BY <1>5, <3>1
  <2>3. l >= 1 => r[l - 1] = p[l - 1]
    <3>1. l >= 1 => l \in 1 .. l  BY <1>1
    <3> QED  BY <2>2, <3>1
  <2> QED  BY <2>1, <2>2, <2>3
<1>7. \A k \in 0 .. l : n \div p[k + 1] = q \div p[k]
  <2> SUFFICES ASSUME NEW k \in 0 .. l PROVE n \div p[k + 1] = q \div p[k]
    OBVIOUS
  <2>1. k + 1 \in 1 .. l + 1 /\ (k + 1) - 1 = k /\ k \in 0 .. l + 1  BY <1>1
  <2>2. p[k + 1] = 10 * p[k] /\ p[k] \in Nat \ {0}  BY <1>3, <2>1
  <2> DEFINE d == p[k]
  <2> HIDE DEF d
  <2>3. n \div (10 * d) = (n \div 10) \div d
    <3>1. 10 \in Nat \ {0} /\ d \in Nat \ {0}  BY <2>2 DEF d
    <3> QED  BY <3>1, DivDiv
  <2> QED  BY <2>2, <2>3 DEF d, q
<1>8. n \div p[l + 1] = 0
  <2>1. l \in 0 .. l  BY <1>1
  <2> QED  BY <1>6, <1>7, <2>1
<1>9. n \div p[0] = n  BY <1>3
<1>10. ASSUME NEW i \in 1 .. l + 1 PROVE s[i] = Figure((n \div p[i - 1]) % 10)
  <2>1. CASE i = 1
    <3>1. i - 1 = 0  BY <2>1
    <3> QED  BY <1>2, <1>9, <2>1, <3>1 DEF c, Figure
  <2>2. CASE i # 1
    <3>1. i \in 2 .. l + 1 /\ i - 1 \in 1 .. l /\ (i - 1) - 1 \in 0 .. l
          /\ ((i - 1) - 1) + 1 = i - 1
      BY <1>1, <2>2
    <3>2. n \div p[i - 1] = q \div p[(i - 1) - 1]  BY <1>7, <3>1
    <3>3. t[i - 1] = Figure((q \div p[(i - 1) - 1]) % 10)  BY <1>6, <3>1
    <3>4. s[i] = t[i - 1]  BY <1>2, <3>1
    <3> QED  BY <3>2, <3>3, <3>4, Zenon
  <2> QED  BY <2>1, <2>2
<1>11. n \div p[(l + 1) - 1] \in 1 .. 9
  <2>1. CASE q = 0
    <3>1. l = 0  BY <2>1 DEF Shows, q, l
    <3> QED  BY <1>1, <1>9, <2>1, <3>1
  <2>2. CASE q # 0
    <3>1. l >= 1 /\ q \div p[l - 1] \in 1 .. 9  BY <1>6, <2>2
    <3>2. l - 1 \in 0 .. l /\ (l - 1) + 1 = l /\ (l + 1) - 1 = l  BY <1>1, <3>1
    <3> QED  BY <1>7, <3>1, <3>2
  <2> QED  BY <2>1, <2>2
<1> QED  BY <1>1, <1>8, <1>10, <1>11

(* Every number up to num.                                                  *)
LEMMA DigitsShow ==
  ASSUME NEW num \in Nat, NEW f, Digits(f, num)
  PROVE  \A n \in 0 .. num : f[n] \in Seq(Nat) /\ Shows(f[n], n)
<1>1. f \in [0 .. num -> Seq(Nat)] /\ f[0] = <<>>  BY DEF Digits
<1>2. \A n \in 1 .. num : f[n] = <<48 + (n % 10)>> \o f[n \div 10]  BY DEF Digits
<1> DEFINE Bad == {n \in 0 .. num : ~Shows(f[n], n)}
<1> SUFFICES Bad = {}
  BY <1>1
<1> SUFFICES ASSUME Bad # {} PROVE FALSE
  OBVIOUS
<1>3. Bad \in SUBSET Nat  OBVIOUS
<1>4. PICK n \in Bad : \A y \in Bad : n <= y  BY <1>3, LeastElement
<1>5. n # 0
  <2>1. Shows(<<>>, 0)
    <3>1. Len(<<>>) = 0  OBVIOUS
    <3> DEFINE s == <<>>
    <3> HIDE DEF s
    <3>2. ASSUME NEW p, Powering(p, 10, Len(s)), Len(s) = 0
          PROVE  /\ 0 \div p[Len(s)] = 0
                 /\ \A i \in 1 .. Len(s) : s[i] = Figure((0 \div p[i - 1]) % 10)
      <4>1. p[0] = 1 /\ 1 .. 0 = {} /\ 0 \div 1 = 0  BY <3>2 DEF Powering
      <4> QED  BY <3>2, <4>1
    <3>3. Len(s) = 0  BY <3>1 DEF s
    <3>4. Shows(s, 0)  BY <3>2, <3>3, Zenon DEF Shows
    <3> QED  BY <3>4 DEF s
  <2> QED  BY <1>1, <1>4, <2>1
<1>6. n \in Nat \ {0} /\ n \in 1 .. num  BY <1>4, <1>5
<1>7. n \div 10 \in 0 .. n - 1  BY <1>6, Tenth
<1>8. n \div 10 \in 0 .. num /\ ~(n <= n \div 10)  BY <1>6, <1>7
<1>9. n \div 10 \notin Bad  BY <1>4, <1>8, Zenon
<1>10. Shows(f[n \div 10], n \div 10) /\ f[n \div 10] \in Seq(Nat)
  BY <1>1, <1>8, <1>9
<1>11. Shows(<<48 + (n % 10)>> \o f[n \div 10], n)  BY <1>6, <1>10, ShowsNext, Zenon
<1>12. Shows(f[n], n)  BY <1>2, <1>6, <1>11, Zenon
<1> QED  BY <1>4, <1>12, Zenon

(* What vga_print_dec shows names the number, without superfluous zeros.    *)
LEMMA DecNames ==
  ASSUME NEW num \in Nat
  PROVE  LET shown == vga_print_dec(num)
             n == Len(shown)
         IN  /\ Named(10, [k \in 1 .. n |-> shown[k] - 48]) = num
             /\ n > 1 => shown[1] # 48
<1> DEFINE shown == vga_print_dec(num)
           n == Len(shown)
           v == [k \in 1 .. n |-> shown[k] - 48]
<1>1. CASE num = 0
  <2>1. shown = <<48>>  BY <1>1 DEF vga_print_dec
  <2>2. n = 1 /\ shown[1] = 48  BY <2>1
  <2> HIDE DEF shown, n
  <2>3. v \in Seq(Nat) /\ Len(v) = 1 /\ v[1] = 0
    <3>1. \A k \in 1 .. n : shown[k] - 48 = 0
      <4>1. \A k \in 1 .. n : k = 1  BY <2>2
      <4> QED  BY <2>2, <4>1
    <3> QED  BY <2>2, <3>1
  <2> HIDE DEF v
  <2>4. PICK p, t : /\ Powering(p, 10, Len(v)) /\ Totalling(t, v, p, Len(v))
                    /\ Named(10, v) = t[Len(v)]
    <3>1. 10 \in Nat \ {0}  OBVIOUS
    <3> QED  BY <2>3, <3>1, Naming
  <2>5. t[1] = t[0] + v[1] * p[1 - 1] /\ t[0] = 0  BY <2>3, <2>4 DEF Totalling
  <2>6. p[1 - 1] = 1  BY <2>4 DEF Powering
  <2>7. Named(10, v) = 0  BY <2>3, <2>4, <2>5, <2>6
  <2> QED  BY <1>1, <2>2, <2>7 DEF v, shown, n
<1>2. CASE num # 0
  <2>1. PICK f : Digits(f, num) /\ shown = Reverse(f[num])  BY <1>2, DecPrinted
  <2> DEFINE s == f[num]
             l == Len(s)
  <2>2. s \in Seq(Nat) /\ Shows(s, num)
    <3>1. num \in 0 .. num  OBVIOUS
    <3> QED  BY <2>1, <3>1, DigitsShow
  <2>3. l \in Nat  BY <2>2
  <2>4. n = l /\ \A k \in 1 .. l : shown[k] = s[(l - k) + 1]
    <3>1. shown = [k \in 1 .. l |-> s[(l - k) + 1]]  BY <2>1, Zenon DEF Reverse
    <3> HIDE DEF shown, l, s
    <3> QED  BY <2>3, <3>1
  <2> HIDE DEF shown, n
  <2>5. PICK q : Powering(q, 10, l)
    <3>1. 10 \in Nat \ {0}  OBVIOUS
    <3> QED  BY <2>3, <3>1, Powers
  <2>6. /\ num \div q[l] = 0
        /\ \A i \in 1 .. l : s[i] = Figure((num \div q[i - 1]) % 10)
        /\ l >= 1 /\ num \div q[l - 1] \in 1 .. 9
    BY <1>2, <2>2, <2>5, Zenon DEF Shows
  <2>7. /\ \A k \in 0 .. l : q[k] \in Nat \ {0}
        /\ q[0] = 1 /\ \A k \in 1 .. l : q[k] = 10 * q[k - 1]
    BY <2>5 DEF Powering
  <2> HIDE DEF l, s
  <2>8. ASSUME NEW k \in 1 .. l
        PROVE  /\ v[k] = (num \div q[l - k]) % 10 /\ v[k] \in 0 .. 9
               /\ shown[k] = 48 + v[k] /\ l - k \in 0 .. l
    <3>1. (l - k) + 1 \in 1 .. l /\ ((l - k) + 1) - 1 = l - k /\ l - k \in 0 .. l  BY <2>3
    <3>2. shown[k] = 48 + ((num \div q[l - k]) % 10)  BY <2>4, <2>6, <3>1 DEF Figure
    <3>3. num \div q[l - k] \in Nat  BY <2>7, <3>1, DivNat
    <3> DEFINE a == num \div q[l - k]
    <3> HIDE DEF a
    <3>4. a % 10 \in 0 .. 9  BY <3>3 DEF a
    <3>5. v[k] = shown[k] - 48  BY <2>4
    <3> HIDE DEF v
    <3> QED  BY <3>1, <3>2, <3>4, <3>5 DEF a
  <2>9. v \in Seq(Nat) /\ Len(v) = l
    <3>1. \A k \in 1 .. n : shown[k] - 48 \in Nat
      <4> SUFFICES ASSUME NEW k \in 1 .. n PROVE shown[k] - 48 \in Nat
        OBVIOUS
      <4>1. v[k] = shown[k] - 48  OBVIOUS
      <4> HIDE DEF v
      <4>2. v[k] \in 0 .. 9  BY <2>4, <2>8
      <4> QED  BY <4>1, <4>2
    <3> QED  BY <2>3, <2>4, <3>1
  <2>10. PICK p, t : Powering(p, 10, l) /\ Totalling(t, v, p, l) /\ Named(10, v) = t[l]
    <3> HIDE DEF v
    <3>1. 10 \in Nat \ {0}  OBVIOUS
    <3> QED  BY <2>9, <3>1, Naming
  <2> HIDE DEF v
  <2>11. /\ num \div p[l] = 0
         /\ \A i \in 1 .. l : s[i] = Figure((num \div p[i - 1]) % 10)
         /\ num \div p[l - 1] \in 1 .. 9
    BY <1>2, <2>2, <2>10, Zenon DEF Shows, l, s
  <2>12. /\ \A k \in 0 .. l : p[k] \in Nat \ {0}
         /\ p[0] = 1 /\ \A k \in 1 .. l : p[k] = 10 * p[k - 1]
    BY <2>10 DEF Powering
  <2>13. ASSUME NEW k \in 1 .. l
         PROVE  v[k] = (num \div p[l - k]) % 10
    <3>1. (l - k) + 1 \in 1 .. l /\ ((l - k) + 1) - 1 = l - k /\ l - k \in 0 .. l  BY <2>3
    <3>2. shown[k] = 48 + ((num \div p[l - k]) % 10)  BY <2>4, <2>11, <3>1 DEF Figure
    <3>3. num \div p[l - k] \in Nat  BY <2>12, <3>1, DivNat
    <3> DEFINE d == (num \div p[l - k]) % 10
    <3>4. d \in Nat  BY <3>3
    <3> HIDE DEF d
    <3>5. shown[k] = 48 + d /\ shown[k] = 48 + v[k] /\ v[k] \in 0 .. 9
      BY <2>8, <3>2 DEF d
    <3>6. v[k] = d  BY <3>4, <3>5
    <3> QED  BY <3>6 DEF d
  <2> DEFINE Good == {k \in 0 .. l : t[k] = (num \div p[l - k]) * p[l - k]}
  <2>14. 0 \in Good
    <3>1. t[0] = 0 /\ l - 0 = l  BY <2>3, <2>10 DEF Totalling
    <3>2. l \in 0 .. l  BY <2>3
    <3>3. p[l] \in Nat  BY <2>12, <3>2
    <3>4. 0 * p[l] = 0  BY <3>3
    <3> QED  BY <2>3, <2>11, <3>1, <3>4
  <2>15. ASSUME NEW k \in 0 + 1 .. l, k - 1 \in Good PROVE k \in Good
    <3>1. k \in 1 .. l /\ l - k \in 0 .. l /\ l - (k - 1) \in 1 .. l
          /\ (l - (k - 1)) - 1 = l - k
      BY <2>3
    <3> DEFINE w == p[l - k]
               a == num \div w
    <3>2. w \in Nat \ {0} /\ p[l - (k - 1)] = 10 * w  BY <2>12, <3>1
    <3>3. t[k] = t[k - 1] + v[k] * w  BY <2>10, <3>1 DEF Totalling
    <3>4. t[k - 1] = (num \div (10 * w)) * (10 * w)  BY <2>15, <3>2
    <3>5. v[k] = a % 10  BY <2>13, <3>1
    <3> HIDE DEF w
    <3>6. num \div (10 * w) = a \div 10
      <4>1. 10 \in Nat \ {0}  OBVIOUS
      <4>2. num \div (w * 10) = (num \div w) \div 10  BY <3>2, <4>1, DivDiv
      <4>3. 10 * w = w * 10  BY <3>2
      <4> QED  BY <4>2, <4>3
    <3>7. a \in Nat  BY <3>2, DivNat
    <3> HIDE DEF a
    <3> DEFINE e == a \div 10
               d == a % 10
    <3>8. e \in Nat /\ d \in Nat /\ a = e * 10 + d
      <4>1. 10 \in Nat \ {0}  OBVIOUS
      <4> QED  BY <3>7, <4>1, DivNat, ModNat, DivModSplit
    <3>9. t[k] = e * (10 * w) + d * w  BY <3>3, <3>4, <3>5, <3>6
    <3> HIDE DEF e, d
    <3>10. t[k] = a * w  BY <3>2, <3>8, <3>9
    <3> QED  BY <3>1, <3>10 DEF a, w
  <2>16. t[l] = (num \div p[l - l]) * p[l - l]
    <3> HIDE DEF Good
    <3>1. 0 \in Nat /\ l \in 0 .. l  BY <2>3
    <3>2. \A k \in 0 .. l : k \in Good  BY <2>3, <2>14, <2>15, <3>1, Climb
    <3>3. l \in Good  BY <3>1, <3>2
    <3> QED  BY <3>3 DEF Good
  <2>17. t[l] = num
    <3>1. l - l = 0 /\ num \div 1 = num /\ num * 1 = num  BY <2>3
    <3> QED  BY <2>12, <2>16, <3>1
  <2>18. shown[1] # 48
    <3>1. l >= 1 /\ 1 \in 1 .. l  BY <2>3, <2>6
    <3>2. v[1] = (num \div p[l - 1]) % 10  BY <2>13, <3>1
    <3>3. v[1] # 0  BY <2>11, <3>2
    <3>4. shown[1] = 48 + v[1] /\ v[1] \in 0 .. 9  BY <2>8, <3>1
    <3> QED  BY <3>3, <3>4
  <2>19. Named(10, v) = num  BY <2>10, <2>17
  <2> QED  BY <2>18, <2>19 DEF v, n, shown
<1> QED  BY <1>1, <1>2

(* The words that parse_args finds lie in the line.                         *)
LEMMA StringFound ==
  ASSUME NEW buffer \in Seq(Nat), NEW i \in 1 .. Len(buffer)
  PROVE  StringAt(buffer, i) \in Seq(Nat)
<1> DEFINE ends == {j \in i .. Len(buffer) : buffer[j] = NUL}
           last == IF ends = {} THEN Len(buffer) ELSE Min(ends) - 1
<1>1. Len(buffer) \in Nat /\ i \in Nat /\ 1 <= i /\ ends \in SUBSET Nat  OBVIOUS
<1>2. last \in 0 .. Len(buffer)
  <2>1. CASE ends = {}  BY <1>1, <2>1
  <2>2. CASE ends # {}
    <3>1. \E x \in ends : \A y \in ends : x <= y  BY <1>1, <2>2, LeastElement
    <3>2. Min(ends) \in ends
      <4> HIDE DEF ends
      <4> QED  BY <3>1 DEF Min
    <3>3. Min(ends) \in i .. Len(buffer)  BY <3>2
    <3> HIDE DEF ends
    <3> QED  BY <1>1, <2>2, <3>3
  <2> QED  BY <2>1, <2>2
<1>3. StringAt(buffer, i) = SubSeq(buffer, i, last)  BY DEF StringAt
<1> HIDE DEF last
<1>4. ASSUME NEW k \in i .. last PROVE buffer[k] \in Nat  BY <1>1, <1>2
<1> QED  BY <1>1, <1>2, <1>3, <1>4, SubSeqProperties

(* parse_args, character by character.                                      *)
ParseState(n) == [input : [1 .. n -> Nat], args : Seq(1 .. n), in_word : BOOLEAN]
ParseSteps(f, s) == /\ f \in [0 .. Len(s) -> ParseState(Len(s))]
                    /\ f[0] = [input |-> s, args |-> <<>>, in_word |-> FALSE]
                    /\ \A k \in 1 .. Len(s) : f[k] = ParseStep(f[k - 1], k)
Arguments(r) == [k \in DOMAIN r.args |-> StringAt(r.input, r.args[k])]

(* parse_args gives the strings at the positions its steps have kept.         *)
LEMMA Parsing ==
  ASSUME NEW input \in Seq(Nat)
  PROVE  \E f : ParseSteps(f, input) /\ parse_args(input) = Arguments(f[Len(input)])
<1> DEFINE n == Len(input)
           T == ParseState(n)
           fresh == [input |-> input, args |-> <<>>, in_word |-> FALSE]
           step == [x \in (0 + 1 .. n) \X T |-> ParseStep(x[2], x[1])]
           R(h) == h = [i \in 0 .. n |-> IF i = 0 THEN fresh ELSE ParseStep(h[i - 1], i)]
           f == CHOOSE h : R(h)
<1>1. n \in Nat /\ fresh \in T  BY DEF ParseState
<1>2. ASSUME NEW s \in T, NEW i \in 1 .. n PROVE ParseStep(s, i) \in T
  <2> DEFINE b == [s.input EXCEPT ![i] = NUL]
             a == Append(s.args, i)
  <2>1. /\ s = [input |-> s.input, args |-> s.args, in_word |-> s.in_word]
        /\ s.input \in [1 .. n -> Nat] /\ s.args \in Seq(1 .. n) /\ s.in_word \in BOOLEAN
    BY DEF ParseState
  <2>2. b \in [1 .. n -> Nat]  BY <2>1 DEF NUL
  <2>3. a \in Seq(1 .. n)  BY <2>1
  <2>4. CASE s.input[i] \in Blank
    <3>1. ParseStep(s, i) = [s EXCEPT !.in_word = FALSE, !.input = b]
      BY <2>4 DEF ParseStep
    <3> HIDE DEF b
    <3>2. ParseStep(s, i) = [input |-> b, args |-> s.args, in_word |-> FALSE]
      BY <2>1, <3>1
    <3> QED  BY <2>1, <2>2, <3>2 DEF ParseState
  <2>5. CASE s.input[i] \notin Blank /\ ~s.in_word /\ Len(s.args) < MAX_ARGS
    <3>1. ParseStep(s, i) = [s EXCEPT !.args = a, !.in_word = TRUE]
      BY <2>5 DEF ParseStep
    <3> HIDE DEF a
    <3>2. ParseStep(s, i) = [input |-> s.input, args |-> a, in_word |-> TRUE]
      BY <2>1, <3>1
    <3> QED  BY <2>1, <2>3, <3>2 DEF ParseState
  <2>6. CASE s.input[i] \notin Blank /\ ~(~s.in_word /\ Len(s.args) < MAX_ARGS)
    BY <2>6 DEF ParseStep
  <2> QED  BY <2>4, <2>5, <2>6
<1> HIDE DEF T, n, fresh
<1>3. Step(T, 0, n, fresh, step)
  <2>1. ASSUME NEW x \in (0 + 1 .. n) \X T PROVE ParseStep(x[2], x[1]) \in T
    <3>1. x[1] \in 1 .. n /\ x[2] \in T  OBVIOUS
    <3> QED  BY <1>2, <3>1
  <2> QED  BY <1>1, <2>1 DEF Step
<1>4. PICK g : Stepped(T, 0, n, fresh, step, g)
  <2> HIDE DEF step
  <2> QED  BY <1>3, Stepping
<1>5. g \in [0 .. n -> T] /\ g[0] = fresh  BY <1>4 DEF Stepped
<1>6. ASSUME NEW k \in 1 .. n PROVE g[k] = ParseStep(g[k - 1], k)
  <2>1. k \in 0 + 1 .. n /\ k - 1 \in 0 .. n  BY <1>1
  <2>2. g[k - 1] \in T  BY <1>5, <2>1
  <2>3. step[<<k, g[k - 1]>>] = ParseStep(g[k - 1], k)  BY <2>1, <2>2
  <2> HIDE DEF step
  <2> QED  BY <1>4, <2>1, <2>3 DEF Stepped
<1>7. R(g)
  <2>1. ASSUME NEW i \in 0 .. n PROVE g[i] = IF i = 0 THEN fresh ELSE ParseStep(g[i - 1], i)
    <3>1. i # 0 => i \in 1 .. n  BY <1>1
    <3> QED  BY <1>5, <1>6, <3>1
  <2> QED  BY <1>5, <2>1
<1>8. R(f)
  <2> HIDE DEF R
  <2> QED  BY <1>7
<1>9. parse_args(input) = Arguments(f[n])  BY DEF parse_args, Arguments, fresh, n
<1> HIDE DEF f
<1>10. f[0] = fresh /\ \A k \in 1 .. n : f[k] = ParseStep(f[k - 1], k)
  <2>1. f[0] = fresh  BY <1>1, <1>8
  <2>2. ASSUME NEW k \in 1 .. n PROVE f[k] = ParseStep(f[k - 1], k)
    <3>1. k \in 0 .. n /\ k # 0  BY <1>1
    <3> QED  BY <1>8, <3>1, Zenon
  <2> QED  BY <2>1, <2>2
<1>11. Stays(T, 0, n, f)  BY <1>1, <1>2, <1>10 DEF Stays
<1>12. \A k \in 0 .. n : f[k] \in T  BY <1>1, <1>11, Staying
<1>13. f \in [0 .. n -> T]  BY <1>8, <1>12, Zenon
<1>14. ParseSteps(f, input)  BY <1>10, <1>13, Zenon DEF ParseSteps, T, fresh, n
<1> QED  BY <1>9, <1>14 DEF n

(* They are strings.                                                         *)
LEMMA ArgsFound ==
  ASSUME NEW input \in Seq(Nat)
  PROVE  parse_args(input) \in Seq(Seq(Nat))
<1> DEFINE n == Len(input)
<1>1. PICK f : ParseSteps(f, input) /\ parse_args(input) = Arguments(f[n])
  BY Parsing
<1> DEFINE line == f[n].input
           args == f[n].args
<1>2. n \in Nat /\ n \in 0 .. n  OBVIOUS
<1>3. line \in [1 .. n -> Nat] /\ args \in Seq(1 .. n)
  <2>1. f[n] \in ParseState(n)  BY <1>1, <1>2 DEF ParseSteps
  <2> HIDE DEF n
  <2> QED  BY <2>1 DEF ParseState
<1> HIDE DEF line, args, n
<1>4. line \in Seq(Nat) /\ Len(line) = n  BY <1>2, <1>3
<1>5. \A k \in 1 .. Len(args) : StringAt(line, args[k]) \in Seq(Nat)
  <2> SUFFICES ASSUME NEW k \in 1 .. Len(args) PROVE StringAt(line, args[k]) \in Seq(Nat)
    OBVIOUS
  <2>1. args[k] \in 1 .. Len(line)  BY <1>3, <1>4
  <2> QED  BY <1>4, <2>1, StringFound
<1>6. [k \in DOMAIN args |-> StringAt(line, args[k])] \in Seq(Seq(Nat))
  <2>1. DOMAIN args = 1 .. Len(args) /\ Len(args) \in Nat  BY <1>3
  <2> QED  BY <1>5, <2>1
<1> QED  BY <1>1, <1>6 DEF Arguments, line, args

(* Words that have begun, counted.                                          *)
LEMMA BegunSteps ==
  ASSUME NEW s \in Seq(Nat)
  PROVE  /\ \A i \in 0 .. Len(s) : Begun(s, i) \in Nat
         /\ Begun(s, 0) = 0
         /\ \A i \in 1 .. Len(s) :
              Begun(s, i) = IF i \in Starts(s) THEN Begun(s, i - 1) + 1 ELSE Begun(s, i - 1)
<1> DEFINE n == Len(s)
           Upto(i) == {j \in Starts(s) : j <= i}
<1>1. n \in Nat /\ \A j \in Starts(s) : j \in 1 .. n  BY DEF Starts
<1>2. \A i \in 0 .. n : IsFiniteSet(Upto(i))
  <2> SUFFICES ASSUME NEW i \in 0 .. n PROVE IsFiniteSet(Upto(i))
    OBVIOUS
  <2>1. IsFiniteSet(1 .. n)  BY <1>1, FS_Interval
  <2>2. Upto(i) \subseteq 1 .. n  BY <1>1
  <2> HIDE DEF Upto
  <2> QED  BY <2>1, <2>2, FS_Subset
<1>3. \A i : Begun(s, i) = Cardinality(Upto(i))  BY DEF Begun
<1>4. Upto(0) = {}  BY <1>1
<1>5. ASSUME NEW i \in 1 .. n
      PROVE  /\ i \in Starts(s) => Upto(i) = Upto(i - 1) \cup {i} /\ i \notin Upto(i - 1)
             /\ i \notin Starts(s) => Upto(i) = Upto(i - 1)
  <2>1. \A j \in Starts(s) : (j <= i <=> j <= i - 1 \/ j = i) /\ ~(i <= i - 1)
    BY <1>1
  <2> QED  BY <2>1
<1> HIDE DEF Upto, n
<1>6. \A i \in 0 .. n : Begun(s, i) \in Nat  BY <1>2, <1>3, FS_CardinalityType
<1>7. Begun(s, 0) = 0  BY <1>3, <1>4, FS_EmptySet
<1>8. ASSUME NEW i \in 1 .. n
      PROVE  Begun(s, i) = IF i \in Starts(s) THEN Begun(s, i - 1) + 1 ELSE Begun(s, i - 1)
  <2>1. i - 1 \in 0 .. n  BY <1>1
  <2>2. CASE i \in Starts(s)
    <3>1. Upto(i) = Upto(i - 1) \cup {i} /\ i \notin Upto(i - 1)  BY <1>5, <2>2
    <3>2. IsFiniteSet(Upto(i - 1))  BY <1>2, <2>1
    <3>3. Cardinality(Upto(i)) = Cardinality(Upto(i - 1)) + 1  BY <3>1, <3>2, FS_AddElement
    <3> QED  BY <1>3, <2>2, <3>3
  <2>3. CASE i \notin Starts(s)  BY <1>3, <1>5, <2>3
  <2> QED  BY <2>2, <2>3
<1> QED  BY <1>6, <1>7, <1>8 DEF n

(* Of two positions, the later one has at least as many words before it.      *)
LEMMA BegunGrows ==
  ASSUME NEW s \in Seq(Nat), NEW i \in 0 .. Len(s), NEW j \in i .. Len(s)
  PROVE  /\ Begun(s, i) <= Begun(s, j)
         /\ i # j /\ j \in Starts(s) => Begun(s, i) < Begun(s, j)
<1> DEFINE n == Len(s)
           Good == {k \in i .. n : Begun(s, i) <= Begun(s, k)}
<1>1. n \in Nat  OBVIOUS
<1> HIDE DEF n
<1>2. /\ \A k \in 0 .. n : Begun(s, k) \in Nat
      /\ \A k \in 1 .. n : Begun(s, k) = IF k \in Starts(s) THEN Begun(s, k - 1) + 1
                                         ELSE Begun(s, k - 1)
  BY BegunSteps DEF n
<1>3. i \in Nat /\ i \in i .. n /\ i \in 0 .. n  BY <1>1 DEF n
<1>4. i \in Good  BY <1>2, <1>3
<1>5. ASSUME NEW k \in i + 1 .. n, k - 1 \in Good PROVE k \in Good
  <2>1. k \in i .. n /\ k \in 1 .. n /\ k \in 0 .. n /\ k - 1 \in 0 .. n  BY <1>1, <1>3
  <2>2. Begun(s, k - 1) <= Begun(s, k) /\ Begun(s, k) \in Nat /\ Begun(s, k - 1) \in Nat
        /\ Begun(s, i) \in Nat
    BY <1>2, <1>3, <2>1
  <2> QED  BY <1>5, <2>1, <2>2
<1>6. \A k \in i .. n : k \in Good
  <2> HIDE DEF Good
  <2> QED  BY <1>1, <1>3, <1>4, <1>5, Climb
<1>7. j \in i .. n  BY DEF n
<1>8. ASSUME i # j, j \in Starts(s) PROVE Begun(s, i) < Begun(s, j)
  <2>1. j \in 1 .. n /\ j - 1 \in i .. n /\ j - 1 \in 0 .. n  BY <1>1, <1>3, <1>7, <1>8
  <2>2. Begun(s, j) = Begun(s, j - 1) + 1 /\ Begun(s, i) <= Begun(s, j - 1)
        /\ Begun(s, i) \in Nat /\ Begun(s, j - 1) \in Nat
    BY <1>2, <1>3, <1>6, <1>8, <2>1
  <2> QED  BY <2>2
<1> QED  BY <1>6, <1>7, <1>8

(* After i characters: the blanks among them are NULs, the words begun so    *)
(* far are noted while there is room, and in_word says whether the last      *)
(* character belongs to a word that is noted.                               *)
Noted(s, i, r) ==
  /\ \A j \in 1 .. Len(s) : r.input[j] = IF j <= i /\ s[j] \in Blank THEN NUL ELSE s[j]
  /\ Len(r.args) = IF Begun(s, i) <= MAX_ARGS THEN Begun(s, i) ELSE MAX_ARGS
  /\ \A k \in 1 .. Len(r.args) : r.args[k] \in Starts(s) /\ Begun(s, r.args[k]) = k
  /\ r.in_word <=> i >= 1 /\ s[i] \notin Blank /\ Begun(s, i) <= MAX_ARGS

(* One character more.                                                       *)
LEMMA NotedStep ==
  ASSUME NEW s \in Seq(Nat), NEW i \in 1 .. Len(s), NEW r \in ParseState(Len(s)),
         Noted(s, i - 1, r)
  PROVE  Noted(s, i, ParseStep(r, i))
<1> DEFINE n == Len(s)
           b == [r.input EXCEPT ![i] = NUL]
           a == Append(r.args, i)
           was == Begun(s, i - 1)
           is == Begun(s, i)
           q == ParseStep(r, i)
<1>1. n \in Nat /\ i \in Nat /\ i \in 1 .. n /\ i - 1 \in 0 .. n /\ i \in 0 .. n
      /\ MAX_ARGS \in Nat
  BY ShellAssumption
<1>2. /\ was \in Nat /\ is \in Nat /\ is = IF i \in Starts(s) THEN was + 1 ELSE was
  BY <1>1, BegunSteps
<1>3. /\ r = [input |-> r.input, args |-> r.args, in_word |-> r.in_word]
      /\ r.input \in [1 .. n -> Nat] /\ r.args \in Seq(1 .. n) /\ r.in_word \in BOOLEAN
  BY DEF ParseState
<1>4. /\ \A j \in 1 .. n : r.input[j] = IF j <= i - 1 /\ s[j] \in Blank THEN NUL ELSE s[j]
      /\ Len(r.args) = IF was <= MAX_ARGS THEN was ELSE MAX_ARGS
      /\ \A k \in 1 .. Len(r.args) : r.args[k] \in Starts(s) /\ Begun(s, r.args[k]) = k
      /\ r.in_word <=> i - 1 >= 1 /\ s[i - 1] \notin Blank /\ was <= MAX_ARGS
  BY Zenon DEF Noted
<1>5. i \in Starts(s) <=> s[i] \notin Blank /\ (i = 1 \/ s[i - 1] \in Blank)
  BY <1>1 DEF Starts
<1>6. r.input[i] = s[i]
  <2>1. ~(i <= i - 1)  BY <1>1
  <2> QED  BY <1>1, <1>4, <2>1, Zenon
<1>7. Len(r.args) \in Nat  BY <1>3
<1> HIDE DEF was, is, n
<1>8. CASE s[i] \in Blank
  <2>1. q = [r EXCEPT !.in_word = FALSE, !.input = b]  BY <1>6, <1>8 DEF ParseStep
  <2>2. \A j \in 1 .. n : b[j] = IF j <= i /\ s[j] \in Blank THEN NUL ELSE s[j]
    <3> SUFFICES ASSUME NEW j \in 1 .. n
                 PROVE  b[j] = IF j <= i /\ s[j] \in Blank THEN NUL ELSE s[j]
      OBVIOUS
    <3>1. CASE j = i
      <4>1. b[j] = NUL /\ j <= i  BY <1>1, <1>3, <3>1
      <4> QED  BY <1>8, <3>1, <4>1, Zenon
    <3>2. CASE j # i
      <4>1. b[j] = r.input[j] /\ (j <= i <=> j <= i - 1)  BY <1>1, <1>3, <3>2
      <4> QED  BY <1>4, <4>1, Zenon
    <3> QED  BY <3>1, <3>2
  <2> HIDE DEF b, q
  <2>3. q.input = b /\ q.args = r.args /\ ~q.in_word  BY <1>3, <2>1
  <2>4. is = was  BY <1>2, <1>5, <1>8
  <2> QED  BY <1>4, <1>8, <2>2, <2>3, <2>4, Zenon DEF Noted, n, is, q
<1>9. CASE s[i] \notin Blank
  <2>1. \A j \in 1 .. n : r.input[j] = IF j <= i /\ s[j] \in Blank THEN NUL ELSE s[j]
    <3> SUFFICES ASSUME NEW j \in 1 .. n
                 PROVE  r.input[j] = IF j <= i /\ s[j] \in Blank THEN NUL ELSE s[j]
      OBVIOUS
    <3>1. j = i \/ (j <= i <=> j <= i - 1)  BY <1>1
    <3> QED  BY <1>4, <1>6, <1>9, <3>1, Zenon
  <2>2. i >= 1  BY <1>1
  <2>3. i - 1 >= 1 <=> i # 1  BY <1>1
  <2>4. CASE r.in_word
    <3>1. q = r  BY <1>6, <1>9, <2>4, Zenon DEF ParseStep
    <3>2. is = was /\ was <= MAX_ARGS
      <4>1. i \notin Starts(s)  BY <1>4, <1>5, <2>3, <2>4, Zenon
      <4> QED  BY <1>2, <1>4, <2>4, <4>1, Zenon
    <3> HIDE DEF q
    <3> QED  BY <1>4, <1>9, <2>1, <2>2, <2>4, <3>1, <3>2, Zenon DEF Noted, n, is, q
  <2>5. CASE ~r.in_word /\ Len(r.args) < MAX_ARGS
    <3>1. q = [r EXCEPT !.args = a, !.in_word = TRUE]  BY <1>6, <1>9, <2>5 DEF ParseStep
    <3>2. was < MAX_ARGS /\ Len(r.args) = was
      <4>1. CASE was <= MAX_ARGS
        <5>1. Len(r.args) = was  BY <1>4, <4>1, Zenon
        <5> QED  BY <2>5, <5>1
      <4>2. CASE ~(was <= MAX_ARGS)
        <5>1. Len(r.args) = MAX_ARGS  BY <1>4, <4>2, Zenon
        <5> QED  BY <1>1, <2>5, <5>1
      <4> QED  BY <4>1, <4>2
    <3>3. was <= MAX_ARGS  BY <1>1, <1>2, <3>2
    <3>4. i \in Starts(s)  BY <1>4, <1>5, <1>9, <2>3, <2>5, <3>3, Zenon
    <3>5. is = was + 1 /\ is <= MAX_ARGS  BY <1>1, <1>2, <3>2, <3>4
    <3>6. /\ a \in Seq(1 .. n) /\ Len(a) = was + 1 /\ a[was + 1] = i
          /\ \A k \in 1 .. was : a[k] = r.args[k]
      <4>1. i \in 1 .. n  BY <1>1
      <4> QED  BY <1>3, <3>2, <4>1, AppendProperties
    <3> HIDE DEF a, q
    <3>7. q.input = r.input /\ q.args = a /\ q.in_word  BY <1>3, <3>1
    <3>8. ASSUME NEW k \in 1 .. Len(a) PROVE a[k] \in Starts(s) /\ Begun(s, a[k]) = k
      <4>1. CASE k = was + 1
        BY <3>4, <3>5, <3>6, <4>1 DEF is
      <4>2. CASE k # was + 1
        <5>1. k \in 1 .. was  BY <1>2, <3>6, <4>2
        <5>2. a[k] = r.args[k] /\ k \in 1 .. Len(r.args)  BY <3>2, <3>6, <5>1
        <5> QED  BY <1>4, <5>2, Zenon
      <4> QED  BY <4>1, <4>2
    <3>9. Len(a) = is  BY <3>5, <3>6
    <3> QED  BY <1>9, <2>1, <2>2, <3>5, <3>7, <3>8, <3>9, Zenon DEF Noted, n, is, q
  <2>6. CASE ~r.in_word /\ ~(Len(r.args) < MAX_ARGS)
    <3>1. q = r  BY <1>6, <1>9, <2>6, Zenon DEF ParseStep
    <3>2. Len(r.args) = MAX_ARGS /\ ~(is <= MAX_ARGS)
      <4>1. CASE was <= MAX_ARGS
        <5>1. Len(r.args) = was  BY <1>4, <4>1, Zenon
        <5>2. was = MAX_ARGS  BY <1>1, <1>2, <2>6, <4>1, <5>1
        <5>3. i \in Starts(s)  BY <1>4, <1>5, <1>9, <2>3, <2>6, <4>1, Zenon
        <5> QED  BY <1>1, <1>2, <5>1, <5>2, <5>3
      <4>2. CASE ~(was <= MAX_ARGS)
        <5>1. Len(r.args) = MAX_ARGS  BY <1>4, <4>2, Zenon
        <5>2. ~(is <= MAX_ARGS)  BY <1>1, <1>2, <4>2
        <5> QED  BY <5>1, <5>2
      <4> QED  BY <4>1, <4>2
    <3> HIDE DEF q
    <3> QED  BY <1>4, <2>1, <2>6, <3>1, <3>2, Zenon DEF Noted, n, is, q
  <2> QED  BY <2>4, <2>5, <2>6
<1> QED  BY <1>8, <1>9

(* At the end of the line.                                                   *)
LEMMA AllNoted ==
  ASSUME NEW s \in Seq(Nat), NEW f, ParseSteps(f, s)
  PROVE  f[Len(s)] \in ParseState(Len(s)) /\ Noted(s, Len(s), f[Len(s)])
<1> DEFINE n == Len(s)
           Good == {i \in 0 .. n : Noted(s, i, f[i])}
<1>1. /\ n \in Nat /\ f \in [0 .. n -> ParseState(n)]
      /\ f[0] = [input |-> s, args |-> <<>>, in_word |-> FALSE]
      /\ \A k \in 1 .. n : f[k] = ParseStep(f[k - 1], k)
  BY DEF ParseSteps
<1>2. 0 \in Good
  <2>1. Len(<<>>) = 0 /\ 1 .. 0 = {} /\ ~(0 >= 1) /\ \A j \in 1 .. n : ~(j <= 0)  OBVIOUS
  <2>2. Begun(s, 0) = 0 /\ 0 <= MAX_ARGS  BY BegunSteps, ShellAssumption
  <2>3. f[0].input = s /\ f[0].args = <<>> /\ ~f[0].in_word  BY <1>1
  <2> DEFINE r == f[0]
  <2> HIDE DEF r
  <2>4. Len(r.args) = 0 /\ 1 .. Len(r.args) = {}  BY <2>1, <2>3 DEF r
  <2>5. \A j \in 1 .. n : r.input[j] = IF j <= 0 /\ s[j] \in Blank THEN NUL ELSE s[j]
    BY <2>1, <2>3 DEF r
  <2>6. Len(r.args) = IF Begun(s, 0) <= MAX_ARGS THEN Begun(s, 0) ELSE MAX_ARGS
    BY <2>2, <2>4
  <2>7. \A k \in 1 .. Len(r.args) : r.args[k] \in Starts(s) /\ Begun(s, r.args[k]) = k
    BY <2>4
  <2>8. r.in_word <=> 0 >= 1 /\ s[0] \notin Blank /\ Begun(s, 0) <= MAX_ARGS
    BY <2>1, <2>3, Zenon DEF r
  <2>9. Noted(s, 0, f[0])  BY <2>5, <2>6, <2>7, <2>8, Zenon DEF Noted, r
  <2> QED  BY <1>1, <2>9
<1>3. ASSUME NEW i \in 0 + 1 .. n, i - 1 \in Good PROVE i \in Good
  <2>1. i \in 1 .. n /\ i \in 0 .. n /\ i - 1 \in 0 .. n  BY <1>1
  <2>2. f[i - 1] \in ParseState(n) /\ Noted(s, i - 1, f[i - 1]) /\ f[i] = ParseStep(f[i - 1], i)
    BY <1>1, <1>3, <2>1
  <2>3. Noted(s, i, ParseStep(f[i - 1], i))  BY <2>1, <2>2, NotedStep, Zenon
  <2> QED  BY <2>1, <2>2, <2>3, Zenon
<1> HIDE DEF Good
<1>4. 0 \in Nat /\ n \in 0 .. n  BY <1>1
<1> HIDE DEF n
<1>5. \A i \in 0 .. n : i \in Good  BY <1>1, <1>2, <1>3, <1>4, Climb
<1>6. n \in Good  BY <1>4, <1>5
<1>7. f[n] \in ParseState(n)  BY <1>1, <1>4
<1> QED  BY <1>6, <1>7 DEF Good, n

(* The least of a set of numbers.                                            *)
LEMMA Least ==
  ASSUME NEW S \in SUBSET Nat, S # {}
  PROVE  Min(S) \in S /\ \A y \in S : Min(S) <= y
<1>1. \E x \in S : \A y \in S : x <= y  BY LeastElement
<1> QED  BY <1>1 DEF Min

(* A number of the set below all of them is the least.                       *)
LEMMA LeastIs ==
  ASSUME NEW S \in SUBSET Nat, NEW x \in S, \A y \in S : x <= y
  PROVE  Min(S) = x
<1> DEFINE m == Min(S)
<1>1. m \in S /\ \A y \in S : m <= y  BY Least
<1> HIDE DEF m
<1>2. m \in Nat /\ x \in Nat /\ m <= x /\ x <= m  BY <1>1
<1>3. m = x  BY <1>2
<1> QED  BY <1>3 DEF m

(* Where a word has begun: its end in the text is the NUL that took its place. *)
LEMMA WordFound ==
  ASSUME NEW s \in Seq(Nat \ {NUL}), NEW r \in ParseState(Len(s)), Noted(s, Len(s), r),
         NEW i \in Starts(s)
  PROVE  StringAt(r.input, i) = WordAt(s, i) /\ WordAt(s, i) \in Seq(Nat \ {NUL})
<1> DEFINE n == Len(s)
           b == r.input
           E == {j \in i .. n : s[j] \in Blank}
           F == {j \in i .. Len(b) : b[j] = NUL}
           last == IF F = {} THEN Len(b) ELSE Min(F) - 1
           past == E \cup {n + 1}
           till == Min(past) - 1
<1>1. n \in Nat /\ i \in Nat /\ 1 <= i /\ i <= n  BY DEF Starts
<1>2. b \in [1 .. n -> Nat] /\ Len(b) = n
  <2>1. b \in [1 .. n -> Nat]  BY DEF ParseState
  <2> HIDE DEF b, n
  <2> QED  BY <1>1, <2>1
<1>3. \A j \in 1 .. n : s[j] \in Nat /\ s[j] # NUL  OBVIOUS
<1>4. \A j \in 1 .. n : b[j] = IF j <= n /\ s[j] \in Blank THEN NUL ELSE s[j]
  BY Zenon DEF Noted
<1>5. \A j \in 1 .. n : b[j] = IF s[j] \in Blank THEN NUL ELSE s[j]
  <2>1. \A j \in 1 .. n : j <= n  BY <1>1
  <2> QED  BY <1>4, <2>1, Zenon
<1>6. \A j \in i .. n : j \in 1 .. n  BY <1>1
<1>7. F = E
  <2>1. ASSUME NEW j \in i .. n PROVE b[j] = NUL <=> s[j] \in Blank
    BY <1>3, <1>5, <1>6, Zenon
  <2> HIDE DEF b, n
  <2> QED  BY <1>2, <2>1 DEF n
<1>8. StringAt(b, i) = SubSeq(b, i, last)  BY DEF StringAt
<1>9. WordAt(s, i) = SubSeq(s, i, till)  BY DEF WordAt
<1>10. E \in SUBSET Nat /\ past \in SUBSET Nat /\ past # {} /\ \A j \in E : j \in i .. n
  BY <1>1
<1>11. Len(b) = n  BY <1>2
<1> HIDE DEF b, n
<1>12. last = till
  <2>1. CASE E = {}
    <3>1. Min(past) = n + 1
      <4>1. n + 1 \in past /\ \A y \in past : n + 1 <= y  BY <1>1, <2>1
      <4> HIDE DEF past
      <4> QED  BY <1>10, <4>1, LeastIs
    <3> HIDE DEF E, F, past
    <3> QED  BY <1>1, <1>7, <1>11, <2>1, <3>1
  <2>2. CASE E # {}
    <3>1. Min(E) \in E /\ \A y \in E : Min(E) <= y
      <4> HIDE DEF E
      <4> QED  BY <1>10, <2>2, Least
    <3>2. Min(E) \in i .. n  BY <1>10, <3>1
    <3>3. Min(past) = Min(E)
      <4>1. Min(E) \in past /\ \A y \in past : Min(E) <= y
        <5> HIDE DEF E
        <5> QED  BY <1>1, <3>1, <3>2
      <4> HIDE DEF past, E
      <4> QED  BY <1>10, <4>1, LeastIs
    <3> HIDE DEF E, F, past
    <3> QED  BY <1>7, <2>2, <3>3
  <2> QED  BY <2>1, <2>2
<1>13. till \in Int /\ till <= n /\ \A j \in i .. till : j \in i .. n /\ s[j] \notin Blank
  <2>1. Min(past) \in past /\ \A y \in past : Min(past) <= y
    <3> HIDE DEF past
    <3> QED  BY <1>10, Least
  <2>2. Min(past) \in Nat /\ Min(past) <= n + 1
    <3>1. n + 1 \in past  OBVIOUS
    <3> HIDE DEF past
    <3> QED  BY <1>10, <2>1, <3>1
  <2>3. ASSUME NEW j \in i .. Min(past) - 1 PROVE j \in i .. n /\ s[j] \notin Blank
    <3> DEFINE m == Min(past)
    <3>1. m \in Nat /\ m <= n + 1  BY <2>2
    <3>2. j \in i .. m - 1  OBVIOUS
    <3>3. \A y \in E : m <= y  BY <2>1
    <3> HIDE DEF m, E
    <3>4. j \in i .. n /\ ~(m <= j)  BY <1>1, <3>1, <3>2
    <3>5. j \notin E  BY <3>3, <3>4
    <3> QED  BY <3>4, <3>5 DEF E
  <2> DEFINE m == Min(past)
  <2>4. m \in Nat /\ m <= n + 1 /\ till = m - 1  BY <2>2
  <2>5. \A j \in i .. m - 1 : j \in i .. n /\ s[j] \notin Blank  BY <2>3
  <2> HIDE DEF m, past, till
  <2> QED  BY <1>1, <2>4, <2>5
<1> HIDE DEF last, till, past, E, F
<1>14. \A j \in i .. till : b[j] = s[j] /\ s[j] \in Nat \ {NUL}
  BY <1>3, <1>5, <1>6, <1>13, Zenon
<1>15. /\ SubSeq(s, i, till) \in Seq(Nat \ {NUL})
       /\ Len(SubSeq(s, i, till)) = IF i <= till THEN till - i + 1 ELSE 0
       /\ \A k \in 1 .. till - i + 1 : SubSeq(s, i, till)[k] = s[i + k - 1]
  BY <1>1, <1>13, <1>14, SubSeqProperties
<1>16. /\ SubSeq(b, i, till) \in Seq(Nat \ {NUL})
       /\ Len(SubSeq(b, i, till)) = IF i <= till THEN till - i + 1 ELSE 0
       /\ \A k \in 1 .. till - i + 1 : SubSeq(b, i, till)[k] = b[i + k - 1]
  <2>1. \A j \in i .. till : b[j] \in Nat \ {NUL}  BY <1>14
  <2> QED  BY <1>1, <1>13, <2>1, SubSeqProperties
<1>17. SubSeq(b, i, till) = SubSeq(s, i, till)
  <2> DEFINE u == SubSeq(b, i, till)
             v == SubSeq(s, i, till)
  <2>1. Len(u) = Len(v) /\ \A k \in 1 .. Len(u) : k \in 1 .. till - i + 1 /\ i + k - 1 \in i .. till
    <3>1. Len(u) = Len(v) /\ (Len(u) = till - i + 1 \/ Len(u) = 0)
      BY <1>15, <1>16
    <3> HIDE DEF u, v
    <3> QED  BY <1>1, <1>13, <3>1
  <2>2. \A k \in 1 .. Len(u) : u[k] = v[k]
    <3> SUFFICES ASSUME NEW k \in 1 .. Len(u) PROVE u[k] = v[k]
      OBVIOUS
    <3>1. k \in 1 .. till - i + 1 /\ i + k - 1 \in i .. till  BY <2>1
    <3>2. u[k] = b[i + k - 1]  BY <1>16, <3>1
    <3>3. v[k] = s[i + k - 1]  BY <1>15, <3>1
    <3>4. b[i + k - 1] = s[i + k - 1]  BY <1>14, <3>1
    <3> HIDE DEF u, v
    <3> QED  BY <3>2, <3>3, <3>4
  <2>3. u \in Seq(Nat \ {NUL}) /\ v \in Seq(Nat \ {NUL})  BY <1>15, <1>16
  <2> HIDE DEF u, v
  <2>4. u = v  BY <2>1, <2>2, <2>3, SeqEqual
  <2> QED  BY <2>4 DEF u, v
<1> QED  BY <1>8, <1>9, <1>12, <1>15, <1>17 DEF b

(* A word is known by its number.                                            *)
LEMMA StartOf ==
  ASSUME NEW s \in Seq(Nat), NEW i \in Starts(s)
  PROVE  (CHOOSE j \in Starts(s) : Begun(s, j) = Begun(s, i)) = i
<1> DEFINE j == CHOOSE x \in Starts(s) : Begun(s, x) = Begun(s, i)
<1>1. j \in Starts(s) /\ Begun(s, j) = Begun(s, i)  OBVIOUS
<1> HIDE DEF j
<1> SUFFICES j = i
  BY DEF j
<1>2. Len(s) \in Nat /\ i \in 1 .. Len(s) /\ j \in 1 .. Len(s)
  BY <1>1 DEF Starts
<1>3. Begun(s, i) \in Nat
  <2>1. i \in 0 .. Len(s)  BY <1>2
  <2> QED  BY <2>1, BegunSteps
<1>4. CASE i < j
  <2>1. i \in 0 .. Len(s) /\ j \in i .. Len(s) /\ i # j  BY <1>2, <1>4
  <2>2. Begun(s, i) < Begun(s, j)  BY <1>1, <2>1, BegunGrows
  <2> QED  BY <1>1, <1>3, <2>2
<1>5. CASE j < i
  <2>1. j \in 0 .. Len(s) /\ i \in j .. Len(s) /\ j # i  BY <1>2, <1>5
  <2>2. Begun(s, j) < Begun(s, i)  BY <2>1, BegunGrows
  <2> QED  BY <1>1, <1>3, <2>2
<1>6. i < j \/ j < i \/ j = i  BY <1>2
<1> QED  BY <1>4, <1>5, <1>6

(* The arguments are the first words, as many as there is room for.         *)
LEMMA WordsParsed ==
  ASSUME NEW s \in Seq(Nat \ {NUL})
  PROVE  /\ Len(Words(s)) \in Nat /\ (Words(s) = <<>> <=> Len(Words(s)) = 0)
         /\ parse_args(s) \in Seq(Seq(Nat \ {NUL}))
         /\ Len(parse_args(s)) = IF Len(Words(s)) <= MAX_ARGS THEN Len(Words(s)) ELSE MAX_ARGS
         /\ \A k \in 1 .. Len(parse_args(s)) : parse_args(s)[k] = Words(s)[k]
<1> DEFINE n == Len(s)
           m == Begun(s, n)
           W == Words(s)
<1>1. s \in Seq(Nat) /\ n \in Nat  OBVIOUS
<1>2. PICK f : ParseSteps(f, s) /\ parse_args(s) = Arguments(f[n])
  BY <1>1, Parsing
<1> DEFINE r == f[n]
           args == r.args
           A == Arguments(r)
<1>3. r \in ParseState(n) /\ Noted(s, n, r)  BY <1>1, <1>2, AllNoted
<1>4. m \in Nat /\ MAX_ARGS \in Nat
  <2>1. n \in 0 .. n  BY <1>1
  <2> QED  BY <1>1, <2>1, BegunSteps, ShellAssumption
<1>5. Len(W) = m /\ (W = <<>> <=> Len(W) = 0)
  <2> DEFINE e(k) == WordAt(s, CHOOSE i \in Starts(s) : Begun(s, i) = k)
             S == {e(k) : k \in 1 .. m}
  <2>1. W = [k \in 1 .. m |-> e(k)]  BY DEF Words
  <2> HIDE DEF W, m, e
  <2>2. W \in [1 .. m -> S]  BY <2>1
  <2> HIDE DEF S
  <2>3. W \in Seq(S) /\ Len(W) = m  BY <1>4, <2>2
  <2> QED  BY <2>3, EmptySeq
<1> HIDE DEF r
<1>6. args \in Seq(1 .. n)  BY <1>3 DEF ParseState
<1>7. /\ Len(args) = IF m <= MAX_ARGS THEN m ELSE MAX_ARGS
      /\ \A k \in 1 .. Len(args) : args[k] \in Starts(s) /\ Begun(s, args[k]) = k
  BY <1>3, Zenon DEF Noted
<1>8. Len(args) \in Nat /\ Len(args) <= m /\ DOMAIN args = 1 .. Len(args)
  <2> HIDE DEF args
  <2>1. Len(args) \in Nat /\ DOMAIN args = 1 .. Len(args)  BY <1>6
  <2> HIDE DEF m
  <2> QED  BY <1>4, <1>7, <2>1
<1>9. A = [k \in 1 .. Len(args) |-> StringAt(r.input, args[k])]  BY <1>8, Zenon DEF Arguments
<1>10. ASSUME NEW k \in 1 .. Len(args)
       PROVE  W[k] = StringAt(r.input, args[k]) /\ W[k] \in Seq(Nat \ {NUL})
  <2>1. args[k] \in Starts(s) /\ Begun(s, args[k]) = k  BY <1>7, Zenon
  <2>2. StringAt(r.input, args[k]) = WordAt(s, args[k])
        /\ WordAt(s, args[k]) \in Seq(Nat \ {NUL})
    BY <1>3, <2>1, WordFound
  <2>3. (CHOOSE i \in Starts(s) : Begun(s, i) = k) = args[k]  BY <1>1, <2>1, StartOf
  <2>4. k \in 1 .. m  BY <1>4, <1>8
  <2>5. W[k] = WordAt(s, CHOOSE i \in Starts(s) : Begun(s, i) = k)  BY <2>4, Zenon DEF Words
  <2> QED  BY <2>2, <2>3, <2>5, Zenon
<1> HIDE DEF args, A, W, m
<1>11. A \in [1 .. Len(args) -> Seq(Nat \ {NUL})] /\ \A k \in 1 .. Len(args) : A[k] = W[k]
  BY <1>9, <1>10, Zenon
<1>12. A \in Seq(Seq(Nat \ {NUL})) /\ Len(A) = Len(args)
  BY <1>8, <1>11
<1> QED  BY <1>2, <1>4, <1>5, <1>7, <1>11, <1>12, Zenon DEF A, W, r

(* The same as one sequence.                                                 *)
LEMMA WordsKept ==
  ASSUME NEW s \in Seq(Nat \ {NUL})
  PROVE  parse_args(s) = SubSeq(Words(s), 1, Min({MAX_ARGS, Len(Words(s))}))
<1> DEFINE W == Words(s)
           A == parse_args(s)
           m == Min({MAX_ARGS, Len(W)})
           T == Seq(Nat \ {NUL})
           B == SubSeq(W, 1, m)
<1>1. /\ Len(W) \in Nat /\ A \in Seq(T)
      /\ Len(A) = IF Len(W) <= MAX_ARGS THEN Len(W) ELSE MAX_ARGS
      /\ \A k \in 1 .. Len(A) : A[k] = W[k]
  BY WordsParsed
<1> HIDE DEF W, A
<1>2. MAX_ARGS \in Nat  BY ShellAssumption
<1>3. m = Len(A)
  <2> DEFINE S == {MAX_ARGS, Len(W)}
             x == Len(A)
  <2>1. S \in SUBSET Nat /\ x \in S /\ \A y \in S : x <= y  BY <1>1, <1>2
  <2> HIDE DEF S, x
  <2>2. Min(S) = x  BY <2>1, LeastIs
  <2> QED  BY <2>2 DEF S, x
<1>4. Len(A) \in Nat /\ \A k \in 1 .. Len(A) : A[k] \in T  BY <1>1
<1> HIDE DEF m, T
<1>5. m \in Int /\ 1 \in Int /\ \A k \in 1 .. m : W[k] \in T  BY <1>1, <1>3, <1>4
<1>6. /\ B \in Seq(T) /\ Len(B) = IF 1 <= m THEN m - 1 + 1 ELSE 0
      /\ \A k \in 1 .. m - 1 + 1 : B[k] = W[1 + k - 1]
  BY <1>5, SubSeqProperties
<1> HIDE DEF B
<1>7. Len(B) = Len(A)  BY <1>3, <1>4, <1>6
<1>8. ASSUME NEW k \in 1 .. Len(A) PROVE A[k] = B[k]
  <2>1. k \in 1 .. m - 1 + 1 /\ 1 + k - 1 = k  BY <1>3, <1>4
  <2> QED  BY <1>1, <1>6, <2>1
<1>9. A = B  BY <1>1, <1>6, <1>7, <1>8, SeqEqual
<1> QED  BY <1>9 DEF A, B, m, W

(* strcmp tells apart exactly what differs.                                  *)
LEMMA StrcmpEqual ==
  ASSUME NEW a \in Seq(Nat \ {NUL}), NEW b \in Seq(Nat \ {NUL})
  PROVE  strcmp(a, b) = 0 <=> a = b
<1> DEFINE x == Append(a, NUL)
           y == Append(b, NUL)
           Stop(j) == /\ x[j] # y[j] \/ x[j] = NUL
                      /\ \A k \in 1 .. j - 1 : x[k] = y[k] /\ x[k] # NUL
           i == CHOOSE j \in DOMAIN x : Stop(j)
           n == Len(a)
           m == Len(b)
<1>1. n \in Nat /\ m \in Nat /\ NUL \in Nat  BY DEF NUL
<1>2. /\ Len(x) = n + 1 /\ DOMAIN x = 1 .. n + 1 /\ x[n + 1] = NUL
      /\ \A k \in 1 .. n : x[k] = a[k] /\ x[k] \in Nat /\ x[k] # NUL
  <2>1. a \in Seq(Nat)  OBVIOUS
  <2>2. x \in Seq(Nat) /\ Len(x) = n + 1 /\ x[n + 1] = NUL /\ \A k \in 1 .. n : x[k] = a[k]
    BY <1>1, <2>1, AppendProperties
  <2>3. \A k \in 1 .. n : a[k] \in Nat /\ a[k] # NUL  OBVIOUS
  <2> HIDE DEF x
  <2> QED  BY <2>2, <2>3
<1>3. /\ y[m + 1] = NUL
      /\ \A k \in 1 .. m : y[k] = b[k] /\ y[k] \in Nat /\ y[k] # NUL
  <2>1. b \in Seq(Nat)  OBVIOUS
  <2>2. y \in Seq(Nat) /\ y[m + 1] = NUL /\ \A k \in 1 .. m : y[k] = b[k]
    BY <1>1, <2>1, AppendProperties
  <2>3. \A k \in 1 .. m : b[k] \in Nat /\ b[k] # NUL  OBVIOUS
  <2> HIDE DEF y
  <2> QED  BY <2>2, <2>3
<1>4. strcmp(a, b) = x[i] - y[i]  BY DEF strcmp
<1> HIDE DEF x, y, n, m
<1>5. i \in 1 .. n + 1 /\ Stop(i)
  <2> DEFINE Ends == {j \in 1 .. n + 1 : x[j] # y[j] \/ x[j] = NUL}
             j == Min(Ends)
  <2>1. Ends \in SUBSET Nat /\ n + 1 \in Ends  BY <1>1, <1>2
  <2>2. j \in Ends /\ \A k \in Ends : j <= k
    <3> HIDE DEF Ends
    <3> QED  BY <2>1, Least
  <2> HIDE DEF j
  <2>3. \A k \in 1 .. j - 1 : k \in 1 .. n + 1 /\ ~(j <= k)  BY <1>1, <2>2
  <2>4. Stop(j)  BY <2>2, <2>3
  <2>5. j \in DOMAIN x  BY <1>2, <2>2
  <2> HIDE DEF Stop
  <2>6. i \in DOMAIN x /\ Stop(i)  BY <2>4, <2>5, Zenon
  <2> QED  BY <1>2, <2>6
<1> HIDE DEF i
<1>6. i \in 1 .. m + 1 /\ x[i] \in Nat /\ y[i] \in Nat
  <2>1. i <= m + 1
    <3> SUFFICES ASSUME m + 1 < i PROVE FALSE
      BY <1>1, <1>5
    <3>1. m + 1 \in 1 .. i - 1  BY <1>1, <1>5
    <3> QED  BY <1>3, <1>5, <3>1
  <2>2. i \in 1 .. m \/ i = m + 1  BY <1>1, <1>5, <2>1
  <2>3. i \in 1 .. n \/ i = n + 1  BY <1>1, <1>5
  <2> QED  BY <1>1, <1>2, <1>3, <2>2, <2>3
<1>7. x[i] - y[i] = 0 <=> x[i] = y[i]  BY <1>6
<1>8. x[i] = y[i] <=> x[i] = NUL /\ y[i] = NUL  BY <1>5
<1>9. ASSUME x[i] = NUL, y[i] = NUL PROVE a = b
  <2>1. i = n + 1
    <3>1. i \in 1 .. n \/ i = n + 1  BY <1>1, <1>5
    <3> QED  BY <1>2, <1>9, <3>1
  <2>2. i = m + 1
    <3>1. i \in 1 .. m \/ i = m + 1  BY <1>1, <1>6
    <3> QED  BY <1>3, <1>9, <3>1
  <2>3. n = m /\ \A k \in 1 .. n : k \in 1 .. m /\ k \in 1 .. i - 1  BY <1>1, <2>1, <2>2
  <2>4. \A k \in 1 .. n : a[k] = b[k]
    <3> SUFFICES ASSUME NEW k \in 1 .. n PROVE a[k] = b[k]
      OBVIOUS
    <3>1. x[k] = y[k]  BY <1>5, <2>3
    <3>2. x[k] = a[k] /\ y[k] = b[k]  BY <1>2, <1>3, <2>3
    <3> QED  BY <3>1, <3>2
  <2> QED  BY <2>3, <2>4, SeqEqual DEF n, m
<1>10. ASSUME a = b PROVE x[i] = y[i]  BY <1>10 DEF x, y
<1> QED  BY <1>4, <1>7, <1>8, <1>9, <1>10

(* A line whose characters are not NUL: case by case of its first word.       *)
LEMMA Commanded ==
  ASSUME typed \in Seq(Nat \ {NUL})
  PROVE  CommandIsFirstWord
<1> DEFINE W == Words(typed)
           A == parse_args(typed)
           does == execute_command(typed)
           Is(name) == strcmp(A[1], name) = 0
           T == Seq(Nat \ {NUL})
<1>1. /\ Len(W) \in Nat /\ (W = <<>> <=> Len(W) = 0) /\ A \in Seq(T)
      /\ Len(A) = IF Len(W) <= MAX_ARGS THEN Len(W) ELSE MAX_ARGS
      /\ \A k \in 1 .. Len(A) : A[k] = W[k]
  BY WordsParsed
<1>2. does = IF A = <<>> THEN Nothing
             ELSE CASE Is(CLEAR) -> [Nothing EXCEPT !.clear = TRUE]
                    [] Is(HELP) -> Says(HelpText)
                    [] Is(ECHO) -> Says(Echoed(A))
                    [] Is(PEEK) -> Peek(A)
                    [] OTHER -> Says(UnknownText \o A[1])
  BY DEF execute_command
<1> HIDE DEF does, A, W
<1>3. MAX_ARGS \in Nat /\ 2 <= MAX_ARGS  BY ShellAssumption
<1>4. /\ A = <<>> <=> W = <<>>
      /\ W # <<>> => A[1] = W[1] /\ A[1] \in T
      /\ Len(A) >= 2 <=> Len(W) >= 2
      /\ Len(W) >= 2 => A[2] = W[2] /\ W # <<>>
  <2> HIDE DEF T
  <2>1. A = <<>> <=> Len(A) = 0  BY <1>1, EmptySeq
  <2>2. Len(A) \in Nat /\ \A k \in 1 .. Len(A) : A[k] \in T  BY <1>1
  <2>3. Len(W) # 0 => 1 \in 1 .. Len(A)  BY <1>1, <1>3, <2>2
  <2>4. Len(W) >= 2 => 2 \in 1 .. Len(A)  BY <1>1, <1>3, <2>2
  <2>5. Len(A) = 0 <=> Len(W) = 0  BY <1>1, <1>3
  <2>6. Len(A) >= 2 <=> Len(W) >= 2  BY <1>1, <1>3
  <2> QED  BY <1>1, <2>1, <2>2, <2>3, <2>4, <2>5, <2>6
<1>5. CLEAR \in T /\ HELP \in T /\ ECHO \in T /\ PEEK \in T
      /\ CLEAR # HELP /\ CLEAR # ECHO /\ CLEAR # PEEK /\ HELP # ECHO /\ HELP # PEEK
      /\ ECHO # PEEK
  BY ShellAssumption
<1>6. ASSUME W # <<>>, NEW name \in T PROVE Is(name) <=> W[1] = name
  BY <1>4, <1>6, StrcmpEqual
<1> HIDE DEF Is, T
<1>7. Nothing = [clear |-> FALSE, print |-> <<>>, fault |-> FALSE]  BY DEF Nothing
<1>8. \A t : /\ Says(t).clear = FALSE /\ Says(t).fault = FALSE
            /\ Says(t).print = t
  BY DEF Says, Nothing
<1> DEFINE Right == /\ W = <<>> => does = Nothing
                    /\ does.clear <=> W # <<>> /\ W[1] = CLEAR
                    /\ does.fault <=> /\ Len(W) >= 2 /\ W[1] = PEEK
                                      /\ ~Readable(textohex(W[2]))
                    /\ W # <<>> /\ W[1] \notin {CLEAR, HELP, ECHO, PEEK}
                         => does.print = UnknownText \o W[1]
<1> SUFFICES Right
  BY Zenon DEF CommandIsFirstWord, W, does
<1>9. CASE W = <<>>
  <2>1. does = Nothing  BY <1>2, <1>4, <1>9
  <2>2. ~(Len(W) >= 2)  BY <1>4, <1>9
  <2>3. does.clear = FALSE /\ does.fault = FALSE  BY <1>7, <2>1
  <2> QED  BY <1>9, <2>1, <2>2, <2>3
<1>10. CASE W # <<>>
  <2> DEFINE w == W[1]
  <2>1. /\ Is(CLEAR) <=> w = CLEAR
        /\ Is(HELP) <=> w = HELP
        /\ Is(ECHO) <=> w = ECHO
        /\ Is(PEEK) <=> w = PEEK
        /\ A # <<>> /\ A[1] = w
    BY <1>4, <1>5, <1>6, <1>10, Zenon
  <2> HIDE DEF w
  <2>2. CASE w = CLEAR
    <3>1. does = [Nothing EXCEPT !.clear = TRUE]  BY <1>2, <1>5, <2>1, <2>2
    <3>2. does.clear = TRUE /\ does.fault = FALSE  BY <1>7, <3>1
    <3> QED  BY <1>5, <1>10, <2>2, <3>2 DEF w
  <2>3. CASE w = HELP \/ w = ECHO
    <3>1. \E t : does = Says(t)  BY <1>2, <1>5, <2>1, <2>3
    <3>2. does.clear = FALSE /\ does.fault = FALSE  BY <1>8, <3>1
    <3> QED  BY <1>5, <1>10, <2>3, <3>2 DEF w
  <2>4. CASE w = PEEK
    <3> DEFINE bad == Len(W) >= 2 /\ ~Readable(textohex(W[2]))
    <3>1. does = Peek(A)  BY <1>2, <1>5, <2>1, <2>4
    <3>2. CASE bad
      <4>1. Len(A) >= 2 /\ ~(Len(A) < 2) /\ ~Readable(textohex(A[2]))
        <5>1. Len(A) \in Nat  BY <1>1
        <5> QED  BY <1>4, <3>2, <5>1
      <4>2. Peek(A) = [Nothing EXCEPT !.fault = TRUE]  BY <4>1 DEF Peek
      <4>3. does.clear = FALSE /\ does.fault = TRUE  BY <1>7, <3>1, <4>2
      <4> QED  BY <1>5, <1>10, <2>4, <3>2, <4>3 DEF w
    <3>3. CASE ~bad
      <4>1. \E t : Peek(A) = Says(t)
        <5>1. Len(A) \in Nat  BY <1>1
        <5>2. CASE Len(A) < 2
          <6>1. ~(Len(A) >= 2)  BY <5>1, <5>2
          <6> QED  BY <5>2, <6>1 DEF Peek
        <5>3. CASE Len(A) >= 2
          <6>1. ~(Len(A) < 2)  BY <5>1, <5>3
          <6>2. Readable(textohex(A[2]))  BY <1>4, <3>3, <5>3
          <6> QED  BY <6>1, <6>2 DEF Peek
        <5> QED  BY <5>1, <5>2, <5>3
      <4>2. does.clear = FALSE /\ does.fault = FALSE  BY <1>8, <3>1, <4>1
      <4> QED  BY <1>5, <1>10, <2>4, <3>3, <4>2 DEF w
    <3> QED  BY <3>2, <3>3
  <2>5. CASE w \notin {CLEAR, HELP, ECHO, PEEK}
    <3>1. does = Says(UnknownText \o w)  BY <1>2, <2>1, <2>5
    <3>2. does.clear = FALSE /\ does.fault = FALSE /\ does.print = UnknownText \o w
      BY <1>8, <3>1
    <3> QED  BY <1>10, <2>5, <3>2 DEF w
  <2> QED  BY <2>2, <2>3, <2>4, <2>5
<1> HIDE DEF Right
<1> QED  BY <1>9, <1>10

--------------------------------------------------------------------------------
(* A C string holds no NUL; that is all the properties of Shell rest on.     *)
Texts == typed \in Seq(Nat \ {NUL}) /\ number \in Nat

(* Any character but NUL may be typed, any number counted up to.             *)
LEMMA TextsTyped == TypingSpec => []Texts
<1>1. Untyped => Texts
  <2>1. <<>> \in Seq(Nat \ {NUL})  BY EmptySeq
  <2> QED  BY <2>1 DEF Untyped, Texts
<1>2. Texts /\ [Typing]_typing => Texts'
  <2> SUFFICES ASSUME Texts, [Typing]_typing PROVE Texts'
    OBVIOUS
  <2>1. CASE Type
    <3>1. PICK c \in Alphabet : typed' = Append(typed, c)  BY <2>1 DEF Type
    <3>2. c \in Nat \ {NUL}  BY TypingAssumption
    <3>3. typed' \in Seq(Nat \ {NUL})  BY <3>1, <3>2, AppendProperties DEF Texts
    <3> QED  BY <2>1, <3>3 DEF Type, Texts
  <2>2. CASE Count  BY <2>2 DEF Count, Texts
  <2>3. CASE Again
    <3>1. <<>> \in Seq(Nat \ {NUL})  BY EmptySeq
    <3> QED  BY <2>3, <3>1 DEF Again, Texts
  <2>4. CASE UNCHANGED typing  BY <2>4 DEF typing, Texts
  <2> QED  BY <2>1, <2>2, <2>3, <2>4 DEF Typing
<1> QED  BY <1>1, <1>2, PTL DEF TypingSpec

(* shell.c:18: the arguments of every line are its words, in order, whole,   *)
(* the first MAX_ARGS of them when there are more.                          *)
THEOREM WordsParse == TypingSpec => []ParseFindsWords
<1>1. Texts => ParseFindsWords  BY WordsKept DEF Texts, ParseFindsWords
<1> QED  BY <1>1, TextsTyped, PTL

(* shell.c:96: textohex of every string is the number its longest run of     *)
(* digits names, the low HexDigits digits of it.                            *)
THEOREM HexNamed == TypingSpec => []HexIsValue
<1>1. Texts => HexIsValue
  <2> SUFFICES ASSUME Texts PROVE HexIsValue
    OBVIOUS
  <2>1. typed \in Seq(Nat)  BY DEF Texts
  <2> QED  BY <2>1, HexNames DEF HexIsValue
<1> QED  BY <1>1, TextsTyped, PTL

(* vga.c:82 and 144: what vga_hex_print shows of a number of HexDigits       *)
(* digits, typed back to peek, names it again; vga_print_dec shows the digits *)
(* of any number, most significant first, none of them superfluous.          *)
THEOREM NumbersShown == TypingSpec => []NumbersReadBack
<1>1. Texts => NumbersReadBack
  <2> SUFFICES ASSUME Texts PROVE NumbersReadBack
    OBVIOUS
  <2>1. number \in Nat  BY DEF Texts
  <2> QED  BY <2>1, HexReadBack, DecNames DEF NumbersReadBack
<1> QED  BY <1>1, TextsTyped, PTL

(* shell.c:51: whatever the line, its first word alone decides what it    *)
(* runs: only clear clears, and only a peek at a page that is not mapped     *)
(* faults.                                                                   *)
THEOREM FirstWordCommands == TypingSpec => []CommandIsFirstWord
<1>1. Texts => CommandIsFirstWord  BY Commanded DEF Texts
<1> QED  BY <1>1, TextsTyped, PTL
--------------------------------------------------------------------------------
Screen == [buff : [0 .. Cells - 1 -> Nat], index : Nat, limit : Nat, moved : 0 .. Rows]
--------------------------------------------------------------------------------
(* One character.  Hidden behind Cells is the only product, one row less is *)
(* the start of the last row.                                               *)
LEMMA Grid ==
  /\ Cells \in Nat /\ Columns \in Nat /\ Rows \in Nat
  /\ 0 < Columns /\ Columns < Cells /\ 1 < Rows
  /\ (Rows - 1) * Columns = Cells - Columns
<1>1. /\ Columns \in Nat /\ Rows \in Nat /\ 0 < Columns /\ 1 < Rows
  BY ConsoleAssumption
<1>2. Columns * Rows = (Rows - 1) * Columns + Columns  BY <1>1
<1>3. (Rows - 1) * Columns > 0  BY <1>1
<1>4. Cells \in Nat  BY <1>1 DEF Cells
<1>5. (Rows - 1) * Columns \in Nat  BY <1>1
<1> QED  BY <1>1, <1>2, <1>3, <1>4, <1>5 DEF Cells

(* The same without the product, which slows every step that knows of it.   *)
LEMMA Sizes ==
  /\ Cells \in Nat /\ Columns \in Nat /\ Rows \in Nat
  /\ 0 < Columns /\ Columns < Cells /\ 1 < Rows
BY Grid

(* A screen with other cells, another cursor, another count of scrolls.     *)
Redraw(s, b, i, m) == [buff |-> b, index |-> i, limit |-> s.limit, moved |-> m]

LEMMA Redrawn ==
  ASSUME NEW s \in Screen, NEW b \in [0 .. Cells - 1 -> Nat], NEW i \in Nat,
         NEW m \in 0 .. Rows
  PROVE  /\ Redraw(s, b, i, m) \in Screen
         /\ Redraw(s, b, i, m).buff = b /\ Redraw(s, b, i, m).index = i
         /\ Redraw(s, b, i, m).limit = s.limit /\ Redraw(s, b, i, m).moved = m
  BY DEF Screen, Redraw

LEMMA Fields ==
  ASSUME NEW s \in Screen
  PROVE  /\ s = Redraw(s, s.buff, s.index, s.moved)
         /\ s.buff \in [0 .. Cells - 1 -> Nat] /\ s.index \in Nat
         /\ s.limit \in Nat /\ s.moved \in 0 .. Rows
  BY DEF Screen, Redraw

(* The write of a character moves the cursor and touches at most one cell:  *)
(* the one under the cursor, or the one before it.                          *)
LEMMA Placed ==
  ASSUME NEW s \in Screen, NEW c \in Nat
  PROVE  /\ Place(s, c) \in Screen
         /\ Place(s, c).limit = s.limit /\ Place(s, c).moved = s.moved
         /\ c \notin {NL, BS} => /\ Place(s, c).index = s.index + 1
                                 /\ Place(s, c).buff = [s.buff EXCEPT ![s.index] = c]
         /\ c = BS /\ s.index > s.limit =>
              /\ Place(s, c).index = s.index - 1
              /\ Place(s, c).buff = [s.buff EXCEPT ![s.index - 1] = SPACE]
         /\ c = BS /\ ~(s.index > s.limit) => Place(s, c) = s
<1>1. NL # BS  BY DEF NL, BS
<1>2. /\ s.buff \in [0 .. Cells - 1 -> Nat] /\ s.index \in Nat /\ s.limit \in Nat
      /\ s.moved \in 0 .. Rows
  BY Fields
<1>3. CASE c = NL
  <2>1. Columns \in Nat \ {0}  BY ConsoleAssumption
  <2>2. s.index \div Columns \in Nat  BY <1>2, <2>1, DivNat
  <2>3. (s.index \div Columns + 1) * Columns \in Nat  BY <2>1, <2>2
  <2> DEFINE i == (s.index \div Columns + 1) * Columns
  <2>4. Place(s, c) = [s EXCEPT !.index = i]  BY <1>1, <1>3 DEF Place
  <2> HIDE DEF i
  <2>5. Place(s, c) = Redraw(s, s.buff, i, s.moved)  BY <2>4, Fields DEF Redraw
  <2>6. /\ Place(s, c) \in Screen
        /\ Place(s, c).limit = s.limit /\ Place(s, c).moved = s.moved
    BY <1>2, <2>3, <2>5, Redrawn DEF i
  <2> QED  BY <1>1, <1>3, <2>6
<1>4. CASE c = BS
  <2>1. Place(s, c) = Erase(s)  BY <1>1, <1>4 DEF Place
  <2>2. CASE s.index > s.limit
    <3> DEFINE b == [s.buff EXCEPT ![s.index - 1] = SPACE]
    <3>1. Erase(s) = [s EXCEPT !.index = s.index - 1, !.buff = b]
      BY <2>2 DEF Erase
    <3>2. s.index - 1 \in Nat  BY <1>2, <2>2
    <3>3. b \in [0 .. Cells - 1 -> Nat]  BY <1>2 DEF SPACE
    <3> HIDE DEF b
    <3>4. Place(s, c) = Redraw(s, b, s.index - 1, s.moved)
      BY <2>1, <3>1, Fields DEF Redraw
    <3>5. /\ Place(s, c) \in Screen
          /\ Place(s, c).limit = s.limit /\ Place(s, c).moved = s.moved
          /\ Place(s, c).index = s.index - 1 /\ Place(s, c).buff = b
      <4> DEFINE r == Redraw(s, b, s.index - 1, s.moved)
      <4>1. s.moved \in 0 .. Rows  BY <1>2
      <4>2. /\ r \in Screen /\ r.limit = s.limit /\ r.moved = s.moved
            /\ r.index = s.index - 1 /\ r.buff = b
        BY <3>2, <3>3, <4>1, Redrawn
      <4>3. Place(s, c) = r  BY <3>4
      <4> HIDE DEF r
      <4> QED  BY <4>2, <4>3
    <3> QED  BY <1>4, <2>2, <3>5 DEF b
  <2>3. CASE ~(s.index > s.limit)
    <3>1. Erase(s) = s  BY <2>3 DEF Erase
    <3> QED  BY <1>4, <2>1, <2>3, <3>1 DEF Screen
  <2> QED  BY <2>2, <2>3
<1>5. CASE c \notin {NL, BS}
  <2> DEFINE b == [s.buff EXCEPT ![s.index] = c]
  <2>1. Place(s, c) = [s EXCEPT !.buff = b, !.index = s.index + 1]
    BY <1>5 DEF Place
  <2>2. b \in [0 .. Cells - 1 -> Nat]  BY <1>2
  <2>3. s.index + 1 \in Nat  BY <1>2
  <2> HIDE DEF b
  <2>4. Place(s, c) = Redraw(s, b, s.index + 1, s.moved)  BY <2>1, Fields DEF Redraw
  <2>5. /\ Place(s, c) \in Screen
        /\ Place(s, c).limit = s.limit /\ Place(s, c).moved = s.moved
        /\ Place(s, c).index = s.index + 1 /\ Place(s, c).buff = b
    <3> DEFINE r == Redraw(s, b, s.index + 1, s.moved)
    <3>1. s.moved \in 0 .. Rows  BY <1>2
    <3>2. /\ r \in Screen /\ r.limit = s.limit /\ r.moved = s.moved
          /\ r.index = s.index + 1 /\ r.buff = b
      BY <2>2, <2>3, <3>1, Redrawn
    <3>3. Place(s, c) = r  BY <2>4
    <3> HIDE DEF r
    <3> QED  BY <3>2, <3>3
  <2> QED  BY <1>5, <2>5 DEF b
<1> QED  BY <1>3, <1>4, <1>5

(* The scroll leaves the cursor on the screen, wherever it was.             *)
LEMMA Scrolled ==
  ASSUME NEW s \in Screen
  PROVE  /\ Scroll(s) \in Screen
         /\ Scroll(s).limit = s.limit /\ Scroll(s).moved = s.moved
         /\ Scroll(s).index < Cells
         /\ s.index < Cells => Scroll(s) = s
         /\ s.index >= Cells =>
              /\ Scroll(s).index = Cells - Columns
              /\ \A k \in 0 .. Cells - Columns - 1 : Scroll(s).buff[k] = s.buff[k + Columns]
<1>1. s.index \in Nat /\ s.buff \in [0 .. Cells - 1 -> Nat] /\ s.moved \in 0 .. Rows
  BY Fields
<1>2. CASE s.index < Cells
  <2>1. Scroll(s) = s  BY <1>1, <1>2, Sizes DEF Scroll, Scrolls
  <2> QED  BY <1>1, <1>2, <2>1, Sizes
<1>3. CASE s.index >= Cells
  <2> DEFINE b == [k \in 0 .. Cells - 1 |->
                     IF k < (Rows - 1) * Columns THEN s.buff[k + Columns] ELSE SPACE]
  <2>1. Scroll(s) = [s EXCEPT !.index = (Rows - 1) * Columns, !.buff = b]
    BY <1>1, <1>3, Grid DEF Scroll, Scrolls
  <2>2. b \in [0 .. Cells - 1 -> Nat]
    <3> SUFFICES ASSUME NEW k \in 0 .. Cells - 1, k < Cells - Columns
                 PROVE  s.buff[k + Columns] \in Nat
      BY Grid DEF SPACE
    <3>1. k + Columns \in 0 .. Cells - 1  BY Sizes
    <3> QED  BY <1>1, <3>1
  <2>3. ASSUME NEW k \in 0 .. Cells - Columns - 1 PROVE b[k] = s.buff[k + Columns]
    <3>1. k \in 0 .. Cells - 1 /\ k < (Rows - 1) * Columns  BY Grid
    <3> QED  BY <3>1
  <2>4. /\ Cells - Columns \in Nat /\ Cells - Columns < Cells  BY Sizes
  <2> HIDE DEF b
  <2>5. Scroll(s) = Redraw(s, b, Cells - Columns, s.moved)
    BY <2>1, Grid, Fields DEF Redraw
  <2>6. /\ Scroll(s) \in Screen /\ Scroll(s).buff = b /\ Scroll(s).index = Cells - Columns
        /\ Scroll(s).limit = s.limit /\ Scroll(s).moved = s.moved
    BY <1>1, <2>2, <2>4, <2>5, Redrawn
  <2>7. ~(s.index < Cells)  BY <1>1, <1>3, Sizes
  <2> QED  BY <1>3, <2>3, <2>4, <2>6, <2>7
<1>4. s.index < Cells \/ s.index >= Cells  BY <1>1, Sizes
<1> QED  BY <1>2, <1>3, <1>4, Zenon

(* A character as it is printed: placed, then scrolled if need be.          *)
LEMMA CharPrinted ==
  ASSUME NEW s \in Screen, NEW c \in Nat
  PROVE  /\ vga_print_char(s, c) \in Screen
         /\ vga_print_char(s, c).limit = s.limit
         /\ vga_print_char(s, c).index = Scroll(Place(s, c)).index
         /\ vga_print_char(s, c).index < Cells
         /\ vga_print_char(s, c).buff = Scroll(Place(s, c)).buff
         /\ vga_print_char(s, c).moved =
              IF Place(s, c).index >= Cells /\ s.moved < Rows THEN s.moved + 1 ELSE s.moved
<1> DEFINE p == Place(s, c)
<1>1. p \in Screen /\ p.limit = s.limit /\ p.moved = s.moved  BY Placed
<1> HIDE DEF p
<1>2. /\ Scroll(p) \in Screen /\ Scroll(p).limit = s.limit /\ Scroll(p).moved = s.moved
      /\ Scroll(p).index < Cells
  BY <1>1, Scrolled
<1>3. s.moved \in 0 .. Rows /\ Rows \in Nat  BY Sizes DEF Screen
<1> DEFINE m == IF p.index >= Cells /\ s.moved < Rows THEN s.moved + 1 ELSE s.moved
<1>4. m \in 0 .. Rows  BY <1>3
<1> DEFINE q == Scroll(p)
<1>5. vga_print_char(s, c) = [q EXCEPT !.moved = m]
  BY <1>1, <1>2 DEF vga_print_char, Scrolls, p
<1> HIDE DEF m, q
<1>6. q \in Screen  BY <1>2 DEF q
<1>7. vga_print_char(s, c) = Redraw(q, q.buff, q.index, m)  BY <1>5, <1>6, Fields DEF Redraw
<1>8. q.buff \in [0 .. Cells - 1 -> Nat] /\ q.index \in Nat  BY <1>6, Fields
<1>9. /\ vga_print_char(s, c) \in Screen
      /\ vga_print_char(s, c).limit = q.limit
      /\ vga_print_char(s, c).index = q.index
      /\ vga_print_char(s, c).buff = q.buff
      /\ vga_print_char(s, c).moved = m
  BY <1>4, <1>6, <1>7, <1>8, Redrawn
<1> QED  BY <1>2, <1>9 DEF p, m, q
--------------------------------------------------------------------------------
(* A string, character by character.                                        *)
PrintedBy(g, s, str) ==
  /\ g \in [0 .. Len(str) -> Screen] /\ g[0] = s /\ g[Len(str)] = vga_print(s, str)
  /\ \A k \in 1 .. Len(str) : g[k] = vga_print_char(g[k - 1], str[k])
  /\ \A k \in 0 .. Len(str) : g[k].limit = s.limit

LEMMA Printing ==
  ASSUME NEW s \in Screen, NEW str \in Seq(Nat)
  PROVE  \E g : PrintedBy(g, s, str)
<1> DEFINE n == Len(str)
           T == {x \in Screen : x.limit = s.limit}
           step == [x \in (0 + 1 .. n) \X T |-> vga_print_char(x[2], str[x[1]])]
           R(h) == h = [i \in 0 .. n |->
                          IF i = 0 THEN s ELSE vga_print_char(h[i - 1], str[i])]
<1>1. n \in Nat /\ s \in T /\ \A k \in 1 .. n : str[k] \in Nat  OBVIOUS
<1>2. \A x \in T, c \in Nat : vga_print_char(x, c) \in T  BY CharPrinted
<1>3. step \in [(0 + 1 .. n) \X T -> T]
  <2> SUFFICES ASSUME NEW x \in (0 + 1 .. n) \X T PROVE vga_print_char(x[2], str[x[1]]) \in T
    OBVIOUS
  <2>1. x[1] \in 1 .. n /\ x[2] \in T  OBVIOUS
  <2> HIDE DEF n, T
  <2> QED  BY <1>1, <1>2, <2>1
<1>4. Step(T, 0, n, s, step)
  <2> HIDE DEF step, T
  <2> QED  BY <1>1, <1>3 DEF Step
<1>5. PICK g : Stepped(T, 0, n, s, step, g)
  <2> HIDE DEF step, T, n
  <2> QED  BY <1>4, Stepping
<1>6. g \in [0 .. n -> T] /\ g[0] = s  BY <1>5 DEF Stepped
<1>7. ASSUME NEW k \in 1 .. n PROVE g[k] = vga_print_char(g[k - 1], str[k])
  <2>1. k \in 0 + 1 .. n /\ k - 1 \in 0 .. n  BY <1>1
  <2>2. g[k - 1] \in T  BY <1>6, <2>1
  <2> HIDE DEF T, n
  <2>3. step[<<k, g[k - 1]>>] = vga_print_char(g[k - 1], str[k])  BY <2>1, <2>2
  <2> HIDE DEF step
  <2> QED  BY <1>5, <2>1, <2>3 DEF Stepped
<1>8. R(g)
  <2>1. ASSUME NEW i \in 0 .. n
        PROVE  g[i] = IF i = 0 THEN s ELSE vga_print_char(g[i - 1], str[i])
    <3>1. i # 0 => i \in 1 .. n  BY <1>1
    <3> QED  BY <1>6, <1>7, <3>1
  <2> HIDE DEF n, T
  <2> QED  BY <1>6, <2>1
<1>9. vga_print(s, str) = (CHOOSE h : R(h))[n]  BY DEF vga_print
<1>10. R(CHOOSE h : R(h))
  <2> HIDE DEF R
  <2> QED  BY <1>8
<1> DEFINE f == CHOOSE h : R(h)
<1>11. f = [i \in 0 .. n |-> IF i = 0 THEN s ELSE vga_print_char(f[i - 1], str[i])]
  BY <1>10
<1> HIDE DEF f
<1>12. /\ f[0] = s
       /\ \A k \in 1 .. n : f[k] = vga_print_char(f[k - 1], str[k])
  <2> HIDE DEF n
  <2>1. 0 \in 0 .. n /\ \A k \in 1 .. n : k \in 0 .. n /\ k # 0  BY <1>1
  <2> QED  BY <1>11, <2>1
<1>13. Stays(T, 0, n, f)
  <2>1. ASSUME NEW k \in 0 + 1 .. n, f[k - 1] \in T  PROVE f[k] \in T
    <3>1. k \in 1 .. n  OBVIOUS
    <3>2. str[k] \in Nat  BY <1>1, <3>1
    <3>3. f[k] = vga_print_char(f[k - 1], str[k])  BY <1>12, <3>1
    <3> HIDE DEF T, n
    <3> QED  BY <1>2, <2>1, <3>2, <3>3
  <2>2. 0 \in Nat /\ n \in Nat /\ f[0] \in T  BY <1>1, <1>12
  <2> HIDE DEF T, n
  <2> QED  BY <2>1, <2>2, Zenon DEF Stays
<1>14. \A k \in 0 .. n : f[k] \in T
  <2> HIDE DEF T, n
  <2> QED  BY <1>13, Staying, Zenon
<1>15. f \in [0 .. n -> Screen]  BY <1>11, <1>14
<1> QED  BY <1>9, <1>12, <1>14, <1>15 DEF PrintedBy, f

(* What is printed ends on the screen and leaves the limit alone.           *)
LEMMA Printed ==
  ASSUME NEW s \in Screen, NEW str \in Seq(Nat)
  PROVE  /\ vga_print(s, str) \in Screen /\ vga_print(s, str).limit = s.limit
         /\ str # <<>> \/ s.index < Cells => vga_print(s, str).index < Cells
<1>1. PICK g : PrintedBy(g, s, str)  BY Printing
<1>2. Len(str) \in 0 .. Len(str)  OBVIOUS
<1>3. CASE str = <<>>  BY <1>1, <1>2, <1>3 DEF PrintedBy
<1>4. CASE str # <<>>
  <2>1. Len(str) \in 1 .. Len(str) /\ Len(str) - 1 \in 0 .. Len(str) /\ str[Len(str)] \in Nat
    BY <1>4
  <2>2. g[Len(str) - 1] \in Screen  BY <1>1, <2>1 DEF PrintedBy
  <2>3. vga_print_char(g[Len(str) - 1], str[Len(str)]).index < Cells
    BY <2>1, <2>2, CharPrinted
  <2> QED  BY <1>1, <1>2, <2>1, <2>3 DEF PrintedBy
<1> QED  BY <1>3, <1>4

(* Keys are printed as strings of one character.                            *)
LEMMA OnePrinted ==
  ASSUME NEW s \in Screen, NEW c \in Nat
  PROVE  vga_print(s, <<c>>) = vga_print_char(s, c)
<1>1. <<c>> \in Seq(Nat) /\ Len(<<c>>) = 1 /\ <<c>>[1] = c  OBVIOUS
<1>2. PICK g : PrintedBy(g, s, <<c>>)  BY <1>1, Printing
<1>3. 1 \in 1 .. 1 /\ 1 - 1 = 0  OBVIOUS
<1> QED  BY <1>1, <1>2, <1>3 DEF PrintedBy
--------------------------------------------------------------------------------
(* What a command prints are characters.  First the words that echo repeats. *)
LEMMA EchoPrints ==
  ASSUME NEW args \in Seq(Seq(Nat)), args # <<>>
  PROVE  Echoed(args) \in Seq(Nat)
<1> DEFINE n == Len(args) - 1
           words == [k \in 1 .. n |-> Append(args[k + 1], SPACE)]
           T == Seq(Nat)
           step == [x \in (1 + 1 .. n) \X T |-> x[2] \o words[x[1]]]
           R(h) == h = [i \in 1 .. n |-> IF i = 1 THEN words[i] ELSE h[i - 1] \o words[i]]
           f == CHOOSE h : R(h)
<1>1. n \in Nat /\ Len(words) = n  OBVIOUS
<1>2. \A k \in 1 .. n : words[k] \in T
  <2> SUFFICES ASSUME NEW k \in 1 .. n PROVE words[k] \in T
    OBVIOUS
  <2>1. args[k + 1] \in Seq(Nat) /\ SPACE \in Nat  BY <1>1 DEF SPACE
  <2>2. Append(args[k + 1], SPACE) \in Seq(Nat)  BY <2>1, AppendProperties
  <2> QED  BY <2>2
<1>3. Echoed(args) = FlattenSeq(words)  BY DEF Echoed
<1>4. CASE n = 0
  <2>1. FlattenSeq(words) = words  BY <1>1, <1>4 DEF FlattenSeq
  <2>2. words = <<>>
    <3>1. words \in Seq(T)  BY <1>1, <1>2
    <3>2. Len(words) = 0  BY <1>1, <1>4
    <3> HIDE DEF words, T
    <3> QED  BY <3>1, <3>2, EmptySeq, Zenon
  <2>3. <<>> \in Seq(Nat)  OBVIOUS
  <2> QED  BY <1>3, <2>1, <2>2, <2>3
<1>5. CASE n # 0
  <2>1. \A s, t \in T : s \o t \in T  BY ConcatProperties
  <2> HIDE DEF words, n, T
  <2>2. n \in Nat /\ 1 <= n /\ 1 \in 1 .. n /\ n \in 1 .. n  BY <1>1, <1>5
  <2>3. Step(T, 1, n, words[1], step)
    <3>1. ASSUME NEW x \in (1 + 1 .. n) \X T PROVE x[2] \o words[x[1]] \in T
      <4>1. x[1] \in 1 .. n /\ x[2] \in T  OBVIOUS
      <4>2. words[x[1]] \in T  BY <1>2, <4>1
      <4> QED  BY <2>1, <4>1, <4>2
    <3>2. step \in [(1 + 1 .. n) \X T -> T]  BY <3>1
    <3> HIDE DEF step
    <3> QED  BY <1>2, <2>2, <3>2 DEF Step
  <2>4. PICK g : Stepped(T, 1, n, words[1], step, g)
    <3> HIDE DEF step
    <3> QED  BY <2>3, Stepping
  <2>5. g \in [1 .. n -> T] /\ g[1] = words[1]  BY <2>4 DEF Stepped
  <2>6. ASSUME NEW k \in 1 + 1 .. n PROVE g[k] = g[k - 1] \o words[k]
    <3>1. k - 1 \in 1 .. n  BY <2>2
    <3>2. g[k - 1] \in T  BY <2>5, <3>1
    <3>3. <<k, g[k - 1]>> \in (1 + 1 .. n) \X T  BY <3>2
    <3>4. step[<<k, g[k - 1]>>] = g[k - 1] \o words[k]  BY <3>3, Zenon
    <3> HIDE DEF step
    <3> QED  BY <2>4, <3>4 DEF Stepped
  <2>7. R(g)
    <3>1. ASSUME NEW i \in 1 .. n
          PROVE  g[i] = IF i = 1 THEN words[i] ELSE g[i - 1] \o words[i]
      <4>1. i # 1 => i \in 1 + 1 .. n  BY <2>2
      <4> QED  BY <2>5, <2>6, <4>1, Zenon
    <3> QED  BY <2>5, <3>1, Zenon
  <2>8. R(f)
    <3> HIDE DEF R
    <3> QED  BY <2>7
  <2>9. FlattenSeq(words) = f[n]  BY <1>1, <1>5, Zenon DEF FlattenSeq
  <2> HIDE DEF f
  <2>10. Stays(T, 1, n, f)
    <3>1. f[1] = words[1]  BY <2>2, <2>8, Zenon
    <3>2. ASSUME NEW k \in 1 + 1 .. n PROVE f[k] = f[k - 1] \o words[k]
      <4>1. k \in 1 .. n /\ k # 1  BY <2>2
      <4> QED  BY <2>8, <4>1, Zenon
    <3>3. ASSUME NEW k \in 1 + 1 .. n, f[k - 1] \in T PROVE f[k] \in T
      <4>1. words[k] \in T  BY <1>2, <2>2
      <4>2. f[k - 1] \o words[k] \in T  BY <2>1, <3>3, <4>1, Zenon
      <4> QED  BY <3>2, <4>2, Zenon
    <3> QED  BY <1>2, <2>2, <3>1, <3>3 DEF Stays
  <2>11. f[n] \in T  BY <2>2, <2>10, Staying
  <2> QED  BY <1>3, <2>9, <2>11 DEF T
<1> QED  BY <1>4, <1>5

(* What a command prints, unless it faults first.                           *)
LEMMA CommandPrints ==
  ASSUME NEW input \in Seq(Nat)
  PROVE  execute_command(input).print \in Seq(Nat)
<1> DEFINE args == parse_args(input)
<1>1. args \in Seq(Seq(Nat))  BY ArgsFound
<1> HIDE DEF args
<1>2. /\ HelpText \in Seq(Nat) /\ UsageText \in Seq(Nat)
      /\ DataText \in Seq(Nat) /\ UnknownText \in Seq(Nat)
  BY ShellAssumption
<1>3. /\ Nothing.print \in Seq(Nat)
      /\ [Nothing EXCEPT !.clear = TRUE].print \in Seq(Nat)
      /\ [Nothing EXCEPT !.fault = TRUE].print \in Seq(Nat)
      /\ \A text \in Seq(Nat) : Says(text).print \in Seq(Nat)
  BY DEF Nothing, Says
<1>4. CASE args = <<>>
  <2>1. execute_command(input) = Nothing  BY <1>4 DEF execute_command, args
  <2> QED  BY <1>3, <2>1
<1>5. CASE args # <<>>
  <2>1. args[1] \in Seq(Nat) /\ (Len(args) >= 2 => args[2] \in Seq(Nat))  BY <1>1, <1>5
  <2>2. UnknownText \o args[1] \in Seq(Nat)  BY <1>2, <2>1, ConcatProperties
  <2>3. Echoed(args) \in Seq(Nat)  BY <1>1, <1>5, EchoPrints
  <2>4. Peek(args).print \in Seq(Nat)
    <3>1. CASE Len(args) < 2
      <4>1. Peek(args) = Says(UsageText)  BY <3>1 DEF Peek
      <4> QED  BY <1>2, <1>3, <4>1
    <3>2. CASE Len(args) >= 2
      <4> DEFINE target == textohex(args[2])
                 text == DataText \o args[2] \o <<58, SPACE>>
                           \o vga_hex_print(Memory(target)) \o <<NL>>
      <4>1. target \in 0 .. Uint - 1  BY <2>1, <3>2, HexRead
      <4> HIDE DEF target
      <4>2. Memory(target) \in Nat  BY <4>1, UintRange, ShellAssumption
      <4>3. vga_hex_print(Memory(target)) \in Seq(Nat)  BY <4>2, HexDigitsPrinted
      <4>4. <<58, SPACE>> \in Seq(Nat) /\ <<NL>> \in Seq(Nat)  BY DEF SPACE, NL
      <4>5. DataText \o args[2] \in Seq(Nat)  BY <1>2, <2>1, <3>2, ConcatProperties
      <4>6. DataText \o args[2] \o <<58, SPACE>> \in Seq(Nat)
        BY <4>4, <4>5, ConcatProperties
      <4>7. DataText \o args[2] \o <<58, SPACE>> \o vga_hex_print(Memory(target)) \in Seq(Nat)
        BY <4>3, <4>6, ConcatProperties
      <4>8. text \in Seq(Nat)  BY <4>4, <4>7, ConcatProperties
      <4> HIDE DEF text
      <4>9. ~(Len(args) < 2)  BY <1>1, <3>2
      <4>10. Peek(args) \in {[Nothing EXCEPT !.fault = TRUE], Says(text)}
        BY <3>2, <4>9, Zenon DEF Peek, text, target
      <4> QED  BY <1>3, <4>8, <4>10
    <3> QED  BY <1>1, <3>1, <3>2
  <2>5. execute_command(input) \in
          {[Nothing EXCEPT !.clear = TRUE], Says(HelpText), Says(Echoed(args)),
           Peek(args), Says(UnknownText \o args[1])}
    BY <1>5, Zenon DEF execute_command, args
  <2> QED  BY <1>2, <1>3, <2>2, <2>3, <2>4, <2>5
<1> QED  BY <1>4, <1>5
--------------------------------------------------------------------------------
(* The line being edited on a screen: what it echoes, and the prompt before *)
(* it, wherever the scrolling has moved them.                               *)
OnScreen == {s \in Screen : s.index < Cells /\ s.limit < Cells}

Are(s, from, text) ==
  \A k \in DOMAIN text : from + k - 1 \in 0 .. Cells - 1 /\ s.buff[from + k - 1] = text[k]
End(s) == s.limit - s.moved * Columns
Echo(s, line) == s.index = s.limit + Len(line) /\ Are(s, s.limit, line)
Stands(s) == End(s) - Len(Prompt) >= 0 =>
               End(s) <= s.index /\ Are(s, End(s) - Len(Prompt), Prompt)
Line(s, line) == (s.moved = 0 => Echo(s, line)) /\ Stands(s)

LEMMA PromptShape == /\ Prompt \in Seq(Nat) /\ Len(Prompt) \in Nat
                     /\ DOMAIN Prompt = 1 .. Len(Prompt)
                     /\ \A k \in 1 .. Len(Prompt) : Prompt[k] \in Nat \ {NL, BS}
<1>1. Prompt \in Seq(Nat \ {NL, BS})  BY ConsoleAssumption
<1> QED  BY <1>1

(* One more scroll moves the end of the prompt up by one line.              *)
LEMMA MovedUp ==
  ASSUME NEW m \in Nat
  PROVE  /\ m * Columns \in Nat /\ (m + 1) * Columns = m * Columns + Columns
         /\ Rows * Columns = Cells
<1>1. Columns \in Nat /\ Rows \in Nat  BY Sizes
<1> QED  BY <1>1 DEF Cells

(* A letter goes behind the line.                                           *)
LEMMA LetterKeeps ==
  ASSUME NEW s \in OnScreen, NEW line \in Seq(Nat), Line(s, line), NEW c \in Nat \ {NL, BS}
  PROVE  Line(vga_print_char(s, c), Append(line, c))
<1> DEFINE t == vga_print_char(s, c)
           p == Place(s, c)
           b == [s.buff EXCEPT ![s.index] = c]
<1>1. /\ s.buff \in [0 .. Cells - 1 -> Nat] /\ s.index \in Nat /\ s.index < Cells
      /\ s.limit \in Nat /\ s.limit < Cells /\ s.moved \in Nat /\ s.moved <= Rows
  BY Fields, Sizes DEF OnScreen
<1>2. /\ p \in Screen /\ p.index = s.index + 1 /\ p.buff = b
  BY Placed DEF OnScreen
<1>3. /\ t.index = Scroll(p).index /\ t.buff = Scroll(p).buff /\ t.limit = s.limit
      /\ t.moved = IF p.index >= Cells /\ s.moved < Rows THEN s.moved + 1 ELSE s.moved
  BY CharPrinted DEF OnScreen
<1>4. /\ b[s.index] = c
      /\ \A k \in 0 .. Cells - 1 : k # s.index => b[k] = s.buff[k]
  BY <1>1, Sizes
<1>5. /\ Append(line, c) \in Seq(Nat) /\ Len(Append(line, c)) = Len(line) + 1
      /\ Append(line, c)[Len(line) + 1] = c
      /\ \A k \in 1 .. Len(line) : Append(line, c)[k] = line[k]
      /\ DOMAIN Append(line, c) = 1 .. Len(line) + 1
      /\ Len(line) \in Nat /\ DOMAIN line = 1 .. Len(line)
  OBVIOUS
<1> DEFINE e == s.moved * Columns
           more == Append(line, c)
<1>6. e \in Nat  BY <1>1, MovedUp
<1>7. End(s) = s.limit - e  BY DEF End
<1> HIDE DEF t, p, b, e, more
<1>8. CASE s.index + 1 < Cells
  <2>1. Scroll(p) = p  BY <1>2, <1>8, Scrolled
  <2>2. t.index = s.index + 1 /\ t.buff = b /\ t.limit = s.limit /\ t.moved = s.moved
    BY <1>1, <1>2, <1>3, <1>8, <2>1, Sizes
  <2>3. ASSUME s.moved = 0 PROVE Echo(t, more)
    <3>1. s.index = s.limit + Len(line) /\ Are(s, s.limit, line)
      BY <2>3 DEF Line, Echo
    <3>2. ASSUME NEW k \in 1 .. Len(line) + 1
          PROVE  s.limit + k - 1 \in 0 .. Cells - 1 /\ b[s.limit + k - 1] = more[k]
      <4>1. CASE k = Len(line) + 1
        BY <1>1, <1>4, <1>5, <3>1, <4>1, Sizes DEF more
      <4>2. CASE k # Len(line) + 1
        <5>1. k \in 1 .. Len(line) /\ s.limit + k - 1 # s.index
          BY <1>1, <1>5, <3>1, <4>2
        <5>2. s.limit + k - 1 \in 0 .. Cells - 1 /\ s.buff[s.limit + k - 1] = line[k]
          BY <1>5, <3>1, <5>1 DEF Are
        <5> QED  BY <1>4, <1>5, <5>1, <5>2 DEF more
      <4> QED  BY <4>1, <4>2
    <3>3. DOMAIN more = 1 .. Len(line) + 1 /\ Len(more) = Len(line) + 1  BY <1>5 DEF more
    <3>4. Are(t, s.limit, more)  BY <2>2, <3>2, <3>3 DEF Are
    <3>5. s.index + 1 = s.limit + (Len(line) + 1)
      <4>1. s.limit \in Nat /\ Len(line) \in Nat /\ s.index = s.limit + Len(line)
        BY <1>1, <1>5, <3>1
      <4> QED  BY <4>1
    <3> QED  BY <2>2, <3>3, <3>4, <3>5 DEF Echo
  <2>4. Stands(t)
    <3>1. End(t) = End(s)  BY <2>2 DEF End
    <3> SUFFICES ASSUME End(s) - Len(Prompt) >= 0
                 PROVE  End(s) <= s.index + 1 /\ Are(t, End(s) - Len(Prompt), Prompt)
      BY <2>2, <3>1 DEF Stands
    <3>2. End(s) \in Int  BY <1>1, <1>6, <1>7
    <3>3. End(s) <= s.index /\ Are(s, End(s) - Len(Prompt), Prompt)  BY DEF Line, Stands
    <3> DEFINE from == End(s) - Len(Prompt)
    <3>4. ASSUME NEW k \in 1 .. Len(Prompt)
          PROVE  from + k - 1 \in 0 .. Cells - 1 /\ b[from + k - 1] = Prompt[k]
      <4>1. from + k - 1 \in 0 .. Cells - 1 /\ s.buff[from + k - 1] = Prompt[k]
        BY <3>3, PromptShape DEF Are
      <4>2. from + k - 1 # s.index  BY <1>1, <3>2, <3>3, PromptShape
      <4> HIDE DEF from
      <4> QED  BY <1>4, <4>1, <4>2
    <3> HIDE DEF from
    <3>5. Are(t, from, Prompt)  BY <2>2, <3>4, PromptShape DEF Are
    <3> QED  BY <1>1, <3>2, <3>3, <3>5 DEF from
  <2> QED  BY <2>2, <2>3, <2>4 DEF Line, t, more
<1>9. CASE s.index + 1 >= Cells
  <2>1. s.index = Cells - 1
    <3>1. s.index \in Nat /\ Cells \in Nat /\ s.index < Cells  BY <1>1, Sizes
    <3> QED  BY <1>9, <3>1
  <2>2. /\ t.index = Cells - Columns
        /\ \A k \in 0 .. Cells - Columns - 1 : t.buff[k] = b[k + Columns]
    BY <1>2, <1>3, <1>9, Scrolled
  <2>3. t.limit = s.limit
        /\ t.moved = IF s.moved < Rows THEN s.moved + 1 ELSE s.moved
    BY <1>2, <1>3, <1>9
  <2>4. t.moved # 0  BY <1>1, <2>3, Sizes
  <2>5. Stands(t)
    <3>1. CASE s.moved < Rows
      <4>1. t.moved * Columns = e + Columns  BY <1>1, <2>3, <3>1, MovedUp DEF e
      <4>2. End(t) = s.limit - (e + Columns)  BY <2>3, <4>1 DEF End
      <4> DEFINE from == End(s) - Len(Prompt)
                 to == End(t) - Len(Prompt)
      <4>3. End(s) \in Int /\ End(t) = End(s) - Columns /\ from \in Int /\ to = from - Columns
        <5>1. Columns \in Nat /\ Len(Prompt) \in Nat  BY Sizes, PromptShape
        <5>2. End(s) \in Int /\ End(t) = End(s) - Columns
          BY <1>1, <1>6, <1>7, <4>2, <5>1
        <5> QED  BY <5>1, <5>2
      <4> SUFFICES ASSUME to >= 0
                   PROVE  End(t) <= t.index /\ Are(t, to, Prompt)
        BY DEF Stands
      <4>4. from >= 0  BY <4>3, Sizes
      <4>5. End(s) <= s.index /\ Are(s, from, Prompt)  BY <4>4 DEF Line, Stands
      <4>6. ASSUME NEW k \in 1 .. Len(Prompt)
            PROVE  to + k - 1 \in 0 .. Cells - 1 /\ t.buff[to + k - 1] = Prompt[k]
        <5>1. from + k - 1 \in 0 .. Cells - 1 /\ s.buff[from + k - 1] = Prompt[k]
          BY <4>5, PromptShape DEF Are
        <5>2. from + k - 1 < s.index  BY <1>1, <4>3, <4>5, PromptShape
        <5>3. /\ to + k - 1 \in 0 .. Cells - Columns - 1
              /\ (to + k - 1) + Columns = from + k - 1
              /\ to + k - 1 \in 0 .. Cells - 1
          <6>1. /\ Len(Prompt) \in Nat /\ Cells \in Nat /\ Columns \in Nat
                /\ Columns < Cells /\ from \in Int /\ to = from - Columns /\ to >= 0
            BY <4>3, Sizes, PromptShape
          <6>2. s.index = Cells - 1 /\ from + k - 1 < s.index  BY <2>1, <5>2
          <6> HIDE DEF from, to
          <6> QED  BY <6>1, <6>2
        <5> HIDE DEF from, to
        <5>4. t.buff[to + k - 1] = b[from + k - 1]  BY <2>2, <5>3
        <5>5. b[from + k - 1] = s.buff[from + k - 1]  BY <1>1, <1>4, <5>1, <5>2
        <5> QED  BY <5>1, <5>3, <5>4, <5>5
      <4>7. Are(t, to, Prompt)
        <5> HIDE DEF to
        <5> QED  BY <4>6, PromptShape DEF Are
      <4>8. End(t) <= t.index  BY <1>1, <2>1, <2>2, <4>3, <4>5, Sizes
      <4> QED  BY <4>7, <4>8
    <3>2. CASE ~(s.moved < Rows)
      <4>1. t.moved = Rows  BY <1>1, <2>3, <3>2, Sizes
      <4>2. End(t) = s.limit - Cells  BY <1>1, <2>3, <4>1, MovedUp DEF End
      <4>3. ~(End(t) - Len(Prompt) >= 0)  BY <1>1, <4>2, Sizes, PromptShape
      <4> QED  BY <4>3 DEF Stands
    <3> QED  BY <3>1, <3>2
  <2> QED  BY <2>4, <2>5 DEF Line, t, more
<1> QED  BY <1>1, <1>8, <1>9, Sizes

LEMMA FrontShape ==
  ASSUME NEW S, NEW line \in Seq(S), line # <<>>
  PROVE  /\ Len(line) \in Nat \ {0} /\ Len(Front(line)) = Len(line) - 1
         /\ \A k \in 1 .. Len(line) - 1 : Front(line)[k] = line[k]
         /\ DOMAIN Front(line) = 1 .. Len(line) - 1 /\ DOMAIN line = 1 .. Len(line)
         /\ Front(line) \in Seq(S)
<1> DEFINE n == Len(line) - 1
<1>1. n \in Nat /\ Len(line) = n + 1 /\ DOMAIN line = 1 .. Len(line)
  BY EmptySeq
<1>2. \A k \in 1 .. n : line[k] \in S  BY <1>1
<1>3. Front(line) = [k \in 1 .. n |-> line[k]]  BY <1>1 DEF Front
<1>4. /\ Front(line) \in Seq(S) /\ Len(Front(line)) = n
      /\ DOMAIN Front(line) = 1 .. n /\ \A k \in 1 .. n : Front(line)[k] = line[k]
  <2> HIDE DEF n
  <2> QED  BY <1>1, <1>2, <1>3
<1> QED  BY <1>1, <1>4

(* Backspace takes the last character of the line away, and nothing else.   *)
LEMMA BackspaceKeeps ==
  ASSUME NEW s \in OnScreen, NEW line \in Seq(Nat), line # <<>>, Line(s, line)
  PROVE  Line(vga_print_char(s, BS), Front(line))
<1> DEFINE t == vga_print_char(s, BS)
           p == Place(s, BS)
           b == [s.buff EXCEPT ![s.index - 1] = SPACE]
<1>1. /\ s.buff \in [0 .. Cells - 1 -> Nat] /\ s.index \in Nat /\ s.index < Cells
      /\ s.limit \in Nat /\ s.limit < Cells /\ s.moved \in Nat
  BY Fields, Sizes DEF OnScreen
<1>2. BS \in Nat  BY DEF BS
<1>3. /\ p \in Screen /\ p.limit = s.limit
      /\ s.index > s.limit => p.index = s.index - 1 /\ p.buff = b
      /\ ~(s.index > s.limit) => p = s
  BY <1>2, Placed DEF OnScreen
<1>4. p.index < Cells
  <2>1. s.index - 1 < Cells  BY <1>1, Sizes
  <2> QED  BY <1>1, <1>3, <2>1
<1>5. /\ t.index = Scroll(p).index /\ t.buff = Scroll(p).buff /\ t.limit = s.limit
      /\ t.moved = IF p.index >= Cells /\ s.moved < Rows THEN s.moved + 1 ELSE s.moved
  BY <1>2, CharPrinted DEF OnScreen
<1>6. t.index = p.index /\ t.buff = p.buff /\ t.limit = s.limit /\ t.moved = s.moved
  <2>1. Scroll(p) = p  BY <1>3, <1>4, Scrolled
  <2>2. ~(p.index >= Cells)  BY <1>3, <1>4, Fields, Sizes
  <2> QED  BY <1>5, <2>1, <2>2
<1>7. \A k \in 0 .. Cells - 1 : k # s.index - 1 => b[k] = s.buff[k]  BY <1>1
<1>8. /\ Len(line) \in Nat \ {0} /\ Len(Front(line)) = Len(line) - 1
      /\ \A k \in 1 .. Len(line) - 1 : Front(line)[k] = line[k]
      /\ DOMAIN Front(line) = 1 .. Len(line) - 1 /\ DOMAIN line = 1 .. Len(line)
      /\ Front(line) \in Seq(Nat)
  BY FrontShape
<1> DEFINE e == s.moved * Columns
           less == Front(line)
<1>9. e \in Nat  BY <1>1, MovedUp
<1>10. End(s) = s.limit - e /\ End(t) = End(s)  BY <1>6 DEF End
<1> HIDE DEF t, p, b, e, less
<1>11. ASSUME s.moved = 0 PROVE Echo(t, less)
  <2>1. s.index = s.limit + Len(line) /\ Are(s, s.limit, line)  BY <1>11 DEF Line, Echo
  <2>2. s.index > s.limit  BY <1>1, <1>8, <2>1
  <2>3. ASSUME NEW k \in 1 .. Len(line) - 1
        PROVE  s.limit + k - 1 \in 0 .. Cells - 1 /\ b[s.limit + k - 1] = less[k]
    <3>1. k \in 1 .. Len(line) /\ s.limit + k - 1 # s.index - 1
      <4> DEFINE n == Len(line)
      <4>1. n \in Nat /\ k \in 1 .. n - 1 /\ s.index = s.limit + n  BY <1>8, <2>1
      <4> HIDE DEF n
      <4>2. k \in 1 .. n /\ s.limit + k - 1 # s.index - 1  BY <1>1, <4>1
      <4> QED  BY <4>2 DEF n
    <3>2. s.limit + k - 1 \in 0 .. Cells - 1 /\ s.buff[s.limit + k - 1] = line[k]
      BY <1>8, <2>1, <3>1 DEF Are
    <3> QED  BY <1>7, <1>8, <3>1, <3>2 DEF less
  <2>4. t.buff = b /\ t.index = s.index - 1  BY <1>3, <1>6, <2>2
  <2>5. DOMAIN less = 1 .. Len(line) - 1 /\ Len(less) = Len(line) - 1  BY <1>8 DEF less
  <2>6. Are(t, s.limit, less)  BY <2>3, <2>4, <2>5 DEF Are
  <2>7. s.index - 1 = s.limit + (Len(line) - 1)  BY <1>1, <1>8, <2>1
  <2> QED  BY <1>6, <2>4, <2>5, <2>6, <2>7 DEF Echo
<1>12. Stands(t)
  <2> DEFINE from == End(s) - Len(Prompt)
  <2> SUFFICES ASSUME from >= 0 PROVE End(s) <= p.index /\ Are(t, from, Prompt)
    BY <1>6, <1>10 DEF Stands
  <2>1. End(s) \in Int /\ End(s) <= s.limit  BY <1>1, <1>9, <1>10
  <2>2. End(s) <= s.index /\ Are(s, from, Prompt)  BY DEF Line, Stands
  <2>3. CASE s.index > s.limit
    <3>1. ASSUME NEW k \in 1 .. Len(Prompt)
          PROVE  from + k - 1 \in 0 .. Cells - 1 /\ b[from + k - 1] = Prompt[k]
      <4>1. from + k - 1 \in 0 .. Cells - 1 /\ s.buff[from + k - 1] = Prompt[k]
        BY <2>2, PromptShape DEF Are
      <4>2. from + k - 1 # s.index - 1  BY <1>1, <2>1, <2>3, PromptShape
      <4> HIDE DEF from
      <4> QED  BY <1>7, <4>1, <4>2
    <3>2. t.buff = b /\ p.index = s.index - 1  BY <1>3, <1>6, <2>3
    <3> HIDE DEF from
    <3>3. Are(t, from, Prompt)  BY <3>1, <3>2, PromptShape DEF Are
    <3>4. End(s) <= s.index - 1  BY <1>1, <2>1, <2>3
    <3> QED  BY <3>2, <3>3, <3>4
  <2>4. CASE ~(s.index > s.limit)
    <3>1. t.buff = s.buff /\ p.index = s.index  BY <1>3, <1>6, <2>4
    <3> HIDE DEF from
    <3> QED  BY <2>2, <3>1 DEF Are
  <2> QED  BY <2>3, <2>4
<1>13. t.moved = 0 => s.moved = 0  BY <1>6
<1> QED  BY <1>11, <1>12, <1>13 DEF Line, t, less
--------------------------------------------------------------------------------
(* Printing the prompt.  Written: the first n characters of it stand before *)
(* the cursor, as far as they have not scrolled out.                        *)
Written(s, n) ==
  \A k \in 1 .. n : s.index - n + k - 1 >= 0 => s.buff[s.index - n + k - 1] = Prompt[k]

(* The cells before the cursor scroll with it.                              *)
LEMMA WrittenScrolls ==
  ASSUME NEW s \in Screen, NEW n \in 0 .. Len(Prompt), s.index <= Cells, Written(s, n)
  PROVE  Written(Scroll(s), n)
<1>1. /\ s.index \in Nat /\ Scroll(s).index \in Nat /\ n \in Nat  BY Scrolled, Fields, PromptShape
<1>2. CASE s.index < Cells
  <2>1. Scroll(s) = s  BY <1>2, Scrolled
  <2> QED  BY <2>1
<1>3. CASE s.index >= Cells
  <2> DEFINE t == Scroll(s)
  <2>1. s.index = Cells  BY <1>1, <1>3, Sizes
  <2>2. /\ t.index = Cells - Columns
        /\ \A k \in 0 .. Cells - Columns - 1 : t.buff[k] = s.buff[k + Columns]
    BY <1>3, Scrolled
  <2> HIDE DEF t
  <2>3. ASSUME NEW k \in 1 .. n, t.index - n + k - 1 >= 0
        PROVE  t.buff[t.index - n + k - 1] = Prompt[k]
    <3> DEFINE c == t.index - n + k - 1
               d == s.index - n + k - 1
    <3>1. c \in 0 .. Cells - Columns - 1 /\ d = c + Columns /\ d >= 0
      BY <1>1, <2>1, <2>2, <2>3, Sizes
    <3>2. s.buff[d] = Prompt[k]  BY <3>1 DEF Written
    <3> HIDE DEF c, d
    <3>3. t.buff[c] = s.buff[d]  BY <2>2, <3>1
    <3> QED  BY <3>2, <3>3 DEF c
  <2> QED  BY <2>3 DEF Written, t
<1> QED  BY <1>1, <1>2, <1>3, Sizes

LEMMA Before ==
  \A i, n \in Nat : \A k \in 1 .. n - 1 :
    LET c == i - (n - 1) + k - 1
    IN  c \in Int /\ c < i /\ c = (i + 1) - n + k - 1
OBVIOUS

(* The next character of the prompt under the cursor, which then moves on.  *)
LEMMA WrittenGrows ==
  ASSUME NEW s \in Screen, NEW n \in 1 .. Len(Prompt), s.index < Cells,
         NEW t \in Screen, t.index = s.index + 1, t.buff = [s.buff EXCEPT ![s.index] = Prompt[n]],
         Written(s, n - 1)
  PROVE  Written(t, n)
<1>1. s.index \in Nat /\ s.buff \in [0 .. Cells - 1 -> Nat] /\ n \in Nat /\ Cells \in Nat
  BY Fields, PromptShape, Sizes
<1>2. /\ t.buff[s.index] = Prompt[n]
      /\ \A k \in 0 .. Cells - 1 : k # s.index => t.buff[k] = s.buff[k]
  BY <1>1
<1>3. ASSUME NEW k \in 1 .. n, t.index - n + k - 1 >= 0
      PROVE  t.buff[t.index - n + k - 1] = Prompt[k]
  <2>1. CASE k = n  BY <1>1, <1>2, <2>1
  <2>2. CASE k # n
    <3> DEFINE c == s.index - (n - 1) + k - 1
    <3>1. k \in 1 .. n - 1 /\ k \in Nat  BY <1>1, <2>2
    <3>2. c \in Int /\ c < s.index /\ c = (s.index + 1) - n + k - 1
      BY <1>1, <3>1, Before, Zenon
    <3>3. c >= 0 /\ c = t.index - n + k - 1  BY <1>3, <3>2
    <3>4. c \in 0 .. Cells - 1 /\ c # s.index
      <4>1. c \in Int /\ 0 <= c /\ c < s.index  BY <3>2, <3>3
      <4> HIDE DEF c
      <4> QED  BY <1>1, <4>1
    <3>5. s.buff[c] = Prompt[k]  BY <3>1, <3>3 DEF Written
    <3> HIDE DEF c
    <3> QED  BY <1>2, <3>3, <3>4, <3>5
  <2> QED  BY <2>1, <2>2
<1> QED  BY <1>3 DEF Written

(* One character of the prompt as the handler prints it.                    *)
LEMMA PromptGrows ==
  ASSUME NEW s \in Screen, s.index < Cells, NEW n \in 1 .. Len(Prompt), Written(s, n - 1)
  PROVE  Written(vga_print_char(s, Prompt[n]), n)
<1>1. Prompt[n] \in Nat \ {NL, BS} /\ n \in 0 .. Len(Prompt)  BY PromptShape
<1> DEFINE p == Place(s, Prompt[n])
           t == vga_print_char(s, Prompt[n])
<1>2. /\ p \in Screen /\ p.index = s.index + 1
      /\ p.buff = [s.buff EXCEPT ![s.index] = Prompt[n]]
  BY <1>1, Placed
<1>3. Written(p, n)
  <2> HIDE DEF p
  <2> QED  BY <1>2, WrittenGrows
<1>4. p.index <= Cells  BY <1>2, Fields, Sizes
<1>5. Written(Scroll(p), n)
  <2> HIDE DEF p
  <2> QED  BY <1>1, <1>2, <1>3, <1>4, WrittenScrolls
<1>6. t.index = Scroll(p).index /\ t.buff = Scroll(p).buff  BY <1>1, CharPrinted
<1> HIDE DEF t, p
<1>7. Written(t, n)  BY <1>5, <1>6 DEF Written
<1> QED  BY <1>7 DEF t

LEMMA PrintedOn ==
  ASSUME NEW s \in OnScreen, NEW str \in Seq(Nat)
  PROVE  vga_print(s, str) \in OnScreen
  BY Printed DEF OnScreen

(* The new line, then the whole prompt.                                     *)
LEMMA PromptPrinted ==
  ASSUME NEW s \in OnScreen
  PROVE  LET after == vga_print(s, <<NL>> \o Prompt)
         IN  after \in OnScreen /\ Written(after, Len(Prompt))
<1> DEFINE str == <<NL>> \o Prompt
           n == Len(Prompt)
<1>1. n \in Nat /\ Prompt \in Seq(Nat) /\ NL \in Nat  BY PromptShape DEF NL
<1>2. str \in Seq(Nat) /\ Len(str) = n + 1 /\ \A k \in 1 .. n : str[k + 1] = Prompt[k]
  <2>1. <<NL>> \in Seq(Nat) /\ Len(<<NL>>) = 1  BY <1>1
  <2>2. str \in Seq(Nat)  BY <1>1, <2>1, ConcatProperties
  <2> QED  BY <1>1, <2>1, <2>2
<1> HIDE DEF str, n
<1>3. s \in Screen  BY DEF OnScreen
<1>4. PICK g : PrintedBy(g, s, str)  BY <1>2, <1>3, Printing
<1>5. ASSUME NEW k \in 0 .. n
      PROVE  g[k + 1] \in Screen /\ g[k + 1].index < Cells
  <2>1. k \in 0 .. Len(str) /\ k + 1 \in 1 .. Len(str) /\ (k + 1) - 1 = k  BY <1>1, <1>2
  <2>2. g[k] \in Screen /\ str[k + 1] \in Nat
    <3>1. g[k] \in Screen  BY <1>4, <2>1 DEF PrintedBy
    <3>2. str[k + 1] \in Nat  BY <1>2, <2>1
    <3> QED  BY <3>1, <3>2
  <2>3. g[k + 1] = vga_print_char(g[k], str[k + 1])  BY <1>4, <2>1 DEF PrintedBy
  <2> QED  BY <2>2, <2>3, CharPrinted
<1> DEFINE Bad == {k \in 0 .. n : ~Written(g[k + 1], k)}
<1>6. Bad = {}
  <2> SUFFICES ASSUME Bad # {} PROVE FALSE
    OBVIOUS
  <2>1. Bad \in SUBSET Nat  BY <1>1
  <2>2. PICK m \in Bad : \A y \in Bad : m <= y  BY <2>1, LeastElement
  <2>3. m # 0
    <3>1. Written(g[0 + 1], 0)  BY DEF Written
    <3> QED  BY <2>2, <3>1
  <2>4. /\ m \in 1 .. n /\ m - 1 \in 0 .. n /\ ~(m <= m - 1) /\ (m - 1) + 1 = m
        /\ m + 1 \in 1 .. Len(str) /\ (m + 1) - 1 = m
    BY <1>1, <1>2, <2>2, <2>3
  <2>5. Written(g[m], m - 1)  BY <2>2, <2>4
  <2>6. g[m] \in Screen /\ g[m].index < Cells  BY <1>5, <2>4
  <2>7. g[m + 1] = vga_print_char(g[m], Prompt[m])
    BY <1>2, <1>4, <2>4 DEF PrintedBy
  <2>8. m \in 1 .. Len(Prompt)  BY <2>4 DEF n
  <2>9. Written(g[m + 1], m)  BY <2>5, <2>6, <2>7, <2>8, PromptGrows
  <2> QED  BY <2>2, <2>9
<1>7. n \in 0 .. n /\ n + 1 = Len(str)  BY <1>1, <1>2
<1>8. Written(g[n + 1], n)  BY <1>6, <1>7
<1>9. g[n + 1] = vga_print(s, str)  BY <1>4, <1>7 DEF PrintedBy
<1>10. vga_print(s, str) \in OnScreen  BY <1>2, PrintedOn
<1> QED  BY <1>8, <1>9, <1>10 DEF str, n

LockAt(s, l) == [s EXCEPT !.limit = l, !.moved = 0]

LEMMA Locked ==
  ASSUME NEW s \in Screen, s.index < Cells, NEW l \in Nat, l < Cells
  PROVE  /\ LockAt(s, l) \in OnScreen /\ LockAt(s, l).limit = l /\ LockAt(s, l).moved = 0
         /\ LockAt(s, l).index = s.index /\ LockAt(s, l).buff = s.buff
<1>1. LockAt(s, l) = [buff |-> s.buff, index |-> s.index, limit |-> l, moved |-> 0]
  <2>1. [s EXCEPT !.limit = l]
          = [buff |-> s.buff, index |-> s.index, limit |-> l, moved |-> s.moved]
    BY DEF Screen
  <2>2. LockAt(s, l) = [[s EXCEPT !.limit = l] EXCEPT !.moved = 0]  BY DEF LockAt
  <2> QED  BY <2>1, <2>2
<1>2. 0 \in 0 .. Rows  BY Sizes
<1> QED  BY <1>1, <1>2, Fields DEF OnScreen, Screen

(* Behind a prompt that was just printed the line is empty.                 *)
LEMMA LineStarts ==
  ASSUME NEW s \in OnScreen, Written(s, Len(Prompt))
  PROVE  LockAt(s, s.index) \in OnScreen /\ Line(LockAt(s, s.index), <<>>)
<1> DEFINE n == Len(Prompt)
           c(k) == s.index - n + k - 1
           t == LockAt(s, s.index)
<1>1. s \in Screen /\ s.index \in Nat /\ s.index < Cells  BY Fields DEF OnScreen
<1>2. /\ t \in OnScreen /\ t.limit = s.index /\ t.moved = 0
      /\ t.index = s.index /\ t.buff = s.buff
  BY <1>1, Locked
<1> HIDE DEF t
<1>3. Echo(t, <<>>)  BY <1>1, <1>2 DEF Echo, Are
<1>4. End(t) = s.index
  <2>1. 0 * Columns = 0  BY Sizes
  <2> QED  BY <1>1, <1>2, <2>1 DEF End
<1>5. ASSUME s.index - n >= 0, NEW k \in 1 .. n
      PROVE  c(k) \in 0 .. Cells - 1 /\ t.buff[c(k)] = Prompt[k]
  <2>1. n \in Nat  BY PromptShape
  <2>2. c(k) >= 0 /\ c(k) \in 0 .. Cells - 1
    <3> HIDE DEF n
    <3> QED  BY <1>1, <1>5, <2>1, Sizes
  <2>3. s.buff[c(k)] = Prompt[k]  BY <2>2 DEF Written
  <2> QED  BY <1>2, <2>2, <2>3
<1>6. Stands(t)
  <2> SUFFICES ASSUME s.index - n >= 0 PROVE s.index <= t.index /\ Are(t, s.index - n, Prompt)
    BY <1>4 DEF Stands
  <2>1. Are(t, s.index - n, Prompt)  BY <1>5, PromptShape DEF Are
  <2> QED  BY <1>1, <1>2, <2>1
<1> QED  BY <1>2, <1>3, <1>6 DEF Line, t

LEMMA NewPrompted ==
  ASSUME NEW s \in OnScreen
  PROVE  NewPrompt(s) \in OnScreen /\ Line(NewPrompt(s), <<>>)
<1> DEFINE after == vga_print(s, <<NL>> \o Prompt)
<1>1. after \in OnScreen /\ Written(after, Len(Prompt))  BY PromptPrinted
<1>2. NewPrompt(s) = LockAt(after, after.index)
  BY DEF NewPrompt, vga_lock_cursor, LockAt
<1> HIDE DEF after
<1> QED  BY <1>1, <1>2, LineStarts

LEMMA Cleared ==
  ASSUME NEW s \in OnScreen
  PROVE  vga_clear_screen(s) \in OnScreen
<1> DEFINE b == [k \in 0 .. Cells - 1 |-> SPACE]
<1>1. b \in [0 .. Cells - 1 -> Nat]  BY DEF SPACE
<1>2. vga_clear_screen(s) = [s EXCEPT !.buff = b, !.index = 0]  BY DEF vga_clear_screen
<1> HIDE DEF b
<1>3. s \in Screen  BY DEF OnScreen
<1>4. vga_clear_screen(s) = Redraw(s, b, 0, s.moved)  BY <1>2, <1>3, Fields DEF Redraw
<1>5. /\ Redraw(s, b, 0, s.moved) \in Screen
      /\ Redraw(s, b, 0, s.moved).index = 0 /\ Redraw(s, b, 0, s.moved).limit = s.limit
  BY <1>1, <1>3, Redrawn, Fields
<1> QED  BY <1>4, <1>5, Sizes DEF OnScreen

LEMMA Logged ==
  ASSUME NEW s \in OnScreen
  PROVE  klog(s, LogText) \in OnScreen /\ os_greeting(s, LogText) \in OnScreen
<1>1. <<NL>> \in Seq(Nat) /\ LogPrefix \in Seq(Nat) /\ LogText \in Seq(Nat)
  BY ConsoleAssumption DEF NL
<1>2. LogPrefix \o LogText \in Seq(Nat) /\ LogText \o <<NL>> \in Seq(Nat)
  BY <1>1, ConcatProperties
<1>3. LogPrefix \o LogText \o <<NL>> \in Seq(Nat)  BY <1>1, <1>2, ConcatProperties
<1> QED  BY <1>2, <1>3, PrintedOn DEF klog, os_greeting

(* The screen as boot leaves it.                                            *)
LEMMA BootLogs ==
  ASSUME NEW lines \in LogLines
  PROVE  Booted(lines) \in OnScreen
<1> DEFINE none == [buff |-> <<>>, index |-> 0, limit |-> 0, moved |-> 0]
           dark == vga_clear_screen(none)
           T == OnScreen
           step == [x \in (0 + 1 .. lines) \X T |-> klog(x[2], LogText)]
           R(h) == h = [n \in 0 .. lines |-> IF n = 0 THEN dark ELSE klog(h[n - 1], LogText)]
           f == CHOOSE h : R(h)
<1>1. lines \in Nat  BY ConsoleAssumption
<1>2. dark \in T
  <2> DEFINE b == [k \in 0 .. Cells - 1 |-> SPACE]
  <2>1. b \in [0 .. Cells - 1 -> Nat]  BY DEF SPACE
  <2>2. dark = [none EXCEPT !.buff = b, !.index = 0]  BY DEF vga_clear_screen
  <2> HIDE DEF b
  <2>3. dark = [buff |-> b, index |-> 0, limit |-> 0, moved |-> 0]  BY <2>2
  <2>4. 0 \in 0 .. Rows /\ 0 < Cells  BY Sizes
  <2> QED  BY <2>1, <2>3, <2>4 DEF OnScreen, Screen
<1>3. \A s \in T : klog(s, LogText) \in T  BY Logged
<1> HIDE DEF dark, T
<1>4. Step(T, 0, lines, dark, step)
  <2>1. ASSUME NEW x \in (0 + 1 .. lines) \X T PROVE klog(x[2], LogText) \in T
    <3>1. x[2] \in T  OBVIOUS
    <3> QED  BY <1>3, <3>1
  <2> QED  BY <1>1, <1>2, <2>1 DEF Step
<1>5. PICK g : Stepped(T, 0, lines, dark, step, g)
  <2> HIDE DEF step
  <2> QED  BY <1>4, Stepping
<1>6. g \in [0 .. lines -> T] /\ g[0] = dark  BY <1>5 DEF Stepped
<1>7. ASSUME NEW k \in 1 .. lines PROVE g[k] = klog(g[k - 1], LogText)
  <2>1. k \in 0 + 1 .. lines /\ k - 1 \in 0 .. lines  BY <1>1
  <2>2. g[k - 1] \in T  BY <1>6, <2>1
  <2>3. step[<<k, g[k - 1]>>] = klog(g[k - 1], LogText)  BY <2>1, <2>2
  <2> HIDE DEF step
  <2> QED  BY <1>5, <2>1, <2>3 DEF Stepped
<1>8. R(g)
  <2>1. ASSUME NEW n \in 0 .. lines
        PROVE  g[n] = IF n = 0 THEN dark ELSE klog(g[n - 1], LogText)
    <3>1. n # 0 => n \in 1 .. lines  BY <1>1
    <3> QED  BY <1>6, <1>7, <3>1
  <2> QED  BY <1>6, <2>1
<1>9. R(f)
  <2> HIDE DEF R
  <2> QED  BY <1>8
<1>10. Booted(lines) = klog(os_greeting(f[lines], LogText), LogText)
  BY DEF Booted, dark
<1> HIDE DEF f
<1>11. Stays(T, 0, lines, f)
  <2>1. f[0] = dark  BY <1>1, <1>9
  <2>2. ASSUME NEW k \in 0 + 1 .. lines PROVE f[k] = klog(f[k - 1], LogText)
    <3>1. k \in 0 .. lines /\ k # 0  BY <1>1
    <3> QED  BY <1>9, <3>1
  <2> QED  BY <1>1, <1>2, <1>3, <2>1, <2>2 DEF Stays
<1>12. f[lines] \in OnScreen
  <2>1. f[lines] \in T  BY <1>1, <1>11, Staying
  <2> QED  BY <2>1 DEF T
<1> QED  BY <1>10, <1>12, Logged
--------------------------------------------------------------------------------
(***************************************************************************)
(* The invariant.  On: whoever prints next finds the cursor on the screen,  *)
(* one past its end at most when the main thread is about to scroll.        *)
(* First: as long as no key interfered, the first prompt stands before the  *)
(* cursor up to the character the main thread has come to.  Edited: the     *)
(* line between prompt and cursor is the buffer.                            *)
(***************************************************************************)
On ==
  /\ screen \in Screen /\ screen.limit < Cells /\ screen.index <= Cells
  /\ main.pc # "scroll" => screen.index < Cells
  /\ main.pc \in {"cell", "store", "lock"} => main.reg < Cells
  /\ main.pc = "clear" => main.i <= Cells
  /\ main.pc = "put" => main.i \in 1 .. Len(Prompt) + 1
  /\ main.pc \in {"cell", "load", "store", "scroll"} => main.i \in 1 .. Len(Prompt)

First ==
  /\ main.pc # "hlt" => shell_buffer = <<>>
  /\ main.pc \in {"put", "cell", "load", "store"} => Written(screen, main.i - 1)
  /\ main.pc \in {"cell", "store", "lock"} => main.reg = screen.index
  /\ main.pc \in {"load", "store"} => screen.buff[screen.index] = Prompt[main.i]
  /\ main.pc = "scroll" => Written(screen, main.i)
  /\ main.pc = "lock" => Written(screen, Len(Prompt))

Edited == main.pc = "hlt" => Line(screen, shell_buffer)

IInv == TypeOK /\ On /\ (early = 0 /\ ~halted => First /\ Edited)
--------------------------------------------------------------------------------
(* The loop index of the main thread counts cells or characters.            *)
LEMMA Most ==
  LET most == Max({Cells, Len(Prompt) + 1})
  IN  most \in Nat /\ Cells <= most /\ Len(Prompt) + 1 <= most
<1> DEFINE a == Cells
           b == Len(Prompt) + 1
<1>1. a \in Nat /\ b \in Nat  BY Sizes, PromptShape
<1> HIDE DEF a, b
<1>2. \E x \in {a, b} : \A y \in {a, b} : x >= y  BY <1>1
<1>3. Max({a, b}) \in {a, b} /\ \A y \in {a, b} : Max({a, b}) >= y  BY <1>2 DEF Max
<1>4. Max({a, b}) \in Nat /\ a <= Max({a, b}) /\ b <= Max({a, b})  BY <1>1, <1>3
<1> QED  BY <1>4 DEF a, b

PCs == {"clear", "put", "cell", "load", "store", "scroll", "lock", "hlt"}

LEMMA Types ==
  TypeOK <=> /\ screen \in Screen
             /\ shell_buffer \in Seq(Keys \ {NUL, NL, BS}) /\ Len(shell_buffer) < BufferSize
             /\ main \in [pc : PCs, i : 0 .. Max({Cells, Len(Prompt) + 1}), reg : Nat]
             /\ halted \in BOOLEAN /\ early \in 0 .. EarlyKeys
  BY Zenon DEF TypeOK, Screen, PCs

LEMMA InitInv == Init => IInv
<1> SUFFICES ASSUME Init PROVE IInv
  OBVIOUS
<1>1. screen \in OnScreen  BY BootLogs DEF Init
<1>2. /\ main.pc = "clear" /\ main.i = 0 /\ main.reg = 0 /\ shell_buffer = <<>>
      /\ halted = FALSE /\ early = 0
  BY DEF Init
<1>3. screen \in Screen /\ screen.index < Cells /\ screen.limit < Cells /\ screen.index \in Nat
  BY <1>1, Fields DEF OnScreen
<1>4. TypeOK
  <2>1. Max({Cells, Len(Prompt) + 1}) \in Nat  BY Most
  <2>2. main = [pc |-> "clear", i |-> 0, reg |-> 0]  BY DEF Init
  <2>3. Len(shell_buffer) = 0 /\ shell_buffer \in Seq(Keys \ {NUL, NL, BS})  BY <1>2
  <2>4. BufferSize > 0 /\ EarlyKeys \in Nat  BY ConsoleAssumption
  <2>5. main \in [pc : PCs, i : 0 .. Max({Cells, Len(Prompt) + 1}), reg : Nat]
    <3> DEFINE most == Max({Cells, Len(Prompt) + 1})
    <3> HIDE DEF most
    <3>1. main \in [pc : PCs, i : 0 .. most, reg : Nat]  BY <2>1, <2>2 DEF PCs, most
    <3> QED  BY <3>1 DEF most
  <2>6. shell_buffer \in Seq(Keys \ {NUL, NL, BS}) /\ Len(shell_buffer) < BufferSize
    BY <2>3, <2>4, ConsoleAssumption
  <2>7. halted \in BOOLEAN  BY <1>2, Zenon
  <2>8. early \in 0 .. EarlyKeys
    <3>1. 0 \in 0 .. EarlyKeys  BY <2>4
    <3> QED  BY <1>2, <3>1, Zenon
  <2> QED  BY <1>3, <2>5, <2>6, <2>7, <2>8, Types, Zenon
<1>5. On  BY <1>2, <1>3, Sizes DEF On
<1>6. First /\ Edited  BY <1>2 DEF First, Edited
<1> QED  BY <1>4, <1>5, <1>6 DEF IInv
--------------------------------------------------------------------------------
(* The main thread.  What a step of it leaves alone, and where it goes.     *)
LEMMA TypesNext ==
  TypeOK' <=> /\ screen' \in Screen
              /\ shell_buffer' \in Seq(Keys \ {NUL, NL, BS}) /\ Len(shell_buffer') < BufferSize
              /\ main' \in [pc : PCs, i : 0 .. Max({Cells, Len(Prompt) + 1}), reg : Nat]
              /\ halted' \in BOOLEAN /\ early' \in 0 .. EarlyKeys
  BY Zenon DEF TypeOK, Screen, PCs

LEMMA Known ==
  ASSUME IInv
  PROVE  /\ screen \in Screen /\ screen.index \in Nat /\ screen.limit \in Nat
         /\ screen.buff \in [0 .. Cells - 1 -> Nat] /\ screen.moved \in 0 .. Rows
         /\ main.pc \in PCs /\ main.i \in Nat /\ main.reg \in Nat
         /\ Cells \in Nat /\ 0 < Cells
<1>1. screen \in Screen  BY DEF IInv, On
<1>2. main \in [pc : PCs, i : 0 .. Max({Cells, Len(Prompt) + 1}), reg : Nat]
  BY Types, Zenon DEF IInv
<1> DEFINE most == Max({Cells, Len(Prompt) + 1})
<1>3. most \in Nat  BY Most
<1> HIDE DEF most
<1>4. main \in [pc : PCs, i : 0 .. most, reg : Nat]  BY <1>2 DEF most
<1>5. main.pc \in PCs /\ main.i \in Nat /\ main.reg \in Nat  BY <1>3, <1>4
<1>6. Cells \in Nat /\ 0 < Cells  BY Sizes
<1> QED  BY <1>1, <1>5, <1>6, Fields

LEMMA Went ==
  ASSUME IInv, NEW pc \in PCs, NEW i \in Nat, i <= Cells \/ i <= Len(Prompt) + 1,
         NEW reg \in Nat, Goto(pc, i, reg), screen' \in Screen
  PROVE  /\ TypeOK' /\ main'.pc = pc /\ main'.i = i /\ main'.reg = reg
         /\ shell_buffer' = shell_buffer /\ early' = early /\ halted' = halted
<1>1. main' = [pc |-> pc, i |-> i, reg |-> reg]  BY DEF Goto
<1>2. shell_buffer' = shell_buffer /\ early' = early /\ halted' = halted  BY DEF Goto
<1> DEFINE most == Max({Cells, Len(Prompt) + 1})
<1>3. most \in Nat /\ Cells <= most /\ Len(Prompt) + 1 <= most  BY Most
<1>4. Cells \in Nat /\ Len(Prompt) \in Nat  BY Sizes, PromptShape
<1> HIDE DEF most
<1>5. i \in 0 .. most  BY <1>3, <1>4
<1>6. main' \in [pc : PCs, i : 0 .. most, reg : Nat]  BY <1>1, <1>5
<1>7. main' \in [pc : PCs, i : 0 .. Max({Cells, Len(Prompt) + 1}), reg : Nat]
  BY <1>6 DEF most
<1>8. /\ shell_buffer \in Seq(Keys \ {NUL, NL, BS}) /\ Len(shell_buffer) < BufferSize
      /\ halted \in BOOLEAN /\ early \in 0 .. EarlyKeys
  BY Types, Zenon DEF IInv
<1>9. TypeOK'  BY <1>2, <1>7, <1>8, TypesNext, Zenon
<1> QED  BY <1>1, <1>2, <1>9

(* A screen on which only the cells, or one of them, or the cursor changed. *)
LEMMA BuffSet ==
  ASSUME NEW s \in Screen, NEW b \in [0 .. Cells - 1 -> Nat]
  PROVE  /\ [s EXCEPT !.buff = b] \in Screen /\ [s EXCEPT !.buff = b].index = s.index
         /\ [s EXCEPT !.buff = b].limit = s.limit /\ [s EXCEPT !.buff = b].moved = s.moved
         /\ [s EXCEPT !.buff = b].buff = b
<1>1. [s EXCEPT !.buff = b] = Redraw(s, b, s.index, s.moved)  BY Fields DEF Redraw
<1>2. s.index \in Nat /\ s.moved \in 0 .. Rows  BY Fields
<1> QED  BY <1>1, <1>2, Redrawn

CellOf(s, k, c) == [s EXCEPT !.buff[k] = c]

LEMMA CellSet ==
  ASSUME NEW s \in Screen, NEW k \in Nat, NEW c \in Nat
  PROVE  /\ CellOf(s, k, c) \in Screen /\ CellOf(s, k, c).index = s.index
         /\ CellOf(s, k, c).limit = s.limit /\ CellOf(s, k, c).moved = s.moved
         /\ CellOf(s, k, c).buff = [s.buff EXCEPT ![k] = c]
<1> DEFINE b == [s.buff EXCEPT ![k] = c]
<1>1. b \in [0 .. Cells - 1 -> Nat]  BY Fields
<1>2. CellOf(s, k, c) = [s EXCEPT !.buff = b]  BY DEF CellOf
<1> HIDE DEF b
<1>3. /\ [s EXCEPT !.buff = b] \in Screen /\ [s EXCEPT !.buff = b].index = s.index
      /\ [s EXCEPT !.buff = b].limit = s.limit /\ [s EXCEPT !.buff = b].moved = s.moved
      /\ [s EXCEPT !.buff = b].buff = b
  BY <1>1, BuffSet
<1>4. /\ CellOf(s, k, c) \in Screen /\ CellOf(s, k, c).index = s.index
      /\ CellOf(s, k, c).limit = s.limit /\ CellOf(s, k, c).moved = s.moved
      /\ CellOf(s, k, c).buff = b
  BY <1>2, <1>3, Zenon
<1> QED  BY <1>4 DEF b

IndexAt(s, i) == [s EXCEPT !.index = i]

LEMMA IndexSet ==
  ASSUME NEW s \in Screen, NEW i \in Nat
  PROVE  /\ IndexAt(s, i) \in Screen /\ IndexAt(s, i).index = i
         /\ IndexAt(s, i).limit = s.limit /\ IndexAt(s, i).moved = s.moved
         /\ IndexAt(s, i).buff = s.buff
<1>1. IndexAt(s, i) = Redraw(s, s.buff, i, s.moved)  BY DEF Redraw, IndexAt, Screen
<1>2. s.buff \in [0 .. Cells - 1 -> Nat] /\ s.moved \in 0 .. Rows  BY Fields
<1> QED  BY <1>1, <1>2, Redrawn

LEMMA ClearKeeps == IInv /\ clear_cell => IInv'
<1> SUFFICES ASSUME IInv, clear_cell PROVE IInv'
  OBVIOUS
<1>1. /\ main.pc = "clear" /\ main.i < Cells /\ ~halted
      /\ screen' = CellOf(screen, main.i, SPACE)
      /\ Goto("clear", main.i + 1, 0)
  BY DEF clear_cell, Running, CellOf
<1>2. SPACE \in Nat  BY DEF SPACE
<1>3. /\ screen' \in Screen /\ screen'.index = screen.index /\ screen'.limit = screen.limit
  <2>1. screen \in Screen /\ main.i \in Nat  BY Known
  <2> QED  BY <1>1, <1>2, <2>1, CellSet
<1>4. main.i + 1 \in Nat /\ main.i + 1 <= Cells  BY <1>1, Known
<1>5. /\ TypeOK' /\ main'.pc = "clear" /\ main'.i = main.i + 1
      /\ shell_buffer' = shell_buffer /\ early' = early /\ halted' = halted
  BY <1>1, <1>3, <1>4, Went DEF PCs
<1>6. On'  BY <1>1, <1>3, <1>4, <1>5 DEF IInv, On
<1>7. ASSUME early' = 0, ~halted' PROVE First' /\ Edited'
  <2>1. First  BY <1>5, <1>7 DEF IInv
  <2> QED  BY <1>1, <1>5, <2>1 DEF First, Edited
<1> QED  BY <1>5, <1>6, <1>7 DEF IInv

LEMMA HomeKeeps == IInv /\ home => IInv'
<1> SUFFICES ASSUME IInv, home PROVE IInv'
  OBVIOUS
<1>1. /\ main.pc = "clear" /\ ~halted
      /\ screen' = IndexAt(screen, 0)
      /\ Goto("put", 1, 0)
  BY DEF home, Running, IndexAt
<1>2. /\ screen' \in Screen /\ screen'.index = 0 /\ screen'.limit = screen.limit
  <2>1. screen \in Screen /\ 0 \in Nat  BY Known
  <2> QED  BY <1>1, <2>1, IndexSet
<1>3. 1 \in Nat /\ 0 \in Nat /\ 1 <= Len(Prompt) + 1 /\ 1 \in 1 .. Len(Prompt) + 1
  BY PromptShape
<1>4. /\ TypeOK' /\ main'.pc = "put" /\ main'.i = 1
      /\ shell_buffer' = shell_buffer /\ early' = early /\ halted' = halted
  BY <1>1, <1>2, <1>3, Went DEF PCs
<1>5. 0 < Cells /\ 0 <= Cells  BY Sizes
<1>6. On'  BY <1>1, <1>2, <1>3, <1>4, <1>5 DEF IInv, On
<1>7. ASSUME early' = 0, ~halted' PROVE First' /\ Edited'
  <2>1. First  BY <1>4, <1>7 DEF IInv
  <2>2. Written(screen', 0)  BY DEF Written
  <2>3. main'.i - 1 = 0  BY <1>4
  <2> QED  BY <1>1, <1>4, <2>1, <2>2, <2>3 DEF First, Edited
<1> QED  BY <1>4, <1>6, <1>7 DEF IInv

LEMMA AimKeeps == IInv /\ aim => IInv'
<1> SUFFICES ASSUME IInv, aim PROVE IInv'
  OBVIOUS
<1>1. /\ main.pc = "put" /\ main.i <= Len(Prompt) /\ ~halted /\ screen' = screen
      /\ Goto("cell", main.i, screen.index)
  BY DEF aim, Running
<1>2. main.i \in 1 .. Len(Prompt) /\ main.i <= Len(Prompt) + 1
  BY <1>1, Known, PromptShape DEF IInv, On
<1>3. /\ TypeOK' /\ main'.pc = "cell" /\ main'.i = main.i /\ main'.reg = screen.index
      /\ shell_buffer' = shell_buffer /\ early' = early /\ halted' = halted
  BY <1>1, <1>2, Known, Went DEF PCs
<1>4. On'  BY <1>1, <1>2, <1>3 DEF IInv, On
<1>5. ASSUME early' = 0, ~halted' PROVE First' /\ Edited'
  <2>1. First  BY <1>3, <1>5 DEF IInv
  <2> QED  BY <1>1, <1>3, <2>1 DEF First, Edited
<1> QED  BY <1>3, <1>4, <1>5 DEF IInv

LEMMA PutKeeps == IInv /\ put => IInv'
<1> SUFFICES ASSUME IInv, put PROVE IInv'
  OBVIOUS
<1>1. /\ main.pc = "cell" /\ ~halted
      /\ screen' = CellOf(screen, main.reg, Prompt[main.i])
      /\ Goto("load", main.i, 0)
  BY DEF put, Running, CellOf
<1>2. main.i \in 1 .. Len(Prompt) /\ main.i <= Len(Prompt) + 1 /\ 0 \in Nat
  BY <1>1, Known, PromptShape DEF IInv, On
<1>3. Prompt[main.i] \in Nat  BY <1>2, PromptShape
<1>4. /\ screen' \in Screen /\ screen'.index = screen.index /\ screen'.limit = screen.limit
      /\ screen'.buff = [screen.buff EXCEPT ![main.reg] = Prompt[main.i]]
  <2>1. screen \in Screen /\ main.reg \in Nat  BY Known
  <2> QED  BY <1>1, <1>3, <2>1, CellSet
<1>5. /\ TypeOK' /\ main'.pc = "load" /\ main'.i = main.i
      /\ shell_buffer' = shell_buffer /\ early' = early /\ halted' = halted
  BY <1>1, <1>2, <1>4, Known, Went DEF PCs
<1>6. On'  BY <1>1, <1>2, <1>4, <1>5 DEF IInv, On
<1>7. ASSUME early' = 0, ~halted' PROVE First' /\ Edited'
  <2>1. /\ shell_buffer = <<>> /\ Written(screen, main.i - 1) /\ main.reg = screen.index
        /\ screen.index < Cells
    BY <1>1, <1>5, <1>7 DEF IInv, First, On
  <2>2. screen.index \in 0 .. Cells - 1  BY <2>1, Known
  <2>3. screen'.buff[screen'.index] = Prompt[main.i]
    BY <1>4, <2>1, <2>2, Known
  <2>4. ASSUME NEW k \in 1 .. main.i - 1, screen.index - (main.i - 1) + k - 1 >= 0
        PROVE  screen'.buff[screen.index - (main.i - 1) + k - 1] = Prompt[k]
    <3> DEFINE c == screen.index - (main.i - 1) + k - 1
    <3>1. c \in 0 .. Cells - 1 /\ c # screen.index
      <4>1. main.i \in Nat /\ screen.index \in Nat /\ Cells \in Nat  BY Known
      <4> QED  BY <2>2, <2>4, <4>1
    <3>2. screen.buff[c] = Prompt[k]  BY <2>1, <2>4 DEF Written
    <3> HIDE DEF c
    <3>3. screen'.buff[c] = screen.buff[c]  BY <1>4, <2>1, <3>1, Known
    <3> QED  BY <3>2, <3>3 DEF c
  <2>5. Written(screen', main.i - 1)  BY <1>4, <2>4 DEF Written
  <2> QED  BY <1>5, <2>1, <2>3, <2>5 DEF First, Edited
<1> QED  BY <1>5, <1>6, <1>7 DEF IInv

LEMMA LoadKeeps == IInv /\ load => IInv'
<1> SUFFICES ASSUME IInv, load PROVE IInv'
  OBVIOUS
<1>1. /\ main.pc = "load" /\ ~halted /\ screen' = screen
      /\ Goto("store", main.i, screen.index)
  BY DEF load, Running
<1>2. main.i \in 1 .. Len(Prompt) /\ main.i <= Len(Prompt) + 1
  BY <1>1, Known, PromptShape DEF IInv, On
<1>3. /\ TypeOK' /\ main'.pc = "store" /\ main'.i = main.i /\ main'.reg = screen.index
      /\ shell_buffer' = shell_buffer /\ early' = early /\ halted' = halted
  BY <1>1, <1>2, Known, Went DEF PCs
<1>4. On'  BY <1>1, <1>2, <1>3 DEF IInv, On
<1>5. ASSUME early' = 0, ~halted' PROVE First' /\ Edited'
  <2>1. First  BY <1>3, <1>5 DEF IInv
  <2> QED  BY <1>1, <1>3, <2>1 DEF First, Edited
<1> QED  BY <1>3, <1>4, <1>5 DEF IInv

LEMMA StoreKeeps == IInv /\ store => IInv'
<1> SUFFICES ASSUME IInv, store PROVE IInv'
  OBVIOUS
<1>1. /\ main.pc = "store" /\ ~halted
      /\ screen' = IndexAt(screen, main.reg + 1)
      /\ Goto("scroll", main.i, 0)
  BY DEF store, Running, IndexAt
<1>2. main.i \in 1 .. Len(Prompt) /\ main.i <= Len(Prompt) + 1 /\ 0 \in Nat
  BY <1>1, Known, PromptShape DEF IInv, On
<1>3. main.reg + 1 \in Nat /\ main.reg + 1 <= Cells
  BY <1>1, Known DEF IInv, On
<1>4. /\ screen' \in Screen /\ screen'.index = main.reg + 1 /\ screen'.limit = screen.limit
      /\ screen'.buff = screen.buff
  <2>1. screen \in Screen  BY Known
  <2> QED  BY <1>1, <1>3, <2>1, IndexSet
<1>5. /\ TypeOK' /\ main'.pc = "scroll" /\ main'.i = main.i
      /\ shell_buffer' = shell_buffer /\ early' = early /\ halted' = halted
  BY <1>1, <1>2, <1>4, Known, Went DEF PCs
<1>6. On'  BY <1>1, <1>2, <1>3, <1>4, <1>5 DEF IInv, On
<1>7. ASSUME early' = 0, ~halted' PROVE First' /\ Edited'
  <2>1. /\ shell_buffer = <<>> /\ Written(screen, main.i - 1) /\ main.reg = screen.index
        /\ screen.buff[screen.index] = Prompt[main.i] /\ screen.index < Cells
    BY <1>1, <1>5, <1>7 DEF IInv, First, On
  <2>2. screen.buff = [screen.buff EXCEPT ![screen.index] = Prompt[main.i]]
    BY <2>1, Known
  <2>3. Written(screen', main.i)
    BY <1>2, <1>4, <2>1, <2>2, Known, WrittenGrows
  <2> QED  BY <1>5, <2>1, <2>3 DEF First, Edited
<1> QED  BY <1>5, <1>6, <1>7 DEF IInv

LEMMA ScrollKeeps == IInv /\ scroll => IInv'
<1> SUFFICES ASSUME IInv, scroll PROVE IInv'
  OBVIOUS
<1>1. /\ main.pc = "scroll" /\ ~halted /\ screen' = Scroll(screen)
      /\ Goto("put", main.i + 1, 0)
  BY DEF scroll, Running
<1>2. main.i \in 1 .. Len(Prompt) /\ screen.index <= Cells
  BY <1>1 DEF IInv, On
<1>3. /\ main.i + 1 \in Nat /\ main.i + 1 <= Len(Prompt) + 1 /\ 0 \in Nat
      /\ main.i + 1 \in 1 .. Len(Prompt) + 1 /\ main.i \in 0 .. Len(Prompt)
      /\ (main.i + 1) - 1 = main.i
  BY <1>2, Known, PromptShape
<1>4. /\ screen' \in Screen /\ screen'.index < Cells /\ screen'.limit = screen.limit
  BY <1>1, Known, Scrolled
<1>5. screen'.index \in Nat  BY <1>4, Fields
<1>6. /\ TypeOK' /\ main'.pc = "put" /\ main'.i = main.i + 1
      /\ shell_buffer' = shell_buffer /\ early' = early /\ halted' = halted
  BY <1>1, <1>3, <1>4, Known, Went DEF PCs
<1>7. screen'.index <= Cells  BY <1>4, <1>5, Known
<1>8. On'  BY <1>3, <1>4, <1>6, <1>7 DEF IInv, On
<1>9. ASSUME early' = 0, ~halted' PROVE First' /\ Edited'
  <2>1. shell_buffer = <<>> /\ Written(screen, main.i)
    BY <1>1, <1>6, <1>9 DEF IInv, First
  <2>2. Written(screen', main.i)
    BY <1>1, <1>2, <1>3, <2>1, Known, WrittenScrolls
  <2> QED  BY <1>3, <1>6, <2>1, <2>2 DEF First, Edited
<1> QED  BY <1>6, <1>8, <1>9 DEF IInv

LEMMA ReadKeeps == IInv /\ read_cursor => IInv'
<1> SUFFICES ASSUME IInv, read_cursor PROVE IInv'
  OBVIOUS
<1>1. /\ main.pc = "put" /\ main.i > Len(Prompt) /\ ~halted /\ screen' = screen
      /\ Goto("lock", 0, screen.index)
  BY DEF read_cursor, Running
<1>2. main.i - 1 = Len(Prompt) /\ 0 \in Nat /\ 0 <= Len(Prompt) + 1
  BY <1>1, Known, PromptShape DEF IInv, On
<1>3. /\ TypeOK' /\ main'.pc = "lock" /\ main'.reg = screen.index
      /\ shell_buffer' = shell_buffer /\ early' = early /\ halted' = halted
  BY <1>1, <1>2, Known, Went DEF PCs
<1>4. On'  BY <1>1, <1>2, <1>3 DEF IInv, On
<1>5. ASSUME early' = 0, ~halted' PROVE First' /\ Edited'
  <2>1. First  BY <1>3, <1>5 DEF IInv
  <2> QED  BY <1>1, <1>2, <1>3, <2>1 DEF First, Edited
<1> QED  BY <1>3, <1>4, <1>5 DEF IInv

LEMMA LockKeeps == IInv /\ lock_cursor => IInv'
<1> SUFFICES ASSUME IInv, lock_cursor PROVE IInv'
  OBVIOUS
<1>1. /\ main.pc = "lock" /\ ~halted
      /\ screen' = LockAt(screen, main.reg)
      /\ Goto("hlt", 0, 0)
  BY DEF lock_cursor, Running, LockAt
<1>2. /\ screen.index < Cells /\ main.reg < Cells /\ 0 \in Nat /\ 0 <= Len(Prompt) + 1
  BY <1>1, PromptShape DEF IInv, On
<1>3. /\ screen' \in OnScreen /\ screen'.index = screen.index
  BY <1>1, <1>2, Known, Locked
<1>4. screen' \in Screen /\ screen'.index < Cells /\ screen'.limit < Cells
  BY <1>3 DEF OnScreen
<1>5. /\ TypeOK' /\ main'.pc = "hlt"
      /\ shell_buffer' = shell_buffer /\ early' = early /\ halted' = halted
  BY <1>1, <1>2, <1>4, Known, Went DEF PCs
<1>6. screen'.index <= Cells  BY <1>2, <1>3, Known
<1>7. On'  BY <1>4, <1>5, <1>6 DEF On
<1>8. ASSUME early' = 0, ~halted' PROVE First' /\ Edited'
  <2>1. shell_buffer = <<>> /\ main.reg = screen.index /\ Written(screen, Len(Prompt))
    BY <1>1, <1>5, <1>8 DEF IInv, First
  <2>2. screen \in OnScreen  BY <1>2, Known DEF IInv, On, OnScreen
  <2>3. screen' = LockAt(screen, screen.index)  BY <1>1, <2>1
  <2>4. Line(screen', <<>>)  BY <2>1, <2>2, <2>3, LineStarts
  <2> QED  BY <1>5, <2>1, <2>4 DEF First, Edited
<1> QED  BY <1>5, <1>7, <1>8 DEF IInv
--------------------------------------------------------------------------------
(* The handler.  It may interrupt the main thread anywhere, also before a   *)
(* scroll: wherever it finds the cursor, it leaves it on the screen.        *)
LEMMA Handled ==
  ASSUME IInv, main' = main, screen' \in OnScreen
  PROVE  On'
<1>1. screen' \in Screen /\ screen'.index < Cells /\ screen'.limit < Cells
  BY DEF OnScreen
<1>2. screen'.index <= Cells  BY <1>1, Fields, Known
<1> QED  BY <1>1, <1>2 DEF IInv, On

LEMMA BufferText ==
  ASSUME IInv
  PROVE  /\ shell_buffer \in Seq(Keys \ {NUL, NL, BS}) /\ Len(shell_buffer) < BufferSize
         /\ shell_buffer \in Seq(Nat) /\ Len(shell_buffer) \in Nat
         /\ halted \in BOOLEAN /\ early \in 0 .. EarlyKeys /\ EarlyKeys \in Nat
         /\ BufferSize \in Nat
         /\ main \in [pc : PCs, i : 0 .. Max({Cells, Len(Prompt) + 1}), reg : Nat]
<1>1. /\ shell_buffer \in Seq(Keys \ {NUL, NL, BS}) /\ Len(shell_buffer) < BufferSize
      /\ halted \in BOOLEAN /\ early \in 0 .. EarlyKeys
      /\ main \in [pc : PCs, i : 0 .. Max({Cells, Len(Prompt) + 1}), reg : Nat]
  BY Types, Zenon DEF IInv
<1>2. shell_buffer \in Seq(Nat) /\ Len(shell_buffer) \in Nat
  <2>1. Keys \ {NUL, NL, BS} \subseteq Nat  BY ConsoleAssumption
  <2> QED  BY <1>1, <2>1
<1>3. EarlyKeys \in Nat /\ BufferSize \in Nat  BY ConsoleAssumption
<1> QED  BY <1>1, <1>2, <1>3, Zenon

(* Only a key that finds the main thread halted leaves nothing spoilt.      *)
LEMMA Counted ==
  ASSUME IInv, NEW line \in {"ended", "edited"}, Struck(line)
  PROVE  /\ ~halted /\ main' = main /\ early' \in 0 .. EarlyKeys
         /\ early' = 0 => main.pc = "hlt" /\ (line = "ended" \/ early = 0)
<1>1. /\ ~halted /\ main' = main
      /\ main.pc = "hlt" \/ early < EarlyKeys
      /\ early' = IF main.pc # "hlt" THEN early + 1 ELSE IF line = "ended" THEN 0 ELSE early
  BY DEF Struck
<1>2. early \in 0 .. EarlyKeys /\ EarlyKeys \in Nat  BY BufferText
<1>3. CASE main.pc # "hlt"
  <2>1. early' = early + 1 /\ early < EarlyKeys  BY <1>1, <1>3
  <2>2. early' \in 0 .. EarlyKeys /\ early' # 0  BY <1>2, <2>1
  <2> QED  BY <1>1, <2>2
<1>4. CASE main.pc = "hlt" /\ line = "ended"  BY <1>1, <1>2, <1>4
<1>5. CASE main.pc = "hlt" /\ line # "ended"  BY <1>1, <1>2, <1>5
<1> QED  BY <1>3, <1>4, <1>5

LEMMA LetterStays == ASSUME NEW c \in Keys \ {NUL, NL, BS} PROVE IInv /\ Letter(c) => IInv'
<1> SUFFICES ASSUME IInv, Letter(c) PROVE IInv'
  OBVIOUS
<1>1. /\ Struck("edited") /\ Len(shell_buffer) < BufferSize - 1
      /\ shell_buffer' = Append(shell_buffer, c)
      /\ screen' = vga_print(screen, <<c>>) /\ halted' = halted
  BY DEF Letter
<1>2. c \in Nat \ {NL, BS}  BY ConsoleAssumption
<1>3. /\ main' = main /\ early' \in 0 .. EarlyKeys
      /\ early' = 0 => main.pc = "hlt" /\ early = 0
  BY <1>1, Counted
<1>4. screen' = vga_print_char(screen, c)  BY <1>1, <1>2, Known, OnePrinted
<1>5. screen' \in Screen /\ screen'.limit = screen.limit /\ screen'.index < Cells
  BY <1>2, <1>4, Known, CharPrinted
<1>6. screen' \in OnScreen  BY <1>5 DEF OnScreen, IInv, On
<1>7. /\ shell_buffer' \in Seq(Keys \ {NUL, NL, BS})
      /\ Len(shell_buffer') = Len(shell_buffer) + 1
  BY <1>1, BufferText, AppendProperties
<1>8. Len(shell_buffer') < BufferSize  BY <1>1, <1>7, BufferText
<1>9. TypeOK'
  <2>1. halted' \in BOOLEAN  BY <1>1, BufferText, Zenon
  <2>2. main' \in [pc : PCs, i : 0 .. Max({Cells, Len(Prompt) + 1}), reg : Nat]
    BY <1>3, BufferText, Zenon
  <2> QED  BY <1>3, <1>5, <1>7, <1>8, <2>1, <2>2, TypesNext, Zenon
<1>10. ASSUME early' = 0, ~halted' PROVE First' /\ Edited'
  <2>1. main.pc = "hlt" /\ Line(screen, shell_buffer)
    BY <1>1, <1>3, <1>10 DEF IInv, Edited
  <2>2. screen \in OnScreen  BY <2>1, Known DEF IInv, On, OnScreen
  <2>3. Line(screen', shell_buffer')
    BY <1>1, <1>2, <1>4, <2>1, <2>2, BufferText, LetterKeeps
  <2> QED  BY <1>3, <2>1, <2>3 DEF First, Edited
<1> QED  BY <1>3, <1>6, <1>9, <1>10, Handled DEF IInv

LEMMA BackspaceStays == IInv /\ Backspace => IInv'
<1> SUFFICES ASSUME IInv, Backspace PROVE IInv'
  OBVIOUS
<1>1. /\ Struck("edited") /\ shell_buffer # <<>>
      /\ shell_buffer' = Front(shell_buffer)
      /\ screen' = vga_print(screen, <<BS>>) /\ halted' = halted
  BY DEF Backspace
<1>2. BS \in Nat  BY DEF BS
<1>3. /\ main' = main /\ early' \in 0 .. EarlyKeys
      /\ early' = 0 => main.pc = "hlt" /\ early = 0
  BY <1>1, Counted
<1>4. screen' = vga_print_char(screen, BS)  BY <1>1, <1>2, Known, OnePrinted
<1>5. screen' \in Screen /\ screen'.limit = screen.limit /\ screen'.index < Cells
  BY <1>2, <1>4, Known, CharPrinted
<1>6. screen' \in OnScreen  BY <1>5 DEF OnScreen, IInv, On
<1>7. /\ shell_buffer' \in Seq(Keys \ {NUL, NL, BS})
      /\ Len(shell_buffer') = Len(shell_buffer) - 1
  BY <1>1, BufferText, FrontShape
<1>8. Len(shell_buffer') < BufferSize  BY <1>7, BufferText
<1>9. TypeOK'
  <2>1. halted' \in BOOLEAN  BY <1>1, BufferText, Zenon
  <2>2. main' \in [pc : PCs, i : 0 .. Max({Cells, Len(Prompt) + 1}), reg : Nat]
    BY <1>3, BufferText, Zenon
  <2> QED  BY <1>3, <1>5, <1>7, <1>8, <2>1, <2>2, TypesNext, Zenon
<1>10. ASSUME early' = 0, ~halted' PROVE First' /\ Edited'
  <2>1. main.pc = "hlt" /\ Line(screen, shell_buffer)
    BY <1>1, <1>3, <1>10 DEF IInv, Edited
  <2>2. screen \in OnScreen  BY <2>1, Known DEF IInv, On, OnScreen
  <2>3. Line(screen', shell_buffer')
    BY <1>1, <1>4, <2>1, <2>2, BufferText, BackspaceKeeps
  <2> QED  BY <1>3, <2>1, <2>3 DEF First, Edited
<1> QED  BY <1>3, <1>6, <1>9, <1>10, Handled DEF IInv

(* Enter echoes the line break, runs the line and leaves a new prompt; or   *)
(* the command faults and nothing is typed any more.                        *)
LEMMA EnterStays == IInv /\ Enter => IInv'
<1> SUFFICES ASSUME IInv, Enter PROVE IInv'
  OBVIOUS
<1> DEFINE onward == vga_print(screen, <<NL>>)
           does == execute_command(shell_buffer)
           after == IF does.clear THEN vga_clear_screen(onward) ELSE vga_print(onward, does.print)
<1>1. Struck("ended")  BY DEF Enter
<1>2. \/ screen' = klog(onward, LogText) /\ halted' = TRUE /\ shell_buffer' = shell_buffer
      \/ screen' = NewPrompt(after) /\ shell_buffer' = <<>> /\ halted' = halted
  BY DEF Enter
<1>3. onward \in OnScreen
  <2>1. <<NL>> \in Seq(Nat) /\ <<NL>> # <<>>  BY DEF NL
  <2>2. screen.limit < Cells  BY DEF IInv, On
  <2>3. onward \in Screen /\ onward.limit = screen.limit /\ onward.index < Cells
    BY <2>1, Known, Printed
  <2> HIDE DEF onward
  <2> QED  BY <2>2, <2>3 DEF OnScreen
<1>4. does.print \in Seq(Nat)  BY BufferText, CommandPrints
<1> HIDE DEF onward, does
<1>5. after \in OnScreen  BY <1>3, <1>4, Cleared, PrintedOn
<1> HIDE DEF after
<1>6. /\ main' = main /\ early' \in 0 .. EarlyKeys /\ ~halted
      /\ early' = 0 => main.pc = "hlt"
  BY <1>1, Counted
<1>7. main' \in [pc : PCs, i : 0 .. Max({Cells, Len(Prompt) + 1}), reg : Nat]
  BY <1>6, BufferText, Zenon
<1>8. CASE screen' = klog(onward, LogText) /\ halted' = TRUE /\ shell_buffer' = shell_buffer
  <2>1. screen' \in OnScreen  BY <1>3, <1>8, Logged
  <2>2. screen' \in Screen  BY <2>1 DEF OnScreen
  <2>3. halted' \in BOOLEAN /\ ~(~halted')  BY <1>8, Zenon
  <2>4. shell_buffer' \in Seq(Keys \ {NUL, NL, BS}) /\ Len(shell_buffer') < BufferSize
    BY <1>8, BufferText, Zenon
  <2>5. TypeOK'  BY <1>6, <1>7, <2>2, <2>3, <2>4, TypesNext, Zenon
  <2> QED  BY <1>6, <2>1, <2>3, <2>5, Handled DEF IInv
<1>9. CASE screen' = NewPrompt(after) /\ shell_buffer' = <<>> /\ halted' = halted
  <2>1. screen' \in OnScreen /\ Line(screen', <<>>)  BY <1>5, <1>9, NewPrompted
  <2>2. screen' \in Screen  BY <2>1 DEF OnScreen
  <2>3. halted' \in BOOLEAN  BY <1>9, BufferText, Zenon
  <2>4. shell_buffer' \in Seq(Keys \ {NUL, NL, BS}) /\ Len(shell_buffer') < BufferSize
    BY <1>9, ConsoleAssumption
  <2>5. TypeOK'  BY <1>6, <1>7, <2>2, <2>3, <2>4, TypesNext, Zenon
  <2>6. ASSUME early' = 0 PROVE First' /\ Edited'
    BY <1>6, <1>9, <2>1, <2>6 DEF First, Edited
  <2> QED  BY <1>6, <2>1, <2>5, <2>6, Handled DEF IInv
<1> QED  BY <1>2, <1>8, <1>9
--------------------------------------------------------------------------------
LEMMA NextInv == IInv /\ [Next]_vars => IInv'
<1> SUFFICES ASSUME IInv, [Next]_vars PROVE IInv'
  OBVIOUS
<1>1. CASE kernel_shell
  BY <1>1, ClearKeeps, HomeKeeps, AimKeeps, PutKeeps, LoadKeeps, StoreKeeps, ScrollKeeps,
     ReadKeeps, LockKeeps, Zenon DEF kernel_shell
<1>2. CASE keyboard_handler_main
  BY <1>2, EnterStays, BackspaceStays, LetterStays, Zenon DEF keyboard_handler_main
<1>3. CASE UNCHANGED vars
  <2>1. /\ screen' = screen /\ shell_buffer' = shell_buffer /\ main' = main
        /\ halted' = halted /\ early' = early
    BY <1>3 DEF vars
  <2>2. TypeOK'  BY <2>1, Types, TypesNext, Zenon DEF IInv
  <2>3. On'  BY <2>1 DEF IInv, On
  <2>4. First /\ Edited => First' /\ Edited'  BY <2>1 DEF First, Edited
  <2> QED  BY <2>1, <2>2, <2>3, <2>4 DEF IInv
<1> QED  BY <1>1, <1>2, <1>3, Zenon DEF Next

(* Wherever the handler interrupts the main thread, and whatever is typed   *)
(* and executed, the invariant above holds.                                 *)
THEOREM Invariance == Spec => []IInv
<1> QED  BY InitInv, NextInv, PTL DEF Spec

(* vga.c, keyboard.c: every glyph, cursor and character has its type, and   *)
(* the command line leaves room for its NUL.                                *)
THEOREM ConsoleTypes == Spec => []TypeOK
<1>1. IInv => TypeOK  BY DEF IInv
<1> QED  BY <1>1, Invariance, PTL

(* vga.c:121 and 190: wherever the handler interrupts the main thread, but  *)
(* right before a scroll, it finds the cursor inside the video memory.      *)
THEOREM CursorStays == Spec => []CursorOnScreen
<1>1. IInv => CursorOnScreen  BY DEF IInv, On, CursorOnScreen
<1> QED  BY <1>1, Invariance, PTL

(* What stands between the prompt and the cursor is the line that Enter     *)
(* will execute, as long as it has not scrolled.                            *)
THEOREM EchoHolds == Spec => []EchoMatches
<1>1. IInv => EchoMatches
  BY DEF IInv, Edited, Line, Echo, Are, EchoMatches, Echoes, CellsAre, Ready
<1> QED  BY <1>1, Invariance, PTL

(* vga.c:6: whatever is typed and erased, the prompt stands before the line *)
(* being edited until it scrolls out.                                       *)
THEOREM PromptKept == Spec => []PromptStands
<1>1. IInv => PromptStands
  BY DEF IInv, Edited, Line, Stands, End, Are, PromptStands, CellsAre, Ready
<1> QED  BY <1>1, Invariance, PTL
================================================================================
