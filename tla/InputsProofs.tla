------------------------------ MODULE InputsProofs ------------------------------
(***************************************************************************)
(* What is proved of the functions of names.go, config.go and events.go,   *)
(* for inputs of any length and any number.  The loop of sanitizeDNSLabel  *)
(* calls for induction over its text, which is done here with sets: a set  *)
(* of numbers with 0 and the successor of each of its members has all      *)
(* numbers (SetInduction).                                                 *)
(***************************************************************************)
EXTENDS Inputs, SequenceTheorems, FiniteSetTheorems, WellFoundedInduction, TLAPS

-----------------------------------------------------------------------------
(* Numbers.                                                                *)

LEMMA Least ==
  ASSUME NEW T \in SUBSET Nat, T # {}
  PROVE  \E n \in T : \A m \in T : n <= m
<1> DEFINE R == OpToRel(<, Nat)
<1>1. \A m, n \in Nat : m < n => <<m, n>> \in R
  BY DEF OpToRel
<1>2. IsWellFoundedOn(R, Nat)
  BY NatLessThanWellFounded
<1> HIDE DEF R
<1>3. PICK n \in T : \A m \in T : ~(<<m, n>> \in R)
  BY <1>2, WFMin
<1>4. ASSUME NEW m \in T PROVE n <= m
  <2>1. m \in Nat /\ n \in Nat /\ ~(m < n)
    BY <1>1, <1>3
  <2>2. QED
    BY <2>1
<1>5. QED
  BY <1>4

LEMMA SetInduction ==
  ASSUME NEW T, 0 \in T, \A n \in Nat : n \in T => n + 1 \in T
  PROVE  Nat \subseteq T
<1>1. SUFFICES ASSUME NEW k \in Nat \ T PROVE FALSE
  OBVIOUS
<1>2. PICK n \in Nat \ T : \A m \in Nat \ T : n <= m
  BY Least
<1>3. n # 0 /\ n - 1 \in Nat /\ n - 1 \notin Nat \ T
  BY <1>2
<1>4. (n - 1) + 1 \in T
  BY <1>3
<1>5. QED
  BY <1>2, <1>4

LEMMA MinMax ==
  ASSUME NEW n \in Nat, NEW T \in SUBSET (1 .. n), T # {}
  PROVE  /\ Min(T) \in T /\ \A m \in T : Min(T) <= m
         /\ Max(T) \in T /\ \A m \in T : m <= Max(T)
<1>1. \E x \in T : \A y \in T : x <= y
  BY Least
<1>2. \E x \in T : \A y \in T : x >= y
  <2> DEFINE U == {u \in Nat : n - u \in T}
  <2>1. \A x \in T : n - x \in U
    OBVIOUS
  <2>2. PICK u \in U : \A v \in U : u <= v
    BY <2>1, Least
  <2>3. ASSUME NEW y \in T PROVE n - u >= y
    <3>1. u <= n - y
      BY <2>1, <2>2
    <3>2. u \in Nat /\ y \in Nat
      BY <2>2
    <3>3. QED
      BY <3>1, <3>2
  <2>4. QED
    BY <2>2, <2>3
<1>3. /\ Min(T) \in T /\ \A y \in T : Min(T) <= y
  BY <1>1 DEF Min
<1>4. /\ Max(T) \in T /\ \A y \in T : Max(T) >= y
  BY <1>2 DEF Max
<1>5. QED
  BY <1>3, <1>4

-----------------------------------------------------------------------------
(* Trim cuts both ends and nothing else.                                   *)

Trimmed(t, u, cut) ==
    \/ u = <<>> /\ \A i \in DOMAIN t : t[i] \in cut
    \/ \E lo, hi \in DOMAIN t :
          /\ lo <= hi /\ u = SubSeq(t, lo, hi)
          /\ t[lo] \notin cut /\ t[hi] \notin cut
          /\ \A i \in DOMAIN t : i < lo \/ hi < i => t[i] \in cut

LEMMA TrimSpec ==
  ASSUME NEW t \in Text, NEW cut
  PROVE  Trimmed(t, Trim(t, cut), cut)
<1> DEFINE kept == {i \in DOMAIN t : t[i] \notin cut}
<1>1. Len(t) \in Nat /\ DOMAIN t = 1 .. Len(t)
  BY DEF Text
<1>2. Trim(t, cut) = IF kept = {} THEN <<>> ELSE SubSeq(t, Min(kept), Max(kept))
  BY DEF Trim
<1>3. CASE kept = {}
  BY <1>2, <1>3 DEF Trimmed
<1>4. CASE kept # {}
  <2>1. /\ Min(kept) \in kept /\ \A m \in kept : Min(kept) <= m
        /\ Max(kept) \in kept /\ \A m \in kept : m <= Max(kept)
    <3>1. kept \in SUBSET (1 .. Len(t))
      BY <1>1
    <3> HIDE DEF kept
    <3>2. QED
      BY <1>1, <1>4, <3>1, MinMax
  <2>2. Trim(t, cut) = SubSeq(t, Min(kept), Max(kept))
    BY <1>2, <1>4
  <2>3. ASSUME NEW i \in DOMAIN t, t[i] \notin cut
        PROVE  ~(i < Min(kept)) /\ ~(Max(kept) < i)
    <3>1. i \in kept
      BY <2>3
    <3>2. Min(kept) \in Nat /\ Max(kept) \in Nat /\ i \in Nat
      BY <1>1, <2>1
    <3> HIDE DEF kept
    <3>3. QED
      BY <2>1, <3>1, <3>2
  <2>4. QED
    BY <2>1, <2>2, <2>3 DEF Trimmed
<1>5. QED
  BY <1>3, <1>4

(* The characters of a text that Trim has left. *)
LEMMA SubText ==
  ASSUME NEW t \in Text, NEW lo \in DOMAIN t, NEW hi \in DOMAIN t, lo <= hi
  PROVE  /\ SubSeq(t, lo, hi) \in Text
         /\ Len(SubSeq(t, lo, hi)) = hi - lo + 1
         /\ \A i \in 1 .. hi - lo + 1 : SubSeq(t, lo, hi)[i] = t[lo + i - 1]
<1>1. /\ lo \in Int /\ hi \in Int
      /\ \A i \in lo .. hi : t[i] \in Char
  BY DEF Text
<1>2. QED
  BY <1>1, SubSeqProperties DEF Text

LEMMA TrimText ==
  ASSUME NEW t \in Text, NEW cut
  PROVE  Trim(t, cut) \in Text
<1>1. Trimmed(t, Trim(t, cut), cut)
  BY TrimSpec
<1>2. CASE Trim(t, cut) = <<>>
  BY <1>2 DEF Text
<1>3. CASE \E lo, hi \in DOMAIN t : lo <= hi /\ Trim(t, cut) = SubSeq(t, lo, hi)
  BY <1>3, SubText
<1>4. QED
  BY <1>1, <1>2, <1>3 DEF Trimmed

(* What has nothing to be cut at its ends stays. *)
LEMMA TrimKeeps ==
  ASSUME NEW t \in Text, NEW cut, t # <<>>, t[1] \notin cut, t[Len(t)] \notin cut
  PROVE  Trim(t, cut) = t
<1>1. Len(t) \in Nat /\ DOMAIN t = 1 .. Len(t) /\ Len(t) # 0
  BY DEF Text
<1>2. PICK lo \in DOMAIN t, hi \in DOMAIN t :
         /\ Trim(t, cut) = SubSeq(t, lo, hi)
         /\ \A i \in DOMAIN t : i < lo \/ hi < i => t[i] \in cut
  <2>1. Trimmed(t, Trim(t, cut), cut)
    BY TrimSpec
  <2>2. QED
    BY <1>1, <2>1 DEF Trimmed
<1>3. lo = 1 /\ hi = Len(t)
  BY <1>1, <1>2
<1>4. QED
  BY <1>2, <1>3, SubSeqFull DEF Text

-----------------------------------------------------------------------------
(* The loop of sanitizeDNSLabel.                                           *)

(* b[n] is what the loop has written after n characters of t. *)
Loops(b, t) ==
    /\ b \in [0 .. Len(t) -> Text]
    /\ b[0] = <<>>
    /\ \A n \in 1 .. Len(t) : b[n] = Write(b[n - 1], t[n])

LEMMA WriteText ==
  ASSUME NEW u \in Text, NEW c \in Char
  PROVE  Write(u, c) \in Text
<1>1. u \in Seq(Char) /\ "-" \in Char
  BY DEF Text, Char
<1>2. \A d \in Char : Append(u, d) \in Seq(Char)
  BY <1>1, AppendProperties
<1>3. QED
  BY <1>1, <1>2 DEF Write, Text, Char

LEMMA Loop ==
  ASSUME NEW t \in Text
  PROVE  \E b : Loops(b, t) /\ Written(t) = b[Len(t)]
<1>0. Len(t) \in Nat /\ \A n \in 1 .. Len(t) : t[n] \in Char
  BY DEF Text
<1> DEFINE Next(g, n) == IF n = 0 THEN <<>> ELSE Write(g[n - 1], t[n])
           Upto(m) == {g \in [0 .. m -> Text] : \A n \in 0 .. m : g[n] = Next(g, n)}
           T == {m \in Nat : m <= Len(t) => Upto(m) # {}}
           b == CHOOSE g : g = [n \in 0 .. Len(t) |-> Next(g, n)]
<1>1. 0 \in T
  <2>1. [n \in 0 .. 0 |-> <<>>] \in Upto(0)
    BY DEF Text
  <2>2. QED
    BY <2>1
<1>2. ASSUME NEW m \in Nat, m \in T PROVE m + 1 \in T
  <2>1. SUFFICES ASSUME m + 1 <= Len(t) PROVE Upto(m + 1) # {}
    OBVIOUS
  <2>2. PICK g \in Upto(m) : TRUE
    BY <1>0, <1>2, <2>1
  <2> DEFINE h == [n \in 0 .. m + 1 |-> IF n = m + 1 THEN Write(g[m], t[m + 1]) ELSE g[n]]
  <2>3. Write(g[m], t[m + 1]) \in Text
    <3>1. g[m] \in Text /\ t[m + 1] \in Char
      BY <1>0, <2>1, <2>2
    <3>2. QED
      BY <3>1, WriteText
  <2>4. h \in [0 .. m + 1 -> Text]
    BY <2>2, <2>3
  <2>5. \A n \in 0 .. m + 1 : h[n] = Next(h, n)
    <3>1. ASSUME NEW n \in 0 .. m PROVE h[n] = Next(h, n)
      <4>1. h[n] = g[n] /\ g[n] = Next(g, n) /\ (n # 0 => h[n - 1] = g[n - 1])
        BY <2>2
      <4>2. QED
        BY <4>1
    <3>2. h[m + 1] = Next(h, m + 1)
      OBVIOUS
    <3>3. QED
      BY <3>1, <3>2
  <2>6. QED
    BY <2>4, <2>5
<1>3. Len(t) \in T
  <2> HIDE DEF T
  <2>1. QED
    BY <1>0, <1>1, <1>2, SetInduction
<1>4. b = [n \in 0 .. Len(t) |-> Next(b, n)]
  <2>1. PICK g \in Upto(Len(t)) : TRUE
    BY <1>0, <1>3
  <2>2. g = [n \in 0 .. Len(t) |-> Next(g, n)]
    BY <2>1
  <2>3. QED
    BY <2>2
<1>5. Written(t) = b[Len(t)]
  BY DEF Written
<1> HIDE DEF b
<1>6. /\ DOMAIN b = 0 .. Len(t) /\ b[0] = <<>>
      /\ \A n \in 1 .. Len(t) : b[n] = Write(b[n - 1], t[n])
  BY <1>0, <1>4
<1>7. \A n \in 0 .. Len(t) : b[n] \in Text
  <2> DEFINE V == {n \in Nat : n <= Len(t) => b[n] \in Text}
  <2>1. 0 \in V
    <3>1. <<>> \in Text
      BY EmptySeq DEF Text
    <3>2. QED
      BY <1>6, <3>1
  <2>2. ASSUME NEW n \in Nat, n \in V PROVE n + 1 \in V
    <3>1. SUFFICES ASSUME n + 1 <= Len(t) PROVE b[n + 1] \in Text
      OBVIOUS
    <3>2. b[n] \in Text /\ t[n + 1] \in Char /\ b[n + 1] = Write(b[n], t[n + 1])
      BY <1>0, <1>6, <2>2, <3>1
    <3>3. QED
      BY <3>2, WriteText
  <2>3. Nat \subseteq V
    <3> HIDE DEF V
    <3>1. QED
      BY <2>1, <2>2, SetInduction
  <2>4. QED
    BY <1>0, <2>3
<1>8. Loops(b, t)
  BY <1>4, <1>6, <1>7 DEF Loops
<1>9. QED
  BY <1>5, <1>8

(* Letters and digits with single dashes between or after them. *)
Clean(u) ==
    /\ \A i \in 1 .. Len(u) : u[i] \in AlphaNum \union {"-"}
    /\ u # <<>> => u[1] # "-"
    /\ \A i \in 1 .. Len(u) - 1 : ~(u[i] = "-" /\ u[i + 1] = "-")

LEMMA Appended ==
  ASSUME NEW u \in Text, NEW c
  PROVE  /\ Len(u) \in Nat /\ DOMAIN u = 1 .. Len(u) /\ (u = <<>> <=> Len(u) = 0)
         /\ Len(Append(u, c)) = Len(u) + 1
         /\ Append(u, c)[Len(u) + 1] = c
         /\ \A i \in 1 .. Len(u) : Append(u, c)[i] = u[i]
BY DEF Text

LEMMA Dashless ==
  \A c \in AlphaNum : c # "-" /\ c # " " /\ c # "A" /\ c # "."
BY DEF AlphaNum

(* One character: nothing is written, or the letter it is, or a dash. *)
Skips(b, t, n) ==
    /\ b[n] = b[n - 1] /\ t[n] \notin AlphaNum
    /\ b[n - 1] = <<>> \/ b[n - 1][Len(b[n - 1])] = "-"
Writes(b, t, n) ==
    /\ Len(b[n]) = Len(b[n - 1]) + 1
    /\ \A p \in 1 .. Len(b[n - 1]) : b[n][p] = b[n - 1][p]
    /\ \/ t[n] \in AlphaNum /\ b[n][Len(b[n])] = t[n]
       \/ /\ t[n] \notin AlphaNum /\ b[n][Len(b[n])] = "-"
          /\ b[n - 1] # <<>> /\ b[n - 1][Len(b[n - 1])] # "-"

LEMMA OneCharacter ==
  ASSUME NEW t \in Text, NEW b, Loops(b, t), NEW n \in 1 .. Len(t)
  PROVE  Skips(b, t, n) \/ Writes(b, t, n)
<1>1. Len(t) \in Nat
  BY DEF Text
<1>2. b[n - 1] \in Text /\ b[n] = Write(b[n - 1], t[n])
  BY <1>1 DEF Loops
<1>3. CASE t[n] \in AlphaNum
  <2>1. b[n] = Append(b[n - 1], t[n])
    BY <1>2, <1>3 DEF Write
  <2>2. QED
    BY <1>2, <1>3, <2>1, Appended DEF Writes
<1>4. CASE t[n] \notin AlphaNum /\ (b[n - 1] = <<>> \/ Last(b[n - 1]) = "-")
  BY <1>2, <1>4 DEF Write, Skips, Last
<1>5. CASE t[n] \notin AlphaNum /\ ~(b[n - 1] = <<>> \/ Last(b[n - 1]) = "-")
  <2>1. b[n] = Append(b[n - 1], "-")
    BY <1>2, <1>5 DEF Write
  <2>2. QED
    BY <1>2, <1>5, <2>1, Appended DEF Writes, Last
<1>6. QED
  BY <1>3, <1>4, <1>5

LEMMA LoopText ==
  ASSUME NEW t \in Text, NEW b, Loops(b, t)
  PROVE  /\ Len(t) \in Nat /\ DOMAIN t = 1 .. Len(t)
         /\ b[0] = <<>> /\ Len(b[0]) = 0
         /\ \A n \in 0 .. Len(t) : b[n] \in Text /\ Len(b[n]) \in Nat
BY DEF Loops, Text

(* What is written stays. *)
LEMMA Growth ==
  ASSUME NEW t \in Text, NEW b, Loops(b, t),
         NEW m \in 0 .. Len(t), NEW n \in m .. Len(t)
  PROVE  /\ Len(b[m]) <= Len(b[n])
         /\ \A p \in 1 .. Len(b[m]) : b[n][p] = b[m][p]
<1> DEFINE Grown(k) == /\ Len(b[m]) <= Len(b[k])
                       /\ \A p \in 1 .. Len(b[m]) : b[k][p] = b[m][p]
           T == {d \in Nat : m + d <= Len(t) => Grown(m + d)}
<1>0. Len(t) \in Nat /\ \A k \in 0 .. Len(t) : Len(b[k]) \in Nat
  BY LoopText
<1>1. 0 \in T
  BY <1>0
<1>2. ASSUME NEW d \in Nat, d \in T PROVE d + 1 \in T
  <2>1. SUFFICES ASSUME m + (d + 1) <= Len(t) PROVE Grown(m + (d + 1))
    OBVIOUS
  <2> DEFINE k == m + d
  <2>2. k \in 0 .. Len(t) /\ k + 1 \in 1 .. Len(t) /\ Grown(k) /\ m + (d + 1) = k + 1
    BY <1>0, <1>2, <2>1
  <2> HIDE DEF k
  <2>3. Skips(b, t, k + 1) \/ Writes(b, t, k + 1)
    BY <2>2, OneCharacter
  <2>4. (k + 1) - 1 = k /\ Len(b[k]) \in Nat /\ Len(b[k + 1]) \in Nat /\ Len(b[m]) \in Nat
    BY <1>0, <2>2
  <2>5. Grown(k + 1)
    BY <2>2, <2>3, <2>4 DEF Skips, Writes
  <2>6. QED
    BY <2>2, <2>5
<1>3. n - m \in T
  <2>1. n - m \in Nat
    BY <1>0
  <2> HIDE DEF T
  <2>2. QED
    BY <1>1, <1>2, <2>1, SetInduction
<1>4. QED
  BY <1>0, <1>3

(* Every character written was written when one was read. *)
LEMMA Origin ==
  ASSUME NEW t \in Text, NEW b, Loops(b, t),
         NEW n \in 0 .. Len(t), NEW p \in 1 .. Len(b[n])
  PROVE  \E i \in 1 .. n : Len(b[i]) = p /\ Writes(b, t, i)
<1> DEFINE Written_(k) == \A q \in 1 .. Len(b[k]) :
                             \E i \in 1 .. k : Len(b[i]) = q /\ Writes(b, t, i)
           T == {k \in Nat : k <= Len(t) => Written_(k)}
<1>0. Len(t) \in Nat /\ Len(b[0]) = 0 /\ \A k \in 0 .. Len(t) : Len(b[k]) \in Nat
  BY LoopText
<1>1. 0 \in T
  BY <1>0
<1>2. ASSUME NEW k \in Nat, k \in T PROVE k + 1 \in T
  <2>1. SUFFICES ASSUME k + 1 <= Len(t) PROVE Written_(k + 1)
    OBVIOUS
  <2>2. Written_(k) /\ k \in 0 .. Len(t) /\ k + 1 \in 1 .. Len(t) /\ (k + 1) - 1 = k
    BY <1>0, <1>2, <2>1
  <2>3. Skips(b, t, k + 1) \/ Writes(b, t, k + 1)
    BY <2>2, OneCharacter
  <2>4. ASSUME NEW q \in 1 .. Len(b[k + 1])
        PROVE  \E i \in 1 .. k + 1 : Len(b[i]) = q /\ Writes(b, t, i)
    <3>1. CASE q \in 1 .. Len(b[k])
      BY <2>2, <3>1
    <3>2. CASE q \notin 1 .. Len(b[k])
      <4>1. Writes(b, t, k + 1)
        BY <2>2, <2>3, <3>2 DEF Skips
      <4>2. Len(b[k]) \in Nat /\ Len(b[k + 1]) = Len(b[k]) + 1
        BY <1>0, <2>2, <4>1 DEF Writes
      <4>3. q = Len(b[k + 1])
        BY <3>2, <4>2
      <4>4. QED
        BY <2>2, <4>1, <4>3
    <3>3. QED
      BY <3>1, <3>2
  <2>5. QED
    BY <2>4
<1>3. n \in T
  <2> HIDE DEF T
  <2>1. QED
    BY <1>0, <1>1, <1>2, SetInduction
<1>4. QED
  BY <1>0, <1>3

(* What is written is clean, ends as the text does, and is empty only for  *)
(* a text without a letter.                                                *)
Fine(b, t, n) ==
    /\ Clean(b[n])
    /\ b[n] = <<>> <=> \A i \in 1 .. n : t[i] \notin AlphaNum
    /\ n > 0 /\ b[n] # <<>> => (b[n][Len(b[n])] = "-" <=> t[n] \notin AlphaNum)

LEMMA CleanLoop ==
  ASSUME NEW t \in Text, NEW b, Loops(b, t), NEW n \in 0 .. Len(t)
  PROVE  Fine(b, t, n)
<1> DEFINE T == {k \in Nat : k <= Len(t) => Fine(b, t, k)}
<1>0. Len(t) \in Nat /\ b[0] = <<>> /\ Len(b[0]) = 0
  BY LoopText
<1>1. 0 \in T
  BY <1>0 DEF Fine, Clean
<1>2. ASSUME NEW k \in Nat, k \in T PROVE k + 1 \in T
  <2>1. SUFFICES ASSUME k + 1 <= Len(t) PROVE Fine(b, t, k + 1)
    OBVIOUS
  <2> DEFINE u == b[k]
             v == b[k + 1]
  <2>2. /\ Fine(b, t, k) /\ k \in 0 .. Len(t) /\ k + 1 \in 1 .. Len(t) /\ (k + 1) - 1 = k
        /\ k + 1 \in 0 .. Len(t)
    BY <1>0, <1>2, <2>1
  <2>3. Skips(b, t, k + 1) \/ Writes(b, t, k + 1)
    BY <2>2, OneCharacter
  <2>4. /\ u \in Text /\ v \in Text /\ Len(u) \in Nat /\ Len(v) \in Nat
        /\ u = <<>> <=> Len(u) = 0
        /\ v = <<>> <=> Len(v) = 0
    BY <2>2, LoopText, Appended
  <2>5. CASE Skips(b, t, k + 1)
    <3>1. /\ v = u /\ t[k + 1] \notin AlphaNum
          /\ u = <<>> \/ u[Len(u)] = "-"
      BY <2>2, <2>5 DEF Skips
    <3>2. v = <<>> <=> \A i \in 1 .. k + 1 : t[i] \notin AlphaNum
      BY <2>2, <3>1 DEF Fine
    <3>3. QED
      BY <2>2, <3>1, <3>2 DEF Fine
  <2>6. CASE Writes(b, t, k + 1)
    <3>1. /\ Len(v) = Len(u) + 1
          /\ \A p \in 1 .. Len(u) : v[p] = u[p]
          /\ \/ t[k + 1] \in AlphaNum /\ v[Len(v)] = t[k + 1]
             \/ /\ t[k + 1] \notin AlphaNum /\ v[Len(v)] = "-"
                /\ u # <<>> /\ u[Len(u)] # "-"
      BY <2>2, <2>6 DEF Writes
    <3>2. v # <<>> /\ \E i \in 1 .. k + 1 : t[i] \in AlphaNum
      <4>1. CASE t[k + 1] \in AlphaNum
        BY <2>4, <3>1, <4>1
      <4>2. CASE t[k + 1] \notin AlphaNum
        <5>1. PICK i \in 1 .. k : t[i] \in AlphaNum
          BY <2>2, <3>1, <4>2 DEF Fine
        <5>2. QED
          BY <2>4, <3>1, <5>1
      <4>3. QED
        BY <4>1, <4>2
    <3>3. v[Len(v)] = "-" <=> t[k + 1] \notin AlphaNum
      BY <3>1, Dashless
    <3>4. Clean(v)
      <4>1. Clean(u)
        BY <2>2 DEF Fine
      <4>2. ASSUME NEW i \in 1 .. Len(v) PROVE v[i] \in AlphaNum \union {"-"}
        <5>1. CASE i \in 1 .. Len(u)
          BY <3>1, <4>1, <5>1 DEF Clean
        <5>2. CASE i \notin 1 .. Len(u)
          <6>1. i = Len(v)
            BY <2>4, <3>1, <5>2
          <6>2. QED
            BY <3>1, <6>1
        <5>3. QED
          BY <5>1, <5>2
      <4>3. v[1] # "-"
        <5>1. CASE u = <<>>
          <6>1. t[k + 1] \in AlphaNum /\ v[Len(v)] = t[k + 1]
            BY <3>1, <5>1
          <6>2. Len(v) = 1
            BY <2>4, <3>1, <5>1
          <6>3. QED
            BY <6>1, <6>2, Dashless
        <5>2. CASE u # <<>>
          BY <2>4, <3>1, <4>1, <5>2 DEF Clean
        <5>3. QED
          BY <5>1, <5>2
      <4>4. ASSUME NEW i \in 1 .. Len(v) - 1 PROVE ~(v[i] = "-" /\ v[i + 1] = "-")
        <5>1. CASE i < Len(u)
          <6>1. i \in 1 .. Len(u) - 1 /\ v[i] = u[i] /\ v[i + 1] = u[i + 1]
            BY <2>4, <3>1, <5>1
          <6>2. QED
            BY <4>1, <6>1 DEF Clean
        <5>2. CASE ~(i < Len(u))
          <6>1. i = Len(u) /\ i + 1 = Len(v) /\ v[i] = u[i]
            BY <2>4, <3>1, <5>2
          <6>2. QED
            BY <3>1, <6>1, Dashless
        <5>3. QED
          BY <5>1, <5>2
      <4>5. QED
        BY <4>2, <4>3, <4>4 DEF Clean
    <3>5. QED
      BY <3>2, <3>3, <3>4 DEF Fine
  <2>7. QED
    BY <2>3, <2>5, <2>6
<1>3. n \in T
  <2> HIDE DEF T
  <2>1. Nat \subseteq T
    BY <1>1, <1>2, SetInduction
  <2>2. QED
    BY <1>0, <2>1
<1>4. QED
  BY <1>0, <1>3

LEMMA WrittenIsClean ==
  ASSUME NEW t \in Text
  PROVE  /\ Written(t) \in Text /\ Clean(Written(t))
         /\ Written(t) = <<>> <=> \A i \in 1 .. Len(t) : t[i] \notin AlphaNum
<1>1. PICK b : Loops(b, t) /\ Written(t) = b[Len(t)]
  BY Loop
<1>2. Len(t) \in Nat /\ b[Len(t)] \in Text
  BY <1>1, LoopText
<1>3. Fine(b, t, Len(t))
  BY <1>1, <1>2, CleanLoop
<1>4. QED
  BY <1>1, <1>2, <1>3 DEF Fine

(* What is clean is written as it is. *)
LEMMA WrittenKeeps ==
  ASSUME NEW t \in Text, Clean(t)
  PROVE  Written(t) = t
<1>1. PICK b : Loops(b, t) /\ Written(t) = b[Len(t)]
  BY Loop
<1>2. /\ Len(t) \in Nat /\ b[0] = <<>> /\ Len(b[0]) = 0
      /\ \A n \in 0 .. Len(t) : b[n] \in Text /\ Len(b[n]) \in Nat
  BY <1>1, LoopText
<1> DEFINE Same(n) == Len(b[n]) = n /\ (n > 0 => b[n][n] = t[n])
           T == {n \in Nat : n <= Len(t) => Same(n)}
<1>3. 0 \in T
  BY <1>2
<1>4. ASSUME NEW n \in Nat, n \in T PROVE n + 1 \in T
  <2>1. SUFFICES ASSUME n + 1 <= Len(t) PROVE Same(n + 1)
    OBVIOUS
  <2>2. /\ Same(n) /\ n + 1 \in 1 .. Len(t) /\ (n + 1) - 1 = n
        /\ t[n + 1] \in AlphaNum \union {"-"}
    BY <1>2, <1>4, <2>1 DEF Clean
  <2>3. Skips(b, t, n + 1) \/ Writes(b, t, n + 1)
    BY <1>1, <2>2, OneCharacter
  <2>4. ~ Skips(b, t, n + 1)
    <3>1. SUFFICES ASSUME Skips(b, t, n + 1) PROVE FALSE
      OBVIOUS
    <3>2. t[n + 1] = "-" /\ (n = 0 \/ b[n][n] = "-")
      BY <1>2, <2>2, <3>1 DEF Skips
    <3>3. CASE n = 0
      <4>1. t # <<>>
        BY <1>2, <2>2
      <4>2. QED
        BY <3>2, <3>3, <4>1 DEF Clean
    <3>4. CASE n > 0
      <4>1. t[n] = "-" /\ n \in 1 .. Len(t) - 1
        BY <1>2, <2>2, <3>2, <3>4
      <4>2. QED
        BY <3>2, <4>1 DEF Clean
    <3>5. QED
      BY <3>3, <3>4
  <2>5. QED
    BY <2>2, <2>3, <2>4 DEF Writes
<1>5. \A n \in 0 .. Len(t) : Same(n)
  <2> HIDE DEF T
  <2>1. Nat \subseteq T
    BY <1>3, <1>4, SetInduction
  <2>2. QED
    BY <2>1 DEF T
<1>6. ASSUME NEW p \in 1 .. Len(t) PROVE b[Len(t)][p] = t[p]
  <2>1. p \in 0 .. Len(t) /\ Len(t) \in p .. Len(t) /\ p \in 1 .. Len(b[p])
    BY <1>2, <1>5
  <2>2. b[Len(t)][p] = b[p][p]
    BY <1>1, <2>1, Growth
  <2>3. QED
    BY <1>2, <1>5, <2>1, <2>2
<1>7. Len(b[Len(t)]) = Len(t)
  BY <1>2, <1>5
<1>8. b[Len(t)] = t
  BY <1>2, <1>6, <1>7, SeqEqual DEF Text
<1>9. QED
  BY <1>1, <1>8

-----------------------------------------------------------------------------
(* sanitizeDNSLabel.                                                       *)

(* A name of letters and digits with single dashes between them. *)
Slug(l) == l \in Text /\ l # <<>> /\ Clean(l) /\ l[Len(l)] # "-"

LEMMA SlugIsLabel ==
  ASSUME NEW l, Slug(l), Len(l) <= MaxLabel
  PROVE  IsLabel(l)
<1>1. Len(l) \in Nat /\ Len(l) # 0 /\ DOMAIN l = 1 .. Len(l)
  BY Appended DEF Slug
<1>2. QED
  BY <1>1, LabelAssumption DEF Slug, Clean, IsLabel, Last

LEMMA CleanPart ==
  ASSUME NEW u \in Text, Clean(u), NEW lo \in 1 .. Len(u), NEW hi \in lo .. Len(u),
         u[lo] # "-"
  PROVE  /\ SubSeq(u, lo, hi) \in Text /\ Clean(SubSeq(u, lo, hi))
         /\ Len(SubSeq(u, lo, hi)) = hi - lo + 1
         /\ SubSeq(u, lo, hi)[hi - lo + 1] = u[hi]
<1> DEFINE v == SubSeq(u, lo, hi)
<1>1. /\ Len(u) \in Nat /\ DOMAIN u = 1 .. Len(u)
      /\ lo \in DOMAIN u /\ hi \in DOMAIN u /\ lo <= hi
  BY Appended
<1>2. /\ v \in Text /\ Len(v) = hi - lo + 1
      /\ \A i \in 1 .. hi - lo + 1 : v[i] = u[lo + i - 1]
  BY <1>1, SubText
<1> HIDE DEF v
<1>3. \A i \in 1 .. Len(v) : v[i] = u[lo + i - 1] /\ lo + i - 1 \in 1 .. Len(u)
  BY <1>1, <1>2
<1>4. v[1] = u[lo] /\ v[hi - lo + 1] = u[hi]
  BY <1>1, <1>2
<1>5. ASSUME NEW i \in 1 .. Len(v) - 1 PROVE ~(v[i] = "-" /\ v[i + 1] = "-")
  <2> DEFINE j == lo + i - 1
  <2>1. j \in 1 .. Len(u) - 1 /\ v[i] = u[j] /\ v[i + 1] = u[j + 1]
    <3>1. i \in 1 .. Len(v) /\ i + 1 \in 1 .. Len(v) /\ lo + (i + 1) - 1 = j + 1
      BY <1>1, <1>2
    <3>2. v[i] = u[j] /\ v[i + 1] = u[j + 1] /\ j \in 1 .. Len(u) /\ j + 1 \in 1 .. Len(u)
      BY <1>3, <3>1
    <3>3. QED
      BY <1>1, <3>2
  <2>2. QED
    BY <2>1 DEF Clean
<1>6. Clean(v)
  <2>1. \A i \in 1 .. Len(v) : v[i] \in AlphaNum \union {"-"}
    BY <1>3 DEF Clean
  <2>2. QED
    BY <1>4, <1>5, <2>1 DEF Clean
<1>7. QED
  BY <1>2, <1>4, <1>6 DEF v

(* Without the dash at its end a clean text is a slug. *)
LEMMA TrimClean ==
  ASSUME NEW u \in Text, Clean(u), u # <<>>
  PROVE  Slug(Trim(u, {"-"})) /\ Len(Trim(u, {"-"})) <= Len(u)
<1>1. Len(u) \in Nat /\ DOMAIN u = 1 .. Len(u) /\ Len(u) # 0 /\ u[1] # "-"
  BY Appended DEF Clean
<1>2. PICK lo \in DOMAIN u, hi \in DOMAIN u :
         /\ lo <= hi /\ Trim(u, {"-"}) = SubSeq(u, lo, hi)
         /\ u[lo] # "-" /\ u[hi] # "-"
  <2>1. Trimmed(u, Trim(u, {"-"}), {"-"})
    BY TrimSpec
  <2>2. QED
    BY <1>1, <2>1 DEF Trimmed
<1>3. lo \in 1 .. Len(u) /\ hi \in lo .. Len(u)
  BY <1>1, <1>2
<1> DEFINE v == SubSeq(u, lo, hi)
<1>4. /\ v \in Text /\ Clean(v) /\ Len(v) = hi - lo + 1
      /\ v[hi - lo + 1] = u[hi]
  BY <1>2, <1>3, CleanPart
<1> HIDE DEF v
<1>5. v # <<>> /\ v[Len(v)] # "-" /\ Len(v) <= Len(u)
  BY <1>1, <1>2, <1>3, <1>4
<1>6. QED
  BY <1>2, <1>4, <1>5 DEF Slug, v

(* A slug stays one, and as it is if it fits. *)
LEMMA Truncated ==
  ASSUME NEW l, Slug(l)
  PROVE  /\ Slug(truncateDNSLabel(l)) /\ Len(truncateDNSLabel(l)) <= MaxLabel
         /\ Len(l) <= MaxLabel => truncateDNSLabel(l) = l
<1> DEFINE m == Min({Len(l), MaxLabel})
           v == SubSeq(l, 1, m)
<1>1. /\ l \in Text /\ Len(l) \in Nat /\ Len(l) # 0 /\ DOMAIN l = 1 .. Len(l)
      /\ l[1] # "-" /\ l[Len(l)] # "-" /\ Clean(l)
  BY Appended DEF Slug, Clean
<1>2. Trim(l, {"-"}) = l
  BY <1>1, TrimKeeps
<1>3. /\ m \in 1 .. Len(l) /\ m <= MaxLabel
      /\ Len(l) <= MaxLabel => m = Len(l)
  <2>1. \E n \in {Len(l), MaxLabel} : \A k \in {Len(l), MaxLabel} : n <= k
    BY <1>1, LabelAssumption
  <2>2. m \in {Len(l), MaxLabel} /\ m <= Len(l) /\ m <= MaxLabel
    BY <2>1 DEF Min
  <2> HIDE DEF m
  <2>3. QED
    BY <1>1, <2>2, LabelAssumption
<1>4. truncateDNSLabel(l) = Trim(v, {"-"})
  BY <1>2 DEF truncateDNSLabel
<1> HIDE DEF m
<1>5. v \in Text /\ Clean(v) /\ Len(v) = m /\ v # <<>>
  <2>1. 1 \in 1 .. Len(l) /\ m \in 1 .. Len(l)
    <3>1. Len(l) \in Nat /\ Len(l) # 0
      BY <1>1
    <3>2. QED
      BY <1>3, <3>1
  <2>2. v \in Text /\ Clean(v) /\ Len(v) = m - 1 + 1
    BY <1>1, <2>1, CleanPart
  <2> HIDE DEF v
  <2>3. QED
    BY <1>3, <2>2
<1>6. Len(l) <= MaxLabel => v = l
  BY <1>1, <1>3, SubSeqFull DEF Text
<1> HIDE DEF v
<1>7. Slug(Trim(v, {"-"})) /\ Len(Trim(v, {"-"})) <= m
  BY <1>5, TrimClean
<1>8. Len(Trim(v, {"-"})) \in Nat
  BY <1>7, Appended DEF Slug
<1>9. QED
  BY <1>2, <1>3, <1>4, <1>6, <1>7, <1>8, LabelAssumption

LEMMA Lowered ==
  ASSUME NEW t \in Text
  PROVE  /\ ToLower(t) \in Text /\ Len(ToLower(t)) = Len(t)
         /\ \A i \in 1 .. Len(t) :
               ToLower(t)[i] = IF t[i] = "A" THEN "a" ELSE t[i]
<1>1. DOMAIN t = 1 .. Len(t) /\ Len(t) \in Nat /\ \A i \in 1 .. Len(t) : t[i] \in Char
  BY DEF Text
<1>2. "a" \in Char
  BY DEF Char, AlphaNum
<1>3. ToLower(t) = [i \in 1 .. Len(t) |-> IF t[i] = "A" THEN "a" ELSE t[i]]
  BY <1>1 DEF ToLower
<1>4. ToLower(t) \in [1 .. Len(t) -> Char]
  BY <1>1, <1>2, <1>3
<1>5. ToLower(t) \in Seq(Char)
  BY <1>1, <1>4
<1>6. QED
  BY <1>1, <1>3, <1>4, <1>5 DEF Text

(* The label that sanitizeDNSLabel hands to truncateDNSLabel. *)
Lower(value) == ToLower(TrimSpace(value))
Base(value, fallback) == IF Lower(value) = <<>> THEN fallback ELSE Lower(value)
Label(value, fallback) ==
    LET label == Trim(Written(Base(value, fallback)), {"-"})
    IN  IF label = <<>> THEN fallback ELSE label

LEMMA Sanitize ==
  ASSUME NEW value, NEW fallback
  PROVE  sanitizeDNSLabel(value, fallback) = truncateDNSLabel(Label(value, fallback))
BY DEF sanitizeDNSLabel, Label, Base, Lower

LEMMA BaseText ==
  ASSUME NEW value \in Text, NEW fallback, Slug(fallback)
  PROVE  Lower(value) \in Text /\ Base(value, fallback) \in Text
<1>1. TrimSpace(value) \in Text
  BY TrimText DEF TrimSpace
<1>2. QED
  BY <1>1, Lowered DEF Lower, Base, Slug

LEMMA LabelIsSlug ==
  ASSUME NEW value \in Text, NEW fallback, Slug(fallback)
  PROVE  Slug(Label(value, fallback))
<1> DEFINE w == Written(Base(value, fallback))
<1>1. w \in Text /\ Clean(w)
  BY BaseText, WrittenIsClean
<1> HIDE DEF w
<1>2. CASE w = <<>>
  <2>1. Trim(w, {"-"}) = <<>>
    <3>1. DOMAIN w = {}
      BY <1>2
    <3>2. QED
      BY <3>1 DEF Trim
  <2>2. QED
    BY <2>1 DEF Label, w
<1>3. CASE w # <<>>
  <2>1. Slug(Trim(w, {"-"}))
    BY <1>1, <1>3, TrimClean
  <2>2. QED
    BY <2>1 DEF Label, Slug, w
<1>4. QED
  BY <1>2, <1>3

LEMMA Sanitized ==
  ASSUME NEW value \in Text, NEW fallback, Slug(fallback)
  PROVE  LET label == sanitizeDNSLabel(value, fallback)
         IN  /\ Slug(label) /\ Len(label) <= MaxLabel
             /\ Len(Label(value, fallback)) <= MaxLabel =>
                    label = Label(value, fallback)
BY LabelIsSlug, Truncated, Sanitize

LEMMA SanitizeKeeps ==
  ASSUME NEW l, Slug(l), Len(l) <= MaxLabel, NEW fallback
  PROVE  sanitizeDNSLabel(l, fallback) = l
<1>1. /\ l \in Text /\ Len(l) \in Nat /\ Len(l) # 0 /\ DOMAIN l = 1 .. Len(l)
      /\ l[1] # "-" /\ l[Len(l)] # "-" /\ Clean(l) /\ l # <<>>
      /\ \A i \in 1 .. Len(l) : l[i] \in AlphaNum \union {"-"}
  BY Appended DEF Slug, Clean
<1>2. \A i \in 1 .. Len(l) : l[i] # " " /\ l[i] # "A"
  BY <1>1, Dashless
<1>3. TrimSpace(l) = l
  <2>1. l[1] \notin {" "} /\ l[Len(l)] \notin {" "}
    <3>1. Len(l) \in Nat /\ Len(l) # 0
      BY <1>1
    <3>2. 1 \in 1 .. Len(l) /\ Len(l) \in 1 .. Len(l)
      BY <3>1
    <3>3. QED
      BY <1>2, <3>2
  <2>2. QED
    BY <1>1, <2>1, TrimKeeps DEF TrimSpace
<1>4. Lower(l) = l
  BY <1>1, <1>2, <1>3, Lowered, SeqEqual DEF Lower, Text
<1>5. Written(l) = l /\ Trim(l, {"-"}) = l
  <2>1. l[1] \notin {"-"} /\ l[Len(l)] \notin {"-"}
    BY <1>1
  <2>2. QED
    BY <1>1, <2>1, WrittenKeeps, TrimKeeps
<1>6. Label(l, fallback) = l
  BY <1>1, <1>4, <1>5 DEF Label, Base
<1>7. QED
  BY <1>6, Sanitize, Truncated

LEMMA Single ==
  ASSUME NEW c \in Char
  PROVE  /\ <<c>> \in Text /\ <<c>> \in Seq(Char)
         /\ Len(<<c>>) = 1 /\ <<c>>[1] = c /\ <<c>> # <<>>
<1>1. <<c>> \in Seq(Char) /\ Len(<<c>>) = 1 /\ <<c>>[1] = c /\ <<c>> # <<>>
  OBVIOUS
<1>2. QED
  BY <1>1 DEF Text

LEMMA Fallbacks ==
  ASSUME NEW word \in {ProjectWord, ServiceWord, AppWord, PrefixWord}
  PROVE  Slug(word) /\ Len(word) <= MaxLabel
<1>1. IsWord(word) /\ Len(word) <= MaxLabel
  BY LabelAssumption
<1>2. DOMAIN word = 1 .. Len(word)
  BY <1>1 DEF IsWord, Text
<1>3. QED
  BY <1>1, <1>2 DEF IsWord, Slug, Clean

-----------------------------------------------------------------------------
(* What a text says.                                                       *)

Count(t) == Cardinality(Letters(t))

LEMMA LettersFinite ==
  ASSUME NEW t \in Text
  PROVE  /\ Letters(t) \subseteq 1 .. Len(t) /\ IsFiniteSet(Letters(t))
         /\ Len(t) \in Nat /\ Count(t) \in Nat
<1>1. Len(t) \in Nat /\ DOMAIN t = 1 .. Len(t)
  BY DEF Text
<1>2. Letters(t) \in SUBSET (1 .. Len(t))
  BY <1>1 DEF Letters
<1>3. IsFiniteSet(1 .. Len(t))
  BY <1>1, FS_Interval
<1>4. IsFiniteSet(Letters(t))
  BY <1>2, <1>3, FS_Subset
<1>5. QED
  BY <1>1, <1>2, <1>4, FS_CardinalityType DEF Count

LEMMA Ranks ==
  ASSUME NEW t \in Text
  PROVE  /\ \A i \in Letters(t) : Rank(t, i) \in 1 .. Count(t)
         /\ \A i, j \in Letters(t) : i < j => Rank(t, i) < Rank(t, j)
<1> DEFINE Upto(i) == {j \in Letters(t) : j <= i}
<1>1. \A i \in Letters(t) : i \in Nat
  BY LettersFinite
<1>2. ASSUME NEW i \in Letters(t)
      PROVE  /\ IsFiniteSet(Upto(i)) /\ Cardinality(Upto(i)) \in 1 .. Count(t)
             /\ Rank(t, i) = Cardinality(Upto(i))
  <2>1. Upto(i) \in SUBSET Letters(t) /\ i \in Upto(i)
    BY <1>1
  <2>2. IsFiniteSet(Upto(i)) /\ Cardinality(Upto(i)) <= Count(t)
    BY <2>1, LettersFinite, FS_Subset DEF Count
  <2>3. Cardinality(Upto(i)) \in Nat /\ Cardinality(Upto(i)) # 0
    BY <2>1, <2>2, FS_CardinalityType, FS_EmptySet
  <2>4. Rank(t, i) = Cardinality(Upto(i))
    BY DEF Rank
  <2>5. QED
    BY <2>2, <2>3, <2>4, LettersFinite
<1>3. ASSUME NEW i \in Letters(t), NEW j \in Letters(t), i < j
      PROVE  Rank(t, i) < Rank(t, j)
  <2>1. Upto(i) \in SUBSET Upto(j) /\ j \in Upto(j) /\ j \notin Upto(i)
    BY <1>1, <1>3
  <2>2. /\ Cardinality(Upto(i)) <= Cardinality(Upto(j))
        /\ Cardinality(Upto(i)) # Cardinality(Upto(j))
    <3> HIDE DEF Upto
    <3>1. IsFiniteSet(Upto(j))
      BY <1>2
    <3>2. QED
      BY <2>1, <3>1, FS_Subset
  <2>3. QED
    BY <1>2, <2>2
<1>4. QED
  BY <1>2, <1>3

LEMMA OneRankEach ==
  ASSUME NEW t \in Text, NEW i \in Letters(t), NEW j \in Letters(t),
         Rank(t, i) = Rank(t, j)
  PROVE  i = j
<1>1. i \in Nat /\ j \in Nat /\ Rank(t, i) \in Nat /\ Rank(t, j) \in Nat
  BY LettersFinite, Ranks
<1>2. QED
  BY <1>1, Ranks

LEMMA Nths ==
  ASSUME NEW t \in Text
  PROVE  /\ \A k \in 1 .. Count(t) : Nth(t, k) \in Letters(t) /\ Rank(t, Nth(t, k)) = k
         /\ \A i \in Letters(t) : Nth(t, Rank(t, i)) = i
<1> DEFINE f == [i \in Letters(t) |-> Rank(t, i)]
<1>1. f \in Injection(Letters(t), 1 .. Count(t))
  <2>1. f \in [Letters(t) -> 1 .. Count(t)]
    BY Ranks
  <2>2. \A i, j \in DOMAIN f : f[i] = f[j] => i = j
    BY OneRankEach
  <2>3. QED
    BY <2>1, <2>2 DEF Injection, IsInjective
<1>2. f \in Surjection(Letters(t), 1 .. Count(t))
  <2>1. IsFiniteSet(1 .. Count(t)) /\ Cardinality(1 .. Count(t)) = Count(t)
    BY LettersFinite, FS_Interval
  <2> HIDE DEF f
  <2>2. QED
    BY <1>1, <2>1, FS_Injection DEF Count
<1>3. \A k \in 1 .. Count(t) : \E i \in Letters(t) : Rank(t, i) = k
  BY <1>2 DEF Surjection
<1>4. \A k \in 1 .. Count(t) : Nth(t, k) \in Letters(t) /\ Rank(t, Nth(t, k)) = k
  BY <1>3 DEF Nth
<1>5. \A i \in Letters(t) : Nth(t, Rank(t, i)) = i
  BY <1>4, Ranks, OneRankEach
<1>6. QED
  BY <1>4, <1>5

LEMMA Words ==
  ASSUME NEW t \in Text
  PROVE  /\ Shape(t) =
              [letters |-> [k \in 1 .. Count(t) |-> ToLower(t)[Nth(t, k)]],
               breaks |-> {k \in 1 .. Count(t) - 1 : Nth(t, k) + 1 \notin Letters(t)}]
         /\ Len(Shape(t).letters) = Count(t)
<1> DEFINE letters == [k \in 1 .. Count(t) |-> ToLower(t)[Nth(t, k)]]
           breaks == {k \in 1 .. Count(t) - 1 : Nth(t, k) + 1 \notin Letters(t)}
<1>1. Shape(t) = [letters |-> letters, breaks |-> breaks]
  BY DEF Shape, Count
<1>2. Len(letters) = Count(t)
  BY LettersFinite
<1>3. Len(Shape(t).letters) = Count(t)
  <2> HIDE DEF letters, breaks
  <2>1. Shape(t).letters = letters
    BY <1>1
  <2>2. QED
    BY <1>2, <2>1
<1>4. QED
  BY <1>1, <1>3

(* Two texts say the same if their letters do, in one order, and words end *)
(* at the same of them.                                                    *)
SaysAs(t, u, g) ==
    /\ g \in [Letters(t) -> Letters(u)]
    /\ \A j \in Letters(u) : \E i \in Letters(t) : g[i] = j
    /\ \A i, j \in Letters(t) : i < j => g[i] < g[j]
    /\ \A i \in Letters(t) :
          /\ ToLower(u)[g[i]] = ToLower(t)[i]
          /\ i + 1 \in Letters(t) <=> g[i] + 1 \in Letters(u)

LEMMA SameShape ==
  ASSUME NEW t \in Text, NEW u \in Text, NEW g, SaysAs(t, u, g)
  PROVE  Shape(t) = Shape(u)
<1>1. \A i, j \in Letters(t) : /\ i \in Nat /\ g[i] \in Nat
                               /\ g[i] <= g[j] <=> i <= j
  <2>1. ASSUME NEW i \in Letters(t), NEW j \in Letters(t)
        PROVE  /\ i \in Nat /\ g[i] \in Nat
               /\ g[i] <= g[j] <=> i <= j
    <3>1. i \in Nat /\ j \in Nat /\ g[i] \in Nat /\ g[j] \in Nat
      BY LettersFinite DEF SaysAs
    <3>2. (i < j => g[i] < g[j]) /\ (j < i => g[j] < g[i]) /\ (i = j => g[i] = g[j])
      BY DEF SaysAs
    <3>3. QED
      BY <3>1, <3>2
  <2>2. QED
    BY <2>1
<1>2. \A i, j \in Letters(t) : g[i] = g[j] => i = j
  <2>1. ASSUME NEW i \in Letters(t), NEW j \in Letters(t), g[i] = g[j]
        PROVE  i = j
    <3>1. g[i] <= g[j] /\ g[j] <= g[i]
      BY <1>1, <2>1
    <3>2. QED
      BY <1>1, <3>1
  <2>2. QED
    BY <2>1
<1>3. Count(t) = Count(u)
  <2>1. g \in Bijection(Letters(t), Letters(u))
    BY <1>2 DEF SaysAs, Bijection, Injection, Surjection, IsInjective
  <2>2. QED
    BY <2>1, LettersFinite, FS_Bijection DEF Count, ExistsBijection
<1>4. ASSUME NEW i \in Letters(t) PROVE Rank(u, g[i]) = Rank(t, i)
  <2> DEFINE A == {j \in Letters(t) : j <= i}
             B == {j \in Letters(u) : j <= g[i]}
             f == [j \in A |-> g[j]]
  <2>1. f \in [A -> B]
    BY <1>1 DEF SaysAs
  <2>2. \A j \in B : \E h \in A : f[h] = j
    BY <1>1 DEF SaysAs
  <2>3. \A j, h \in A : f[j] = f[h] => j = h
    BY <1>2
  <2>4. IsFiniteSet(A)
    <3>1. A \in SUBSET Letters(t)
      OBVIOUS
    <3> HIDE DEF A
    <3>2. QED
      BY <3>1, LettersFinite, FS_Subset
  <2>5. Cardinality(A) = Cardinality(B)
    <3> HIDE DEF A, B, f
    <3>1. f \in Bijection(A, B)
      BY <2>1, <2>2, <2>3 DEF Bijection, Injection, Surjection, IsInjective
    <3>2. QED
      BY <2>4, <3>1, FS_Bijection DEF ExistsBijection
  <2>6. QED
    BY <2>5 DEF Rank
<1>5. ASSUME NEW k \in 1 .. Count(t) PROVE Nth(u, k) = g[Nth(t, k)]
  <2>1. Nth(t, k) \in Letters(t) /\ Rank(t, Nth(t, k)) = k
    BY Nths
  <2>2. g[Nth(t, k)] \in Letters(u) /\ Rank(u, g[Nth(t, k)]) = k
    BY <1>4, <2>1 DEF SaysAs
  <2>3. Nth(u, k) \in Letters(u) /\ Rank(u, Nth(u, k)) = k
    BY <1>3, Nths
  <2>4. QED
    BY <2>2, <2>3, OneRankEach
<1>6. ASSUME NEW k \in 1 .. Count(t)
      PROVE  /\ ToLower(u)[Nth(u, k)] = ToLower(t)[Nth(t, k)]
             /\ Nth(t, k) + 1 \in Letters(t) <=> Nth(u, k) + 1 \in Letters(u)
  BY <1>5, Nths DEF SaysAs
<1>7. \A k \in 1 .. Count(t) - 1 : k \in 1 .. Count(t)
  BY LettersFinite
<1>8. QED
  BY <1>3, <1>6, <1>7, Words

LEMMA LetterAt ==
  ASSUME NEW t \in Text, NEW i
  PROVE  i \in Letters(t) <=> i \in 1 .. Len(t) /\ t[i] \in AlphaNum \union {"A"}
<1>1. DOMAIN t = 1 .. Len(t)
  BY DEF Text
<1>2. "a" \in AlphaNum /\ "A" \notin AlphaNum
  BY DEF AlphaNum
<1>3. QED
  BY <1>1, <1>2, Lowered DEF Letters

LEMMA LowerSays ==
  ASSUME NEW t \in Text
  PROVE  Shape(ToLower(t)) = Shape(t)
<1> DEFINE u == ToLower(t)
           g == [i \in Letters(t) |-> i]
<1>1. /\ u \in Text /\ Len(u) = Len(t) /\ ToLower(u) \in Text
      /\ DOMAIN t = 1 .. Len(t) /\ DOMAIN u = 1 .. Len(t)
  BY Lowered DEF Text
<1>2. \A i \in 1 .. Len(t) : ToLower(u)[i] = u[i]
  BY <1>1, Lowered
<1>3. Letters(u) = Letters(t)
  BY <1>1, <1>2 DEF Letters
<1>4. \A i \in Letters(t) : i \in 1 .. Len(t) /\ ToLower(u)[i] = u[i]
  BY <1>2, LettersFinite
<1>5. SaysAs(t, u, g)
  <2> HIDE DEF u
  <2>1. \A i \in Letters(t) : ToLower(u)[g[i]] = ToLower(t)[i]
    BY <1>4 DEF u
  <2>2. QED
    BY <1>3, <2>1 DEF SaysAs
<1>6. QED
  BY <1>1, <1>5, SameShape

LEMMA TrimSays ==
  ASSUME NEW t \in Text, NEW cut, \A c \in AlphaNum \union {"A"} : c \notin cut
  PROVE  Shape(Trim(t, cut)) = Shape(t)
<1> DEFINE u == Trim(t, cut)
<1>1. u \in Text /\ Trimmed(t, u, cut) /\ DOMAIN t = 1 .. Len(t) /\ Len(t) \in Nat
  BY TrimText, TrimSpec DEF Text
<1>2. \A i \in Letters(t) : i \in DOMAIN t /\ t[i] \notin cut
  BY <1>1, LetterAt
<1> HIDE DEF u
<1>3. CASE u = <<>> /\ \A i \in DOMAIN t : t[i] \in cut
  <2>1. Letters(t) = {} /\ Letters(u) = {}
    <3>1. Letters(t) = {}
      BY <1>2, <1>3
    <3>2. Letters(u) = {}
      BY <1>3 DEF Letters
    <3>3. QED
      BY <3>1, <3>2
  <2> DEFINE g == [i \in Letters(t) |-> i]
  <2>2. SaysAs(t, u, g)
    BY <2>1 DEF SaysAs
  <2>3. QED
    BY <1>1, <2>2, SameShape DEF u
<1>4. CASE \E lo, hi \in DOMAIN t :
              /\ lo <= hi /\ u = SubSeq(t, lo, hi)
              /\ \A i \in DOMAIN t : i < lo \/ hi < i => t[i] \in cut
  <2>1. PICK lo \in DOMAIN t, hi \in DOMAIN t :
           /\ lo <= hi /\ u = SubSeq(t, lo, hi)
           /\ \A i \in DOMAIN t : i < lo \/ hi < i => t[i] \in cut
    BY <1>4
  <2>2. /\ Len(u) = hi - lo + 1 /\ lo \in 1 .. Len(t) /\ hi \in 1 .. Len(t)
        /\ \A j \in 1 .. hi - lo + 1 : u[j] = t[lo + j - 1]
    BY <1>1, <2>1, SubText
  <2> DEFINE g == [i \in Letters(t) |-> i - lo + 1]
  <2>3. \A i \in Letters(t) : i \in lo .. hi
    BY <1>1, <1>2, <2>1, <2>2
  <2>4. ASSUME NEW j
        PROVE  j \in Letters(u) <=> j \in 1 .. hi - lo + 1 /\ lo + j - 1 \in Letters(t)
    <3>1. j \in 1 .. hi - lo + 1 => lo + j - 1 \in 1 .. Len(t)
      BY <1>1, <2>1, <2>2
    <3>2. QED
      BY <1>1, <2>2, <3>1, LetterAt
  <2>5. ASSUME NEW i \in Letters(t)
        PROVE  /\ g[i] \in Letters(u) /\ g[i] = i - lo + 1 /\ i \in Nat
               /\ ToLower(u)[g[i]] = ToLower(t)[i]
               /\ i + 1 \in Letters(t) <=> g[i] + 1 \in Letters(u)
    <3>1. /\ i \in lo .. hi /\ g[i] = i - lo + 1 /\ g[i] \in 1 .. hi - lo + 1
          /\ lo + g[i] - 1 = i /\ lo + (g[i] + 1) - 1 = i + 1
      <4>1. i \in lo .. hi /\ g[i] = i - lo + 1 /\ lo \in Int /\ hi \in Int
        BY <2>2, <2>3
      <4> HIDE DEF g
      <4>2. QED
        BY <4>1
    <3>2. g[i] \in Letters(u)
      BY <2>4, <3>1
    <3>3. ToLower(u)[g[i]] = ToLower(t)[i]
      <4>1. u[g[i]] = t[i] /\ g[i] \in 1 .. Len(u) /\ i \in 1 .. Len(t)
        BY <1>1, <2>2, <3>1
      <4>2. QED
        BY <1>1, <4>1, Lowered
    <3>4. i + 1 \in Letters(t) => g[i] + 1 \in 1 .. hi - lo + 1
      <4>1. i + 1 \in Letters(t) => i + 1 \in lo .. hi
        BY <2>3
      <4>2. lo \in Int /\ hi \in Int
        BY <2>2
      <4> HIDE DEF g
      <4>3. QED
        BY <3>1, <4>1, <4>2
    <3>5. i + 1 \in Letters(t) <=> g[i] + 1 \in Letters(u)
      <4>1. g[i] + 1 \in Letters(u) <=>
              g[i] + 1 \in 1 .. hi - lo + 1 /\ lo + (g[i] + 1) - 1 \in Letters(t)
        BY <2>4
      <4>2. QED
        BY <3>1, <3>4, <4>1
    <3>6. i \in Nat
      BY <2>2, <3>1
    <3>7. QED
      BY <3>1, <3>2, <3>3, <3>5, <3>6
  <2>6. ASSUME NEW j \in Letters(u) PROVE \E i \in Letters(t) : g[i] = j
    <3>1. lo + j - 1 \in Letters(t) /\ j \in 1 .. hi - lo + 1
      BY <2>4
    <3>2. g[lo + j - 1] = j
      BY <2>2, <3>1
    <3>3. QED
      BY <3>1, <3>2
  <2>7. SaysAs(t, u, g)
    <3>1. \A i, j \in Letters(t) : i < j => g[i] < g[j]
      BY <2>2, <2>5
    <3>2. g \in [Letters(t) -> Letters(u)]
      BY <2>5
    <3> HIDE DEF g
    <3>3. QED
      BY <2>5, <2>6, <3>1, <3>2 DEF SaysAs
  <2>8. QED
    BY <1>1, <2>7, SameShape DEF u
<1>5. QED
  BY <1>1, <1>3, <1>4 DEF Trimmed

LEMMA WrittenSays ==
  ASSUME NEW t \in Text, \A i \in 1 .. Len(t) : t[i] # "A"
  PROVE  Shape(Written(t)) = Shape(t)
<1>1. PICK b : Loops(b, t) /\ Written(t) = b[Len(t)]
  BY Loop
<1> DEFINE w == b[Len(t)]
           g == [i \in Letters(t) |-> Len(b[i])]
<1>2. /\ Len(t) \in Nat /\ w \in Text /\ Len(w) \in Nat /\ Clean(w)
      /\ Len(b[0]) = 0
      /\ \A n \in 0 .. Len(t) : b[n] \in Text /\ Len(b[n]) \in Nat
  BY <1>1, LoopText, WrittenIsClean
<1>3. \A i \in 0 .. Len(t) : /\ Len(b[i]) <= Len(w)
                             /\ \A p \in 1 .. Len(b[i]) : w[p] = b[i][p]
  <2>1. ASSUME NEW i \in 0 .. Len(t)
        PROVE  /\ Len(b[i]) <= Len(w)
               /\ \A p \in 1 .. Len(b[i]) : w[p] = b[i][p]
    <3>1. Len(t) \in i .. Len(t)
      BY <1>2
    <3>2. QED
      BY <1>1, <3>1, Growth
  <2>2. QED
    BY <2>1
<1> HIDE DEF w
<1>4. /\ \A i \in Letters(t) : i \in 1 .. Len(t) /\ t[i] \in AlphaNum
      /\ \A i \in 1 .. Len(t) : t[i] \in AlphaNum => i \in Letters(t)
      /\ \A p : p \in Letters(w) <=> p \in 1 .. Len(w) /\ w[p] \in AlphaNum
  <2>1. \A p \in 1 .. Len(w) : w[p] # "A"
    <3>1. "-" # "A"
      OBVIOUS
    <3>2. QED
      BY <1>2, <3>1, Dashless DEF Clean
  <2>2. QED
    BY <1>2, <2>1, LetterAt
<1>5. ASSUME NEW i \in 1 .. Len(t), Writes(b, t, i)
      PROVE  /\ Len(b[i]) = Len(b[i - 1]) + 1 /\ Len(b[i]) \in 1 .. Len(w)
             /\ t[i] \in AlphaNum => w[Len(b[i])] = t[i]
             /\ t[i] \notin AlphaNum => w[Len(b[i])] = "-"
  <2>1. i \in 0 .. Len(t) /\ i - 1 \in 0 .. Len(t)
    BY <1>2
  <2>2. Len(b[i]) = Len(b[i - 1]) + 1 /\ Len(b[i]) \in 1 .. Len(b[i]) /\ Len(b[i]) \in 1 .. Len(w)
    BY <1>2, <1>3, <1>5, <2>1 DEF Writes
  <2>3. w[Len(b[i])] = b[i][Len(b[i])]
    BY <1>3, <2>1, <2>2
  <2>4. QED
    BY <1>5, <2>2, <2>3 DEF Writes
<1>6. ASSUME NEW i \in Letters(t)
      PROVE  /\ Writes(b, t, i) /\ Len(b[i]) = Len(b[i - 1]) + 1 /\ b[i] # <<>>
             /\ Len(b[i]) \in Letters(w) /\ w[Len(b[i])] = t[i]
             /\ b[i][Len(b[i])] = t[i]
  <2>1. i \in 1 .. Len(t) /\ t[i] \in AlphaNum
    BY <1>4
  <2>2. Writes(b, t, i)
    BY <1>1, <2>1, OneCharacter DEF Skips
  <2>3. Len(b[i]) = Len(b[i - 1]) + 1 /\ Len(b[i]) \in 1 .. Len(w) /\ w[Len(b[i])] = t[i]
    BY <1>5, <2>1, <2>2
  <2>4. b[i] # <<>>
    BY <1>2, <2>1, <2>3, Appended
  <2>5. QED
    BY <1>4, <2>1, <2>2, <2>3, <2>4 DEF Writes
<1>7. ASSUME NEW p \in Letters(w) PROVE \E i \in Letters(t) : Len(b[i]) = p
  <2>1. p \in 1 .. Len(w) /\ w[p] \in AlphaNum /\ Len(t) \in 0 .. Len(t)
    BY <1>2, <1>4
  <2>2. PICK i \in 1 .. Len(t) : Len(b[i]) = p /\ Writes(b, t, i)
    BY <1>1, <2>1, Origin DEF w
  <2>3. t[i] \in AlphaNum
    BY <1>5, <2>1, <2>2, Dashless
  <2>4. QED
    BY <1>4, <2>2, <2>3
<1>8. ASSUME NEW i \in Letters(t), NEW j \in Letters(t), i < j
      PROVE  Len(b[i]) < Len(b[j])
  <2>1. i \in 0 .. Len(t) /\ j - 1 \in i .. Len(t) /\ j - 1 \in 0 .. Len(t) /\ j \in 0 .. Len(t)
    BY <1>2, <1>4, <1>8
  <2>2. Len(b[i]) <= Len(b[j - 1])
    BY <1>1, <2>1, Growth
  <2>3. QED
    BY <1>2, <1>6, <2>1, <2>2
<1>9. ASSUME NEW i \in Letters(t)
      PROVE  i + 1 \in Letters(t) <=> Len(b[i]) + 1 \in Letters(w)
  <2>1. i \in 1 .. Len(t) /\ i \in 0 .. Len(t) /\ (i + 1) - 1 = i
    BY <1>2, <1>4
  <2>2. CASE i + 1 \in Letters(t)
    BY <1>6, <2>1, <2>2
  <2>3. CASE i + 1 \in 1 .. Len(t) /\ i + 1 \notin Letters(t)
    <3>1. t[i + 1] \notin AlphaNum
      BY <1>4, <2>3
    <3>2. b[i] # <<>> /\ b[i][Len(b[i])] # "-"
      <4>1. b[i] # <<>> /\ b[i][Len(b[i])] = t[i] /\ t[i] \in AlphaNum
        BY <1>4, <1>6
      <4>2. QED
        BY <4>1, Dashless
    <3>3. Writes(b, t, i + 1)
      BY <1>1, <2>1, <2>3, <3>2, OneCharacter DEF Skips
    <3>4. w[Len(b[i]) + 1] = "-"
      BY <1>5, <2>1, <2>3, <3>1, <3>3
    <3>5. QED
      BY <1>4, <2>3, <3>4, Dashless
  <2>4. CASE i + 1 \notin 1 .. Len(t)
    <3>1. i = Len(t)
      BY <1>2, <2>1, <2>4
    <3>2. Len(b[i]) + 1 \notin 1 .. Len(w)
      BY <1>2, <3>1 DEF w
    <3>3. QED
      BY <1>4, <2>4, <3>2
  <2>5. QED
    BY <2>2, <2>3, <2>4
<1>10. SaysAs(t, w, g)
  <2>1. ASSUME NEW i \in Letters(t) PROVE ToLower(w)[g[i]] = ToLower(t)[i]
    <3>1. /\ g[i] \in 1 .. Len(w) /\ i \in 1 .. Len(t) /\ w[g[i]] = t[i] /\ t[i] # "A"
      BY <1>4, <1>6
    <3>2. QED
      BY <1>2, <3>1, Lowered
  <2>2. g \in [Letters(t) -> Letters(w)]
    BY <1>6
  <2>3. \A i \in Letters(t) : g[i] = Len(b[i])
    OBVIOUS
  <2> HIDE DEF g
  <2>4. QED
    BY <1>7, <1>8, <1>9, <2>1, <2>2, <2>3 DEF SaysAs
<1>11. QED
  BY <1>1, <1>2, <1>10, SameShape DEF w

(* A slug of n characters: its letters and one dash after each word but    *)
(* the last.                                                               *)
LEMMA SlugSays ==
  ASSUME NEW l, Slug(l)
  PROVE  /\ Size(Shape(l)) = Len(l)
         /\ Count(l) >= 1
         /\ Shape(l).breaks = {} => \A i \in 1 .. Len(l) : l[i] # "-"
<1>1. /\ l \in Text /\ Len(l) \in Nat /\ Len(l) # 0 /\ l # <<>>
      /\ l[1] # "-" /\ l[Len(l)] # "-" /\ Clean(l)
      /\ \A i \in 1 .. Len(l) : l[i] \in AlphaNum \union {"-"}
      /\ \A i \in 1 .. Len(l) - 1 : ~(l[i] = "-" /\ l[i + 1] = "-")
  BY Appended DEF Slug, Clean
<1> DEFINE letters == Letters(l)
           dashes == {i \in 1 .. Len(l) : l[i] = "-"}
           breaks == {k \in 1 .. Count(l) - 1 : Nth(l, k) + 1 \notin Letters(l)}
           f == [k \in breaks |-> Nth(l, k) + 1]
<1>2. \A i : i \in letters <=> i \in 1 .. Len(l) /\ l[i] # "-"
  <2>1. "-" \notin AlphaNum \union {"A"}
    BY Dashless
  <2>2. QED
    BY <1>1, <2>1, LetterAt
<1>3. Count(l) \in Nat /\ \A k \in 1 .. Count(l) : Nth(l, k) \in letters /\ Rank(l, Nth(l, k)) = k
  BY <1>1, LettersFinite, Nths
<1>4. Len(l) \in letters /\ Rank(l, Len(l)) \in 1 .. Count(l)
  <2>1. Len(l) \in letters
    BY <1>1, <1>2
  <2>2. QED
    BY <1>1, <2>1, Ranks
<1> HIDE DEF letters
<1>5. ASSUME NEW k \in breaks PROVE f[k] \in dashes
  <2>1. k \in 1 .. Count(l) - 1 /\ k \in 1 .. Count(l) /\ Nth(l, k) + 1 \notin letters
    BY <1>3 DEF letters
  <2>2. Nth(l, k) \in 1 .. Len(l)
    BY <1>2, <1>3, <2>1
  <2>3. Nth(l, k) # Len(l)
    <3>1. SUFFICES ASSUME Nth(l, k) = Len(l) PROVE FALSE
      OBVIOUS
    <3>2. Nth(l, Count(l)) \in letters /\ Rank(l, Nth(l, Count(l))) = Count(l)
      BY <1>3, <2>1
    <3>3. Nth(l, Count(l)) \in 1 .. Len(l) /\ Rank(l, Len(l)) = k
      BY <1>2, <1>3, <2>1, <3>1, <3>2
    <3>4. Nth(l, Count(l)) # Len(l)
      BY <1>3, <2>1, <3>2, <3>3
    <3>5. Rank(l, Nth(l, Count(l))) < Rank(l, Len(l))
      <4>1. Nth(l, Count(l)) < Len(l)
        BY <1>1, <3>3, <3>4
      <4>2. QED
        BY <1>1, <1>4, <3>2, <4>1, Ranks DEF letters
    <3>6. QED
      BY <1>3, <2>1, <3>2, <3>3, <3>5
  <2>4. Nth(l, k) + 1 \in 1 .. Len(l)
    BY <1>1, <2>2, <2>3
  <2>5. QED
    BY <1>2, <2>1, <2>4
<1>6. ASSUME NEW j \in breaks, NEW k \in breaks, f[j] = f[k] PROVE j = k
  <2>1. /\ j \in 1 .. Count(l) /\ k \in 1 .. Count(l)
        /\ Nth(l, j) \in Nat /\ Nth(l, k) \in Nat
    BY <1>2, <1>3
  <2>2. Nth(l, j) = Nth(l, k)
    BY <1>6, <2>1
  <2>3. QED
    BY <1>3, <2>1, <2>2
<1>7. ASSUME NEW d \in dashes PROVE \E k \in breaks : f[k] = d
  <2>1. d \in 1 .. Len(l) /\ l[d] = "-" /\ d # 1 /\ d # Len(l)
    BY <1>1
  <2>2. d - 1 \in 1 .. Len(l) - 1 /\ d - 1 \in 1 .. Len(l) /\ d - 1 < Len(l)
    BY <1>1, <2>1
  <2>3. l[d - 1] # "-"
    <3>1. (d - 1) + 1 = d
      BY <2>1
    <3>2. QED
      BY <1>1, <2>1, <2>2, <3>1
  <2>4. d - 1 \in letters /\ d \notin letters
    BY <1>2, <2>1, <2>2, <2>3
  <2> DEFINE k == Rank(l, d - 1)
  <2>5. Nth(l, k) = d - 1 /\ k \in 1 .. Count(l)
    BY <1>1, <2>4, Nths, Ranks DEF letters
  <2>6. k < Rank(l, Len(l))
    BY <1>1, <1>4, <2>2, <2>4, Ranks DEF letters
  <2> HIDE DEF k
  <2>7. k \in 1 .. Count(l) - 1
    BY <1>3, <1>4, <2>5, <2>6
  <2>8. Nth(l, k) + 1 = d
    BY <2>1, <2>5
  <2>9. QED
    BY <2>4, <2>7, <2>8 DEF letters
<1>8. IsFiniteSet(dashes) /\ IsFiniteSet(letters) /\ IsFiniteSet(breaks)
  <2>1. IsFiniteSet(1 .. Len(l)) /\ IsFiniteSet(1 .. Count(l) - 1)
    BY <1>1, <1>3, FS_Interval
  <2>2. dashes \in SUBSET (1 .. Len(l)) /\ breaks \in SUBSET (1 .. Count(l) - 1)
    OBVIOUS
  <2> HIDE DEF dashes, breaks
  <2>3. QED
    BY <1>1, <2>1, <2>2, FS_Subset, LettersFinite DEF letters
<1>9. Cardinality(breaks) = Cardinality(dashes)
  <2>1. f \in [breaks -> dashes]
    BY <1>5
  <2>2. \A j, k \in breaks : f[j] = f[k] => j = k
    BY <1>6
  <2> HIDE DEF f, breaks, dashes
  <2>3. f \in Bijection(breaks, dashes)
    BY <1>7, <2>1, <2>2 DEF Bijection, Injection, Surjection, IsInjective
  <2>4. QED
    BY <1>8, <2>3, FS_Bijection DEF ExistsBijection
<1>10. Len(l) = Count(l) + Cardinality(dashes)
  <2>1. letters \union dashes = 1 .. Len(l) /\ letters \intersect dashes = {}
    BY <1>2
  <2>2. Cardinality(letters) = Count(l)
    BY DEF Count, letters
  <2>3. Cardinality(1 .. Len(l)) = Len(l)
    <3>1. Len(l) \in Nat /\ Len(l) # 0
      BY <1>1
    <3>2. QED
      BY <3>1, FS_Interval
  <2> HIDE DEF dashes
  <2>4. Cardinality(letters \union dashes) = Count(l) + Cardinality(dashes) - 0
    BY <1>8, <2>1, <2>2, FS_Union, FS_EmptySet
  <2>5. Cardinality(dashes) \in Nat
    BY <1>8, FS_CardinalityType
  <2>6. Len(l) = Count(l) + Cardinality(dashes) - 0
    BY <2>1, <2>3, <2>4
  <2>7. QED
    BY <1>3, <2>5, <2>6
<1>11. Shape(l).breaks = breaks /\ Len(Shape(l).letters) = Count(l)
  BY <1>1, Words
<1>12. breaks = {} => dashes = {}
  BY <1>7
<1>13. Size(Shape(l)) = Len(l)
  BY <1>9, <1>10, <1>11 DEF Size
<1>14. Count(l) >= 1
  <2>1. 1 \in 1 .. Count(l)
    BY <1>3, <1>4
  <2>2. QED
    BY <1>3, <2>1
<1>15. QED
  BY <1>11, <1>12, <1>13, <1>14

LEMMA NoLetters ==
  ASSUME NEW t \in Text
  PROVE  Shape(t).letters = <<>> <=> Count(t) = 0
<1> DEFINE letters == [k \in 1 .. Count(t) |-> ToLower(t)[Nth(t, k)]]
<1>1. Count(t) \in Nat
  BY LettersFinite
<1>2. letters = <<>> <=> Count(t) = 0
  BY <1>1
<1> HIDE DEF letters
<1>3. Shape(t).letters = letters
  BY Words DEF letters
<1>4. QED
  BY <1>2, <1>3

(* The label says what the text says, or else what the fallback says. *)
LEMMA LabelSays ==
  ASSUME NEW text \in Text, NEW fallback, Slug(fallback)
  PROVE  Shape(Label(text, fallback)) = Meaning(text, fallback)
<1> DEFINE low == Lower(text)
           w == Written(Base(text, fallback))
<1>1. TrimSpace(text) \in Text /\ low \in Text
  BY TrimText, BaseText DEF TrimSpace
<1>2. Shape(low) = Shape(text)
  <2>1. \A c \in AlphaNum \union {"A"} : c \notin {" "}
    BY Dashless
  <2>2. Shape(TrimSpace(text)) = Shape(text)
    BY <2>1, TrimSays DEF TrimSpace
  <2>3. QED
    BY <1>1, <2>2, LowerSays DEF Lower
<1>3. /\ fallback \in Text /\ fallback # <<>> /\ Clean(fallback)
      /\ fallback[1] # "-" /\ fallback[Len(fallback)] # "-"
  BY DEF Slug, Clean
<1>4. CASE low = <<>>
  <2>1. Label(text, fallback) = fallback
    <3>1. Written(fallback) = fallback /\ Trim(fallback, {"-"}) = fallback
      BY <1>3, WrittenKeeps, TrimKeeps
    <3>2. QED
      BY <1>3, <1>4, <3>1 DEF Label, Base
  <2>2. Shape(text).letters = <<>>
    <3>1. Letters(low) = {}
      BY <1>4 DEF Letters
    <3>2. Count(low) = 0
      BY <3>1, FS_EmptySet DEF Count
    <3>3. QED
      BY <1>1, <1>2, <3>2, NoLetters
  <2>3. QED
    BY <2>1, <2>2 DEF Meaning
<1>5. CASE low # <<>>
  <2>1. Base(text, fallback) = low
    BY <1>5 DEF Base
  <2>2. \A i \in 1 .. Len(low) : low[i] # "A"
    <3>1. \A i \in 1 .. Len(low) :
             low[i] = IF TrimSpace(text)[i] = "A" THEN "a" ELSE TrimSpace(text)[i]
      BY <1>1, Lowered DEF Lower
    <3>2. "a" # "A"
      OBVIOUS
    <3> HIDE DEF low
    <3>3. QED
      BY <3>1, <3>2
  <2> HIDE DEF low
  <2>3. w \in Text /\ Clean(w) /\ Shape(w) = Shape(text)
    BY <1>1, <1>2, <2>1, <2>2, WrittenIsClean, WrittenSays
  <2> HIDE DEF w
  <2>4. Shape(Trim(w, {"-"})) = Shape(text)
    <3>1. \A c \in AlphaNum \union {"A"} : c \notin {"-"}
      BY Dashless
    <3>2. QED
      BY <2>3, <3>1, TrimSays
  <2>5. CASE w = <<>>
    <3>1. Trim(w, {"-"}) = <<>> /\ Count(<<>>) = 0
      <4>1. DOMAIN w = {} /\ Letters(<<>>) = {}
        BY <2>5 DEF Letters
      <4>2. QED
        BY <4>1, FS_EmptySet DEF Trim, Count
    <3>2. Shape(text).letters = <<>>
      BY <2>4, <3>1, NoLetters, TrimText, <2>3
    <3>3. QED
      BY <3>1, <3>2 DEF Meaning, Label, w
  <2>6. CASE w # <<>>
    <3>1. Slug(Trim(w, {"-"}))
      BY <2>3, <2>6, TrimClean
    <3>2. Label(text, fallback) = Trim(w, {"-"})
      BY <3>1 DEF Label, Slug, w
    <3>3. Shape(text).letters # <<>>
      <4>1. Trim(w, {"-"}) \in Text /\ Count(Trim(w, {"-"})) # 0
        BY <3>1, SlugSays, LettersFinite DEF Slug
      <4>2. QED
        BY <2>4, <4>1, NoLetters
    <3>4. QED
      BY <2>4, <3>2, <3>3 DEF Meaning
  <2>7. QED
    BY <2>5, <2>6
<1>6. QED
  BY <1>4, <1>5

(* A label, and if it fits the one that says all. *)
LEMMA LabelOf ==
  ASSUME NEW text \in Text, NEW fallback, Slug(fallback)
  PROVE  LET label == sanitizeDNSLabel(text, fallback)
             meaning == Meaning(text, fallback)
         IN  /\ Slug(label) /\ Len(label) <= MaxLabel
             /\ Size(meaning) <= MaxLabel =>
                    Shape(label) = meaning /\ Len(label) = Size(meaning)
<1>1. /\ Slug(Label(text, fallback))
      /\ Shape(Label(text, fallback)) = Meaning(text, fallback)
  BY LabelIsSlug, LabelSays
<1>2. Len(Label(text, fallback)) = Size(Meaning(text, fallback))
  BY <1>1, SlugSays
<1>3. QED
  BY <1>1, <1>2, Sanitized

LEMMA Reads ==
  ASSUME NEW text \in Text
  PROVE  ReadsRight(text)
<1> DEFINE label == sanitizeDNSLabel(text, ProjectWord)
<1>1. /\ Slug(label) /\ Len(label) <= MaxLabel
      /\ Size(Meaning(text, ProjectWord)) <= MaxLabel => Shape(label) = Meaning(text, ProjectWord)
  BY Fallbacks, LabelOf
<1>2. IsLabel(label)
  BY <1>1, SlugIsLabel
<1>3. sanitizeDNSLabel(label, ProjectWord) = label
  BY <1>1, SanitizeKeeps
<1>4. QED
  BY <1>1, <1>2, <1>3 DEF ReadsRight

-----------------------------------------------------------------------------
(* targetForRequest.                                                       *)

Dashed(a, b) == a \o <<"-">> \o b

LEMMA DashedText ==
  ASSUME NEW a \in Text, NEW b \in Text
  PROVE  /\ Dashed(a, b) \in Text /\ Len(a) \in Nat /\ Len(b) \in Nat
         /\ Len(Dashed(a, b)) = Len(a) + 1 + Len(b)
         /\ \A i \in 1 .. Len(a) : Dashed(a, b)[i] = a[i]
         /\ Dashed(a, b)[Len(a) + 1] = "-"
         /\ \A i \in 1 .. Len(b) : Dashed(a, b)[Len(a) + 1 + i] = b[i]
<1> DEFINE d == <<"-">>
<1>1. d \in Seq(Char) /\ Len(d) = 1 /\ d[1] = "-"
  <2>1. "-" \in Char
    BY DEF Char
  <2>2. QED
    BY <2>1, Single
<1>0. a \in Seq(Char) /\ b \in Seq(Char) /\ Len(a) \in Nat /\ Len(b) \in Nat
  BY DEF Text
<1> HIDE DEF d
<1>2. /\ a \o d \in Text /\ Len(a) \in Nat /\ Len(a \o d) = Len(a) + 1
      /\ \A i \in 1 .. Len(a) + 1 :
            (a \o d)[i] = IF i <= Len(a) THEN a[i] ELSE d[i - Len(a)]
  <2>1. /\ a \o d \in Seq(Char) /\ Len(a \o d) = Len(a) + Len(d)
        /\ \A i \in 1 .. Len(a) + Len(d) :
              (a \o d)[i] = IF i <= Len(a) THEN a[i] ELSE d[i - Len(a)]
    BY <1>0, <1>1, ConcatProperties
  <2>2. QED
    BY <1>0, <1>1, <2>1 DEF Text
<1>3. /\ \A i \in 1 .. Len(a) : (a \o d)[i] = a[i]
      /\ (a \o d)[Len(a) + 1] = "-"
  BY <1>1, <1>2
<1> DEFINE c == a \o d
<1> HIDE DEF c
<1>4. /\ c \in Seq(Char) /\ Len(c) = Len(a) + 1
      /\ \A i \in 1 .. Len(a) : c[i] = a[i]
      /\ c[Len(a) + 1] = "-"
  BY <1>2, <1>3 DEF c, Text
<1>5. /\ c \o b \in Text /\ Len(b) \in Nat /\ Len(c \o b) = Len(c) + Len(b)
      /\ \A i \in 1 .. Len(c) + Len(b) :
            (c \o b)[i] = IF i <= Len(c) THEN c[i] ELSE b[i - Len(c)]
  BY <1>0, <1>4, ConcatProperties DEF Text
<1>6. Dashed(a, b) = c \o b
  BY DEF Dashed, c, d
<1>7. /\ \A i \in 1 .. Len(a) : (c \o b)[i] = a[i]
      /\ (c \o b)[Len(a) + 1] = "-"
  BY <1>2, <1>4, <1>5
<1>8. ASSUME NEW i \in 1 .. Len(b) PROVE (c \o b)[Len(a) + 1 + i] = b[i]
  <2>1. /\ Len(a) + 1 + i \in 1 .. Len(c) + Len(b) /\ ~(Len(a) + 1 + i <= Len(c))
        /\ (Len(a) + 1 + i) - Len(c) = i
    BY <1>2, <1>4, <1>5
  <2>2. QED
    BY <1>5, <2>1
<1>9. QED
  BY <1>2, <1>4, <1>5, <1>6, <1>7, <1>8

LEMMA DashedSlug ==
  ASSUME NEW a, NEW b, Slug(a), Slug(b)
  PROVE  Slug(Dashed(a, b))
<1> DEFINE c == Dashed(a, b)
           m == Len(a)
<1>1. /\ a \in Text /\ b \in Text /\ a # <<>> /\ b # <<>> /\ Clean(a) /\ Clean(b)
      /\ a[m] # "-" /\ b[Len(b)] # "-" /\ a[1] # "-" /\ b[1] # "-"
  BY DEF Slug, Clean
<1>2. /\ c \in Text /\ m \in Nat /\ Len(b) \in Nat /\ Len(c) = m + 1 + Len(b)
      /\ \A i \in 1 .. m : c[i] = a[i]
      /\ c[m + 1] = "-"
      /\ \A i \in 1 .. Len(b) : c[m + 1 + i] = b[i]
      /\ m # 0 /\ Len(b) # 0
  <2>1. Len(a) \in Nat /\ Len(a) # 0 /\ Len(b) \in Nat /\ Len(b) # 0
    BY <1>1, Appended
  <2>2. /\ Dashed(a, b) \in Text /\ Len(Dashed(a, b)) = Len(a) + 1 + Len(b)
        /\ \A i \in 1 .. Len(a) : Dashed(a, b)[i] = a[i]
        /\ Dashed(a, b)[Len(a) + 1] = "-"
        /\ \A i \in 1 .. Len(b) : Dashed(a, b)[Len(a) + 1 + i] = b[i]
    BY <1>1, DashedText
  <2>3. QED
    BY <2>1, <2>2
<1> HIDE DEF c, m
<1>3. ASSUME NEW i \in 1 .. Len(c)
      PROVE  i \in 1 .. m \/ i = m + 1 \/ \E j \in 1 .. Len(b) : i = m + 1 + j
  <2>1. i > m + 1 => i - (m + 1) \in 1 .. Len(b) /\ i = m + 1 + (i - (m + 1))
    BY <1>2
  <2>2. QED
    BY <1>2, <2>1
<1>4. ASSUME NEW i \in 1 .. Len(c) PROVE c[i] \in AlphaNum \union {"-"}
  <2>1. CASE i \in 1 .. m
    BY <1>1, <1>2, <2>1 DEF Clean, m
  <2>2. CASE i = m + 1
    BY <1>2, <2>2
  <2>3. CASE \E j \in 1 .. Len(b) : i = m + 1 + j
    BY <1>1, <1>2, <2>3 DEF Clean
  <2>4. QED
    BY <1>3, <2>1, <2>2, <2>3
<1>5. ASSUME NEW i \in 1 .. Len(c) - 1 PROVE ~(c[i] = "-" /\ c[i + 1] = "-")
  <2>1. CASE i < m
    <3>1. i \in 1 .. m - 1 /\ c[i] = a[i] /\ c[i + 1] = a[i + 1]
      BY <1>2, <2>1
    <3>2. QED
      BY <1>1, <3>1 DEF Clean, m
  <2>2. CASE i = m
    BY <1>1, <1>2, <2>2 DEF m
  <2>3. CASE i = m + 1
    <3>1. i + 1 = m + 1 + 1 /\ 1 \in 1 .. Len(b)
      BY <1>2, <2>3
    <3>2. c[i + 1] = b[1]
      BY <1>2, <3>1
    <3>3. QED
      BY <1>1, <3>2
  <2>4. CASE i > m + 1
    <3> DEFINE j == i - (m + 1)
    <3>1. j \in 1 .. Len(b) - 1 /\ j \in 1 .. Len(b) /\ j + 1 \in 1 .. Len(b)
          /\ i = m + 1 + j /\ i + 1 = m + 1 + (j + 1)
      BY <1>2, <2>4
    <3> HIDE DEF j
    <3>2. c[i] = b[j] /\ c[i + 1] = b[j + 1]
      BY <1>2, <3>1
    <3>3. QED
      BY <1>1, <3>1, <3>2 DEF Clean
  <2>5. QED
    BY <1>2, <2>1, <2>2, <2>3, <2>4
<1>6. c[1] = a[1] /\ c[Len(c)] = b[Len(b)] /\ Len(c) # 0
  <2>1. 1 \in 1 .. m /\ Len(b) \in 1 .. Len(b)
    BY <1>2
  <2>2. QED
    BY <1>2, <2>1
<1>7. c # <<>>
  BY <1>2, <1>6, Appended
<1>8. QED
  BY <1>1, <1>2, <1>4, <1>5, <1>6, <1>7 DEF Slug, Clean, c

LEMMA JoinedFits ==
  ASSUME NEW a, NEW b, Slug(a), Slug(b), Len(a) + 1 + Len(b) <= MaxLabel
  PROVE  Joined(a, b) = Dashed(a, b)
<1>1. Slug(Dashed(a, b)) /\ Len(Dashed(a, b)) <= MaxLabel
  <2>1. a \in Text /\ b \in Text
    BY DEF Slug
  <2>2. Len(Dashed(a, b)) = Len(a) + 1 + Len(b)
    BY <2>1, DashedText
  <2>3. QED
    BY <2>2, DashedSlug
<1>2. Joined(a, b) = truncateDNSLabel(Dashed(a, b))
  BY DEF Joined, Dashed
<1>3. QED
  BY <1>1, <1>2, Truncated

LEMMA SecondPart ==
  ASSUME NEW a \in Text, NEW b \in Text, NEW c \in Text, Dashed(a, b) = Dashed(a, c)
  PROVE  b = c
<1>1. a \o <<"-">> \in Text
  <2>1. "-" \in Char
    BY DEF Char
  <2>2. <<"-">> \in Seq(Char) /\ a \in Seq(Char)
    BY <2>1, Single DEF Text
  <2> DEFINE dash == <<"-">>
  <2> HIDE DEF dash
  <2>3. a \o dash \in Seq(Char)
    BY <2>2, ConcatProperties DEF dash
  <2>4. QED
    BY <2>3 DEF dash, Text
<1>2. QED
  BY <1>1, ConcatSimplifications DEF Dashed, Text

LEMMA BothParts ==
  ASSUME NEW a \in Text, NEW b \in Text, NEW c \in Text, NEW d \in Text,
         \A i \in 1 .. Len(a) : a[i] # "-", \A i \in 1 .. Len(c) : c[i] # "-",
         Dashed(a, b) = Dashed(c, d)
  PROVE  a = c /\ b = d
<1> DEFINE u == Dashed(a, b)
<1>1. /\ Len(a) \in Nat /\ Len(c) \in Nat
      /\ \A i \in 1 .. Len(a) : u[i] = a[i]
      /\ \A i \in 1 .. Len(c) : u[i] = c[i]
      /\ u[Len(a) + 1] = "-" /\ u[Len(c) + 1] = "-"
  <2>1. /\ Len(a) \in Nat /\ \A i \in 1 .. Len(a) : Dashed(a, b)[i] = a[i]
        /\ Dashed(a, b)[Len(a) + 1] = "-"
    BY DashedText
  <2>2. /\ Len(c) \in Nat /\ \A i \in 1 .. Len(c) : Dashed(c, d)[i] = c[i]
        /\ Dashed(c, d)[Len(c) + 1] = "-"
    BY DashedText
  <2>3. QED
    BY <2>1, <2>2
<1> HIDE DEF u
<1>2. Len(a) = Len(c)
  <2>1. ~(Len(a) + 1 <= Len(c)) /\ ~(Len(c) + 1 <= Len(a))
    BY <1>1
  <2>2. QED
    BY <1>1, <2>1
<1>3. a = c
  BY <1>1, <1>2, SeqEqual DEF Text
<1>4. QED
  BY <1>3, SecondPart

LEMMA MeaningSize ==
  ASSUME NEW text \in Text, NEW fallback, Slug(fallback)
  PROVE  Size(Meaning(text, fallback)) \in Nat \ {0}
<1>1. /\ Slug(Label(text, fallback))
      /\ Shape(Label(text, fallback)) = Meaning(text, fallback)
  BY LabelIsSlug, LabelSays
<1>2. Len(Label(text, fallback)) \in Nat \ {0}
  BY <1>1, Appended DEF Slug
<1>3. QED
  BY <1>1, <1>2, SlugSays

(* Of whatever event, and with PLATFORM_BASE_DOMAIN, the targets that are  *)
(* not cut are made of x, of the labels of the project p and of the        *)
(* service s.                                                              *)
Targets(a, x, p, s, domain) ==
    /\ Slug(x) /\ Slug(p) /\ Slug(s)
    /\ NamespaceFits(a) =>
          Shape(p) = a.project /\ a.target.Namespace = Dashed(x, p)
    /\ DeploymentFits(a) =>
          Shape(s) = a.service /\ a.target.DeploymentName = Dashed(AppWord, s)
    /\ HostFits(a) =>
          /\ Shape(p) = a.project /\ Shape(s) = a.service
          /\ a.target.IngressHost = Dashed(s, p) \o <<".">> \o domain

Domain == Trim(ToLower(TrimSpace(<<"a">>)), {"."})

LEMMA DomainText ==
  Domain \in Text /\ Domain # <<>>
<1> DEFINE a == <<"a">>
<1>1. a \in Text /\ Len(a) = 1 /\ a[1] = "a" /\ a # <<>>
  <2>1. "a" \in Char
    BY DEF Char, AlphaNum
  <2>2. QED
    BY <2>1, Single
<1> HIDE DEF a
<1>2. "a" \notin {" "} /\ "a" \notin {"."} /\ "a" # "A"
  OBVIOUS
<1>3. TrimSpace(a) = a
  BY <1>1, <1>2, TrimKeeps DEF TrimSpace
<1>4. ToLower(a) = a
  <2>1. ToLower(a) \in Text /\ Len(ToLower(a)) = 1 /\ ToLower(a)[1] = a[1]
    BY <1>1, <1>2, Lowered
  <2>2. QED
    BY <1>1, <2>1, SeqEqual DEF Text
<1>5. Trim(a, {"."}) = a
  BY <1>1, <1>2, TrimKeeps
<1>6. QED
  BY <1>1, <1>3, <1>4, <1>5 DEF Domain, a

LEMMA RequestText ==
  ASSUME NEW event \in Request
  PROVE  /\ deployRequestFromEvent(event).ProjectSlug \in Text
         /\ deployRequestFromEvent(event).ServiceSlug \in Text
<1>1. <<>> \in Text
  BY EmptySeq DEF Text
<1>2. QED
  BY <1>1 DEF Request, deployRequestFromEvent, firstNonEmpty

LEMMA TargetsOf ==
  ASSUME NEW event \in Request, NEW prefix \in Text
  PROVE  \E p, s : Targets(Asked(prefix, event), sanitizeDNSLabel(prefix, PrefixWord),
                          p, s, Domain)
<1> DEFINE r == deployRequestFromEvent(event)
           a == Asked(prefix, event)
           before == Meaning(prefix, PrefixWord)
           project == Meaning(r.ProjectSlug, ProjectWord)
           service == Meaning(r.ServiceSlug, ServiceWord)
           x == sanitizeDNSLabel(prefix, PrefixWord)
           p == Project(r.ProjectSlug)
           s == Service(r.ServiceSlug)
           target == targetForRequest(prefix, <<"a">>, r)
<1>1. r.ProjectSlug \in Text /\ r.ServiceSlug \in Text
  BY RequestText
<1>2. a = [prefix |-> prefix, project |-> project, service |-> service, target |-> target]
  BY DEF Asked
<1>3. a.prefix = prefix /\ a.project = project /\ a.service = service /\ a.target = target
  <2> HIDE DEF a, project, service, target
  <2>1. QED
    BY <1>2
<1>4. target = [Namespace |-> buildNamespaceName(prefix, p),
                DeploymentName |-> buildResourceName(AppWord, s),
                IngressHost |-> buildIngressHost(s, p, <<"a">>)]
  BY DEF targetForRequest
<1>5. /\ Size(before) \in Nat \ {0} /\ Size(project) \in Nat \ {0}
      /\ Size(service) \in Nat \ {0}
  BY <1>1, Fallbacks, MeaningSize
<1>6. /\ Slug(x) /\ Len(x) <= MaxLabel
      /\ Size(before) <= MaxLabel => Len(x) = Size(before)
  BY Fallbacks, LabelOf
<1>7. /\ Slug(p) /\ Len(p) <= MaxLabel
      /\ Size(project) <= MaxLabel => Shape(p) = project /\ Len(p) = Size(project)
  BY <1>1, Fallbacks, LabelOf DEF Project
<1>8. /\ Slug(s) /\ Len(s) <= MaxLabel
      /\ Size(service) <= MaxLabel => Shape(s) = service /\ Len(s) = Size(service)
  BY <1>1, Fallbacks, LabelOf DEF Service
<1>9. Slug(AppWord) /\ Len(AppWord) <= MaxLabel /\ Len(AppWord) \in Nat \ {0}
  BY Fallbacks, Appended DEF Slug
<1>10. NamespaceFits(a) <=> Size(before) + 1 + Size(project) <= MaxLabel
  BY <1>3 DEF NamespaceFits
<1>11. DeploymentFits(a) <=> Len(AppWord) + 1 + Size(service) <= MaxLabel
  BY <1>3 DEF DeploymentFits
<1>12. HostFits(a) <=> Size(service) + 1 + Size(project) <= MaxLabel
  BY <1>3 DEF HostFits
<1> HIDE DEF a, r, before, project, service, target
<1>13. buildNamespaceName(prefix, p) = Joined(x, p)
  <2> HIDE DEF p
  <2>1. Project(p) = p
    BY <1>7, SanitizeKeeps DEF Project
  <2>2. QED
    BY <2>1 DEF buildNamespaceName
<1> HIDE DEF x, p, s
<1>14. buildResourceName(AppWord, s) = Joined(AppWord, s)
  <2>1. sanitizeDNSLabel(AppWord, AppWord) = AppWord /\ Service(s) = s
    BY <1>8, <1>9, SanitizeKeeps DEF Service
  <2>2. QED
    BY <2>1 DEF buildResourceName
<1>15. buildIngressHost(s, p, <<"a">>) = Joined(s, p) \o <<".">> \o Domain
  <2>1. Project(p) = p /\ Service(s) = s
    BY <1>7, <1>8, SanitizeKeeps DEF Project, Service
  <2>2. QED
    BY <2>1, DomainText DEF buildIngressHost, Domain
<1>16. /\ target.Namespace = Joined(x, p)
       /\ target.DeploymentName = Joined(AppWord, s)
       /\ target.IngressHost = Joined(s, p) \o <<".">> \o Domain
  BY <1>4, <1>13, <1>14, <1>15
<1>17. MaxLabel \in Nat
  BY LabelAssumption
<1>18. ASSUME NamespaceFits(a)
       PROVE  Shape(p) = project /\ Joined(x, p) = Dashed(x, p)
  <2>1. Size(before) <= MaxLabel /\ Size(project) <= MaxLabel
    BY <1>5, <1>10, <1>17, <1>18
  <2>2. Len(x) + 1 + Len(p) <= MaxLabel
    BY <1>6, <1>7, <1>10, <1>18, <2>1
  <2>3. QED
    BY <1>6, <1>7, <2>1, <2>2, JoinedFits
<1>19. ASSUME DeploymentFits(a)
       PROVE  Shape(s) = service /\ Joined(AppWord, s) = Dashed(AppWord, s)
  <2>1. Size(service) <= MaxLabel
    BY <1>5, <1>9, <1>11, <1>17, <1>19
  <2>2. Len(AppWord) + 1 + Len(s) <= MaxLabel
    BY <1>8, <1>11, <1>19, <2>1
  <2>3. QED
    BY <1>8, <1>9, <2>1, <2>2, JoinedFits
<1>20. ASSUME HostFits(a)
       PROVE  Shape(p) = project /\ Shape(s) = service /\ Joined(s, p) = Dashed(s, p)
  <2>1. Size(project) <= MaxLabel /\ Size(service) <= MaxLabel
    BY <1>5, <1>12, <1>17, <1>20
  <2>2. Len(s) + 1 + Len(p) <= MaxLabel
    BY <1>7, <1>8, <1>12, <1>20, <2>1
  <2>3. QED
    BY <1>7, <1>8, <2>1, <2>2, JoinedFits
<1>21. Targets(a, x, p, s, Domain)
  BY <1>3, <1>6, <1>7, <1>8, <1>16, <1>18, <1>19, <1>20 DEF Targets
<1>22. QED
  BY <1>21 DEF a, x

LEMMA SameHost ==
  ASSUME NEW a \in Text, NEW b \in Text,
         a \o <<".">> \o Domain = b \o <<".">> \o Domain
  PROVE  a = b
<1> DEFINE dot == <<".">>
<1>1. dot \in Seq(Char)
  <2>1. "." \in Char
    BY DEF Char
  <2>2. QED
    BY <2>1, Single
<1> HIDE DEF dot
<1>2. a \in Seq(Char) /\ b \in Seq(Char) /\ Domain \in Seq(Char)
  BY DomainText DEF Text
<1>3. a \o dot \in Seq(Char) /\ b \o dot \in Seq(Char)
  BY <1>1, <1>2, ConcatProperties
<1>4. (a \o dot) \o Domain = (b \o dot) \o Domain
  BY DEF dot
<1>5. a \o dot = b \o dot
  BY <1>2, <1>3, <1>4, ConcatSimplifications
<1>6. QED
  BY <1>1, <1>2, <1>5, ConcatSimplifications

LEMMA Apart ==
  ASSUME NEW e \in Request, NEW f \in Request, NEW prefix \in Text
  PROVE  ToldApart(Asked(prefix, e), Asked(prefix, f))
<1> DEFINE a == Asked(prefix, e)
           b == Asked(prefix, f)
           x == sanitizeDNSLabel(prefix, PrefixWord)
<1>1. PICK p, s : Targets(a, x, p, s, Domain)
  BY TargetsOf
<1>2. PICK q, t : Targets(b, x, q, t, Domain)
  BY TargetsOf
<1> HIDE DEF a, b, x
<1>3. /\ Slug(p) /\ Slug(s) /\ Slug(q) /\ Slug(t)
      /\ p \in Text /\ s \in Text /\ q \in Text /\ t \in Text /\ x \in Text
  BY <1>1, <1>2 DEF Targets, Slug
<1>4. AppWord \in Text
  BY Fallbacks DEF Slug
<1>5. ASSUME NamespaceFits(a), NamespaceFits(b), a.project # b.project
      PROVE  a.target.Namespace # b.target.Namespace
  <2>1. /\ a.target.Namespace = Dashed(x, p) /\ b.target.Namespace = Dashed(x, q)
        /\ p # q
    BY <1>1, <1>2, <1>5 DEF Targets
  <2>2. QED
    BY <1>3, <2>1, SecondPart
<1>6. ASSUME DeploymentFits(a), DeploymentFits(b), a.service # b.service
      PROVE  a.target.DeploymentName # b.target.DeploymentName
  <2>1. /\ a.target.DeploymentName = Dashed(AppWord, s)
        /\ b.target.DeploymentName = Dashed(AppWord, t)
        /\ s # t
    BY <1>1, <1>2, <1>6 DEF Targets
  <2>2. QED
    BY <1>3, <1>4, <2>1, SecondPart
<1>7. ASSUME HostFits(a), HostFits(b), OneWord(a), OneWord(b),
             <<a.project, a.service>> # <<b.project, b.service>>,
             a.target.IngressHost = b.target.IngressHost
      PROVE  FALSE
  <2>1. /\ Shape(p) = a.project /\ Shape(s) = a.service
        /\ Shape(q) = b.project /\ Shape(t) = b.service
        /\ Dashed(s, p) \o <<".">> \o Domain = Dashed(t, q) \o <<".">> \o Domain
    BY <1>1, <1>2, <1>7 DEF Targets
  <2>2. Dashed(s, p) \in Text /\ Dashed(t, q) \in Text
    BY <1>3, DashedText
  <2>3. Dashed(s, p) = Dashed(t, q)
    BY <2>1, <2>2, SameHost
  <2>4. Shape(s).breaks = {} /\ Shape(t).breaks = {}
    BY <1>7, <2>1 DEF OneWord
  <2>5. /\ \A i \in 1 .. Len(s) : s[i] # "-"
        /\ \A i \in 1 .. Len(t) : t[i] # "-"
    BY <1>3, <2>4, SlugSays
  <2>6. s = t /\ p = q
    BY <1>3, <2>3, <2>5, BothParts
  <2>7. QED
    BY <1>7, <2>1, <2>6
<1>8. QED
  BY <1>5, <1>6, <1>7 DEF ToldApart, a, b

-----------------------------------------------------------------------------
(* loadConfig.                                                             *)

LEMMA Remainder ==
  ASSUME NEW n \in Int, NEW m \in Nat \ {0}
  PROVE  n % m \in 0 .. (m - 1) /\ (n \in 0 .. (m - 1) => n % m = n)
OBVIOUS

LEMMA Int32s ==
  ASSUME NEW n \in Int
  PROVE  /\ Int32(n) \in Int /\ Int32(n) <= MaxInt32
         /\ n \in 1 .. MaxInt32 => Int32(n) = n
<1> DEFINE m == 2 * Half
<1>1. Half \in Nat /\ m \in Nat \ {0} /\ n + Half \in Int /\ m = Half + Half
  BY UnitsAssumption DEF defaultAppContainerPort
<1> HIDE DEF m
<1>2. /\ (n + Half) % m \in 0 .. (m - 1)
      /\ n + Half \in 0 .. (m - 1) => (n + Half) % m = n + Half
  BY <1>1, Remainder
<1>3. Int32(n) = ((n + Half) % m) - Half /\ MaxInt32 = Half - 1
  BY DEF Int32, MaxInt32, m
<1>4. QED
  BY <1>1, <1>2, <1>3

(* A number that is set is positive and as it was given, or cut. *)
LEMMA Int32OrDefault ==
  ASSUME NEW value \in Seq(Int), NEW fallback \in Nat \ {0}
  PROVE  /\ envInt32OrDefault(value, fallback) \in Int
         /\ \/ envInt32OrDefault(value, fallback) <= MaxInt32
            \/ envInt32OrDefault(value, fallback) = fallback
         /\ envInt32OrDefault(value, fallback) >= 1 \/ Cut(value)
<1>1. CASE value = <<>> \/ Last(value) < 1
  BY <1>1, UnitsAssumption DEF envInt32OrDefault, MaxInt32
<1>2. CASE ~(value = <<>> \/ Last(value) < 1)
  <2>1. envInt32OrDefault(value, fallback) = Int32(Last(value))
    BY <1>2 DEF envInt32OrDefault
  <2>2. Last(value) \in Int /\ Last(value) >= 1
    BY <1>2 DEF Last
  <2>3. MaxInt32 \in Int
    BY UnitsAssumption DEF MaxInt32
  <2>4. QED
    BY <1>2, <2>1, <2>2, <2>3, Int32s DEF Cut
<1>3. QED
  BY <1>1, <1>2

LEMMA DurationOrDefault ==
  ASSUME NEW value \in Seq(Int), NEW fallback \in Int
  PROVE  /\ envDurationOrDefault(value, fallback) \in Int
         /\ fallback > 0 => envDurationOrDefault(value, fallback) > 0
         /\ \/ envDurationOrDefault(value, fallback) = fallback
            \/ envDurationOrDefault(value, fallback) > 0
         /\ envDurationOrDefault(value, 0) = 0 =>
                envDurationOrDefault(value, fallback) = fallback
BY DEF envDurationOrDefault, Last

LEMMA Config ==
  ASSUME NEW e
  PROVE  LET c == loadConfig(e)
             timeout == envDurationOrDefault(e.timeout, DefaultTimeout)
         IN  /\ c.RolloutTimeout = timeout
             /\ c.LeaseDuration = envDurationOrDefault(e.lease, LeaseDefault(timeout))
             /\ c.MaxAttempts = envInt32OrDefault(e.attempts, DefaultAttempts)
             /\ c.DefaultReplicas = envInt32OrDefault(e.replicas, DefaultReplicas)
             /\ c.DefaultContainerPort = envInt32OrDefault(e.port, defaultAppContainerPort)
             /\ c.RetryBackoffs = envDurationsOrDefault(e.backoffs, DefaultBackoffs)
             /\ c.NamespacePrefix = envOrDefault(e.prefix, DefaultPrefix)
             /\ c.RabbitMQExchange = envOrDefault(e.exchange, DefaultExchange)
             /\ c.BuildSucceededRoutingKey = envOrDefault(e.routingKey, DefaultRoutingKey)
             /\ c.RetryQueuePrefix = envOrDefault(e.retryPrefix, DefaultRetryPrefix)
BY DEF loadConfig

LEMMA BackoffsPositive ==
  ASSUME NEW values \in Seq(Seq(Int))
  PROVE  LET b == envDurationsOrDefault(values, DefaultBackoffs)
         IN  b # <<>> /\ \A i \in DOMAIN b : b[i] > 0
<1> DEFINE b == envDurationsOrDefault(values, DefaultBackoffs)
           bad == \E i \in DOMAIN values : values[i] = <<>> \/ Last(values[i]) <= 0
<1>1. CASE values = <<>> \/ bad
  BY <1>1 DEF envDurationsOrDefault, DefaultBackoffs
<1>2. CASE ~(values = <<>> \/ bad)
  <2>1. b = [i \in DOMAIN values |-> Last(values[i])]
    BY <1>2 DEF envDurationsOrDefault
  <2>2. ASSUME NEW i \in DOMAIN values PROVE Last(values[i]) > 0
    <3>1. values[i] \in Seq(Int) /\ values[i] # <<>> /\ ~(Last(values[i]) <= 0)
      BY <1>2
    <3>2. Last(values[i]) \in Int
      BY <3>1 DEF Last
    <3>3. QED
      BY <3>1, <3>2
  <2>3. 1 \in DOMAIN values
    BY <1>2
  <2>4. 1 \in DOMAIN b
    BY <2>1, <2>3
  <2>5. QED
    BY <2>1, <2>2, <2>4
<1>3. QED
  BY <1>1, <1>2

LEMMA EnvUsable ==
  ASSUME NEW e, Environment(e)
  PROVE  Usable(e)
<1> DEFINE c == loadConfig(e)
<1>1. /\ e.attempts \in Seq(Int) /\ e.replicas \in Seq(Int) /\ e.port \in Seq(Int)
      /\ e.timeout \in Seq(Int) /\ e.lease \in Seq(Int) /\ e.backoffs \in Seq(Seq(Int))
  BY DEF Environment
<1>2. c.RolloutTimeout > 0 /\ c.RolloutTimeout \in Int
  <2>1. DefaultTimeout \in Int /\ DefaultTimeout > 0
    BY DEF DefaultTimeout
  <2>2. c.RolloutTimeout = envDurationOrDefault(e.timeout, DefaultTimeout)
    BY Config
  <2>3. QED
    BY <1>1, <2>1, <2>2, DurationOrDefault
<1>3. c.LeaseDuration > 0
  <2> DEFINE fallback == LeaseDefault(c.RolloutTimeout)
  <2>1. fallback \in Int /\ fallback > 0
    BY <1>2 DEF LeaseDefault, LeaseMargin
  <2>2. c.LeaseDuration = envDurationOrDefault(e.lease, fallback)
    BY Config
  <2> HIDE DEF fallback
  <2>3. QED
    BY <1>1, <2>1, <2>2, DurationOrDefault
<1>4. c.RetryBackoffs # <<>> /\ \A i \in DOMAIN c.RetryBackoffs : c.RetryBackoffs[i] > 0
  BY <1>1, Config, BackoffsPositive
<1>5. /\ c.NamespacePrefix # <<>> /\ c.RabbitMQExchange # <<>>
      /\ c.BuildSucceededRoutingKey # <<>> /\ c.RetryQueuePrefix # <<>>
  <2>1. \A text, fallback : fallback # <<>> => envOrDefault(text, fallback) # <<>>
    BY DEF envOrDefault
  <2>2. DefaultPrefix # <<>>
    BY Fallbacks DEF DefaultPrefix, Slug
  <2>3. DefaultExchange # <<>> /\ DefaultRoutingKey # <<>> /\ DefaultRetryPrefix # <<>>
    BY DEF DefaultExchange, DefaultRoutingKey, DefaultRetryPrefix
  <2>4. QED
    BY <2>1, <2>2, <2>3, Config
<1>6. ContainerPort(c) \in 1 .. MaxInt32
  <2>1. defaultAppContainerPort \in 1 .. MaxInt32 /\ MaxInt32 \in Nat
    BY UnitsAssumption DEF defaultAppContainerPort, MaxInt32
  <2>2. c.DefaultContainerPort \in Int /\ c.DefaultContainerPort <= MaxInt32
    <3>1. c.DefaultContainerPort = envInt32OrDefault(e.port, defaultAppContainerPort)
      BY Config
    <3>2. defaultAppContainerPort \in Nat \ {0} /\ defaultAppContainerPort <= MaxInt32
      BY <2>1
    <3>3. QED
      BY <1>1, <3>1, <3>2, Int32OrDefault
  <2>3. QED
    BY <2>1, <2>2 DEF ContainerPort
<1>7. c.MaxAttempts >= 1 \/ Cut(e.attempts)
  BY <1>1, Config, Int32OrDefault DEF DefaultAttempts
<1>8. c.DefaultReplicas >= 1 \/ Cut(e.replicas)
  BY <1>1, Config, Int32OrDefault DEF DefaultReplicas
<1>9. QED
  BY <1>2, <1>3, <1>4, <1>5, <1>6, <1>7, <1>8 DEF Usable

LEMMA LeaseOutlasts ==
  ASSUME NEW e, Environment(e)
  PROVE  LeaseLasts(e)
<1> DEFINE timeout == envDurationOrDefault(e.timeout, DefaultTimeout)
<1>1. e.timeout \in Seq(Int) /\ e.lease \in Seq(Int)
  BY DEF Environment
<1>2. timeout \in Int /\ timeout > 0
  BY <1>1, DurationOrDefault DEF DefaultTimeout
<1> HIDE DEF timeout
<1>3. SUFFICES ASSUME envDurationOrDefault(e.lease, 0) = 0
               PROVE  /\ \A time \in HandlingTimes(timeout) : time < timeout + LeaseMargin
                      /\ timeout > Call => 3 * (Call + RetryTime) < timeout + LeaseMargin
  <2>1. /\ loadConfig(e).RolloutTimeout = timeout
        /\ loadConfig(e).LeaseDuration = envDurationOrDefault(e.lease, timeout + LeaseMargin)
    BY Config DEF LeaseDefault, timeout
  <2>2. envDurationOrDefault(e.lease, 0) = 0 =>
            loadConfig(e).LeaseDuration = timeout + LeaseMargin
    BY <1>1, <1>2, <2>1, DurationOrDefault DEF LeaseMargin
  <2>3. QED
    BY <2>1, <2>2 DEF LeaseLasts
<1>4. QED
  BY <1>2 DEF HandlingTimes, Call, Apply, RetryTime, LeaseMargin

-----------------------------------------------------------------------------
(* events.go.                                                              *)

(* What can be told about any build: its name, exchange, type and status.  *)
(* On one exchange no two have one status.                                 *)
Row(name, exchange, type, status) ==
    [name |-> name, exchange |-> exchange, type |-> type, status |-> status]
Rows ==
    {Row(<<"succeeded">>, "services", "deploy.succeeded", <<"RUNNING">>),
     Row(<<"deployFailed">>, "services", "deploy.failed", <<"DEPLOY_FAILED">>),
     Row(<<"started">>, "deployment", "orchestration.started", <<"ORCHESTRATING">>),
     Row(<<"deployed">>, "deployment", "orchestration.deployed", <<"DEPLOYED">>),
     Row(<<"running">>, "deployment", "orchestration.running", <<"RUNNING">>),
     Row(<<"orchFailed">>, "deployment", "orchestration.failed", <<"DEPLOY_FAILED">>),
     Row(<<"pending">>, "deployment", "orchestration.retrying", <<"ROLLOUT_PENDING">>)}
    \union {Row(<<"retrying", n>>, "deployment", "orchestration.retrying",
                <<"DEPLOY_RETRYING", n>>) : n \in 1 .. Tries - 1}

LEMMA RowOf ==
  ASSUME NEW t \in AllTold
  PROVE  \E b \in Builds, r \in Rows :
            t = <<r.name, Event(r.exchange, b, r.type, r.status)>>
<1>1. PICK b \in Builds : t \in Told(b)
  BY DEF AllTold
<1> DEFINE Thing(name, exchange, type, status) ==
             <<name, Event(exchange, b, type, status)>>
<1>2. ASSUME NEW name, NEW exchange, NEW type, NEW status,
             Row(name, exchange, type, status) \in Rows,
             t = Thing(name, exchange, type, status)
      PROVE  \E r \in Rows : t = <<r.name, Event(r.exchange, b, r.type, r.status)>>
  <2> DEFINE r == Row(name, exchange, type, status)
  <2>1. r.name = name /\ r.exchange = exchange /\ r.type = type /\ r.status = status
    BY DEF Row
  <2>2. t = <<r.name, Event(r.exchange, b, r.type, r.status)>>
    BY <1>2, <2>1
  <2>3. QED
    BY <1>2, <2>2
<1>3. CASE \E n \in 1 .. Tries - 1 :
              t = <<<<"retrying", n>>, newOrchestrationRetryingEvent(b, n)>>
  <2>1. PICK n \in 1 .. Tries - 1 :
           t = <<<<"retrying", n>>, newOrchestrationRetryingEvent(b, n)>>
    BY <1>3
  <2>2. Row(<<"retrying", n>>, "deployment", "orchestration.retrying",
            <<"DEPLOY_RETRYING", n>>) \in Rows
    BY DEF Rows
  <2>3. t = Thing(<<"retrying", n>>, "deployment", "orchestration.retrying",
                  <<"DEPLOY_RETRYING", n>>)
    BY <2>1 DEF newOrchestrationRetryingEvent, DeploymentEvent, RetryStatus
  <2> HIDE DEF Thing
  <2>4. QED
    BY <1>2, <2>2, <2>3
<1> DEFINE Told1 == Thing(<<"succeeded">>, "services", "deploy.succeeded", <<"RUNNING">>)
           Told2 == Thing(<<"deployFailed">>, "services", "deploy.failed", <<"DEPLOY_FAILED">>)
           Told3 == Thing(<<"started">>, "deployment", "orchestration.started", <<"ORCHESTRATING">>)
           Told4 == Thing(<<"deployed">>, "deployment", "orchestration.deployed", <<"DEPLOYED">>)
           Told5 == Thing(<<"running">>, "deployment", "orchestration.running", <<"RUNNING">>)
           Told6 == Thing(<<"orchFailed">>, "deployment", "orchestration.failed", <<"DEPLOY_FAILED">>)
           Told7 == Thing(<<"pending">>, "deployment", "orchestration.retrying", <<"ROLLOUT_PENDING">>)
<1>4. \/ t \in {Told1, Told2, Told3, Told4, Told5, Told6, Told7}
      \/ \E n \in 1 .. Tries - 1 :
            t = <<<<"retrying", n>>, newOrchestrationRetryingEvent(b, n)>>
  BY <1>1 DEF Told, newDeploySucceededEvent, newDeployFailedEvent,
       newOrchestrationStartedEvent, newOrchestrationDeployedEvent,
       newOrchestrationRunningEvent, newOrchestrationFailedEvent,
       newOrchestrationRolloutPendingEvent, ServiceEvent, DeploymentEvent
<1>5. /\ Row(<<"succeeded">>, "services", "deploy.succeeded", <<"RUNNING">>) \in Rows
      /\ Row(<<"deployFailed">>, "services", "deploy.failed", <<"DEPLOY_FAILED">>) \in Rows
      /\ Row(<<"started">>, "deployment", "orchestration.started", <<"ORCHESTRATING">>) \in Rows
      /\ Row(<<"deployed">>, "deployment", "orchestration.deployed", <<"DEPLOYED">>) \in Rows
      /\ Row(<<"running">>, "deployment", "orchestration.running", <<"RUNNING">>) \in Rows
      /\ Row(<<"orchFailed">>, "deployment", "orchestration.failed", <<"DEPLOY_FAILED">>) \in Rows
      /\ Row(<<"pending">>, "deployment", "orchestration.retrying", <<"ROLLOUT_PENDING">>) \in Rows
  BY DEF Rows
<1>6. QED
  <2> HIDE DEF Thing
  <2>1. QED
    BY <1>1, <1>2, <1>3, <1>4, <1>5

LEMMA OneRowEach ==
  ASSUME NEW r \in Rows, NEW s \in Rows, r.exchange = s.exchange, r.status = s.status
  PROVE  r = s
BY DEF Rows, Row

LEMMA IdsTellApart ==
  ASSUME NEW a \in AllTold, NEW b \in AllTold
  PROVE  IdsDiffer(a, b)
<1>1. PICK c \in Builds, r \in Rows :
         a = <<r.name, Event(r.exchange, c, r.type, r.status)>>
  BY RowOf
<1>2. PICK d \in Builds, s \in Rows :
         b = <<s.name, Event(s.exchange, d, s.type, s.status)>>
  BY RowOf
<1>3. /\ a[2].Exchange = r.exchange /\ a[2].EventID = <<c, "orchestration", r.status>>
      /\ b[2].Exchange = s.exchange /\ b[2].EventID = <<d, "orchestration", s.status>>
  BY <1>1, <1>2 DEF Event, deploymentEventID
<1>4. ASSUME a[2].Exchange = b[2].Exchange, a[2].EventID = b[2].EventID
      PROVE  a = b
  <2>1. c = d /\ r.status = s.status /\ r.exchange = s.exchange
    BY <1>3, <1>4
  <2>2. r = s
    BY <2>1, OneRowEach
  <2>3. QED
    BY <1>1, <1>2, <2>1, <2>2
<1>5. QED
  BY <1>4 DEF IdsDiffer

-----------------------------------------------------------------------------
(* Whatever the inputs.                                                    *)

LEMMA InputStays == InputsSpec => []Given
<1>1. Given /\ [UNCHANGED input]_input => Given'
  <2>1. SUFFICES ASSUME Given, input' = input PROVE Given'
    OBVIOUS
  <2>2. QED
    BY <2>1 DEF Given
<1>2. QED
  BY <1>1, PTL DEF InputsSpec

(* Every text of any length becomes a label that reads as the text does,   *)
(* for any length of a label.                                              *)
THEOREM EveryTextReadsRight == InputsSpec => []LabelsAreValid
<1>1. Given => LabelsAreValid
  <2>1. SUFFICES ASSUME Given, input.kind = "text" PROVE ReadsRight(input.value)
    BY DEF LabelsAreValid
  <2>2. PICK text \in Texts : input = Input("text", text)
    BY <2>1 DEF Given, Input, Nothing
  <2>3. input.value = text /\ text \in Text
    BY <2>2, InputsAssumption DEF Input
  <2>4. QED
    BY <2>3, Reads
<1>2. QED
  BY <1>1, InputStays, PTL

(* Builds of different projects have different namespaces and builds of    *)
(* different services different Deployments, for any prefix, any words and *)
(* any length of a label, if what is built of them fits.                   *)
THEOREM BuildsKeepApart == InputsSpec => []TargetsTellApart
<1>1. Given => TargetsTellApart
  <2>1. SUFFICES ASSUME Given, input.kind = "builds"
                 PROVE  ToldApart(input.value[1], input.value[2])
    BY DEF TargetsTellApart
  <2>2. PICK a \in Asks, b \in Asks :
           a.prefix = b.prefix /\ input = Input("builds", <<a, b>>)
    BY <2>1 DEF Given, Input, Nothing
  <2>3. input.value[1] = a /\ input.value[2] = b
    BY <2>2 DEF Input
  <2>4. PICK prefix \in NamespacePrefixes, e \in Requests : a = Asked(prefix, e)
    BY DEF Asks
  <2>5. PICK other \in NamespacePrefixes, f \in Requests : b = Asked(other, f)
    BY DEF Asks
  <2>6. prefix = other
    BY <2>2, <2>4, <2>5 DEF Asked
  <2>7. e \in Request /\ f \in Request /\ prefix \in Text
    BY InputsAssumption
  <2>8. QED
    BY <2>3, <2>4, <2>5, <2>6, <2>7, Apart
<1>2. QED
  BY <1>1, InputStays, PTL

(* Every environment gives usable settings, for any width of an int32 that *)
(* holds the default port.                                                 *)
THEOREM EnvironmentsAreUsable == InputsSpec => []SettingsAreUsable
<1>1. Given => SettingsAreUsable
  <2>1. SUFFICES ASSUME Given, input.kind = "settings" PROVE Usable(input.value)
    BY DEF SettingsAreUsable
  <2>2. PICK e \in Settings : input = Input("settings", e)
    BY <2>1 DEF Given, Input, Nothing
  <2>3. input.value = e /\ Environment(e)
    BY <2>2, InputsAssumption DEF Input
  <2>4. QED
    BY <2>3, EnvUsable
<1>2. QED
  BY <1>1, InputStays, PTL

(* The lease nobody chose lasts as LeaseLasts says, whatever the rollout   *)
(* timeout is set to: handleMessage without renewals, and the retry with   *)
(* one of any two.                                                         *)
THEOREM DefaultLeasesLast == InputsSpec => []DefaultLeaseLasts
<1>1. Given => DefaultLeaseLasts
  <2>1. SUFFICES ASSUME Given, input.kind = "settings" PROVE LeaseLasts(input.value)
    BY DEF DefaultLeaseLasts
  <2>2. PICK e \in Settings : input = Input("settings", e)
    BY <2>1 DEF Given, Input, Nothing
  <2>3. input.value = e /\ Environment(e)
    BY <2>2, InputsAssumption DEF Input
  <2>4. QED
    BY <2>3, LeaseOutlasts
<1>2. QED
  BY <1>1, InputStays, PTL

(* No two different things told on one exchange share an id, for any       *)
(* builds and any number of attempts.                                      *)
THEOREM IdsAreUnique == InputsSpec => []EventIdsTellApart
<1>1. Given => EventIdsTellApart
  <2>1. SUFFICES ASSUME Given, input.kind = "told"
                 PROVE  IdsDiffer(input.value[1], input.value[2])
    BY DEF EventIdsTellApart
  <2>2. PICK a \in AllTold, b \in AllTold : input = Input("told", <<a, b>>)
    BY <2>1 DEF Given, Input, Nothing
  <2>3. input.value[1] = a /\ input.value[2] = b
    BY <2>2 DEF Input
  <2>4. QED
    BY <2>3, IdsTellApart
<1>2. QED
  BY <1>1, InputStays, PTL
=============================================================================
