---------------------------- MODULE UpgradeProofs ----------------------------
(***************************************************************************)
(* Proofs about Upgrade, for every number of packets and whatever bytes    *)
(* they carry.  get_sum and the content of an image are loops; what they   *)
(* compute is shown by induction, which is derived here from the           *)
(* well-foundedness of the natural numbers for sets instead of predicates. *)
(***************************************************************************)
EXTENDS Upgrade, TLAPS, NaturalsInduction, WellFoundedInduction

(* Induction up to N: a set that has 0, and n + 1 with every n below N, has all of them. *)
LEMMA InductionUpTo ==
    ASSUME NEW N \in Nat, NEW P, 0 \in P, \A n \in 0 .. N - 1 : n \in P => n + 1 \in P
    PROVE  \A n \in 0 .. N : n \in P
<1> DEFINE T == {n \in 0 .. N : n \notin P}
<1> SUFFICES ASSUME T # {} PROVE FALSE
  OBVIOUS
<1>1. T \subseteq Nat
  OBVIOUS
<1>2. \E x \in T : \A y \in T : ~(<<y, x>> \in OpToRel(<, Nat))
  <2> HIDE DEF T
  <2>1. QED
    BY <1>1, NatLessThanWellFounded, WFMin
<1>3. PICK x \in T : \A y \in T : ~(y < x)
  <2>1. \A x, y \in Nat : y < x => <<y, x>> \in OpToRel(<, Nat)
    BY DEF OpToRel
  <2>2. QED
    BY <1>1, <1>2, <2>1
<1>4. x \in 0 .. N /\ x \notin P /\ x # 0
  OBVIOUS
<1>5. x - 1 \in 0 .. N - 1 /\ x - 1 \in 0 .. N /\ x - 1 < x /\ (x - 1) + 1 = x
  BY <1>4
<1>6. x - 1 \in P
  BY <1>3, <1>5
<1>7. QED
  BY <1>4, <1>5, <1>6

(* What a loop of N rounds, each a function of its number and of what was computed so     *)
(* far, may have computed after each.                                                     *)
Loop(N, T, a, step) ==
    {g \in [0 .. N -> T] : g[0] = a /\ \A n \in 1 .. N : g[n] = step[n][g[n - 1]]}

(* It computes something. *)
LEMMA LoopComputes ==
    ASSUME NEW N \in Nat, NEW T, NEW a \in T, NEW step \in [1 .. N -> [T -> T]]
    PROVE  Loop(N, T, a, step) # {}
<1> DEFINE Upto(m, g) == g[0] = a /\ \A n \in 1 .. m : g[n] = step[n][g[n - 1]]
           P == {m \in 0 .. N : \E g \in [0 .. m -> T] : Upto(m, g)}
<1>1. 0 \in P
  <2> DEFINE g0 == [n \in 0 .. 0 |-> a]
  <2>1. g0 \in [0 .. 0 -> T] /\ Upto(0, g0)
    OBVIOUS
  <2> HIDE DEF g0
  <2>2. \E g \in [0 .. 0 -> T] : Upto(0, g)
    BY <2>1
  <2> HIDE DEF Upto
  <2>3. QED
    BY <2>2
<1>2. ASSUME NEW m \in 0 .. N - 1, m \in P PROVE m + 1 \in P
  <2>1. PICK g \in [0 .. m -> T] : Upto(m, g)
    BY <1>2
  <2> DEFINE h == [n \in 0 .. m + 1 |-> IF n = m + 1 THEN step[m + 1][g[m]] ELSE g[n]]
  <2>2. m \in Nat /\ m \in 0 .. m /\ m + 1 \in 1 .. N
    OBVIOUS
  <2>3. step[m + 1][g[m]] \in T
    BY <2>2
  <2>4. h \in [0 .. m + 1 -> T]
    BY <2>2, <2>3
  <2>5. h[m + 1] = step[m + 1][g[m]] /\ \A n \in 0 .. m : h[n] = g[n]
    BY <2>2
  <2> HIDE DEF h
  <2>6. \A n \in 1 .. m + 1 : h[n] = step[n][h[n - 1]]
    <3> SUFFICES ASSUME NEW n \in 1 .. m + 1 PROVE h[n] = step[n][h[n - 1]]
      OBVIOUS
    <3>1. CASE n = m + 1
      BY <2>2, <2>5, <3>1
    <3>2. CASE n \in 1 .. m
      <4>1. n \in 0 .. m /\ n - 1 \in 0 .. m
        BY <2>2, <3>2
      <4>2. QED
        BY <2>1, <2>5, <3>2, <4>1
    <3>3. QED
      BY <2>2, <3>1, <3>2
  <2>7. h[0] = a
    BY <2>1, <2>2, <2>5
  <2>8. Upto(m + 1, h)
    BY <2>6, <2>7
  <2>9. QED
    BY <2>2, <2>4, <2>8
<1>3. N \in P
  <2> HIDE DEF P
  <2>1. \A n \in 0 .. N : n \in P
    BY <1>1, <1>2, InductionUpTo
  <2>2. QED
    BY <2>1
<1>4. QED
  BY <1>3 DEF Loop

-----------------------------------------------------------------------------
(* get_sum adds up the bytes one after the other. *)
LEMMA SumsStep ==
    ASSUME NEW bytes \in Seq(Nat)
    PROVE  /\ Sums(bytes) \in [0 .. Len(bytes) -> Nat]
           /\ Sums(bytes)[0] = 0
           /\ \A n \in 1 .. Len(bytes) : Sums(bytes)[n] = Sums(bytes)[n - 1] + bytes[n]
<1> DEFINE N == Len(bytes)
           step == [n \in 1 .. N |-> [x \in Nat |-> x + bytes[n]]]
           IsSum(g) == g = [n \in 0 .. N |-> IF n = 0 THEN 0 ELSE g[n - 1] + bytes[n]]
<1>0. N \in Nat /\ \A n \in 1 .. N : bytes[n] \in Nat
  OBVIOUS
<1>1. step \in [1 .. N -> [Nat -> Nat]]
  BY <1>0
<1>2. PICK g \in [0 .. N -> Nat] : g[0] = 0 /\ \A n \in 1 .. N : g[n] = step[n][g[n - 1]]
  <2>1. N \in Nat /\ 0 \in Nat
    OBVIOUS
  <2> HIDE DEF step, N
  <2>2. Loop(N, Nat, 0, step) # {}
    BY <1>1, <2>1, LoopComputes
  <2>3. QED
    BY <2>2 DEF Loop
<1>3. \A n \in 1 .. N : g[n] = g[n - 1] + bytes[n]
  <2> SUFFICES ASSUME NEW n \in 1 .. N PROVE g[n] = g[n - 1] + bytes[n]
    OBVIOUS
  <2>0. n - 1 \in 0 .. N
    BY <1>0
  <2>1. g[n - 1] \in Nat
    BY <2>0
  <2>2. step[n] = [x \in Nat |-> x + bytes[n]]
    OBVIOUS
  <2>3. step[n][g[n - 1]] = g[n - 1] + bytes[n]
    BY <2>1, <2>2
  <2>4. QED
    BY <1>2, <2>3
<1>4. IsSum(g)
  BY <1>0, <1>2, <1>3
<1>5. IsSum(Sums(bytes))
  <2>1. Sums(bytes) = CHOOSE h : IsSum(h)
    BY DEF Sums
  <2> HIDE DEF IsSum
  <2>2. QED
    BY <1>4, <2>1
<1> DEFINE F == Sums(bytes)
<1>6. /\ F = [n \in 0 .. N |-> F[n]] /\ F[0] = 0
      /\ \A n \in 1 .. N : F[n] = F[n - 1] + bytes[n]
  <2> HIDE DEF F
  <2>1. F = [n \in 0 .. N |-> IF n = 0 THEN 0 ELSE F[n - 1] + bytes[n]]
    BY <1>5 DEF F
  <2>2. QED
    BY <1>0, <2>1
<1> HIDE DEF F
<1>7. \A n \in 0 .. N : F[n] \in Nat
  <2> DEFINE P == {n \in 0 .. N : F[n] \in Nat}
  <2>1. 0 \in P
    BY <1>0, <1>6
  <2>2. ASSUME NEW n \in 0 .. N - 1, n \in P PROVE n + 1 \in P
    <3>1. n + 1 \in 1 .. N /\ (n + 1) - 1 = n
      BY <1>0
    <3>2. F[n + 1] = F[n] + bytes[n + 1]
      BY <1>6, <3>1
    <3>3. QED
      BY <1>0, <2>2, <3>1, <3>2
  <2> HIDE DEF P, N
  <2>3. \A n \in 0 .. N : n \in P
    BY <1>0, <2>1, <2>2, InductionUpTo
  <2>4. QED
    BY <2>3 DEF P
<1>8. QED
  BY <1>6, <1>7 DEF F

(* Two runs of get_sum that see the same bytes have the same sums. *)
LEMMA SumsAgree ==
    ASSUME NEW s \in Seq(Nat), NEW r \in Seq(Nat), NEW m \in Nat, m <= Len(s), m <= Len(r),
           \A n \in 1 .. m : r[n] = s[n]
    PROVE  Sums(r)[m] = Sums(s)[m]
<1> DEFINE P == {n \in 0 .. m : Sums(r)[n] = Sums(s)[n]}
<1>0. Len(s) \in Nat /\ Len(r) \in Nat
  OBVIOUS
<1>1. Sums(s)[0] = 0 /\ \A n \in 1 .. Len(s) : Sums(s)[n] = Sums(s)[n - 1] + s[n]
  BY SumsStep
<1>2. Sums(r)[0] = 0 /\ \A n \in 1 .. Len(r) : Sums(r)[n] = Sums(r)[n - 1] + r[n]
  BY SumsStep
<1>3. 0 \in P
  BY <1>1, <1>2
<1>4. ASSUME NEW n \in 0 .. m - 1, n \in P PROVE n + 1 \in P
  <2>1. /\ n + 1 \in 0 .. m /\ n + 1 \in 1 .. m /\ (n + 1) - 1 = n
        /\ n + 1 \in 1 .. Len(s) /\ n + 1 \in 1 .. Len(r)
    BY <1>0
  <2>2. Sums(s)[n + 1] = Sums(s)[n] + s[n + 1] /\ Sums(r)[n + 1] = Sums(r)[n] + r[n + 1]
    BY <1>1, <1>2, <2>1
  <2>3. r[n + 1] = s[n + 1]
    BY <2>1
  <2>4. QED
    BY <1>4, <2>1, <2>2, <2>3
<1>5. \A n \in 0 .. m : n \in P
  <2> HIDE DEF P
  <2>1. QED
    BY <1>3, <1>4, InductionUpTo
<1>6. QED
  BY <1>5

(* The sum of what follows is added to the sum of what comes first. *)
LEMMA SumOfConcat ==
    ASSUME NEW s \in Seq(Nat), NEW t \in Seq(Nat)
    PROVE  GetSum(s) \in Nat /\ GetSum(t) \in Nat /\ GetSum(s \o t) = GetSum(s) + GetSum(t)
<1> DEFINE r == s \o t
           P == {n \in 0 .. Len(t) : Sums(r)[Len(s) + n] = Sums(s)[Len(s)] + Sums(t)[n]}
<1>0. /\ r \in Seq(Nat) /\ Len(s) \in Nat /\ Len(t) \in Nat /\ Len(r) = Len(s) + Len(t)
      /\ \A n \in 1 .. Len(s) : r[n] = s[n]
      /\ \A n \in 1 .. Len(t) : r[Len(s) + n] = t[n]
      /\ \A n \in 1 .. Len(t) : t[n] \in Nat
  OBVIOUS
<1> HIDE DEF r
<1>1. Sums(s) \in [0 .. Len(s) -> Nat]
  BY SumsStep
<1>2. /\ Sums(t) \in [0 .. Len(t) -> Nat] /\ Sums(t)[0] = 0
      /\ \A n \in 1 .. Len(t) : Sums(t)[n] = Sums(t)[n - 1] + t[n]
  BY SumsStep
<1>3. \A n \in 1 .. Len(r) : Sums(r)[n] = Sums(r)[n - 1] + r[n]
  BY <1>0, SumsStep
<1>4. Sums(s)[Len(s)] \in Nat /\ Sums(t)[Len(t)] \in Nat
  <2>1. Len(s) \in 0 .. Len(s) /\ Len(t) \in 0 .. Len(t)
    BY <1>0
  <2>2. QED
    BY <1>1, <1>2, <2>1
<1>5. 0 \in P
  <2>0. Len(s) <= Len(s) /\ Len(s) <= Len(r)
    BY <1>0
  <2>1. Sums(r)[Len(s)] = Sums(s)[Len(s)]
    BY <1>0, <2>0, SumsAgree
  <2>2. QED
    BY <1>0, <1>2, <1>4, <2>1
<1>6. ASSUME NEW n \in 0 .. Len(t) - 1, n \in P PROVE n + 1 \in P
  <2>1. /\ n + 1 \in 1 .. Len(t) /\ (n + 1) - 1 = n /\ n \in 0 .. Len(t)
        /\ Len(s) + (n + 1) \in 1 .. Len(r) /\ (Len(s) + (n + 1)) - 1 = Len(s) + n
    BY <1>0
  <2>2. Sums(r)[Len(s) + (n + 1)] = Sums(r)[Len(s) + n] + t[n + 1]
    BY <1>0, <1>3, <2>1
  <2>3. Sums(t)[n + 1] = Sums(t)[n] + t[n + 1]
    BY <1>2, <2>1
  <2>4. Sums(t)[n] \in Nat /\ t[n + 1] \in Nat
    BY <1>0, <1>2, <2>1
  <2>5. Sums(r)[Len(s) + n] = Sums(s)[Len(s)] + Sums(t)[n]
    BY <1>6
  <2>6. Sums(r)[Len(s) + (n + 1)] = Sums(s)[Len(s)] + Sums(t)[n + 1]
    BY <1>4, <2>2, <2>3, <2>4, <2>5
  <2>7. QED
    BY <2>1, <2>6
<1>7. Len(t) \in P
  <2> HIDE DEF P
  <2>1. \A n \in 0 .. Len(t) : n \in P
    BY <1>0, <1>5, <1>6, InductionUpTo
  <2>2. QED
    BY <1>0, <2>1
<1>8. Sums(r)[Len(r)] = Sums(s)[Len(s)] + Sums(t)[Len(t)]
  BY <1>0, <1>7
<1>9. QED
  BY <1>4, <1>8 DEF GetSum, r

(* A sequence over a set is one over a larger set. *)
LEMMA WiderSeq ==
    ASSUME NEW A, NEW B, A \subseteq B, NEW s \in Seq(A)
    PROVE  s \in Seq(B)
<1>1. s \in [1 .. Len(s) -> A] /\ Len(s) \in Nat
  OBVIOUS
<1>2. QED
  BY <1>1

(* A packet has bytes and a sum. *)
LEMMA PacketSum ==
    ASSUME NEW p \in Packets
    PROVE  p \in Seq(Nat) /\ Len(p) \in Nat /\ Len(p) > 0 /\ GetSum(p) \in Nat
<1>1. p \in Seq(0 .. 255) /\ p # <<>>
  BY UpgradeAssumption
<1>2. p \in Seq(Nat) /\ Len(p) \in Nat /\ Len(p) > 0
  <2>1. 0 .. 255 \subseteq Nat
    OBVIOUS
  <2>2. p \in Seq(Nat)
    BY <1>1, <2>1, WiderSeq
  <2>3. QED
    BY <1>1, <2>2
<1>3. GetSum(p) \in Nat
  BY <1>2, SumOfConcat
<1>4. QED
  BY <1>2, <1>3

(* The image grows by a packet at a time. *)
LEMMA PrefixStep ==
    ASSUME NEW im \in Images
    PROVE  /\ Prefixes(im)[0] = <<>>
           /\ \A k \in 0 .. DataNum : Prefixes(im)[k] \in Seq(Nat)
           /\ \A k \in 1 .. DataNum : Prefixes(im)[k] = Prefixes(im)[k - 1] \o im[k]
<1> DEFINE step == [n \in 1 .. DataNum |-> [x \in Seq(Nat) |-> x \o im[n]]]
           IsPrefix(g) == g = [n \in 0 .. DataNum |-> IF n = 0 THEN <<>> ELSE g[n - 1] \o im[n]]
<1>0. DataNum \in Nat
  BY UpgradeAssumption DEF DataNum
<1>1. \A n \in 1 .. DataNum : im[n] \in Seq(Nat)
  BY PacketSum DEF Images
<1>2. step \in [1 .. DataNum -> [Seq(Nat) -> Seq(Nat)]]
  BY <1>1
<1>3. PICK g \in [0 .. DataNum -> Seq(Nat)] :
         g[0] = <<>> /\ \A n \in 1 .. DataNum : g[n] = step[n][g[n - 1]]
  <2>1. <<>> \in Seq(Nat)
    OBVIOUS
  <2> HIDE DEF step
  <2>2. Loop(DataNum, Seq(Nat), <<>>, step) # {}
    BY <1>0, <1>2, <2>1, LoopComputes
  <2>3. QED
    BY <2>2 DEF Loop
<1>4. \A n \in 1 .. DataNum : g[n] = g[n - 1] \o im[n]
  <2> SUFFICES ASSUME NEW n \in 1 .. DataNum PROVE g[n] = g[n - 1] \o im[n]
    OBVIOUS
  <2>1. n - 1 \in 0 .. DataNum
    BY <1>0
  <2>2. g[n - 1] \in Seq(Nat)
    BY <2>1
  <2>3. step[n] = [x \in Seq(Nat) |-> x \o im[n]]
    OBVIOUS
  <2>4. step[n][g[n - 1]] = g[n - 1] \o im[n]
    BY <2>2, <2>3
  <2>5. QED
    BY <1>3, <2>4
<1>5. IsPrefix(g)
  <2> DEFINE e(n) == IF n = 0 THEN <<>> ELSE g[n - 1] \o im[n]
  <2>1. \A n \in 0 .. DataNum : g[n] = e(n)
    <3> SUFFICES ASSUME NEW n \in 0 .. DataNum PROVE g[n] = e(n)
      OBVIOUS
    <3>1. CASE n = 0
      BY <1>3, <3>1
    <3>2. CASE n # 0
      <4>1. n \in 1 .. DataNum
        BY <1>0, <3>2
      <4>2. QED
        BY <1>4, <3>2, <4>1
    <3>3. QED
      BY <3>1, <3>2
  <2> HIDE DEF e
  <2>2. g = [n \in 0 .. DataNum |-> e(n)]
    BY <2>1
  <2>3. QED
    BY <2>2 DEF e
<1>6. IsPrefix(Prefixes(im))
  <2>1. Prefixes(im) = CHOOSE h : IsPrefix(h)
    BY DEF Prefixes
  <2> HIDE DEF IsPrefix
  <2>2. QED
    BY <1>5, <2>1
<1> DEFINE F == Prefixes(im)
<1>7. F[0] = <<>> /\ \A n \in 1 .. DataNum : F[n] = F[n - 1] \o im[n]
  <2> HIDE DEF F
  <2> DEFINE e(n) == IF n = 0 THEN <<>> ELSE F[n - 1] \o im[n]
  <2>1. F = [n \in 0 .. DataNum |-> e(n)]
    BY <1>6 DEF F
  <2> HIDE DEF e
  <2>2. \A n \in 0 .. DataNum : F[n] = e(n)
    BY <2>1
  <2>3. e(0) = <<>> /\ \A n \in 1 .. DataNum : e(n) = F[n - 1] \o im[n]
    <3>1. e(0) = <<>>
      BY DEF e
    <3>2. ASSUME NEW n \in 1 .. DataNum PROVE e(n) = F[n - 1] \o im[n]
      <4>1. n # 0
        OBVIOUS
      <4>2. QED
        BY <4>1 DEF e
    <3>3. QED
      BY <3>1, <3>2
  <2>4. 0 \in 0 .. DataNum /\ \A n \in 1 .. DataNum : n \in 0 .. DataNum
    BY <1>0
  <2>5. QED
    BY <2>2, <2>3, <2>4
<1> HIDE DEF F
<1>8. \A n \in 0 .. DataNum : F[n] \in Seq(Nat)
  <2> DEFINE P == {n \in 0 .. DataNum : F[n] \in Seq(Nat)}
  <2>1. 0 \in P
    <3>1. 0 \in 0 .. DataNum /\ <<>> \in Seq(Nat)
      BY <1>0
    <3>2. QED
      BY <1>7, <3>1
  <2>2. ASSUME NEW n \in 0 .. DataNum - 1, n \in P PROVE n + 1 \in P
    <3>1. n + 1 \in 1 .. DataNum /\ (n + 1) - 1 = n
      BY <1>0
    <3>2. F[n + 1] = F[n] \o im[n + 1]
      BY <1>7, <3>1
    <3>3. F[n] \in Seq(Nat) /\ im[n + 1] \in Seq(Nat)
      BY <1>1, <2>2, <3>1
    <3>4. F[n + 1] \in Seq(Nat)
      BY <3>2, <3>3
    <3>5. QED
      BY <3>1, <3>4
  <2> HIDE DEF P
  <2>3. \A n \in 0 .. DataNum : n \in P
    BY <1>0, <2>1, <2>2, InductionUpTo
  <2>4. QED
    BY <2>3 DEF P
<1>9. QED
  BY <1>7, <1>8 DEF F

-----------------------------------------------------------------------------
(***************************************************************************)
(* The inductive invariant.  Sent(k) is the image up to its packet k.      *)
(***************************************************************************)
Sent(im, k) == Prefixes(im)[k]

UpgradeType ==
    /\ file \in Seq(Nat) /\ sum \in Nat /\ sum_new \in Nat /\ offset \in Nat
    /\ image \in Images /\ next \in 0 .. PacketNum
    /\ taken \in Nat /\ clean \in BOOLEAN /\ short \in BOOLEAN
    /\ told \in BOOLEAN /\ blank \in BOOLEAN
    /\ installed \in {"none", "exact", "short", "blank", "wrong"}

(* Nothing is added up, written or cut short before the process took a packet; and when   *)
(* it took packets and nothing is added up, the last was one of zeros.                    *)
NothingTaken ==
    /\ taken = 0 => sum_new = 0 /\ offset = 0 /\ ~short
    /\ (taken > 0 /\ sum_new = 0 /\ ~blank) => next > 1 /\ GetSum(image[next - 1]) = 0

(* A process that was not told the sum of the transfer tests with zero. *)
Untold == next > 0 /\ ~told => sum = 0

(* In a transfer that this process saw the beginning of, the sum announced is that of the *)
(* image; what was added up is at least what the host has sent of it; and if it is no     *)
(* more, then nothing came before and nothing was repeated but packets of zeros, so that  *)
(* without those the file holds exactly what was sent, unless a write came up short.      *)
SumTells ==
    (next > 0 /\ told) =>
      /\ sum = GetSum(Content(image))
      /\ sum_new >= GetSum(Sent(image, next - 1))
      /\ (sum_new = GetSum(Sent(image, next - 1)) /\ ~short /\ ~blank /\ next < PacketNum) =>
            file = Sent(image, next - 1) /\ offset = Len(Sent(image, next - 1))

(* A clean transfer has the sum announced and nothing added up but what was sent. *)
CleanTells ==
    clean =>
      /\ ~short /\ ~blank
      /\ next = 0 => sum_new = 0
      /\ next > 0 => told /\ sum_new = GetSum(Sent(image, next - 1))

UpgradeInv ==
    UpgradeType /\ NothingTaken /\ Untold /\ SumTells /\ CleanTells /\ InstallExact /\ CleanTransferInstalls

(* Each packet adds its bytes to what was sent, and its sum to the sum. *)
LEMMA SentStep ==
    ASSUME NEW im \in Images, NEW k \in 1 .. DataNum
    PROVE  /\ im[k] \in Packets
           /\ Sent(im, k - 1) \in Seq(Nat) /\ Sent(im, k) = Sent(im, k - 1) \o im[k]
           /\ GetSum(Sent(im, k - 1)) \in Nat
           /\ GetSum(Sent(im, k)) = GetSum(Sent(im, k - 1)) + GetSum(im[k])
<1>1. im[k] \in Packets
  BY DEF Images
<1>2. im[k] \in Seq(Nat)
  BY <1>1, PacketSum
<1>3. k - 1 \in 0 .. DataNum
  BY UpgradeAssumption DEF DataNum
<1>4. Sent(im, k - 1) \in Seq(Nat) /\ Sent(im, k) = Sent(im, k - 1) \o im[k]
  BY <1>3, PrefixStep DEF Sent
<1>5. GetSum(Sent(im, k - 1)) \in Nat /\ GetSum(Sent(im, k - 1) \o im[k]) = GetSum(Sent(im, k - 1)) + GetSum(im[k])
  BY <1>2, <1>4, SumOfConcat
<1>6. QED
  BY <1>1, <1>4, <1>5

(* Before the first packet nothing was sent, and the whole image has a sum. *)
LEMMA SentEnds ==
    ASSUME NEW im \in Images
    PROVE  /\ Sent(im, 0) = <<>> /\ Len(Sent(im, 0)) = 0 /\ GetSum(Sent(im, 0)) = 0
           /\ Content(im) = Sent(im, DataNum)
           /\ GetSum(Content(im)) \in Nat
<1>1. Sent(im, 0) = <<>> /\ Content(im) = Sent(im, DataNum)
  BY PrefixStep DEF Sent, Content
<1>2. Len(Sent(im, 0)) = 0 /\ Sent(im, 0) \in Seq(Nat)
  <2>1. \A e : e = <<>> => Len(e) = 0 /\ e \in Seq(Nat)
    OBVIOUS
  <2>2. QED
    BY <1>1, <2>1
<1>3. GetSum(Sent(im, 0)) = 0
  BY <1>2, SumsStep DEF GetSum
<1>4. DataNum \in 1 .. DataNum
  BY UpgradeAssumption DEF DataNum
<1>5. /\ im[DataNum] \in Packets /\ GetSum(Sent(im, DataNum - 1)) \in Nat
      /\ GetSum(Sent(im, DataNum)) = GetSum(Sent(im, DataNum - 1)) + GetSum(im[DataNum])
  BY <1>4, SentStep
<1>6. GetSum(im[DataNum]) \in Nat
  BY <1>5, PacketSum
<1>7. QED
  BY <1>1, <1>2, <1>3, <1>5, <1>6

(* lseek and write leave a file of bytes. *)
LEMMA WriteAtType ==
    ASSUME NEW f \in Seq(Nat), NEW at \in Nat, NEW data \in Seq(Nat)
    PROVE  WriteAt(f, at, data) \in Seq(Nat)
<1> DEFINE end == at + Len(data)
           n == IF Len(f) > end THEN Len(f) ELSE end
           b(i) == IF i > at /\ i <= end THEN data[i - at] ELSE IF i <= Len(f) THEN f[i] ELSE 0
<1>1. n \in Nat /\ Len(f) \in Nat /\ Len(data) \in Nat /\ end \in Nat
  OBVIOUS
<1>2. ASSUME NEW i \in 1 .. n PROVE b(i) \in Nat
  <2>1. CASE i > at /\ i <= end
    <3>1. i - at \in 1 .. Len(data)
      BY <1>1, <2>1
    <3>2. QED
      BY <2>1, <3>1
  <2>2. CASE ~(i > at /\ i <= end)
    BY <1>1, <2>2
  <2>3. QED
    BY <2>1, <2>2
<1>3. WriteAt(f, at, data) = [i \in 1 .. n |-> b(i)]
  BY DEF WriteAt
<1> HIDE DEF b, n
<1>4. QED
  BY <1>1, <1>2, <1>3

(* Writing a packet at the end of the file appends it. *)
LEMMA WriteAtEnd ==
    ASSUME NEW f \in Seq(Nat), NEW data \in Seq(Nat)
    PROVE  WriteAt(f, Len(f), SubSeq(data, 1, Len(data))) = f \o data
<1>1. SubSeq(data, 1, Len(data)) = data /\ Len(f) \in Nat /\ Len(data) \in Nat
  OBVIOUS
<1> DEFINE end == Len(f) + Len(data)
           w(i) == IF i > Len(f) /\ i <= end THEN data[i - Len(f)] ELSE IF i <= Len(f) THEN f[i] ELSE 0
<1>2. WriteAt(f, Len(f), data) = [i \in 1 .. end |-> w(i)]
  <2>1. (IF Len(f) > end THEN Len(f) ELSE end) = end
    BY <1>1
  <2>2. QED
    BY <2>1 DEF WriteAt
<1> DEFINE r == f \o data
<1>3. /\ r \in Seq(Nat) /\ Len(r) = end
      /\ \A i \in 1 .. Len(f) : r[i] = f[i]
      /\ \A i \in 1 .. Len(data) : r[Len(f) + i] = data[i]
  OBVIOUS
<1> HIDE DEF r
<1>4. ASSUME NEW i \in 1 .. end PROVE w(i) = r[i]
  <2>1. CASE i <= Len(f)
    BY <1>1, <1>3, <2>1
  <2>2. CASE i > Len(f)
    <3>1. i - Len(f) \in 1 .. Len(data) /\ Len(f) + (i - Len(f)) = i
      BY <1>1, <2>2
    <3>2. r[i] = data[i - Len(f)]
      BY <1>3, <3>1
    <3>3. QED
      BY <2>2, <3>2
  <2>3. QED
    BY <1>1, <2>1, <2>2
<1> HIDE DEF w
<1>5. r = [i \in 1 .. end |-> r[i]]
  BY <1>1, <1>3
<1>6. QED
  BY <1>1, <1>2, <1>4, <1>5 DEF r

(* What the invariant says of the next packet, new or repeated: its sum is added, and it  *)
(* brings the total to that of what was sent only if nothing else was added and it is new *)
(* or has only zeros.                                                                     *)
LEMMA PacketAdds ==
    ASSUME UpgradeInv, told, NEW i \in {next - 1, next} \cap 1 .. DataNum,
           sum_new' = sum_new + GetSum(image[i])
    PROVE  /\ sum = GetSum(Content(image))
           /\ sum_new' >= GetSum(Sent(image, i))
           /\ sum_new' = GetSum(Sent(image, i)) =>
                \/ i = next /\ sum_new = GetSum(Sent(image, next - 1))
                \/ i # next /\ GetSum(image[i]) = 0
<1> DEFINE before == GetSum(Sent(image, i - 1))
           after == GetSum(Sent(image, i))
           d == GetSum(image[i])
<1>1. image \in Images /\ sum_new \in Nat /\ next \in Nat /\ next > 0
  BY UpgradeAssumption DEF UpgradeInv, UpgradeType
<1>2. image[i] \in Packets /\ before \in Nat /\ after = before + d
  BY <1>1, SentStep
<1>3. d \in Nat
  BY <1>2, PacketSum
<1>4. sum = GetSum(Content(image)) /\ sum_new >= GetSum(Sent(image, next - 1))
  BY <1>1 DEF UpgradeInv, SumTells
<1> HIDE DEF before, after, d
<1>5. sum_new' = sum_new + d
  BY DEF d
<1>6. CASE i = next
  <2>1. sum_new >= before
    BY <1>4, <1>6 DEF before
  <2>2. sum_new' >= after /\ (sum_new' = after => sum_new = before)
    BY <1>1, <1>2, <1>3, <1>5, <2>1
  <2>3. QED
    BY <1>4, <1>6, <2>2 DEF before, after
<1>7. CASE i = next - 1
  <2>1. sum_new >= after
    BY <1>4, <1>7 DEF after
  <2>2. sum_new' >= after /\ (sum_new' = after => d = 0)
    BY <1>1, <1>2, <1>3, <1>5, <2>1
  <2>3. i # next
    BY <1>1, <1>7
  <2>4. QED
    BY <1>4, <2>2, <2>3 DEF after, d
<1>8. QED
  BY <1>6, <1>7

(* A data packet: what it leaves in the file, before an installation. *)
LEMMA PacketWrites ==
    ASSUME UpgradeInv, told, next \in 1 .. DataNum, ~short, ~blank,
           sum_new = GetSum(Sent(image, next - 1)), NEW k, k = Len(image[next])
    PROVE  /\ k # 0
           /\ WriteAt(file, offset, SubSeq(image[next], 1, k)) = Sent(image, next)
           /\ offset + k = Len(Sent(image, next))
<1>1. image \in Images /\ next > 0 /\ next < PacketNum
  BY UpgradeAssumption DEF UpgradeInv, UpgradeType, DataNum
<1>2. file = Sent(image, next - 1) /\ offset = Len(Sent(image, next - 1))
  BY <1>1 DEF UpgradeInv, SumTells
<1>3. /\ image[next] \in Packets /\ Sent(image, next - 1) \in Seq(Nat)
      /\ Sent(image, next) = Sent(image, next - 1) \o image[next]
  BY <1>1, SentStep
<1>4. image[next] \in Seq(Nat) /\ Len(image[next]) > 0
  BY <1>3, PacketSum
<1> DEFINE f == Sent(image, next - 1)
           data == image[next]
<1>5. f \in Seq(Nat) /\ data \in Seq(Nat)
  BY <1>3, <1>4
<1> HIDE DEF f, data
<1>6. WriteAt(f, Len(f), SubSeq(data, 1, Len(data))) = f \o data /\ Len(f \o data) = Len(f) + Len(data)
  BY <1>5, WriteAtEnd
<1>7. file = f /\ offset = Len(f) /\ k = Len(data) /\ Sent(image, next) = f \o data /\ image[next] = data
  BY <1>2, <1>3 DEF f, data
<1>8. k # 0
  BY <1>4
<1>9. QED
  BY ONLY <1>6, <1>7, <1>8

(* A data packet keeps the invariant: it is installed only when the sums agree, which they *)
(* do only for the exact image.                                                           *)
LEMMA DataKeepsInv ==
    ASSUME UpgradeInv, NEW i \in {next - 1, next} \cap 1 .. DataNum, NEW k \in 0 .. Len(image[i]),
           TransData(i, k)
    PROVE  UpgradeInv'
<1> DEFINE data  == image[i]
           bytes == IF k = 0 THEN file ELSE WriteAt(file, offset, SubSeq(data, 1, k))
<1>0. /\ file \in Seq(Nat) /\ sum \in Nat /\ sum_new \in Nat /\ offset \in Nat /\ image \in Images
      /\ next \in 0 .. PacketNum /\ taken \in Nat /\ clean \in BOOLEAN /\ short \in BOOLEAN
      /\ installed \in {"none", "exact", "short", "blank", "wrong"}
      /\ PacketNum \in Nat /\ PacketNum > 1 /\ DataNum = PacketNum - 1
  BY UpgradeAssumption DEF UpgradeInv, UpgradeType, DataNum
<1>1. data \in Packets /\ data \in Seq(Nat) /\ GetSum(data) \in Nat
      /\ Len(data) \in Nat /\ k \in Nat
  <2>1. data \in Packets
    BY <1>0, SentStep
  <2>2. data \in Seq(Nat) /\ GetSum(data) \in Nat /\ Len(data) \in Nat
    BY <2>1, PacketSum
  <2>3. QED
    BY <2>1, <2>2
<1>2. /\ offset' = offset + k /\ sum_new' = sum_new + GetSum(data) /\ next' = i + 1
      /\ taken' = taken + 1 /\ sum' = sum /\ image' = image /\ told' = told
  BY DEF TransData
<1>3. /\ clean' = (clean /\ i = next /\ k = Len(data))
      /\ short' = (short \/ k < Len(data))
      /\ blank' = (blank \/ (GetSum(data) = 0 /\ ~(told /\ i = next)))
  BY DEF TransData
<1>4. IF i + 1 = PacketNum /\ sum_new' = sum THEN Install(bytes) ELSE file' = bytes /\ UNCHANGED installed
  BY DEF TransData
<1>5. i \in 1 .. DataNum /\ next > 0 /\ (i + 1) - 1 = i /\ (i + 1 = PacketNum <=> i = DataNum)
  BY <1>0
<1>6. sum_new' \in Nat /\ (sum_new' = 0 => GetSum(data) = 0)
  BY <1>0, <1>1, <1>2
<1>b. (~blank' => ~blank /\ (GetSum(data) = 0 => told /\ i = next)) /\ blank' \in BOOLEAN
  BY ONLY <1>3, Zenon
<1>7. bytes \in Seq(Nat)
  <2>1. SubSeq(data, 1, k) \in Seq(Nat)
    BY <1>1
  <2>2. WriteAt(file, offset, SubSeq(data, 1, k)) \in Seq(Nat)
    BY <1>0, <2>1, WriteAtType
  <2>3. QED
    BY <1>0, <2>2
<1> HIDE DEF bytes, data
<1>8. told => /\ sum = GetSum(Content(image)) /\ sum_new' >= GetSum(Sent(image, i))
              /\ sum_new' = GetSum(Sent(image, i)) =>
                    \/ i = next /\ sum_new = GetSum(Sent(image, next - 1))
                    \/ i # next /\ GetSum(data) = 0
  BY <1>2, PacketAdds DEF data
<1>9. (told /\ sum_new' = GetSum(Sent(image, i)) /\ ~short' /\ ~blank') =>
          bytes = Sent(image, i) /\ offset' = Len(Sent(image, i))
  <2> SUFFICES ASSUME told, sum_new' = GetSum(Sent(image, i)), ~short', ~blank'
               PROVE  bytes = Sent(image, i) /\ offset' = Len(Sent(image, i))
    OBVIOUS
  <2>1. ~blank /\ i = next /\ sum_new = GetSum(Sent(image, next - 1))
    BY <1>8, <1>b
  <2>2. ~short /\ k = Len(data)
    <3>1. ~short /\ ~(k < Len(data))
      BY ONLY <1>3, ~short', Zenon
    <3>2. k <= Len(data)
      BY DEF data
    <3>3. QED
      BY <1>1, <3>1, <3>2
  <2>3. k # 0 /\ WriteAt(file, offset, SubSeq(data, 1, k)) = Sent(image, i)
        /\ offset + k = Len(Sent(image, i))
    BY <1>5, <2>1, <2>2, PacketWrites DEF data
  <2>4. QED
    BY <1>2, <2>3 DEF bytes
<1>10. Content(image) = Sent(image, DataNum) /\ GetSum(Content(image)) \in Nat
  BY <1>0, SentEnds
<1>11. (i + 1 = PacketNum /\ sum_new' = sum) =>
          /\ file' = <<>> /\ installed' \in {"exact", "short", "blank"}
          /\ (~short' /\ ~blank' => installed' = "exact")
  <2> SUFFICES ASSUME i + 1 = PacketNum, sum_new' = sum
               PROVE  /\ file' = <<>> /\ installed' \in {"exact", "short", "blank"}
                      /\ (~short' /\ ~blank' => installed' = "exact")
    OBVIOUS
  <2>1. ~blank' => told
    <3>1. ~told => sum_new' = 0
      BY <1>5 DEF UpgradeInv, Untold
    <3>2. QED
      BY <1>6, <1>b, <3>1
  <2>2. ~short' /\ ~blank' => bytes = Content(image)
    BY <1>5, <1>8, <1>9, <1>10, <2>1
  <2>3. Install(bytes)
    BY <1>4
  <2>4. /\ file' = <<>>
        /\ installed' = IF bytes = Content(image) THEN "exact"
                        ELSE IF short' THEN "short" ELSE IF blank' THEN "blank" ELSE "wrong"
    BY <2>3 DEF Install
  <2>5. QED
    BY <2>2, <2>4
<1>12. ~(i + 1 = PacketNum /\ sum_new' = sum) => file' = bytes /\ installed' = installed
  BY <1>4
<1>13. UpgradeType'
  <2>1. <<>> \in Seq(Nat)
    OBVIOUS
  <2>2. file' \in Seq(Nat)
    BY <1>7, <1>11, <1>12, <2>1
  <2>3. installed' \in {"none", "exact", "short", "blank", "wrong"}
    BY <1>0, <1>11, <1>12
  <2>4. clean' \in BOOLEAN /\ short' \in BOOLEAN
    BY ONLY <1>3, Zenon
  <2>5. next' \in 0 .. PacketNum /\ taken' \in Nat /\ offset' \in Nat
    BY <1>0, <1>1, <1>2, <1>5
  <2>6. QED
    BY <1>0, <1>2, <1>6, <1>b, <2>2, <2>3, <2>4, <2>5 DEF UpgradeType, UpgradeInv
<1>14. NothingTaken' /\ Untold'
  <2>1. taken' # 0 /\ next' > 1 /\ image'[next' - 1] = data
    BY <1>0, <1>2, <1>5 DEF data
  <2>2. NothingTaken'
    BY <1>6, <2>1 DEF NothingTaken
  <2>3. Untold'
    BY <1>2, <1>5 DEF Untold, UpgradeInv
  <2>4. QED
    BY <2>2, <2>3
<1>15. SumTells'
  <2> SUFFICES ASSUME told
               PROVE  /\ sum = GetSum(Content(image))
                      /\ sum_new' >= GetSum(Sent(image, i))
                      /\ (sum_new' = GetSum(Sent(image, i)) /\ ~short' /\ ~blank' /\ i + 1 < PacketNum) =>
                            file' = Sent(image, i) /\ offset' = Len(Sent(image, i))
    BY <1>2, <1>5 DEF SumTells
  <2>1. i + 1 < PacketNum => file' = bytes
    BY <1>0, <1>5, <1>12
  <2>2. QED
    BY <1>8, <1>9, <2>1
<1>16. clean' => ~short' /\ ~blank' /\ told /\ sum_new' = GetSum(Sent(image, i))
  <2> SUFFICES ASSUME clean' PROVE ~short' /\ ~blank' /\ told /\ sum_new' = GetSum(Sent(image, i))
    OBVIOUS
  <2>1. clean /\ i = next /\ k = Len(data)
    BY ONLY <1>3, clean', Zenon
  <2>2. ~short /\ ~blank /\ told /\ sum_new = GetSum(Sent(image, i - 1))
    BY <1>5, <2>1 DEF UpgradeInv, CleanTells
  <2>3. GetSum(Sent(image, i)) = GetSum(Sent(image, i - 1)) + GetSum(data)
    BY <1>0, SentStep DEF data
  <2>4. ~short' /\ ~blank'
    <3>1. ~(k < Len(data))
      BY <1>1, <2>1
    <3>2. QED
      BY ONLY <1>3, <2>1, <2>2, <3>1, Zenon
  <2>5. QED
    BY <1>2, <2>2, <2>3, <2>4
<1>17. CleanTells'
  BY <1>2, <1>5, <1>16 DEF CleanTells
<1>18. InstallExact'
  BY <1>11, <1>12 DEF UpgradeInv, InstallExact
<1>19. CleanTransferInstalls'
  <2> SUFFICES ASSUME i + 1 = PacketNum, clean' PROVE installed' = "exact"
    BY <1>2 DEF CleanTransferInstalls
  <2>1. told /\ sum_new' = GetSum(Sent(image, i)) /\ ~short' /\ ~blank'
    BY <1>16
  <2>2. sum_new' = sum
    BY <1>5, <1>8, <1>10, <2>1
  <2>3. QED
    BY <1>11, <2>1, <2>2
<1>20. QED
  BY <1>13, <1>14, <1>15, <1>17, <1>18, <1>19 DEF UpgradeInv

(* The other steps: a transfer begins, is given up, or loses the process. *)
LEMMA UpgradeNext == UpgradeInv /\ [Next]_vars => UpgradeInv'
<1> SUFFICES ASSUME UpgradeInv, [Next]_vars PROVE UpgradeInv'
  OBVIOUS
<1>0. /\ file \in Seq(Nat) /\ sum \in Nat /\ sum_new \in Nat /\ offset \in Nat /\ image \in Images
      /\ next \in 0 .. PacketNum /\ taken \in Nat /\ clean \in BOOLEAN /\ short \in BOOLEAN
      /\ installed \in {"none", "exact", "short", "blank", "wrong"}
      /\ PacketNum \in Nat /\ PacketNum > 1 /\ DataNum = PacketNum - 1
  BY UpgradeAssumption DEF UpgradeInv, UpgradeType, DataNum
<1>e. <<>> \in Seq(Nat)
  OBVIOUS
<1>1. CASE Clean
  <2>1. next = 0 /\ file' = <<>> /\ UNCHANGED <<sum, sum_new, offset, image, next, taken, clean, short, told, blank, installed>>
    BY <1>1 DEF Clean, host, history
  <2>2. UpgradeType' /\ NothingTaken' /\ Untold'
    BY <1>0, <1>e, <2>1 DEF UpgradeInv, UpgradeType, NothingTaken, Untold
  <2>3. SumTells' /\ CleanTells' /\ InstallExact' /\ CleanTransferInstalls'
    BY <1>0, <2>1 DEF UpgradeInv, SumTells, CleanTells, InstallExact, CleanTransferInstalls
  <2>4. QED
    BY <2>2, <2>3 DEF UpgradeInv
<1>2. CASE TransSum
  <2>1. /\ next \in {0, 1} /\ file' = <<>> /\ sum' = GetSum(Content(image)) /\ next' = 1
        /\ UNCHANGED <<sum_new, offset, image, taken, clean, short, blank, installed>>
    BY <1>2 DEF TransSum
  <2>t. told' = TRUE
    BY <1>2 DEF TransSum
  <2>2. /\ Sent(image, 0) = <<>> /\ Len(Sent(image, 0)) = 0 /\ GetSum(Sent(image, 0)) = 0
        /\ GetSum(Content(image)) \in Nat
    BY <1>0, SentEnds
  <2>3. next' - 1 = 0 /\ 0 < PacketNum /\ next' \in 0 .. PacketNum /\ next' # PacketNum
    BY <1>0, <2>1
  <2>4. UpgradeType' /\ NothingTaken' /\ Untold'
    <3>1. UpgradeType'
      BY <1>0, <1>e, <2>1, <2>t, <2>2, <2>3 DEF UpgradeInv, UpgradeType
    <3>2. NothingTaken'
      BY <1>0, <2>1 DEF UpgradeInv, NothingTaken
    <3>3. Untold'
      BY <2>t DEF Untold
    <3>4. QED
      BY <3>1, <3>2, <3>3
  <2>5. SumTells'
    <3>1. sum_new = 0 /\ ~blank => offset = 0
      BY <1>0, <2>1 DEF UpgradeInv, NothingTaken
    <3>2. QED
      BY <1>0, <2>1, <2>2, <2>3, <3>1 DEF SumTells
  <2>6. CleanTells'
    <3>1. clean => ~short /\ ~blank /\ sum_new = 0
      BY <1>0, <2>1, <2>2 DEF UpgradeInv, CleanTells
    <3>2. QED
      BY <2>1, <2>t, <2>2, <2>3, <3>1 DEF CleanTells
  <2>7. InstallExact' /\ CleanTransferInstalls'
    BY <2>1, <2>3 DEF UpgradeInv, InstallExact, CleanTransferInstalls
  <2>8. QED
    BY <2>4, <2>5, <2>6, <2>7 DEF UpgradeInv
<1>3. CASE Trans
  BY <1>3, DataKeepsInv DEF Trans
<1>4. CASE Run \/ Crash
  <2>1. /\ sum' = 0 /\ sum_new' = 0 /\ offset' = 0 /\ taken' = 0 /\ clean' = (next = 0)
        /\ UNCHANGED <<file, image, next, installed>>
    BY <1>4 DEF Run, Crash, Exit, host
  <2>f. ~short' /\ ~told' /\ ~blank' /\ short' \in BOOLEAN /\ told' \in BOOLEAN /\ blank' \in BOOLEAN
    BY <1>4, Zenon DEF Run, Crash, Exit
  <2>2. UpgradeType' /\ NothingTaken' /\ Untold' /\ SumTells'
    <3>1. UpgradeType'
      BY <1>0, <2>1, <2>f DEF UpgradeType
    <3>2. NothingTaken' /\ Untold' /\ SumTells'
      BY <2>1, <2>f DEF NothingTaken, Untold, SumTells
    <3>3. QED
      BY <3>1, <3>2
  <2>3. CleanTells' /\ InstallExact' /\ CleanTransferInstalls'
    BY <1>0, <2>1, <2>f DEF UpgradeInv, CleanTells, InstallExact, CleanTransferInstalls
  <2>4. QED
    BY <2>2, <2>3 DEF UpgradeInv
<1>5. CASE StartOver
  <2>1. /\ image' \in Images /\ next' = 0 /\ installed' = "none"
        /\ clean' = (clean /\ taken = 0) /\ next > 0
        /\ UNCHANGED <<file, sum, sum_new, offset, taken, short>>
    BY <1>5 DEF StartOver, device
  <2>f. ~told' /\ told' \in BOOLEAN
    BY <1>5, Zenon DEF StartOver
  <2>2. blank' = (blank \/ (taken > 0 /\ \E i \in 1 .. next - 1 : GetSum(image[i]) = 0))
    BY <1>5 DEF StartOver
  <2>3. /\ blank' \in BOOLEAN
        /\ ~blank' => ~blank /\ (taken > 0 => \A i \in 1 .. next - 1 : GetSum(image[i]) # 0)
        /\ ~blank /\ ~(taken > 0) => ~blank'
    BY ONLY <2>2, Zenon
  <2>4. UpgradeType' /\ Untold' /\ SumTells'
    <3>1. UpgradeType'
      BY <1>0, <2>1, <2>f, <2>3 DEF UpgradeType
    <3>2. Untold' /\ SumTells'
      BY <2>1 DEF Untold, SumTells
    <3>3. QED
      BY <3>1, <3>2
  <2>5. NothingTaken'
    <3>1. ~(taken > 0 /\ sum_new = 0 /\ ~blank')
      <4> SUFFICES ASSUME taken > 0, sum_new = 0, ~blank' PROVE FALSE
        OBVIOUS
      <4>1. next > 1 /\ GetSum(image[next - 1]) = 0
        BY <2>3 DEF UpgradeInv, NothingTaken
      <4>2. next - 1 \in 1 .. next - 1
        BY <1>0, <4>1
      <4>3. QED
        BY <2>3, <4>1, <4>2
    <3>2. QED
      BY <2>1, <3>1 DEF UpgradeInv, NothingTaken
  <2>6. CleanTells'
    <3>1. clean' => clean /\ taken = 0
      BY ONLY <2>1, Zenon
    <3>2. clean' => ~short /\ ~blank' /\ sum_new = 0
      BY <1>0, <2>3, <3>1 DEF UpgradeInv, NothingTaken, CleanTells
    <3>3. QED
      BY <2>1, <3>2 DEF CleanTells
  <2>7. InstallExact' /\ CleanTransferInstalls'
    BY <1>0, <2>1 DEF InstallExact, CleanTransferInstalls
  <2>8. QED
    BY <2>4, <2>5, <2>6, <2>7 DEF UpgradeInv
<1>6. CASE UNCHANGED vars
  BY <1>6 DEF vars, device, host, history, UpgradeInv, UpgradeType, NothingTaken, Untold,
     SumTells, CleanTells, InstallExact, CleanTransferInstalls
<1>7. QED
  BY <1>1, <1>2, <1>3, <1>4, <1>5, <1>6 DEF Next

(* The inductive invariant of recv_upgrade_file and the host. *)
THEOREM UpgradeCorrect == Spec => []UpgradeInv
<1>1. Init => UpgradeInv
  <2> SUFFICES ASSUME Init PROVE UpgradeInv
    OBVIOUS
  <2>1. <<>> \in Seq(Nat) /\ PacketNum \in Nat /\ PacketNum > 1
    BY UpgradeAssumption
  <2>2. clean \in BOOLEAN /\ short \in BOOLEAN /\ ~short /\ told \in BOOLEAN /\ blank \in BOOLEAN /\ ~blank
    BY Zenon DEF Init
  <2>3. /\ file = <<>> /\ sum = 0 /\ sum_new = 0 /\ offset = 0 /\ image \in Images /\ next = 0
        /\ taken = 0 /\ installed = "none"
    BY DEF Init
  <2>4. UpgradeType /\ NothingTaken /\ Untold
    BY <2>1, <2>2, <2>3 DEF UpgradeType, NothingTaken, Untold
  <2>5. SumTells /\ CleanTells /\ InstallExact /\ CleanTransferInstalls
    BY <2>1, <2>2, <2>3 DEF SumTells, CleanTells, InstallExact, CleanTransferInstalls
  <2>6. QED
    BY <2>4, <2>5 DEF UpgradeInv
<1>2. QED
  BY <1>1, UpgradeNext, PTL DEF Spec

(* recv_upgrade_file installs the image that is being sent and nothing else, unless a      *)
(* write came up short or a packet of zeros was taken out of turn, for every number of     *)
(* packets, all bytes, and every sequence of repeated packets, abandoned transfers and     *)
(* ends of the process.                                                                    *)
THEOREM OnlyExactInstalled == Spec => []InstallExact
BY UpgradeCorrect, PTL DEF UpgradeInv

(* The first transfer that a process takes, without repetition and with complete writes,   *)
(* is installed by recv_upgrade_file at its last packet, whatever bytes it has.            *)
THEOREM CleanTransferSucceeds == Spec => []CleanTransferInstalls
BY UpgradeCorrect, PTL DEF UpgradeInv

=============================================================================
