----------------------------- MODULE MediaProofs -----------------------------
(* Proofs about MediaStore, for every set of reporting threads and plans, every window  *)
(* and every size of the image queue.                                                   *)
EXTENDS MediaStore, WellFoundedInduction, TLAPS

(* A thread holds ids only from taking them to pushing the job. *)
EmptyHanded == \A t \in Threads : tpc[t] \in {"idle", "other"} => mm[t] = <<>>

(* No video goes with file 0: only a snapshot has it. *)
VideoHasIds == \A t \in Threads : video[t] => 0 \notin Range(mm[t])

MediaInv == TypeOK /\ EmptyHanded /\ VideoHasIds /\ UniqueIds /\ RetainedWindow /\ NothingForgotten

Distinct(job) == \A i, j \in 1 .. Len(job) : i # j => job[i] # job[j]

-----------------------------------------------------------------------------
(* Facts about jobs. *)

(* The ids of a job are its entries. *)
LEMMA RangeOfJob ==
    ASSUME NEW S, NEW job \in Seq(S)
    PROVE  /\ Range(job) = {job[i] : i \in 1 .. Len(job)}
           /\ Range(job) \subseteq S
BY DEF Range

(* A job is a job when there are more ids. *)
LEMMA WiderSeq ==
    ASSUME NEW A, NEW B, A \subseteq B
    PROVE  Seq(A) \subseteq Seq(B)
<1> SUFFICES ASSUME NEW job \in Seq(A) PROVE job \in Seq(B)
  OBVIOUS
<1>1. job \in [1 .. Len(job) -> A] /\ Len(job) \in Nat
  OBVIOUS
<1>2. QED
  BY <1>1

(* The empty job has none. *)
LEMMA RangeOfNone == Range(<<>>) = {} /\ Distinct(<<>>)
BY DEF Range, Distinct

(* What is left of a job when its first id has been recorded. *)
LEMMA RestOfJob ==
    ASSUME NEW S, NEW job \in Seq(S), job # <<>>
    PROVE  /\ Head(job) \in S /\ Tail(job) \in Seq(S)
           /\ Range(job) = {Head(job)} \cup Range(Tail(job))
           /\ Distinct(job) => Head(job) \notin Range(Tail(job)) /\ Distinct(Tail(job))
<1>1. /\ Tail(job) \in Seq(S) /\ Head(job) \in S /\ Head(job) = job[1]
      /\ Len(job) \in Nat \ {0} /\ Len(Tail(job)) = Len(job) - 1
      /\ \A i \in 1 .. Len(job) - 1 : Tail(job)[i] = job[i + 1]
  OBVIOUS
<1>2. Range(Tail(job)) = {job[i] : i \in 2 .. Len(job)}
  <2>1. Range(Tail(job)) = {Tail(job)[i] : i \in 1 .. Len(job) - 1}
    BY <1>1, RangeOfJob
  <2>2. \A x : (\E i \in 1 .. Len(job) - 1 : x = job[i + 1]) <=> (\E i \in 2 .. Len(job) : x = job[i])
    <3>1. \A i \in 2 .. Len(job) : i - 1 \in 1 .. Len(job) - 1 /\ (i - 1) + 1 = i
      BY <1>1
    <3>2. \A i \in 1 .. Len(job) - 1 : i + 1 \in 2 .. Len(job)
      BY <1>1
    <3>3. QED
      BY <3>1, <3>2
  <2>3. QED
    BY <1>1, <2>1, <2>2
<1>3. Range(job) = {job[i] : i \in 1 .. Len(job)}
  BY RangeOfJob
<1>4. 1 .. Len(job) = {1} \cup 2 .. Len(job)
  BY <1>1
<1>5. Distinct(job) => Head(job) \notin Range(Tail(job)) /\ Distinct(Tail(job))
  BY <1>1, <1>2 DEF Distinct
<1>6. QED
  BY <1>1, <1>2, <1>3, <1>4, <1>5

(* get_next_id gives the ids beyond the counter, each once. *)
LEMMA NextIds ==
    ASSUME s_mm_id \in Nat, NEW k \in Nat
    PROVE  /\ GetNextId(k) \in Seq(0 .. s_mm_id + k)
           /\ Range(GetNextId(k)) = s_mm_id + 1 .. s_mm_id + k
           /\ Distinct(GetNextId(k))
<1> DEFINE ids == [i \in 1 .. k |-> s_mm_id + i]
<1>1. ids \in Seq(0 .. s_mm_id + k) /\ Len(ids) = k
  <2>1. ids \in [1 .. k -> 0 .. s_mm_id + k]
    OBVIOUS
  <2>2. QED
    BY <2>1
<1>2. Range(ids) = s_mm_id + 1 .. s_mm_id + k
  <2>1. \A x \in s_mm_id + 1 .. s_mm_id + k : x - s_mm_id \in 1 .. k /\ ids[x - s_mm_id] = x
    OBVIOUS
  <2>2. \A i \in 1 .. k : ids[i] \in s_mm_id + 1 .. s_mm_id + k
    OBVIOUS
  <2>3. Range(ids) = {ids[i] : i \in 1 .. k}
    BY DEF Range
  <2> HIDE DEF ids
  <2>4. QED
    BY <2>1, <2>2, <2>3
<1>3. Distinct(ids)
  BY <1>1 DEF Distinct
<1>4. QED
  BY <1>1, <1>2, <1>3 DEF GetNextId

(* Ids from get_next_id added to those a thread has. *)
LEMMA MoreIds ==
    ASSUME s_mm_id \in Nat, NEW k \in Nat, NEW job \in Seq(0 .. s_mm_id), Distinct(job)
    PROVE  LET more == job \o GetNextId(k)
           IN  /\ more \in Seq(0 .. s_mm_id + k)
               /\ Range(more) = Range(job) \cup (s_mm_id + 1 .. s_mm_id + k)
               /\ Distinct(more)
<1> DEFINE ids == GetNextId(k)
           more == job \o ids
<1>1. /\ ids \in Seq(0 .. s_mm_id + k) /\ Range(ids) = s_mm_id + 1 .. s_mm_id + k /\ Distinct(ids)
      /\ job \in Seq(0 .. s_mm_id + k)
  <2>1. 0 .. s_mm_id \subseteq 0 .. s_mm_id + k
    OBVIOUS
  <2>2. job \in Seq(0 .. s_mm_id + k)
    BY <2>1
  <2>3. QED
    BY <2>2, NextIds
<1> HIDE DEF ids
<1>2. /\ more \in Seq(0 .. s_mm_id + k) /\ Len(more) = Len(job) + Len(ids)
      /\ Len(job) \in Nat /\ Len(ids) \in Nat
      /\ \A i \in 1 .. Len(job) : more[i] = job[i]
      /\ \A i \in Len(job) + 1 .. Len(more) : more[i] = ids[i - Len(job)]
  BY <1>1
<1> HIDE DEF more
<1>3. /\ \A i \in 1 .. Len(more) :
            \/ i \in 1 .. Len(job)
            \/ i \in Len(job) + 1 .. Len(more) /\ i - Len(job) \in 1 .. Len(ids)
      /\ \A i \in 1 .. Len(ids) : i + Len(job) \in Len(job) + 1 .. Len(more) /\ (i + Len(job)) - Len(job) = i
      /\ 1 .. Len(job) \subseteq 1 .. Len(more)
      /\ Len(job) + 1 .. Len(more) \subseteq 1 .. Len(more)
  BY <1>2
<1>4. /\ Range(more) = {more[i] : i \in 1 .. Len(more)}
      /\ Range(job) = {job[i] : i \in 1 .. Len(job)} /\ Range(job) \subseteq 0 .. s_mm_id
      /\ Range(ids) = {ids[i] : i \in 1 .. Len(ids)}
  <2>1. Range(more) = {more[i] : i \in 1 .. Len(more)}
    BY <1>2, RangeOfJob
  <2>2. Range(job) = {job[i] : i \in 1 .. Len(job)} /\ Range(job) \subseteq 0 .. s_mm_id
    BY RangeOfJob
  <2>3. Range(ids) = {ids[i] : i \in 1 .. Len(ids)}
    BY <1>1, RangeOfJob
  <2>4. QED
    BY <2>1, <2>2, <2>3
<1>5. Range(more) = Range(job) \cup Range(ids)
  <2>1. Range(more) \subseteq Range(job) \cup Range(ids)
    BY <1>2, <1>3, <1>4
  <2>2. Range(job) \subseteq Range(more)
    BY <1>2, <1>3, <1>4
  <2>3. Range(ids) \subseteq Range(more)
    <3> SUFFICES ASSUME NEW i \in 1 .. Len(ids) PROVE ids[i] \in Range(more)
      BY <1>4
    <3>1. ids[i] = more[i + Len(job)]
      BY <1>2, <1>3
    <3>2. QED
      BY <3>1, <1>3, <1>4
  <2>4. QED
    BY <2>1, <2>2, <2>3
<1>6. Distinct(more)
  <2> SUFFICES ASSUME NEW i \in 1 .. Len(more), NEW j \in 1 .. Len(more), i # j PROVE more[i] # more[j]
    BY DEF Distinct
  <2>1. CASE i \in 1 .. Len(job) /\ j \in 1 .. Len(job)
    BY <2>1, <1>2 DEF Distinct
  <2>2. CASE i \in 1 .. Len(job) /\ j \in Len(job) + 1 .. Len(more)
    <3>1. more[i] \in 0 .. s_mm_id
      BY <2>2, <1>2, <1>4
    <3>2. more[j] \in s_mm_id + 1 .. s_mm_id + k
      <4>1. j - Len(job) \in 1 .. Len(ids)
        <5>1. j \in Len(job) + 1 .. Len(job) + Len(ids)
          BY <2>2, <1>2
        <5>2. QED
          BY <5>1, <1>2
      <4>2. more[j] = ids[j - Len(job)]
        BY <2>2, <1>2
      <4>3. QED
        BY <4>1, <4>2, <1>1, <1>4
    <3>3. QED
      BY <3>1, <3>2
  <2>3. CASE j \in 1 .. Len(job) /\ i \in Len(job) + 1 .. Len(more)
    <3>1. more[j] \in 0 .. s_mm_id
      BY <2>3, <1>2, <1>4
    <3>2. more[i] \in s_mm_id + 1 .. s_mm_id + k
      <4>1. i - Len(job) \in 1 .. Len(ids)
        <5>1. i \in Len(job) + 1 .. Len(job) + Len(ids)
          BY <2>3, <1>2
        <5>2. QED
          BY <5>1, <1>2
      <4>2. more[i] = ids[i - Len(job)]
        BY <2>3, <1>2
      <4>3. QED
        BY <4>1, <4>2, <1>1, <1>4
    <3>3. QED
      BY <3>1, <3>2
  <2>4. CASE i \in Len(job) + 1 .. Len(more) /\ j \in Len(job) + 1 .. Len(more)
    <3>1. i - Len(job) \in 1 .. Len(ids) /\ j - Len(job) \in 1 .. Len(ids) /\ i - Len(job) # j - Len(job)
      BY <2>4, <1>2
    <3>2. QED
      BY <2>4, <3>1, <1>1, <1>2 DEF Distinct
  <2>5. QED
    BY <2>1, <2>2, <2>3, <2>4, <1>3
<1>7. QED
  BY <1>1, <1>2, <1>5, <1>6 DEF more, ids

(* getmmFileNumMax: the largest of the ids found. *)
LEMMA LargestId ==
    ASSUME NEW n \in Nat, NEW F \in SUBSET (0 .. n)
    PROVE  Max(F \cup {0}) \in 0 .. n /\ \A f \in F : f <= Max(F \cup {0})
<1> DEFINE S == F \cup {0}
           T == {m \in Nat : \A y \in S : y <= m}
<1>1. S \subseteq 0 .. n
  OBVIOUS
<1>2. \E x \in T : \A y \in T : ~(y < x)
  <2>1. n \in T
    BY <1>1
  <2>2. \E x \in T : \A y \in T : ~(<<y, x>> \in OpToRel(<, Nat))
    <3>1. T \subseteq Nat /\ T # {}
      BY <2>1
    <3> HIDE DEF T
    <3>2. QED
      BY <3>1, NatLessThanWellFounded, WFMin
  <2>3. \A x, y \in Nat : y < x => <<y, x>> \in OpToRel(<, Nat)
    BY DEF OpToRel
  <2>4. QED
    BY <2>2, <2>3
<1>3. PICK x \in T : \A y \in T : ~(y < x)
  BY <1>2
<1>4. x \in S
  <2> SUFFICES ASSUME x \notin S PROVE FALSE
    OBVIOUS
  <2>1. x \in Nat /\ x # 0 /\ \A y \in S : y <= x /\ y # x
    OBVIOUS
  <2>2. x - 1 \in T
    BY <2>1, <1>1
  <2>3. QED
    BY <2>1, <2>2, <1>3
<1>5. \E m \in S : \A y \in S : m >= y
  BY <1>1, <1>4
<1>6. Max(S) \in S /\ \A y \in S : Max(S) >= y
  BY <1>5 DEF Max
<1>7. QED
  BY <1>1, <1>6

-----------------------------------------------------------------------------
(* The steps. *)

(* All ids are within the counter. *)
LEMMA KnownIds ==
    ASSUME TypeOK
    PROVE  /\ \A t \in Threads : mm[t] \in Seq(0 .. s_mm_id) /\ Range(mm[t]) \subseteq 0 .. s_mm_id
           /\ \A n \in 1 .. Len(queue) :
                queue[n] \in Seq(0 .. s_mm_id) /\ Range(queue[n]) \subseteq 0 .. s_mm_id
           /\ \A a \in pool : a \in Seq(0 .. s_mm_id) /\ Range(a) \subseteq 0 .. s_mm_id
<1>1. \A t \in Threads : mm[t] \in Seq(0 .. s_mm_id)
  BY DEF TypeOK
<1>2. \A n \in 1 .. Len(queue) : queue[n] \in Seq(0 .. s_mm_id)
  BY DEF TypeOK
<1>3. \A a \in pool : a \in Seq(0 .. s_mm_id)
  BY DEF TypeOK
<1>4. \A job \in Seq(0 .. s_mm_id) : Range(job) \subseteq 0 .. s_mm_id
  BY RangeOfJob
<1>5. QED
  BY <1>1, <1>2, <1>3, <1>4

(* The places of the ids that are to be recorded. *)
LEMMA InPending ==
    ASSUME NEW id
    PROVE  id \in Pending <=>
             \/ \E t \in Threads : id \in Range(mm[t])
             \/ \E n \in 1 .. Len(queue) : id \in Range(queue[n])
             \/ \E a \in pool : id \in Range(a)
<1> DEFINE A == UNION {Range(mm[t]) : t \in Threads}
           B == UNION {Range(queue[n]) : n \in 1 .. Len(queue)}
           C == UNION {Range(a) : a \in pool}
<1>1. id \in A <=> \E t \in Threads : id \in Range(mm[t])
  OBVIOUS
<1>2. id \in B <=> \E n \in 1 .. Len(queue) : id \in Range(queue[n])
  OBVIOUS
<1>3. id \in C <=> \E a \in pool : id \in Range(a)
  OBVIOUS
<1>4. Pending = A \cup (B \cup C)
  BY DEF Pending, Recording
<1> HIDE DEF A, B, C
<1>5. QED
  BY <1>1, <1>2, <1>3, <1>4

(* The same after a step. *)
LEMMA InPendingNext ==
    ASSUME NEW id
    PROVE  id \in Pending' <=>
             \/ \E t \in Threads : id \in Range(mm'[t])
             \/ \E n \in 1 .. Len(queue') : id \in Range(queue'[n])
             \/ \E a \in pool' : id \in Range(a)
<1> DEFINE A == UNION {Range(mm[t]) : t \in Threads}
           B == UNION {Range(queue[n]) : n \in 1 .. Len(queue)}
           C == UNION {Range(a) : a \in pool}
<1>1. id \in A' <=> \E t \in Threads : id \in Range(mm'[t])
  OBVIOUS
<1>2. id \in B' <=> \E n \in 1 .. Len(queue') : id \in Range(queue'[n])
  OBVIOUS
<1>3. id \in C' <=> \E a \in pool' : id \in Range(a)
  OBVIOUS
<1>4. Pending' = A' \cup (B' \cup C')
  BY DEF Pending, Recording
<1> HIDE DEF A, B, C
<1>5. QED
  BY <1>1, <1>2, <1>3, <1>4

(* A thread takes the next k ids into its job, or file 0: Photos, Video and Other are    *)
(* cases of it.                                                                          *)
LEMMA TakingIds ==
    ASSUME MediaInv, NEW t \in Threads, tpc[t] \in {"idle", "video", "other"},
           NEW k \in Nat, s_mm_id' = s_mm_id + k,
           NEW job \in Seq(0 .. s_mm_id + k), Distinct(job),
           NEW Z \in SUBSET {0}, Range(job) = Range(mm[t]) \cup (s_mm_id + 1 .. s_mm_id + k) \cup Z,
           0 \in Range(job) => Range(job) = {0},
           mm' = [mm EXCEPT ![t] = job],
           NEW p \in {"video", "clear"}, tpc' = [tpc EXCEPT ![t] = p],
           NEW v \in BOOLEAN, video' = [video EXCEPT ![t] = v], v => 0 \notin Range(job),
           UNCHANGED <<files, saving, history>>
    PROVE  MediaInv'
<1>1. /\ TypeOK /\ s_mm_id \in Nat
      /\ UNCHANGED <<files, queue, pool, base, gone, leaked>>
      /\ mm \in [Threads -> Seq(0 .. s_mm_id)] /\ mm'[t] = job
      /\ \A u \in Threads \ {t} : mm'[u] = mm[u] /\ tpc'[u] = tpc[u]
      /\ tpc'[t] = p
  BY DEF MediaInv, TypeOK, saving, history
<1>2. /\ \A u \in Threads : Range(mm[u]) \subseteq 0 .. s_mm_id
      /\ \A n \in 1 .. Len(queue) : Range(queue[n]) \subseteq 0 .. s_mm_id
      /\ \A a \in pool : Range(a) \subseteq 0 .. s_mm_id
      /\ files \subseteq 0 .. s_mm_id
  BY <1>1, KnownIds DEF TypeOK
<1>3. TypeOK'
  <2>1. 0 .. s_mm_id \subseteq 0 .. s_mm_id'
    BY <1>1
  <2>2. Seq(0 .. s_mm_id) \subseteq Seq(0 .. s_mm_id')
    BY <2>1, WiderSeq
  <2>3. Seq(Seq(0 .. s_mm_id)) \subseteq Seq(Seq(0 .. s_mm_id'))
    BY <2>2, WiderSeq
  <2>4. mm' \in [Threads -> Seq(0 .. s_mm_id')]
    BY <1>1, <2>2
  <2>5. base' \in 0 .. s_mm_id'
    BY <1>1 DEF TypeOK
  <2>6. queue' \in Seq(Seq(0 .. s_mm_id')) /\ pool' \subseteq Seq(0 .. s_mm_id') \ {<<>>}
    BY <1>1, <2>2, <2>3 DEF TypeOK
  <2>7. tpc' \in [Threads -> {"idle", "video", "clear", "push", "other"}]
    BY <1>1 DEF TypeOK
  <2>8. QED
    BY <1>1, <2>1, <2>4, <2>5, <2>6, <2>7 DEF TypeOK
<1>4. EmptyHanded'
  BY <1>1 DEF MediaInv, EmptyHanded
<1>v. VideoHasIds'
  <2>1. /\ video' \in [Threads -> BOOLEAN] /\ video'[t] = v
        /\ \A u \in Threads \ {t} : video'[u] = video[u]
    BY <1>1 DEF TypeOK
  <2>2. QED
    BY <1>1, <2>1 DEF MediaInv, VideoHasIds
<1> DEFINE New == s_mm_id + 1 .. s_mm_id + k
<1>5. New \cap 0 .. s_mm_id = {}
  BY <1>1
<1>6. Range(mm'[t]) = Range(mm[t]) \cup New \cup Z
  BY <1>1
<1> HIDE DEF New
<1>7. UniqueIds'
  <2>1. \A u \in Threads : Proper(mm'[u], files')
    <3>1. Proper(mm'[t], files')
      <4>1. Range(mm'[t]) \cap files' \subseteq {0}
        BY <1>1, <1>2, <1>5, <1>6 DEF MediaInv, UniqueIds, Proper
      <4>2. QED
        BY <1>1, <4>1 DEF Proper, Distinct
    <3>2. \A u \in Threads \ {t} : Proper(mm'[u], files')
      BY <1>1 DEF MediaInv, UniqueIds
    <3>3. QED
      BY <3>1, <3>2
  <2>2. /\ \A n \in 1 .. Len(queue') : Proper(queue'[n], files')
        /\ \A a \in pool' : Proper(a, files')
    BY <1>1 DEF MediaInv, UniqueIds
  <2>3. \A u, w \in Threads : u # w => Apart(mm'[u], mm'[w])
    BY <1>1, <1>2, <1>5, <1>6 DEF MediaInv, UniqueIds, Apart
  <2>4. \A u \in Threads, n \in 1 .. Len(queue') : Apart(mm'[u], queue'[n])
    BY <1>1, <1>2, <1>5, <1>6 DEF MediaInv, UniqueIds, Apart
  <2>5. \A u \in Threads, a \in pool' : Apart(mm'[u], a)
    BY <1>1, <1>2, <1>5, <1>6 DEF MediaInv, UniqueIds, Apart
  <2>6. /\ \A m, n \in 1 .. Len(queue') : m # n => Apart(queue'[m], queue'[n])
        /\ \A a, b \in pool' : a # b => Apart(a, b)
        /\ \A n \in 1 .. Len(queue'), a \in pool' : Apart(queue'[n], a)
    BY <1>1 DEF MediaInv, UniqueIds, Apart
  <2>7. QED
    BY <2>1, <2>2, <2>3, <2>4, <2>5, <2>6 DEF UniqueIds
<1>8. RetainedWindow'
  <2> SUFFICES ASSUME NEW f \in files \ {0}, f + Keep <= s_mm_id', f \notin leaked
               PROVE  \E u \in Threads : f + Keep \in Range(mm'[u]) /\ tpc'[u] \in {"video", "clear"}
    BY <1>1, MediaAssumption DEF RetainedWindow, TypeOK
  <2>1. CASE f + Keep > s_mm_id
    <3>1. f + Keep \in New
      BY <1>1, <1>2, <2>1, MediaAssumption DEF New
    <3>2. QED
      BY <1>1, <1>6, <3>1
  <2>2. CASE ~(f + Keep > s_mm_id)
    <3>1. PICK u \in Threads : f + Keep \in Range(mm[u]) /\ tpc[u] \in {"video", "clear"}
      BY <2>2 DEF MediaInv, RetainedWindow
    <3>2. QED
      BY <1>1, <1>6, <3>1
  <2>3. QED
    BY <2>1, <2>2
<1>9. NothingForgotten'
  <2>1. Recording' = Recording
    BY <1>1 DEF Recording
  <2>2. Pending \subseteq Pending' /\ New \subseteq Pending'
    <3>1. \A u \in Threads : Range(mm[u]) \subseteq Range(mm'[u])
      BY <1>1, <1>6
    <3>2. Pending' = (UNION {Range(mm'[u]) : u \in Threads}) \cup Recording
      BY <2>1 DEF Pending
    <3>3. UNION {Range(mm[u]) : u \in Threads} \subseteq UNION {Range(mm'[u]) : u \in Threads}
      BY <3>1
    <3>4. New \subseteq UNION {Range(mm'[u]) : u \in Threads}
      BY <1>6
    <3>5. QED
      BY <3>2, <3>3, <3>4 DEF Pending
  <2>3. base' + 1 .. s_mm_id' \subseteq (base + 1 .. s_mm_id) \cup New
    BY <1>1 DEF New, TypeOK
  <2>4. QED
    BY <1>1, <2>2, <2>3 DEF MediaInv, NothingForgotten
<1>10. QED
  BY <1>3, <1>4, <1>v, <1>7, <1>8, <1>9 DEF MediaInv

(* The three steps of a reporting thread that take ids. *)
LEMMA TakesKeepInv ==
    ASSUME MediaInv, NEW t \in Threads, Photos(t) \/ Video(t) \/ Other(t)
    PROVE  MediaInv'
<1>1. /\ s_mm_id \in Nat /\ mm \in [Threads -> Seq(0 .. s_mm_id)] /\ video \in [Threads -> BOOLEAN]
      /\ Distinct(mm[t])
  BY DEF MediaInv, TypeOK, UniqueIds, Proper, Distinct
<1>2. CASE Photos(t)
  <2>1. PICK plan \in Plans :
          /\ mm' = [mm EXCEPT ![t] = PhotoIds(plan)]
          /\ s_mm_id' = s_mm_id + plan.photos
          /\ video' = [video EXCEPT ![t] = plan.video]
    BY <1>2 DEF Photos
  <2>2. plan.photos \in Nat /\ plan.video \in BOOLEAN /\ (plan.snap => ~plan.video)
    BY MediaAssumption
  <2>3. tpc[t] = "idle" /\ Range(mm[t]) = {}
    BY <1>2, RangeOfNone DEF Photos, MediaInv, EmptyHanded
  <2>4. tpc' = [tpc EXCEPT ![t] = "video"] /\ UNCHANGED <<files, saving, history>>
    BY <1>2 DEF Photos
  <2>5. CASE plan.snap /\ plan.photos = 0
    <3>1. PhotoIds(plan) = <<0>> /\ ~plan.video
      BY <2>2, <2>5 DEF PhotoIds
    <3>2. <<0>> \in Seq(0 .. s_mm_id + 0) /\ Distinct(<<0>>)
      BY <1>1 DEF Distinct
    <3>3. Range(<<0>>) = {0}
      BY DEF Range
    <3>4. Range(<<0>>) = Range(mm[t]) \cup (s_mm_id + 1 .. s_mm_id + 0) \cup {0}
      <4>1. s_mm_id + 1 .. s_mm_id + 0 = {}
        BY <1>1
      <4>2. QED
        BY <2>3, <3>3, <4>1
    <3>5. mm' = [mm EXCEPT ![t] = <<0>>] /\ s_mm_id' = s_mm_id + 0
      BY <2>1, <2>5, <3>1
    <3>6. 0 \in Nat /\ {0} \in SUBSET {0}
      OBVIOUS
    <3>7. QED
      BY <2>1, <2>2, <2>3, <2>4, <3>1, <3>2, <3>3, <3>4, <3>5, <3>6, TakingIds
  <2>6. CASE ~(plan.snap /\ plan.photos = 0)
    <3>1. PhotoIds(plan) = GetNextId(plan.photos)
      BY <2>6 DEF PhotoIds
    <3>2. /\ GetNextId(plan.photos) \in Seq(0 .. s_mm_id + plan.photos) /\ Distinct(GetNextId(plan.photos))
          /\ Range(GetNextId(plan.photos)) = s_mm_id + 1 .. s_mm_id + plan.photos
      BY <1>1, <2>2, NextIds
    <3>3. 0 \notin s_mm_id + 1 .. s_mm_id + plan.photos
      BY <1>1, <2>2
    <3> DEFINE job == GetNextId(plan.photos)
    <3>4. /\ job \in Seq(0 .. s_mm_id + plan.photos) /\ Distinct(job) /\ 0 \notin Range(job)
          /\ Range(job) = Range(mm[t]) \cup (s_mm_id + 1 .. s_mm_id + plan.photos) \cup {}
          /\ mm' = [mm EXCEPT ![t] = job]
      BY <2>1, <2>3, <3>1, <3>2, <3>3
    <3> HIDE DEF job
    <3>5. {} \in SUBSET {0}
      OBVIOUS
    <3>6. QED
      BY <2>1, <2>2, <2>3, <2>4, <3>4, <3>5, TakingIds
  <2>7. QED
    BY <2>5, <2>6
<1>3. CASE Video(t)
  <2>1. /\ tpc[t] = "video" /\ tpc' = [tpc EXCEPT ![t] = "clear"]
        /\ video[t] \in BOOLEAN /\ video' = [video EXCEPT ![t] = video[t]]
        /\ UNCHANGED <<files, saving, history>> /\ {} \in SUBSET {0}
    BY <1>1, <1>3 DEF Video
  <2>2. CASE video[t]
    <3> DEFINE job == mm[t] \o GetNextId(1)
    <3>1. mm' = [mm EXCEPT ![t] = job] /\ s_mm_id' = s_mm_id + 1
      BY <1>1, <1>3, <2>2 DEF Video
    <3>2. /\ job \in Seq(0 .. s_mm_id + 1) /\ Distinct(job)
          /\ Range(job) = Range(mm[t]) \cup (s_mm_id + 1 .. s_mm_id + 1)
      BY <1>1, MoreIds
    <3> HIDE DEF job
    <3>3. 0 \notin Range(job) /\ Range(job) = Range(mm[t]) \cup (s_mm_id + 1 .. s_mm_id + 1) \cup {}
      BY <1>1, <2>2, <3>2 DEF MediaInv, VideoHasIds
    <3>4. QED
      BY <2>1, <3>1, <3>2, <3>3, TakingIds
  <2>3. CASE ~video[t]
    <3>1. mm' = [mm EXCEPT ![t] = mm[t]] /\ s_mm_id' = s_mm_id + 0
      BY <1>1, <1>3, <2>3 DEF Video
    <3>2. mm[t] \in Seq(0 .. s_mm_id + 0) /\ Range(mm[t]) = Range(mm[t]) \cup (s_mm_id + 1 .. s_mm_id + 0) \cup {}
      BY <1>1
    <3>3. 0 \in Range(mm[t]) => Range(mm[t]) = {0}
      BY DEF MediaInv, UniqueIds, Proper
    <3>4. QED
      BY <1>1, <2>1, <2>3, <3>1, <3>2, <3>3, TakingIds
  <2>4. QED
    BY <2>2, <2>3
<1>4. CASE Other(t)
  <2> DEFINE job == GetNextId(1)
  <2>1. /\ tpc[t] = "other" /\ tpc' = [tpc EXCEPT ![t] = "clear"] /\ s_mm_id' = s_mm_id + 1
        /\ mm' = [mm EXCEPT ![t] = job]
        /\ video' = [video EXCEPT ![t] = FALSE] /\ UNCHANGED <<files, saving, history>>
        /\ {} \in SUBSET {0}
    BY <1>4 DEF Other
  <2>2. Range(mm[t]) = {}
    BY <2>1, RangeOfNone DEF MediaInv, EmptyHanded
  <2>3. job \in Seq(0 .. s_mm_id + 1) /\ Distinct(job) /\ Range(job) = s_mm_id + 1 .. s_mm_id + 1
    BY <1>1, NextIds
  <2> HIDE DEF job
  <2>4. 0 \notin Range(job) /\ Range(job) = Range(mm[t]) \cup (s_mm_id + 1 .. s_mm_id + 1) \cup {}
    BY <1>1, <2>2, <2>3
  <2>5. QED
    BY <2>1, <2>3, <2>4, TakingIds
<1>5. QED
  BY <1>2, <1>3, <1>4

(* clear_old_media_file. *)
LEMMA ClearKeepsInv ==
    ASSUME MediaInv, NEW t \in Threads, Clear(t)
    PROVE  MediaInv'
<1> DEFINE given == Range(mm[t]) \ {0}
           old == {id - Keep : id \in given \ 1 .. Keep}
<1>1. /\ files' = files \ (old \cup given)
      /\ gone' = gone \cup (old \cap base + 1 .. s_mm_id)
      /\ UNCHANGED <<s_mm_id, mm, video, queue, pool, base, leaked>>
      /\ tpc' = [tpc EXCEPT ![t] = "push"] /\ tpc[t] = "clear"
      /\ TypeOK /\ Range(mm[t]) \subseteq 0 .. s_mm_id
  BY KnownIds DEF Clear, MediaInv, saving
<1>2. TypeOK'
  <2>1. files \subseteq 0 .. s_mm_id /\ gone \subseteq 0 .. s_mm_id /\ base + 1 .. s_mm_id \subseteq 0 .. s_mm_id
    BY <1>1 DEF TypeOK
  <2> HIDE DEF old
  <2>2. files' \subseteq 0 .. s_mm_id /\ gone' \subseteq 0 .. s_mm_id
    BY <1>1, <2>1
  <2>3. QED
    BY <1>1, <2>2 DEF TypeOK
<1>3. EmptyHanded' /\ VideoHasIds'
  BY <1>1 DEF MediaInv, EmptyHanded, VideoHasIds, TypeOK
<1>4. UniqueIds'
  <2>1. files' \subseteq files
    BY <1>1
  <2>2. \A job : Proper(job, files) => Proper(job, files')
    BY <2>1 DEF Proper
  <2>3. QED
    BY <1>1, <2>2 DEF MediaInv, UniqueIds
<1>5. RetainedWindow'
  <2> SUFFICES ASSUME NEW f \in files' \ {0}, ~(f + Keep > s_mm_id), f \notin leaked
               PROVE  \E u \in Threads : f + Keep \in Range(mm[u]) /\ tpc'[u] \in {"video", "clear"}
    BY <1>1 DEF RetainedWindow
  <2>1. PICK u \in Threads : f + Keep \in Range(mm[u]) /\ tpc[u] \in {"video", "clear"}
    BY <1>1 DEF MediaInv, RetainedWindow
  <2>2. f \in Nat /\ f = (f + Keep) - Keep
    <3>1. f \in files
      BY <1>1
    <3>2. files \subseteq Nat /\ Keep \in Nat
      BY <1>1, MediaAssumption DEF TypeOK
    <3>3. f \in Nat
      BY <3>1, <3>2
    <3>4. QED
      BY <3>2, <3>3
  <2>3. u # t
    <3>1. f # 0 /\ Keep \in Nat \ {0}
      BY MediaAssumption
    <3>2. f + Keep \notin 1 .. Keep /\ f + Keep # 0
      BY <2>2, <3>1
    <3>3. f + Keep \in Range(mm[t]) => f \in old
      BY <2>2, <3>2
    <3>4. QED
      BY <1>1, <2>1, <3>3
  <2>4. QED
    BY <1>1, <2>1, <2>3 DEF TypeOK
<1>6. NothingForgotten'
  <2>1. Pending' = Pending /\ Range(mm[t]) \subseteq Pending
    BY <1>1 DEF Pending, Recording
  <2>2. QED
    BY <1>1, <2>1 DEF MediaInv, NothingForgotten
<1>7. QED
  BY <1>2, <1>3, <1>4, <1>5, <1>6 DEF MediaInv

(* push_mm_queue: the job goes from the thread to the queue, or is dropped. *)
LEMMA PushKeepsInv ==
    ASSUME MediaInv, NEW t \in Threads, Push(t)
    PROVE  MediaInv'
<1> DEFINE job == mm[t]
           q == 1 .. Len(queue)
<1>1. /\ UNCHANGED <<s_mm_id, files, video, pool, base, leaked>>
      /\ tpc' \in [Threads -> {"idle", "video", "clear", "push", "other"}]
      /\ tpc[t] = "push" /\ tpc'[t] \in {"idle", "other"}
      /\ mm' \in [Threads -> Seq(0 .. s_mm_id)] /\ mm'[t] = <<>>
      /\ \A u \in Threads \ {t} : mm'[u] = mm[u] /\ tpc'[u] = tpc[u]
      /\ TypeOK
  BY DEF Push, MediaInv, TypeOK
<1>2. /\ \/ Len(queue) < QueueCap /\ queue' = Append(queue, job) /\ gone' = gone
         \/ queue' = queue /\ gone' = gone \cup (Range(job) \ {0})
      /\ job \in Seq(0 .. s_mm_id) /\ Range(job) \subseteq 0 .. s_mm_id
  BY <1>1, KnownIds DEF Push
<1>3. /\ queue' \in Seq(Seq(0 .. s_mm_id)) /\ Len(queue') <= QueueCap
      /\ q \subseteq 1 .. Len(queue') /\ \A n \in q : queue'[n] = queue[n]
      /\ \A n \in 1 .. Len(queue') \ q : queue'[n] = job
      /\ \A m, n \in 1 .. Len(queue') : m \notin q /\ n \notin q => m = n
  <2>1. queue \in Seq(Seq(0 .. s_mm_id)) /\ Len(queue) <= QueueCap /\ QueueCap \in Nat
    BY <1>1, MediaAssumption DEF TypeOK
  <2>2. CASE Len(queue) < QueueCap /\ queue' = Append(queue, job) /\ gone' = gone
    BY <1>2, <2>1, <2>2
  <2>3. CASE queue' = queue
    BY <2>1, <2>3
  <2>4. QED
    BY <1>2, <2>2, <2>3
<1>4. TypeOK'
  <2>1. gone' \subseteq 0 .. s_mm_id
    BY <1>1, <1>2 DEF TypeOK
  <2>2. QED
    BY <1>1, <1>3, <2>1 DEF TypeOK
<1>5. EmptyHanded' /\ VideoHasIds'
  BY <1>1, RangeOfNone DEF MediaInv, EmptyHanded, VideoHasIds
<1> HIDE DEF q
<1>6. UniqueIds'
  <2>1. Range(mm'[t]) = {} /\ Distinct(mm'[t])
    BY <1>1, RangeOfNone
  <2>2. \A u \in Threads : Proper(mm'[u], files')
    <3>1. Proper(mm'[t], files')
      BY <2>1 DEF Proper, Distinct
    <3>2. \A u \in Threads \ {t} : Proper(mm'[u], files')
      BY <1>1 DEF MediaInv, UniqueIds
    <3>3. QED
      BY <3>1, <3>2
  <2>3. /\ \A n \in 1 .. Len(queue') : Proper(queue'[n], files')
        /\ \A a \in pool' : Proper(a, files')
    BY <1>1, <1>3 DEF MediaInv, UniqueIds, q
  <2>4. \A u, v \in Threads : u # v => Apart(mm'[u], mm'[v])
    BY <1>1, <2>1 DEF MediaInv, UniqueIds, Apart
  <2>5. \A m, n \in 1 .. Len(queue') : m # n => Apart(queue'[m], queue'[n])
    <3> SUFFICES ASSUME NEW m \in 1 .. Len(queue'), NEW n \in 1 .. Len(queue'), m # n
                 PROVE  Apart(queue'[m], queue'[n])
      OBVIOUS
    <3>1. CASE m \in q /\ n \in q
      BY <1>3, <3>1 DEF MediaInv, UniqueIds, q
    <3>2. CASE m \in q /\ n \notin q
      BY <1>3, <3>2 DEF MediaInv, UniqueIds, Apart, q
    <3>3. CASE m \notin q /\ n \in q
      BY <1>3, <3>3 DEF MediaInv, UniqueIds, Apart, q
    <3>4. QED
      BY <1>3, <3>1, <3>2, <3>3
  <2>6. \A a, b \in pool' : a # b => Apart(a, b)
    BY <1>1 DEF MediaInv, UniqueIds, Apart
  <2>7. \A u \in Threads, n \in 1 .. Len(queue') : Apart(mm'[u], queue'[n])
    BY <1>1, <1>3, <2>1 DEF MediaInv, UniqueIds, Apart, q
  <2>8. \A u \in Threads, a \in pool' : Apart(mm'[u], a)
    BY <1>1, <2>1 DEF MediaInv, UniqueIds, Apart
  <2>9. \A n \in 1 .. Len(queue'), a \in pool' : Apart(queue'[n], a)
    BY <1>1, <1>3 DEF MediaInv, UniqueIds, Apart, q
  <2>10. QED
    BY <2>2, <2>3, <2>4, <2>5, <2>6, <2>7, <2>8, <2>9 DEF UniqueIds
<1>7. RetainedWindow'
  <2> SUFFICES ASSUME NEW f \in files \ {0}, ~(f + Keep > s_mm_id), f \notin leaked
               PROVE  \E u \in Threads : f + Keep \in Range(mm'[u]) /\ tpc'[u] \in {"video", "clear"}
    BY <1>1 DEF RetainedWindow
  <2>1. PICK u \in Threads : f + Keep \in Range(mm[u]) /\ tpc[u] \in {"video", "clear"}
    BY DEF MediaInv, RetainedWindow
  <2>2. QED
    BY <1>1, <2>1
<1>8. NothingForgotten'
  <2> SUFFICES ASSUME NEW id \in base + 1 .. s_mm_id PROVE id \in files \cup gone' \cup Pending'
    BY <1>1 DEF NothingForgotten
  <2>1. id \in files \cup gone \cup Pending
    BY DEF MediaInv, NothingForgotten
  <2>2. CASE id \in files \cup gone
    BY <1>2, <2>2
  <2>3. CASE \E u \in Threads : id \in Range(mm[u])
    <3>1. PICK u \in Threads : id \in Range(mm[u])
      BY <2>3
    <3>2. CASE u # t
      BY <1>1, <3>1, <3>2, InPendingNext
    <3>3. CASE u = t /\ queue' = queue /\ gone' = gone \cup (Range(job) \ {0})
      <4>1. id # 0
        BY <1>1 DEF TypeOK
      <4>2. QED
        BY <3>1, <3>3, <4>1
    <3>4. CASE u = t /\ queue' = Append(queue, job)
      <4>1. Len(queue) + 1 \in 1 .. Len(queue') /\ queue'[Len(queue) + 1] = job
        BY <1>1, <1>2, <3>4 DEF TypeOK
      <4>2. QED
        BY <3>1, <3>4, <4>1, InPendingNext
    <3>5. QED
      BY <1>2, <3>2, <3>3, <3>4
  <2>4. CASE \E n \in q : id \in Range(queue[n])
    BY <1>3, <2>4, InPendingNext
  <2>5. CASE \E a \in pool : id \in Range(a)
    <3>1. pool' = pool
      BY <1>1
    <3>2. \E a \in pool' : id \in Range(a)
      BY <2>5, <3>1
    <3>3. QED
      BY <3>2, InPendingNext
  <2>6. QED
    BY <2>1, <2>2, <2>3, <2>4, <2>5, InPending DEF q
<1>9. QED
  BY <1>4, <1>5, <1>6, <1>7, <1>8 DEF MediaInv

(* pthread_save_media: the first job goes from the queue to the pool. *)
LEMMA PullKeepsInv ==
    ASSUME MediaInv, Pull
    PROVE  MediaInv'
<1> DEFINE job == Head(queue)
<1>1. /\ UNCHANGED <<s_mm_id, files, tpc, mm, video, base, gone, leaked>>
      /\ queue # <<>> /\ queue' = Tail(queue) /\ pool' = pool \cup ({job} \ {<<>>})
      /\ TypeOK /\ queue \in Seq(Seq(0 .. s_mm_id)) /\ Len(queue) <= QueueCap
  BY DEF Pull, MediaInv, TypeOK, thread, history
<1>2. /\ queue' \in Seq(Seq(0 .. s_mm_id)) /\ Len(queue') = Len(queue) - 1
      /\ Len(queue) \in Nat \ {0} /\ 1 \in 1 .. Len(queue) /\ job = queue[1]
      /\ job \in Seq(0 .. s_mm_id)
      /\ \A n \in 1 .. Len(queue') : n + 1 \in 2 .. Len(queue) /\ queue'[n] = queue[n + 1]
  BY <1>1
<1> HIDE DEF job
<1>3. TypeOK'
  <2>1. Len(queue') <= QueueCap
    BY <1>1, <1>2, MediaAssumption
  <2>2. QED
    BY <1>1, <1>2, <2>1 DEF TypeOK
<1>4. EmptyHanded' /\ VideoHasIds'
  BY <1>1 DEF MediaInv, EmptyHanded, VideoHasIds
<1>5. UniqueIds'
  <2> USE DEF MediaInv
  <2>1. \A n \in 1 .. Len(queue') : n + 1 \in 1 .. Len(queue) /\ n + 1 # 1
    BY <1>2
  <2>2. \A t \in Threads : Proper(mm'[t], files')
    BY <1>1 DEF UniqueIds
  <2>3. \A n \in 1 .. Len(queue') : Proper(queue'[n], files')
    BY <1>1, <1>2, <2>1 DEF UniqueIds
  <2>4. \A a \in pool' : Proper(a, files')
    BY <1>1, <1>2 DEF UniqueIds
  <2>5. \A t, u \in Threads : t # u => Apart(mm'[t], mm'[u])
    BY <1>1 DEF UniqueIds
  <2>6. \A m, n \in 1 .. Len(queue') : m # n => Apart(queue'[m], queue'[n])
    <3> SUFFICES ASSUME NEW m \in 1 .. Len(queue'), NEW n \in 1 .. Len(queue'), m # n
                 PROVE  Apart(queue'[m], queue'[n])
      OBVIOUS
    <3>1. m + 1 # n + 1
      BY <1>2
    <3>2. QED
      BY <1>2, <2>1, <3>1 DEF UniqueIds
  <2>7. \A a, b \in pool' : a # b => Apart(a, b)
    <3>1. \A a \in pool : Apart(job, a) /\ Apart(a, job)
      BY <1>2 DEF UniqueIds, Apart
    <3>2. QED
      BY <1>1, <3>1 DEF UniqueIds
  <2>8. \A t \in Threads, n \in 1 .. Len(queue') : Apart(mm'[t], queue'[n])
    BY <1>1, <1>2, <2>1 DEF UniqueIds
  <2>9. \A t \in Threads, a \in pool' : Apart(mm'[t], a)
    BY <1>1, <1>2 DEF UniqueIds
  <2>10. \A n \in 1 .. Len(queue'), a \in pool' : Apart(queue'[n], a)
    BY <1>1, <1>2, <2>1 DEF UniqueIds
  <2>11. QED
    BY <2>2, <2>3, <2>4, <2>5, <2>6, <2>7, <2>8, <2>9, <2>10 DEF UniqueIds
<1>6. RetainedWindow'
  BY <1>1 DEF MediaInv, RetainedWindow
<1>7. NothingForgotten'
  <2>1. Pending \subseteq Pending'
    <3> SUFFICES ASSUME NEW id \in Pending PROVE id \in Pending'
      OBVIOUS
    <3>1. CASE \E t \in Threads : id \in Range(mm[t])
      BY <1>1, <3>1, InPendingNext
    <3>2. CASE \E n \in 1 .. Len(queue) : id \in Range(queue[n])
      <4>1. PICK n \in 1 .. Len(queue) : id \in Range(queue[n])
        BY <3>2
      <4>2. CASE n = 1
        <5>1. job \in pool'
          BY <1>1, <1>2, <4>1, <4>2, RangeOfNone
        <5>2. QED
          BY <1>2, <4>1, <4>2, <5>1, InPendingNext
      <4>3. CASE n # 1
        <5>1. n - 1 \in 1 .. Len(queue') /\ (n - 1) + 1 = n
          BY <1>2, <4>3
        <5>2. id \in Range(queue'[n - 1])
          BY <1>2, <4>1, <5>1
        <5>3. QED
          BY <5>1, <5>2, InPendingNext
      <4>4. QED
        BY <4>2, <4>3
    <3>3. CASE \E a \in pool : id \in Range(a)
      <4>1. \E a \in pool' : id \in Range(a)
        BY <1>1, <3>3
      <4>2. QED
        BY <4>1, InPendingNext
    <3>4. QED
      BY <3>1, <3>2, <3>3, InPending
  <2>2. QED
    BY <1>1, <2>1 DEF MediaInv, NothingForgotten
<1>8. QED
  BY <1>3, <1>4, <1>5, <1>6, <1>7 DEF MediaInv

(* A task of the pool: the first of its ids gets its file, or the write fails. *)
LEMMA RecordKeepsInv ==
    ASSUME MediaInv, NEW task \in pool, Record(task)
    PROVE  MediaInv'
<1> DEFINE id == Head(task)
           rest == Tail(task)
<1>1. /\ UNCHANGED <<s_mm_id, tpc, mm, video, queue, base>>
      /\ pool' = (pool \ {task}) \cup ({rest} \ {<<>>})
      /\ TypeOK /\ s_mm_id \in Nat /\ task \in Seq(0 .. s_mm_id) /\ task # <<>>
      /\ Proper(task, files)
  BY DEF Record, MediaInv, TypeOK, UniqueIds, thread
<1>2. \/ /\ files' = files \cup {id} /\ gone' = gone
         /\ leaked' = IF id \in 1 .. s_mm_id - Keep THEN leaked \cup {id} ELSE leaked \ {id}
      \/ files' = files /\ leaked' = leaked /\ gone' = gone \cup ({id} \ {0})
  BY DEF Record
<1>3. /\ id \in 0 .. s_mm_id /\ rest \in Seq(0 .. s_mm_id)
      /\ Range(task) = {id} \cup Range(rest) /\ id \notin Range(rest) /\ Distinct(rest)
  <2>1. Distinct(task)
    BY <1>1 DEF Proper, Distinct
  <2>2. QED
    BY <1>1, <2>1, RestOfJob
<1> HIDE DEF id, rest
<1>4. TypeOK'
  <2>1. /\ files' \subseteq 0 .. s_mm_id /\ gone' \subseteq 0 .. s_mm_id /\ leaked' \subseteq 0 .. s_mm_id
    BY <1>1, <1>2, <1>3 DEF TypeOK
  <2>2. pool' \subseteq Seq(0 .. s_mm_id) \ {<<>>}
    BY <1>1, <1>3 DEF TypeOK
  <2>3. QED
    BY <1>1, <2>1, <2>2 DEF TypeOK
<1>5. EmptyHanded' /\ VideoHasIds'
  BY <1>1 DEF MediaInv, EmptyHanded, VideoHasIds
<1>6. files' \subseteq files \cup {id}
  BY <1>2
<1>7. UniqueIds'
  <2> USE DEF MediaInv
  <2>1. \A job : Proper(job, files) /\ (id # 0 => id \notin Range(job)) => Proper(job, files')
    BY <1>6 DEF Proper
  <2>2. \A job : Apart(job, task) \/ Apart(task, job) =>
                   (id # 0 => id \notin Range(job)) /\ Apart(job, rest) /\ Apart(rest, job)
    BY <1>3 DEF Apart
  <2>3. \A t \in Threads : Proper(mm'[t], files') /\ Apart(mm[t], rest)
    BY <1>1, <2>1, <2>2 DEF UniqueIds
  <2>4. \A n \in 1 .. Len(queue') : Proper(queue'[n], files') /\ Apart(queue[n], rest)
    BY <1>1, <2>1, <2>2 DEF UniqueIds
  <2>5. \A a \in pool \ {task} : Proper(a, files') /\ Apart(a, rest) /\ Apart(rest, a)
    BY <2>1, <2>2 DEF UniqueIds
  <2>6. Proper(rest, files')
    BY <1>1, <1>3, <1>6 DEF Proper, Distinct
  <2>7. /\ \A a \in pool' : Proper(a, files')
        /\ \A a, b \in pool' : a # b => Apart(a, b)
    BY <1>1, <2>5, <2>6 DEF UniqueIds
  <2>8. /\ \A t \in Threads, a \in pool' : Apart(mm'[t], a)
        /\ \A n \in 1 .. Len(queue'), a \in pool' : Apart(queue'[n], a)
    BY <1>1, <2>3, <2>4 DEF UniqueIds
  <2>9. QED
    BY <1>1, <2>3, <2>4, <2>7, <2>8 DEF UniqueIds
<1>8. RetainedWindow'
  <2> SUFFICES ASSUME NEW f \in files' \ {0}, ~(f + Keep > s_mm_id), f \notin leaked'
               PROVE  \E t \in Threads : f + Keep \in Range(mm[t]) /\ tpc[t] \in {"video", "clear"}
    BY <1>1 DEF RetainedWindow
  <2>1. f # id
    <3> SUFFICES ASSUME f = id PROVE FALSE
      OBVIOUS
    <3>1. id \notin files
      BY <1>1, <1>3 DEF Proper
    <3>2. id \in 1 .. s_mm_id - Keep
      BY <1>1, <1>3, MediaAssumption
    <3>3. QED
      BY <1>2, <3>1, <3>2
  <2>2. f \in files /\ f \notin leaked
    BY <1>2, <2>1
  <2>3. QED
    BY <2>2 DEF MediaInv, RetainedWindow
<1>9. NothingForgotten'
  <2>1. (id # 0 => id \in files' \cup gone') /\ files \cup gone \subseteq files' \cup gone'
    BY <1>2
  <2>2. \A x \in Pending : x = id \/ x \in Pending'
    <3> SUFFICES ASSUME NEW x \in Pending, x # id PROVE x \in Pending'
      OBVIOUS
    <3>1. CASE \E t \in Threads : x \in Range(mm[t])
      BY <1>1, <3>1, InPendingNext
    <3>2. CASE \E n \in 1 .. Len(queue) : x \in Range(queue[n])
      BY <1>1, <3>2, InPendingNext
    <3>3. CASE \E a \in pool : x \in Range(a)
      <4>1. PICK a \in pool : x \in Range(a)
        BY <3>3
      <4>2. CASE a # task
        BY <1>1, <4>1, <4>2, InPendingNext
      <4>3. CASE a = task
        <5>1. x \in Range(rest)
          BY <1>3, <4>1, <4>3
        <5>2. rest \in pool'
          BY <1>1, <5>1, RangeOfNone
        <5>3. QED
          BY <5>1, <5>2, InPendingNext
      <4>4. QED
        BY <4>2, <4>3
    <3>4. QED
      BY <3>1, <3>2, <3>3, InPending
  <2>3. 0 \notin base + 1 .. s_mm_id
    BY <1>1 DEF TypeOK
  <2>4. QED
    BY <1>1, <2>1, <2>2, <2>3 DEF MediaInv, NothingForgotten
<1>10. QED
  BY <1>4, <1>5, <1>7, <1>8, <1>9 DEF MediaInv

(* A process starts with no jobs and a counter that no file is beyond. *)
LEMMA StartKeepsInv ==
    ASSUME MediaAssumption, s_mm_id' \in Nat, files' \subseteq 0 .. s_mm_id', base' = s_mm_id',
           leaked' = files' \cap 1 .. s_mm_id' - Keep, Fresh
    PROVE  MediaInv'
<1>1. /\ mm' = [t \in Threads |-> <<>>] /\ queue' = <<>> /\ pool' = {} /\ gone' = {}
      /\ tpc' = [t \in Threads |-> "idle"] /\ video' = [t \in Threads |-> FALSE]
  BY DEF Fresh
<1>2. TypeOK'
  <2>1. Len(queue') = 0 /\ queue' \in Seq(Seq(0 .. s_mm_id'))
    BY <1>1
  <2>2. Len(queue') <= QueueCap
    BY <2>1, MediaAssumption
  <2>3. mm' \in [Threads -> Seq(0 .. s_mm_id')]
    BY <1>1
  <2>4. leaked' \subseteq 0 .. s_mm_id'
    <3>1. leaked' \subseteq files'
      OBVIOUS
    <3>2. QED
      BY <3>1
  <2>5. base' \in 0 .. s_mm_id'
    OBVIOUS
  <2>6. QED
    BY <1>1, <2>1, <2>2, <2>3, <2>4, <2>5 DEF TypeOK
<1>3. EmptyHanded' /\ VideoHasIds'
  BY <1>1 DEF EmptyHanded, VideoHasIds
<1>4. UniqueIds'
  <2>1. \A t \in Threads : Proper(mm'[t], files')
    BY <1>1, RangeOfNone DEF Proper, Distinct
  <2>2. \A t, u \in Threads : Apart(mm'[t], mm'[u])
    BY <1>1, RangeOfNone DEF Apart
  <2>3. 1 .. Len(queue') = {}
    BY <1>1
  <2>4. QED
    BY <1>1, <2>1, <2>2, <2>3 DEF UniqueIds
<1>5. RetainedWindow'
  <2> SUFFICES ASSUME NEW f \in files' \ {0}, ~(f + Keep > s_mm_id') PROVE f \in leaked'
    BY DEF RetainedWindow
  <2>1. f \in Nat \ {0} /\ Keep \in Nat \ {0}
    BY MediaAssumption
  <2>2. f \in 1 .. s_mm_id' - Keep
    <3>1. \A a \in Nat \ {0}, k, n \in Nat : ~(a + k > n) => a \in 1 .. n - k
      OBVIOUS
    <3>2. s_mm_id' \in Nat /\ ~(f + Keep > s_mm_id')
      OBVIOUS
    <3>3. QED
      BY ONLY <2>1, <3>1, <3>2
  <2>3. QED
    BY <2>2
<1>6. NothingForgotten'
  <2>1. base' + 1 .. s_mm_id' = {}
    <3>1. base' = s_mm_id' /\ s_mm_id' \in Nat
      OBVIOUS
    <3>2. \A n \in Nat : n + 1 .. n = {}
      OBVIOUS
    <3>3. QED
      BY ONLY <3>1, <3>2
  <2>2. QED
    BY <2>1 DEF NothingForgotten
<1>7. QED
  BY <1>2, <1>3, <1>4, <1>5, <1>6 DEF MediaInv

(* The first process: nothing was given out. *)
LEMMA MediaInit == Init => MediaInv
<1> SUFFICES ASSUME Init PROVE MediaInv
  OBVIOUS
<1>1. /\ s_mm_id = 0 /\ files = {} /\ base = 0 /\ gone = {} /\ leaked = {} /\ pool = {} /\ queue = <<>>
      /\ \A t \in Threads : mm[t] = <<>>
  BY DEF Init
<1>2. TypeOK
  <2>1. Len(queue) = 0 /\ queue \in Seq(Seq(0 .. s_mm_id)) /\ QueueCap \in Nat
    BY <1>1, MediaAssumption
  <2>2. mm \in [Threads -> Seq(0 .. s_mm_id)]
    BY DEF Init
  <2>3. QED
    BY <1>1, <2>1, <2>2 DEF Init, TypeOK
<1>3. EmptyHanded /\ VideoHasIds
  BY <1>1, RangeOfNone DEF EmptyHanded, VideoHasIds
<1>4. UniqueIds
  <2>1. \A t \in Threads : Proper(mm[t], files)
    BY <1>1, RangeOfNone DEF Proper, Distinct
  <2>2. \A t, u \in Threads : Apart(mm[t], mm[u])
    BY <1>1, RangeOfNone DEF Apart
  <2>3. 1 .. Len(queue) = {}
    BY <1>1
  <2>4. QED
    BY <1>1, <2>1, <2>2, <2>3 DEF UniqueIds
<1>5. RetainedWindow /\ NothingForgotten
  BY <1>1 DEF RetainedWindow, NothingForgotten
<1>6. QED
  BY <1>2, <1>3, <1>4, <1>5 DEF MediaInv

(* One case for each step of the reporting threads, the save thread and a restart. *)
LEMMA MediaNext == MediaInv /\ [Next]_vars => MediaInv'
<1> SUFFICES ASSUME MediaInv, [Next]_vars PROVE MediaInv'
  OBVIOUS
<1>1. ASSUME NEW t \in Threads, Photos(t) \/ Video(t) \/ Other(t) PROVE MediaInv'
  BY <1>1, TakesKeepInv
<1>2. ASSUME NEW t \in Threads, Clear(t) PROVE MediaInv'
  BY <1>2, ClearKeepsInv
<1>3. ASSUME NEW t \in Threads, Push(t) PROVE MediaInv'
  BY <1>3, PushKeepsInv
<1>4. CASE Pull
  BY <1>4, PullKeepsInv
<1>5. ASSUME NEW task \in pool, Record(task) PROVE MediaInv'
  BY <1>5, RecordKeepsInv
<1>6. CASE Restart
  <2>1. s_mm_id \in Nat /\ files \in SUBSET (0 .. s_mm_id)
    BY DEF MediaInv, TypeOK
  <2>2. Max(files \cup {0}) \in Nat /\ \A f \in files : f <= Max(files \cup {0})
    BY <2>1, LargestId
  <2>3. files' = files /\ s_mm_id' = Max(files \cup {0}) /\ base' = s_mm_id' /\ Fresh
        /\ leaked' = files' \cap 1 .. s_mm_id' - Keep
    BY <1>6 DEF Restart
  <2>4. files' \subseteq 0 .. s_mm_id'
    BY <2>1, <2>2, <2>3
  <2>5. QED
    BY <2>2, <2>3, <2>4, MediaAssumption, StartKeepsInv
<1>7. CASE RestartEmpty
  <2>1. files' = {} /\ s_mm_id' = 0 /\ base' = s_mm_id' /\ leaked' = files' \cap 1 .. s_mm_id' - Keep /\ Fresh
    BY <1>7 DEF RestartEmpty
  <2>2. QED
    BY <2>1, MediaAssumption, StartKeepsInv
<1>8. CASE UNCHANGED vars
  <2>1. UNCHANGED <<s_mm_id, files, tpc, mm, video, queue, pool, base, gone, leaked>>
    BY <1>8 DEF vars, thread, saving, history
  <2>2. TypeOK' /\ EmptyHanded' /\ VideoHasIds'
    BY <2>1 DEF MediaInv, TypeOK, EmptyHanded, VideoHasIds
  <2>3. UniqueIds'
    BY <2>1 DEF MediaInv, UniqueIds
  <2>4. RetainedWindow'
    BY <2>1 DEF MediaInv, RetainedWindow
  <2>5. NothingForgotten'
    BY <2>1 DEF MediaInv, NothingForgotten, Pending, Recording
  <2>6. QED
    BY <2>2, <2>3, <2>4, <2>5 DEF MediaInv
<1>9. QED
  BY <1>1, <1>2, <1>3, <1>4, <1>5, <1>6, <1>7, <1>8 DEF Next, Build, Save

(* The inductive invariant, over every interleaving and every restart. *)
THEOREM MediaCorrect == Spec => []MediaInv
BY MediaInit, MediaNext, PTL DEF Spec

(* The store is well formed: the image queue never exceeds PTR_QUEUE_BUF_CNT, and no    *)
(* file, old or new, has an id beyond s_mm_id.                                          *)
THEOREM MediaTypeCorrect == Spec => []TypeOK
<1>1. MediaInv => TypeOK
  BY DEF MediaInv
<1>2. QED
  BY <1>1, MediaCorrect, PTL

(* get_next_id gives no id twice, and after a restart none that a file has; only file 0, *)
(* which no alert has, is written by more than one job.                                  *)
THEOREM NoSharedId == Spec => []UniqueIds
<1>1. MediaInv => UniqueIds
  BY DEF MediaInv
<1>2. QED
  BY <1>1, MediaCorrect, PTL

(* clear_old_media_file misses only what was recorded after its turn or left by a crash, *)
(* and file 0.                                                                           *)
THEOREM OldFilesGo == Spec => []RetainedWindow
<1>1. MediaInv => RetainedWindow
  BY DEF MediaInv
<1>2. QED
  BY <1>1, MediaCorrect, PTL

(* Every id given out is accounted for, from get_next_id over push_mm_queue to the       *)
(* recording of its file.                                                                *)
THEOREM EveryIdAccounted == Spec => []NothingForgotten
<1>1. MediaInv => NothingForgotten
  BY DEF MediaInv
<1>2. QED
  BY <1>1, MediaCorrect, PTL

=============================================================================
