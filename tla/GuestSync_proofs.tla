--------------------------- MODULE GuestSync_proofs ---------------------------
(***************************************************************************)
(* Theorems of GuestSync, for any threads, objects and bounds: the types   *)
(* and who owns a mutex; that a sleeper can always be found; and, for the  *)
(* uses of the objects that keep them, mutual exclusion, wakeups that go   *)
(* where they are owed, and timed waits that do not lose a signal.         *)
(*                                                                         *)
(* A step is seen twice: by the calls it moves (CallStep, MutexSteps) and  *)
(* by what it does to the queues and the park tokens (QueueSteps).         *)
(***************************************************************************)
EXTENDS GuestSync, TLAPS, SequenceTheorems, FiniteSetTheorems

(***************************************************************************)
(* What the operations on queues do to the threads listed.                 *)
(***************************************************************************)

\* The elements of a list.
LEMMA ListedThreads ==
  ASSUME NEW S, NEW s \in Seq(S)
  PROVE  /\ Len(s) \in Nat /\ DOMAIN s = 1 .. Len(s)
         /\ \A i \in 1 .. Len(s) : s[i] \in S
         /\ ToSet(s) \subseteq S
         /\ \A x : x \in ToSet(s) <=> \E i \in 1 .. Len(s) : s[i] = x
BY LenProperties, ElementOfSeq DEF ToSet

\* Appending lists one more.
LEMMA AppendLists ==
  ASSUME NEW S, NEW s \in Seq(S), NEW x \in S
  PROVE  /\ Append(s, x) \in Seq(S)
         /\ ToSet(Append(s, x)) = ToSet(s) \cup {x}
         /\ IsInjective(s) /\ x \notin ToSet(s) => IsInjective(Append(s, x))
<1> DEFINE n == Len(s)
           a == Append(s, x)
<1>1. /\ n \in Nat /\ DOMAIN s = 1 .. n
      /\ a \in Seq(S) /\ Len(a) = n + 1
      /\ \A i \in 1 .. n : a[i] = s[i]
      /\ a[n + 1] = x
  BY ListedThreads, AppendProperties
<1>2. DOMAIN a = 1 .. n + 1
  BY <1>1, ListedThreads
<1> HIDE DEF n, a
<1>3. ToSet(a) = ToSet(s) \cup {x}
  BY <1>1, <1>2 DEF ToSet
<1>4. IsInjective(s) /\ x \notin ToSet(s) => IsInjective(a)
  BY <1>1, <1>2 DEF ToSet, IsInjective
<1> QED
  BY <1>1, <1>3, <1>4 DEF a

\* The tail lists all but the head.
LEMMA TailLists ==
  ASSUME NEW S, NEW s \in Seq(S), s # << >>
  PROVE  /\ Head(s) \in ToSet(s) /\ Head(s) \in S /\ Tail(s) \in Seq(S)
         /\ ToSet(s) = ToSet(Tail(s)) \cup {Head(s)}
         /\ IsInjective(s) => IsInjective(Tail(s)) /\ Head(s) \notin ToSet(Tail(s))
<1> DEFINE n == Len(s)
           r == Tail(s)
<1>1. n \in Nat \ {0} /\ DOMAIN s = 1 .. n
  BY ListedThreads, EmptySeq
<1>2. /\ r \in Seq(S) /\ Len(r) = n - 1
      /\ \A i \in 1 .. n - 1 : r[i] = s[i + 1]
  BY HeadTailProperties
<1>3. DOMAIN r = 1 .. n - 1
  BY <1>2, ListedThreads
<1>4. Head(s) = s[1] /\ Head(s) \in S
  BY HeadTailProperties
<1> HIDE DEF n, r
<1>5. Head(s) \in ToSet(s)
  BY <1>1, <1>4 DEF ToSet
<1>6. ToSet(s) = ToSet(r) \cup {Head(s)}
  <2>1. \A x \in ToSet(s) : x \in ToSet(r) \cup {Head(s)}
    <3> SUFFICES ASSUME NEW i \in 1 .. n, i # 1 PROVE s[i] \in ToSet(r)
      BY <1>1, <1>4 DEF ToSet
    <3>1. i - 1 \in 1 .. n - 1 /\ r[i - 1] = s[i]
      BY <1>1, <1>2
    <3> QED
      BY <1>3, <3>1 DEF ToSet
  <2>2. ToSet(r) \subseteq ToSet(s)
    <3>1. \A i \in 1 .. n - 1 : i + 1 \in DOMAIN s /\ r[i] = s[i + 1]
      BY <1>1, <1>2
    <3> QED
      BY <1>3, <3>1 DEF ToSet
  <2> QED
    BY <1>5, <2>1, <2>2
<1>7. ASSUME IsInjective(s) PROVE IsInjective(r) /\ Head(s) \notin ToSet(r)
  <2>1. \A i \in 1 .. n - 1 : i + 1 \in DOMAIN s /\ i + 1 # 1 /\ 1 \in DOMAIN s
    BY <1>1
  <2>2. IsInjective(r)
    <3>1. SUFFICES ASSUME NEW i \in 1 .. n - 1, NEW j \in 1 .. n - 1, r[i] = r[j] PROVE i = j
      BY <1>3 DEF IsInjective
    <3>2. s[i + 1] = s[j + 1]
      BY <1>2, <3>1
    <3>3. i + 1 = j + 1
      BY <1>7, <2>1, <3>2 DEF IsInjective
    <3> QED
      BY <1>1, <3>3
  <2>3. Head(s) \notin ToSet(r)
    BY <1>2, <1>3, <1>4, <1>7, <2>1 DEF IsInjective, ToSet
  <2> QED
    BY <2>2, <2>3
<1> QED
  BY <1>2, <1>4, <1>5, <1>6, <1>7 DEF r

\* A queue cut in two, as drain does.
LEMMA DrainLists ==
  ASSUME NEW S, NEW s \in Seq(S), NEW n \in 0 .. Len(s)
  PROVE  LET front == SubSeq(s, 1, n)
             rest == SubSeq(s, n + 1, Len(s))
         IN  /\ front \in Seq(S) /\ rest \in Seq(S)
             /\ ToSet(s) = ToSet(front) \cup ToSet(rest)
             /\ IsInjective(s) => /\ IsInjective(rest)
                                  /\ ToSet(front) \cap ToSet(rest) = {}
<1> DEFINE N == Len(s)
           f == SubSeq(s, 1, n)
           r == SubSeq(s, n + 1, N)
<1>1. N \in Nat /\ DOMAIN s = 1 .. N /\ \A i \in 1 .. N : s[i] \in S
  BY ListedThreads
<1>2. n \in 0 .. N
  OBVIOUS
<1>3. /\ f \in Seq(S) /\ Len(f) = n
      /\ \A i \in 1 .. n : f[i] = s[i]
  <2>1. \A i \in 1 .. n : s[i] \in S
    <3> HIDE DEF N
    <3> QED
      BY <1>1, <1>2
  <2>2. /\ f \in Seq(S) /\ Len(f) = (IF 1 <= n THEN n - 1 + 1 ELSE 0)
        /\ \A i \in 1 .. n - 1 + 1 : f[i] = s[1 + i - 1]
    <3> HIDE DEF N
    <3>1. 1 \in Int /\ n \in Int
      BY <1>1, <1>2
    <3> QED
      BY <2>1, <3>1, SubSeqProperties
  <2> HIDE DEF N, f
  <2> QED
    BY <1>1, <1>2, <2>2
<1>4. /\ r \in Seq(S) /\ Len(r) = N - n
      /\ \A i \in 1 .. N - n : r[i] = s[n + i]
  <2>1. \A i \in n + 1 .. N : s[i] \in S
    <3> HIDE DEF N
    <3> QED
      BY <1>1, <1>2
  <2>2. /\ r \in Seq(S) /\ Len(r) = (IF n + 1 <= N THEN N - (n + 1) + 1 ELSE 0)
        /\ \A i \in 1 .. N - (n + 1) + 1 : r[i] = s[n + 1 + i - 1]
    <3> HIDE DEF N
    <3>1. n + 1 \in Int /\ N \in Int
      BY <1>1, <1>2
    <3> QED
      BY <2>1, <3>1, SubSeqProperties
  <2> HIDE DEF N, r
  <2> QED
    BY <1>1, <1>2, <2>2
<1>5. DOMAIN f = 1 .. n /\ DOMAIN r = 1 .. N - n
  BY <1>3, <1>4, ListedThreads
<1> HIDE DEF N, f, r
<1>6. ToSet(s) = ToSet(f) \cup ToSet(r)
  <2>1. ToSet(f) \subseteq ToSet(s)
    BY <1>1, <1>2, <1>3, <1>5 DEF ToSet
  <2>2. \A i \in 1 .. N - n : n + i \in 1 .. N
    BY <1>1, <1>2
  <2>3. ToSet(r) \subseteq ToSet(s)
    BY <1>1, <1>4, <1>5, <2>2 DEF ToSet
  <2>4. ASSUME NEW i \in 1 .. N PROVE s[i] \in ToSet(f) \cup ToSet(r)
    <3>1. CASE i <= n
      BY <1>1, <1>2, <1>3, <1>5, <3>1 DEF ToSet
    <3>2. CASE i > n
      <4>1. i - n \in 1 .. N - n /\ n + (i - n) = i
        BY <1>1, <1>2, <3>2
      <4> QED
        BY <1>4, <1>5, <4>1 DEF ToSet
    <3> QED
      BY <1>1, <1>2, <3>1, <3>2
  <2> QED
    BY <1>1, <2>1, <2>3, <2>4 DEF ToSet
<1>7. ASSUME IsInjective(s) PROVE IsInjective(r) /\ ToSet(f) \cap ToSet(r) = {}
  <2>1. \A i \in 1 .. N - n : n + i \in 1 .. N
    BY <1>1, <1>2
  <2>2. ASSUME NEW i \in 1 .. N - n, NEW j \in 1 .. N - n, r[i] = r[j] PROVE i = j
    <3>1. n + i = n + j
      BY <1>1, <1>4, <1>7, <2>1, <2>2 DEF IsInjective
    <3> QED
      BY <1>1, <1>2, <3>1
  <2>3. ASSUME NEW i \in 1 .. n, NEW j \in 1 .. N - n, f[i] = r[j] PROVE FALSE
    <3>1. i \in 1 .. N
      BY <1>1, <1>2
    <3>2. i = n + j
      BY <1>1, <1>3, <1>4, <1>7, <2>1, <2>3, <3>1 DEF IsInjective
    <3> QED
      BY <1>1, <1>2, <3>2
  <2> QED
    BY <1>5, <2>2, <2>3 DEF IsInjective, ToSet
<1> QED
  BY <1>3, <1>4, <1>6, <1>7 DEF f, r, N

\* A set of numbers has a least one.
LEMMA LeastNumber ==
  ASSUME NEW T \in SUBSET Nat, T # {}
  PROVE  \E i \in T : \A j \in T : i <= j
<1>1. PICK i \in T : \A j \in T : ~(<<j, i>> \in OpToRel(<, Nat))
  BY NatLessThanWellFounded, WFMin
<1>2. \A j \in T : ~(j < i)
  BY <1>1 DEF OpToRel
<1> QED
  BY <1>2

\* The first entry of a thread is taken out, wherever it is.
LEMMA RemoveFirstLists ==
  ASSUME NEW S, NEW s \in Seq(S), NEW x
  PROVE  LET r == RemoveFirst(s, x)
         IN  /\ r \in Seq(S)
             /\ ToSet(r) \subseteq ToSet(s) /\ ToSet(s) \subseteq ToSet(r) \cup {x}
             /\ IsInjective(s) => IsInjective(r) /\ x \notin ToSet(r)
<1> DEFINE n == Len(s)
           I == {i \in 1 .. n : s[i] = x}
           r == RemoveFirst(s, x)
<1>1. n \in Nat /\ DOMAIN s = 1 .. n /\ \A i \in 1 .. n : s[i] \in S
  BY ListedThreads
<1>2. CASE I = {}
  <2>1. r = s /\ x \notin ToSet(s)
    BY <1>1, <1>2 DEF RemoveFirst, ToSet
  <2> QED
    BY <2>1
<1>3. CASE I # {}
  <2> DEFINE k == Min(I)
             f == SubSeq(s, 1, k - 1)
             g == SubSeq(s, k + 1, n)
  <2>1. k \in 1 .. n /\ s[k] = x
    <3>1. \E i \in I : \A j \in I : i <= j
      <4>1. I \in SUBSET Nat
        BY <1>1
      <4> HIDE DEF I
      <4> QED
        BY <1>3, <4>1, LeastNumber
    <3>2. k \in I
      BY <3>1 DEF Min
    <3> QED
      BY <3>2
  <2>2. r = f \o g
    <3>1. SelectInSeq(s, LAMBDA v : v = x) = k
      BY <1>3 DEF SelectInSeq
    <3>2. \E i \in 1 .. Len(s) : s[i] = x
      BY <1>3
    <3> QED
      BY <3>1, <3>2 DEF RemoveFirst, RemoveAt
  <2> HIDE DEF k
  <2>3. /\ f \in Seq(S) /\ Len(f) = k - 1
        /\ \A i \in 1 .. k - 1 : f[i] = s[i]
    <3>1. \A i \in 1 .. k - 1 : s[i] \in S
      <4> HIDE DEF n
      <4> QED
        BY <1>1, <2>1
    <3>2. 1 \in Int /\ k - 1 \in Int /\ k - 1 \in Nat
      <4> HIDE DEF n
      <4> QED
        BY <1>1, <2>1
    <3>3. /\ f \in Seq(S) /\ Len(f) = (IF 1 <= k - 1 THEN k - 1 - 1 + 1 ELSE 0)
          /\ \A i \in 1 .. k - 1 - 1 + 1 : f[i] = s[1 + i - 1]
      BY <3>1, <3>2, SubSeqProperties
    <3> HIDE DEF n, f
    <3> QED
      BY <3>2, <3>3
  <2>4. /\ g \in Seq(S) /\ Len(g) = n - k
        /\ \A i \in 1 .. n - k : g[i] = s[k + i]
    <3> HIDE DEF n
    <3>1. \A i \in k + 1 .. n : s[i] \in S
      BY <1>1, <2>1
    <3>2. k + 1 \in Int /\ n \in Int
      BY <1>1, <2>1
    <3>3. /\ g \in Seq(S) /\ Len(g) = (IF k + 1 <= n THEN n - (k + 1) + 1 ELSE 0)
          /\ \A i \in 1 .. n - (k + 1) + 1 : g[i] = s[k + 1 + i - 1]
      BY <3>1, <3>2, SubSeqProperties
    <3> HIDE DEF g
    <3> QED
      BY <1>1, <2>1, <3>3
  <2>5. /\ r \in Seq(S) /\ Len(r) = n - 1
        /\ \A i \in 1 .. n - 1 : r[i] = IF i < k THEN s[i] ELSE s[i + 1]
    <3> HIDE DEF n, f, g, r
    <3>1. /\ f \o g \in Seq(S) /\ Len(f \o g) = Len(f) + Len(g)
          /\ \A i \in 1 .. Len(f) + Len(g) :
               (f \o g)[i] = IF i <= Len(f) THEN f[i] ELSE g[i - Len(f)]
      BY <2>3, <2>4, ConcatProperties
    <3>2. Len(f) + Len(g) = n - 1
      BY <1>1, <2>1, <2>3, <2>4
    <3>3. \A i \in 1 .. n - 1 : r[i] = IF i <= k - 1 THEN f[i] ELSE g[i - (k - 1)]
      BY <2>2, <2>3, <3>1, <3>2
    <3>4. ASSUME NEW i \in 1 .. n - 1 PROVE r[i] = IF i < k THEN s[i] ELSE s[i + 1]
      <4>1. CASE i < k
        BY <1>1, <2>1, <2>3, <3>3, <4>1
      <4>2. CASE i >= k
        <5>1. i - (k - 1) \in 1 .. n - k /\ k + (i - (k - 1)) = i + 1
          BY <1>1, <2>1, <4>2
        <5>2. r[i] = g[i - (k - 1)]
          BY <1>1, <2>1, <3>3, <4>2
        <5> QED
          BY <1>1, <2>1, <2>4, <4>2, <5>1, <5>2
      <4> QED
        BY <1>1, <2>1, <4>1, <4>2
    <3> QED
      BY <2>2, <3>1, <3>2, <3>4
  <2>6. DOMAIN r = 1 .. n - 1
    BY <2>5, ListedThreads
  <2> HIDE DEF n, r
  <2>7. \A i \in 1 .. n - 1 : i \in 1 .. n /\ i + 1 \in 1 .. n
    BY <1>1
  <2>8. ToSet(r) \subseteq ToSet(s)
    BY <1>1, <2>5, <2>6, <2>7 DEF ToSet
  <2>9. ASSUME NEW i \in 1 .. n, i # k PROVE s[i] \in ToSet(r)
    <3>1. CASE i < k
      <4>1. i \in 1 .. n - 1
        BY <1>1, <2>1, <3>1
      <4> QED
        BY <2>5, <2>6, <3>1, <4>1 DEF ToSet
    <3>2. CASE i > k
      <4>1. i - 1 \in 1 .. n - 1 /\ ~(i - 1 < k) /\ (i - 1) + 1 = i
        BY <1>1, <2>1, <3>2
      <4> QED
        BY <2>5, <2>6, <4>1 DEF ToSet
    <3> QED
      BY <1>1, <2>1, <2>9, <3>1, <3>2
  <2>10. ToSet(s) \subseteq ToSet(r) \cup {x}
    BY <1>1, <2>1, <2>9 DEF ToSet
  <2>11. ASSUME IsInjective(s) PROVE IsInjective(r) /\ x \notin ToSet(r)
    <3>1. \A i, j \in 1 .. n : s[i] = s[j] => i = j
      BY <1>1, <2>11 DEF IsInjective
    <3>2. ASSUME NEW i \in 1 .. n - 1, NEW j \in 1 .. n - 1, r[i] = r[j] PROVE i = j
      <4> DEFINE u == IF i < k THEN i ELSE i + 1
                 v == IF j < k THEN j ELSE j + 1
      <4>1. u \in 1 .. n /\ v \in 1 .. n
        BY <2>7
      <4>2. r[i] = s[u] /\ r[j] = s[v]
        BY <2>5
      <4>3. u = v
        <5> HIDE DEF u, v
        <5> QED
          BY <3>1, <3>2, <4>1, <4>2
      <4> QED
        BY <1>1, <2>1, <4>3
    <3>3. ASSUME NEW i \in 1 .. n - 1 PROVE r[i] # x
      <4> DEFINE u == IF i < k THEN i ELSE i + 1
      <4>1. u \in 1 .. n /\ u # k
        BY <1>1, <2>1, <2>7
      <4>2. r[i] = s[u]
        BY <2>5
      <4> HIDE DEF u
      <4> QED
        BY <2>1, <3>1, <4>1, <4>2
    <3> QED
      BY <2>6, <3>2, <3>3 DEF IsInjective, ToSet
  <2> QED
    BY <2>5, <2>8, <2>10, <2>11 DEF r
<1> QED
  BY <1>2, <1>3

(***************************************************************************)
(* Types, and who owns a mutex.                                            *)
(***************************************************************************)
USE DEF Objects, None, CondOps, Ops, Parked, PcValues

\* The parts of TypeOK: what threads are doing, the queues, and the objects.
CallsTyped ==
  /\ pc \in [Threads -> PcValues]
  /\ op \in [Threads -> Ops]
  /\ mutex \in [Threads -> Mutexes \cup {None}]
  /\ obj \in [Threads -> Conds \cup Sems \cup Words \cup {None}]
  /\ \A t \in Threads : CallOK(t)

MutexesTyped ==
  /\ owner \in [Mutexes -> Threads \cup {NoOne}]
  /\ count \in [Mutexes -> Nat]
  /\ held \in [Threads -> [Mutexes -> Nat]]

\* The rest of TypeOK.
ObjectsTyped ==
  /\ queue \in [Objects -> Seq(Threads)]
  /\ value \in [Sems -> Nat]
  /\ word \in [Words -> {0, 1}]
  /\ token \subseteq Threads
  /\ timed_out \subseteq Threads
  /\ signalled \subseteq Threads
  /\ elapsed \subseteq Threads

\* The type invariant by its three parts.
LEMMA TypeParts == TypeOK <=> CallsTyped /\ MutexesTyped /\ ObjectsTyped
<1> HIDE DEF Objects, None, CondOps, Ops, Parked, PcValues
<1>1. TypeOK => CallsTyped /\ MutexesTyped /\ ObjectsTyped
  BY ZenonT(30) DEF TypeOK, CallsTyped, MutexesTyped, ObjectsTyped
<1>2. CallsTyped /\ MutexesTyped /\ ObjectsTyped => TypeOK
  BY ZenonT(30) DEF TypeOK, CallsTyped, MutexesTyped, ObjectsTyped
<1> QED
  BY <1>1, <1>2

\* A free mutex has no recursion count, and the owner of a mutex has been told
\* that it holds at least one level more than the count says; more than that
\* only where a foreign unlock or a late Clean has lowered the count.
OwnersInv ==
  \A m \in Mutexes :
    /\ owner[m] = NoOne => count[m] = 0
    /\ \A t \in Threads :
         owner[m] = t => /\ held[t][m] > count[m]
                         /\ pc[t] = "release" /\ mutex[t] = m => count[m] = 0

Step(t) == MutexStep(t) \/ CondStep(t) \/ SemStep(t) \/ WordStep(t) \/ Resume(t)

\* The steps by where the thread is in its call before them.
LEMMA CallStep ==
  ASSUME CallsTyped, NEW t \in Threads, Step(t)
  PROVE  CallsTyped'
<1>1. ASSUME NEW w \in PcValues, NEW a \in Ops, NEW m \in Mutexes \cup {None},
             NEW o \in Conds \cup Sems \cup Words \cup {None},
             pc' = [pc EXCEPT ![t] = w], op' = [op EXCEPT ![t] = a],
             mutex' = [mutex EXCEPT ![t] = m], obj' = [obj EXCEPT ![t] = o],
             CallOK(t)'
      PROVE  CallsTyped'
  <2>1. ASSUME NEW u \in Threads, u # t PROVE CallOK(u)'
    BY <1>1, <2>1 DEF CallsTyped, CallOK
  <2> QED
    BY <1>1, <2>1 DEF CallsTyped
<1>2. CASE Return(t)
  <2>1. CallOK(t)'
    BY <1>2 DEF Return, Goto, CallOK, CallsTyped
  <2> QED
    BY <1>1, <1>2, <2>1 DEF Return, Goto
<1>3. ASSUME NEW w \in PcValues, Goto(t, w), UNCHANGED callVars, CallOK(t)' PROVE CallsTyped'
  <2>1. /\ op[t] \in Ops /\ mutex[t] \in Mutexes \cup {None}
        /\ obj[t] \in Conds \cup Sems \cup Words \cup {None}
    BY DEF CallsTyped
  <2>2. /\ op' = [op EXCEPT ![t] = op[t]] /\ mutex' = [mutex EXCEPT ![t] = mutex[t]]
        /\ obj' = [obj EXCEPT ![t] = obj[t]]
    BY <1>3 DEF CallsTyped, callVars
  <2> QED
    BY <1>1, <1>3, <2>1, <2>2 DEF Goto
<1>4. ASSUME NEW a \in Ops, NEW m \in Mutexes \cup {None}, NEW w \in PcValues,
             NEW o \in Conds \cup Sems \cup Words \cup {None}, Begin(t, a, m, o, w),
             CallOK(t)'
      PROVE  CallsTyped'
  BY <1>1, <1>4 DEF Begin, Goto
<1>5. ASSUME NEW a \in Ops, NEW m \in Mutexes,
             NEW c \in Conds \cup Sems \cup Words \cup {None},
             a = "unlock" \/ (a \in CondOps /\ c \in Conds), Unlocked(t, a, m, c)
      PROVE  CallsTyped'
  <2>1. CASE a = "unlock"
    BY <1>2, <1>5, <2>1 DEF Unlocked
  <2>2. CASE a # "unlock"
    <3>1. /\ pc' = [pc EXCEPT ![t] = "condEnqueue"] /\ op' = [op EXCEPT ![t] = a]
          /\ mutex' = [mutex EXCEPT ![t] = m] /\ obj' = [obj EXCEPT ![t] = c]
      BY <1>5, <2>2 DEF Unlocked, Goto
    <3>2. CallOK(t)'
      BY <1>5, <2>2, <3>1 DEF CallOK, CallsTyped
    <3> QED
      BY <1>1, <3>1, <3>2
  <2> QED
    BY <2>1, <2>2
<1>6. CASE UNCHANGED <<pc, callVars>>
  BY <1>6 DEF CallsTyped, CallOK, callVars
<1>7. CASE MutexStep(t)
  <2>1. ASSUME NEW m \in Mutexes, LockBegin(t, m) PROVE CallsTyped'
    <3>1. CallOK(t)'
      BY <2>1 DEF LockBegin, Begin, Goto, CallOK, CallsTyped
    <3> QED
      BY <1>4, <2>1, <3>1 DEF LockBegin
  <2>2. ASSUME NEW m \in Mutexes, TryLock(t, m) PROVE CallsTyped'
    BY <1>2, <2>2 DEF TryLock
  <2>3. ASSUME NEW m \in Mutexes, NEW a \in {"unlock"} \cup CondOps, NEW c \in Conds \cup {None},
               a = "unlock" \/ (a \in CondOps /\ c \in Conds), UnlockBegin(t, a, m, c)
        PROVE  CallsTyped'
    <3>1. CASE Unlocked(t, a, m, c)
      BY <1>5, <2>3, <3>1
    <3>2. CASE Begin(t, a, m, c, "release")
      <4>1. CallOK(t)'
        BY <2>3, <3>2 DEF Begin, Goto, CallOK, CallsTyped
      <4> QED
        BY <1>4, <3>2, <4>1
    <3> QED
      BY <2>3, <3>1, <3>2 DEF UnlockBegin
  <2>4. CASE Acquire(t)
    BY <1>2, <2>4 DEF Acquire
  <2>5. CASE Contend(t) \/ LockEnqueue(t) \/ Clean(t)
    <3>1. PICK w \in {"enqueue", "lockParked", "pop"} :
            /\ Goto(t, w) /\ UNCHANGED callVars
            /\ pc[t] \in {"cas", "enqueue", "clean"} /\ (w = "pop" => pc[t] = "clean")
      BY <2>5 DEF Contend, LockEnqueue, Clean
    <3>2. CallOK(t)'
      BY <3>1 DEF Goto, CallOK, CallsTyped, callVars
    <3> QED
      BY <1>3, <3>1, <3>2
  <2>6. CASE Release(t) \/ Pop(t)
    <3>1. pc[t] \in {"release", "pop"}
      BY <2>6 DEF Release, Pop
    <3>2. /\ mutex[t] \in Mutexes /\ op[t] \in Ops /\ obj[t] \in Conds \cup Sems \cup Words \cup {None}
          /\ op[t] = "unlock" \/ (op[t] \in CondOps /\ obj[t] \in Conds)
      BY <3>1 DEF CallsTyped, CallOK
    <3>3. CASE Unlocked(t, op[t], mutex[t], obj[t])
      BY <1>5, <3>2, <3>3
    <3>4. ASSUME NEW w \in {"clean", "pop"}, Goto(t, w), UNCHANGED callVars
          PROVE  CallsTyped'
      <4>1. CallOK(t)'
        BY <3>1, <3>4 DEF Goto, CallOK, CallsTyped, callVars
      <4> QED
        BY <1>3, <3>4, <4>1
    <3> QED
      BY <2>6, <3>3, <3>4 DEF Release, Pop
  <2> QED
    BY <1>7, <2>1, <2>2, <2>3, <2>4, <2>5, <2>6 DEF MutexStep
<1>8. CASE CondStep(t)
  <2>1. ASSUME NEW c \in Conds, CondSignal(t, c) \/ CondBroadcast(t, c) \/ CondDestroy(t, c)
        PROVE  CallsTyped'
    BY <1>6, <2>1 DEF CondSignal, CondBroadcast, CondDestroy
  <2>2. CASE CondEnqueue(t) \/ Elapse(t) \/ CondCheck(t) \/ CondExpired(t)
    <3>1. /\ pc[t] \in {"condEnqueue", "condTimed", "condCheck", "condExpired"}
          /\ UNCHANGED callVars
      BY <2>2 DEF CondEnqueue, Elapse, CondCheck, CondExpired
    <3>2. op[t] \in CondOps /\ obj[t] \in Conds /\ mutex[t] \in Mutexes
      BY <3>1 DEF CallsTyped, CallOK
    <3>3. PICK w \in {"condParked", "condTimed", "condExpired", "condCheck", "cas"} : Goto(t, w)
      BY <2>2, <3>2 DEF CondEnqueue, Elapse, CondCheck, CondExpired
    <3>4. CallOK(t)'
      BY <3>1, <3>2, <3>3 DEF Goto, CallOK, CallsTyped, callVars
    <3> QED
      BY <1>3, <3>1, <3>3, <3>4
  <2> QED
    BY <1>8, <2>1, <2>2 DEF CondStep
<1>9. CASE SemStep(t)
  <2>1. ASSUME NEW s \in Sems, SemBegin(t, s) PROVE CallsTyped'
    <3>1. CallOK(t)'
      BY <2>1 DEF SemBegin, Begin, Goto, CallOK, CallsTyped
    <3> QED
      BY <1>4, <2>1, <3>1 DEF SemBegin
  <2>2. CASE Goto(t, "semParked") /\ pc[t] = "semTry" /\ UNCHANGED callVars
    <3>1. CallOK(t)'
      BY <2>2 DEF Goto, CallOK, CallsTyped, callVars
    <3> QED
      BY <1>3, <2>2, <3>1
  <2> QED
    BY <1>2, <1>9, <2>1, <2>2 DEF SemStep, SemInit, SemPost, SemTry
<1>10. CASE WordStep(t)
  <2>1. ASSUME NEW w \in Words, NEW where \in {"wordEnqueue", "stored"},
               Begin(t, "umtx", None, w, where)
        PROVE  CallsTyped'
    <3>1. CallOK(t)'
      BY <2>1 DEF Begin, Goto, CallOK, CallsTyped
    <3> QED
      BY <1>4, <2>1, <3>1
  <2>2. CASE WordEnqueue(t)
    <3>1. CallOK(t)'
      BY <2>2 DEF WordEnqueue, Goto, CallOK, CallsTyped, callVars
    <3> QED
      BY <1>3, <2>2, <3>1 DEF WordEnqueue
  <2> QED
    BY <1>2, <1>6, <1>10, <2>1, <2>2 DEF WordStep, WordWait, WordStore, WordWake
<1>11. CASE Resume(t)
  <2>1. pc[t] \in Parked
    BY <1>11 DEF Resume
  <2>2. CASE pc[t] = "wordParked"
    BY <1>2, <1>11, <2>2 DEF Resume, AfterPark
  <2>3. CASE pc[t] # "wordParked"
    <3>1. PICK w \in {"cas", "condCheck", "semTry"} :
            /\ Goto(t, w) /\ UNCHANGED callVars
            /\ w = "cas" => pc[t] \in {"lockParked", "condParked"}
            /\ w = "condCheck" => pc[t] = "condTimed"
            /\ w = "semTry" => pc[t] = "semParked"
      BY <1>11, <2>1, <2>3 DEF Resume, AfterPark
    <3>2. CallOK(t)'
      BY <3>1 DEF Goto, CallOK, CallsTyped, callVars
    <3> QED
      BY <1>3, <3>1, <3>2
  <2> QED
    BY <2>2, <2>3
<1> QED
  BY <1>7, <1>8, <1>9, <1>10, <1>11 DEF Step

\* A step moves its own thread's call only.
LEMMA OthersStay ==
  ASSUME CallsTyped, NEW t \in Threads, Step(t), NEW u \in Threads, u # t
  PROVE  pc'[u] = pc[u] /\ op'[u] = op[u] /\ mutex'[u] = mutex[u] /\ obj'[u] = obj[u]
<1>1. CASE MutexStep(t)
  BY <1>1 DEF MutexStep, LockBegin, TryLock, UnlockBegin, Acquire, Contend, LockEnqueue, Release,
    Clean, Pop, Begin, Return, Unlocked, Goto, callVars, CallsTyped
<1>2. CASE CondStep(t)
  BY <1>2 DEF CondStep, CondEnqueue, Elapse, CondCheck, CondExpired, CondSignal, CondBroadcast,
    CondDestroy, Goto, callVars, CallsTyped
<1>3. CASE SemStep(t)
  BY <1>3 DEF SemStep, SemInit, SemBegin, SemPost, SemTry, Begin, Return, Goto, callVars,
    CallsTyped
<1>4. CASE WordStep(t)
  <2>1. ASSUME NEW w \in Words, WordWait(t, w) \/ \E v \in {0, 1} : WordStore(t, w, v)
        PROVE  pc'[u] = pc[u] /\ op'[u] = op[u] /\ mutex'[u] = mutex[u] /\ obj'[u] = obj[u]
    <3>1. \/ UNCHANGED callVars /\ pc' = pc
          \/ \E a, m, o, x : Begin(t, a, m, o, x)
          \/ Return(t)
          \/ \E x : Goto(t, x) /\ UNCHANGED callVars
      BY <2>1 DEF WordWait, WordStore
    <3> QED
      BY <3>1 DEF Begin, Return, Goto, callVars, CallsTyped
  <2>2. CASE WordEnqueue(t) \/ \E n \in WakeCounts : WordWake(t, n)
    BY <2>2 DEF WordEnqueue, WordWake, Return, Goto, callVars, CallsTyped
  <2> QED
    BY <1>4, <2>1, <2>2 DEF WordStep
<1>5. CASE Resume(t)
  BY <1>5 DEF Resume, Return, Goto, callVars, CallsTyped
<1> QED
  BY <1>1, <1>2, <1>3, <1>4, <1>5 DEF Step

\* The steps that are no part of a lock or unlock leave the mutexes alone.
LEMMA MutexesStay ==
  ASSUME CallsTyped, NEW t \in Threads,
         CondStep(t) \/ SemStep(t) \/ WordStep(t) \/ Resume(t)
  PROVE  /\ UNCHANGED <<owner, count, held>>
         /\ pc'[t] # "release" \/ UNCHANGED <<pc, mutex>>
<1>1. UNCHANGED <<owner, count, held>>
  BY DEF CondStep, CondEnqueue, Elapse, CondCheck, CondExpired, CondSignal, CondBroadcast,
    CondDestroy, SemStep, SemInit, SemBegin, SemPost, SemTry, WordStep, WordWait, WordStore,
    WordEnqueue, WordWake, Resume, mutexVars
<1>2. CASE CondStep(t)
  <2>1. pc[t] = "condEnqueue" => op[t] \in CondOps
    BY DEF CallsTyped, CallOK
  <2>2. CondEnqueue(t) => pc'[t] # "release"
    BY <2>1 DEF CondEnqueue, Goto, CallsTyped
  <2>3. Elapse(t) \/ CondCheck(t) \/ CondExpired(t) => pc'[t] # "release"
    BY DEF Elapse, CondCheck, CondExpired, Goto, CallsTyped
  <2>4. ASSUME NEW c \in Conds, CondSignal(t, c) \/ CondBroadcast(t, c) \/ CondDestroy(t, c)
        PROVE  UNCHANGED <<pc, mutex>>
    BY <2>4 DEF CondSignal, CondBroadcast, CondDestroy, callVars
  <2> QED
    BY <1>1, <1>2, <2>2, <2>3, <2>4 DEF CondStep
<1>3. CASE SemStep(t)
  BY <1>1, <1>3 DEF SemStep, SemInit, SemBegin, SemPost, SemTry, Begin, Return, Goto, CallsTyped
<1>4. CASE WordStep(t)
  <2>1. ASSUME NEW w \in Words,
               WordWait(t, w) \/ WordEnqueue(t) \/ \E n \in WakeCounts : WordWake(t, n)
        PROVE  pc'[t] # "release"
    BY <2>1 DEF WordWait, WordEnqueue, WordWake, Begin, Return, Goto, CallsTyped
  <2>2. ASSUME NEW w \in Words, NEW v \in {0, 1}, WordStore(t, w, v)
        PROVE  pc'[t] # "release" \/ UNCHANGED <<pc, mutex>>
    BY <2>2 DEF WordStore, Begin, Goto, callVars, CallsTyped
  <2>3. WordEnqueue(t) \/ (\E n \in WakeCounts : WordWake(t, n)) => pc'[t] # "release"
    BY DEF WordEnqueue, WordWake, Return, Goto, CallsTyped
  <2> QED
    BY <1>1, <1>4, <2>1, <2>2, <2>3 DEF WordStep
<1>5. CASE Resume(t)
  BY <1>1, <1>5 DEF Resume, AfterPark, Return, Goto, CallsTyped
<1> QED
  BY <1>2, <1>3, <1>4, <1>5

\* What the steps of a lock or unlock do to the mutex they are about.
LEMMA MutexSteps ==
  ASSUME CallsTyped, MutexesTyped, OwnersInv, NEW t \in Threads, MutexStep(t)
  PROVE  MutexesTyped' /\ OwnersInv'
<1> USE NoOneAssumption
<1>1. ASSUME NEW m \in Mutexes, owner[m] \in {NoOne, t}, Hold(t, m), pc'[t] = "idle",
             owner' = [owner EXCEPT ![m] = t],
             \/ count' = count
             \/ owner[m] = t /\ count' = [count EXCEPT ![m] = @ + 1]
      PROVE  MutexesTyped' /\ OwnersInv'
  <2>1. MutexesTyped'
    BY <1>1 DEF Hold, MutexesTyped
  <2>2. OwnersInv'
    <3> SUFFICES ASSUME NEW l \in Mutexes
                 PROVE  /\ owner'[l] = NoOne => count'[l] = 0
                        /\ \A u \in Threads : owner'[l] = u =>
                             /\ held'[u][l] > count'[l]
                             /\ pc'[u] = "release" /\ mutex'[u] = l => count'[l] = 0
      BY DEF OwnersInv
    <3>1. CASE l = m
      <4>1. owner'[l] = t /\ held'[t][l] = held[t][l] + 1
        BY <1>1, <3>1 DEF Hold, MutexesTyped
      <4>2. count'[l] = count[l] \/ (owner[l] = t /\ count'[l] = count[l] + 1)
        BY <1>1, <3>1 DEF MutexesTyped
      <4>3. held[t][l] \in Nat /\ count[l] \in Nat
        BY DEF MutexesTyped
      <4>4. owner[l] = NoOne => count[l] = 0
        BY DEF OwnersInv
      <4>5. owner[l] = t => held[t][l] > count[l]
        BY DEF OwnersInv
      <4> QED
        BY <1>1, <3>1, <4>1, <4>2, <4>3, <4>4, <4>5
    <3>2. CASE l # m
      <4>1. owner'[l] = owner[l] /\ count'[l] = count[l]
        BY <1>1, <3>2 DEF MutexesTyped
      <4>2. \A u \in Threads : held'[u][l] = held[u][l]
        BY <1>1, <3>2 DEF Hold, MutexesTyped
      <4>3. \A u \in Threads : pc'[u] = "release" /\ mutex'[u] = l
                                 => pc[u] = "release" /\ mutex[u] = l
        BY <1>1, OthersStay DEF Step
      <4> QED
        BY <4>1, <4>2, <4>3 DEF OwnersInv
    <3> QED
      BY <3>1, <3>2
  <2> QED
    BY <2>1, <2>2
<1>2. ASSUME UNCHANGED <<owner, count, held>>,
             pc'[t] = "release" => mutex'[t] \in Mutexes /\ count[mutex'[t]] = 0
      PROVE  MutexesTyped' /\ OwnersInv'
  <2>1. MutexesTyped'
    BY <1>2 DEF MutexesTyped
  <2>2. ASSUME NEW u \in Threads, NEW l \in Mutexes, pc'[u] = "release", mutex'[u] = l
        PROVE  count[l] = 0 \/ (pc[u] = "release" /\ mutex[u] = l)
    <3>1. CASE u = t
      BY <1>2, <2>2, <3>1
    <3>2. CASE u # t
      BY <2>2, <3>2, OthersStay DEF Step
    <3> QED
      BY <3>1, <3>2
  <2> QED
    BY <1>2, <2>1, <2>2 DEF OwnersInv
<1>3. ASSUME NEW m \in Mutexes, LockBegin(t, m) PROVE MutexesTyped' /\ OwnersInv'
  BY <1>2, <1>3 DEF LockBegin, Begin, Goto, mutexVars, CallsTyped
<1>4. ASSUME NEW m \in Mutexes, TryLock(t, m) PROVE MutexesTyped' /\ OwnersInv'
  <2>1. pc'[t] = "idle"
    BY <1>4 DEF TryLock, Return, Goto, CallsTyped
  <2>2. CASE owner[m] \in {NoOne, t}
    <3>1. /\ owner' = [owner EXCEPT ![m] = t] /\ Hold(t, m)
          /\ count' = [count EXCEPT ![m] = IF owner[m] = t THEN count[m] + 1 ELSE count[m]]
      BY <1>4, <2>2 DEF TryLock
    <3>2. count' = count \/ (owner[m] = t /\ count' = [count EXCEPT ![m] = @ + 1])
      BY <3>1 DEF MutexesTyped
    <3> QED
      BY <1>1, <2>1, <2>2, <3>1, <3>2
  <2>3. CASE owner[m] \notin {NoOne, t}
    BY <1>2, <1>4, <2>1, <2>3 DEF TryLock, mutexVars
  <2> QED
    BY <2>2, <2>3
<1>5. ASSUME NEW what, NEW m \in Mutexes, NEW c, Unlocked(t, what, m, c)
      PROVE  pc'[t] # "release"
  BY <1>5 DEF Unlocked, Return, Goto, CallsTyped
<1>6. ASSUME NEW what, NEW m \in Mutexes, NEW c, UnlockBegin(t, what, m, c)
      PROVE  MutexesTyped' /\ OwnersInv'
  <2>1. count[m] \in Nat
    BY DEF MutexesTyped
  <2>2. CASE count[m] > 0
    <3>1. /\ count' = [count EXCEPT ![m] = @ - 1] /\ owner' = owner /\ pc'[t] # "release"
          /\ IF held[t][m] > 0 THEN LetGo(t, m) ELSE held' = held
      BY <1>5, <1>6, <2>2 DEF UnlockBegin
    <3>2. MutexesTyped'
      BY <2>1, <2>2, <3>1 DEF LetGo, MutexesTyped
    <3>3. ASSUME NEW l \in Mutexes
          PROVE  /\ owner'[l] = NoOne => count'[l] = 0
                 /\ \A u \in Threads : owner'[l] = u =>
                      /\ held'[u][l] > count'[l]
                      /\ pc'[u] = "release" /\ mutex'[u] = l => count'[l] = 0
      <4>1. \A u \in Threads : pc'[u] = "release" /\ mutex'[u] = l
                                 => pc[u] = "release" /\ mutex[u] = l
        BY <3>1, OthersStay DEF Step
      <4>2. CASE l = m
        <5>1. count'[l] = count[l] - 1 /\ owner'[l] = owner[l]
          BY <3>1, <4>2 DEF MutexesTyped
        <5>2. \A u \in Threads : held'[u][l] = held[u][l] \/ held'[u][l] = held[u][l] - 1
          BY <3>1, <4>2 DEF LetGo, MutexesTyped
        <5>3. \A u \in Threads : held[u][l] \in Nat
          BY DEF MutexesTyped
        <5> QED
          BY <2>1, <2>2, <4>1, <4>2, <5>1, <5>2, <5>3 DEF OwnersInv
      <4>3. CASE l # m
        <5>1. count'[l] = count[l] /\ owner'[l] = owner[l]
          BY <3>1, <4>3 DEF MutexesTyped
        <5>2. \A u \in Threads : held'[u][l] = held[u][l]
          BY <3>1, <4>3 DEF LetGo, MutexesTyped
        <5> QED
          BY <4>1, <5>1, <5>2 DEF OwnersInv
      <4> QED
        BY <4>2, <4>3
    <3> QED
      BY <3>2, <3>3 DEF OwnersInv
  <2>3. CASE ~(count[m] > 0)
    <3>1. Begin(t, what, m, c, "release") /\ UNCHANGED <<owner, count, held>>
      BY <1>6, <2>3 DEF UnlockBegin
    <3>2. mutex'[t] = m /\ count[m] = 0
      BY <2>1, <2>3, <3>1 DEF Begin, CallsTyped
    <3> QED
      BY <1>2, <3>1, <3>2
  <2> QED
    BY <2>2, <2>3
<1>7. CASE Acquire(t)
  <2> DEFINE m == mutex[t]
  <2>1. m \in Mutexes
    BY <1>7 DEF Acquire, CallsTyped, CallOK
  <2>2. Hold(t, m) /\ pc'[t] = "idle"
    BY <1>7 DEF Acquire, Return, Goto, CallsTyped
  <2>3. CASE owner[m] = NoOne /\ owner' = [owner EXCEPT ![m] = t] /\ count' = count
    BY <1>1, <2>1, <2>2, <2>3
  <2>4. CASE /\ owner[m] = t /\ owner' = owner
             /\ count' = [count EXCEPT ![m] = IF CountsRecursion(m) THEN @ + 1 ELSE @]
    <3>1. owner' = [owner EXCEPT ![m] = t]
      BY <2>1, <2>4 DEF MutexesTyped
    <3>2. count' = count \/ count' = [count EXCEPT ![m] = @ + 1]
      BY <2>1, <2>4 DEF MutexesTyped
    <3> QED
      BY <1>1, <2>1, <2>2, <2>4, <3>1, <3>2
  <2> QED
    BY <1>7, <2>3, <2>4 DEF Acquire
<1>8. CASE Contend(t) \/ LockEnqueue(t) \/ Pop(t)
  <2>1. pc'[t] # "release"
    <3>1. Contend(t) \/ LockEnqueue(t) => pc'[t] # "release"
      BY DEF Contend, LockEnqueue, Goto, CallsTyped
    <3>2. Pop(t) => mutex[t] \in Mutexes
      BY DEF Pop, CallsTyped, CallOK
    <3> QED
      BY <1>5, <1>8, <3>1, <3>2 DEF Pop
  <2> QED
    BY <1>2, <1>8, <2>1 DEF Contend, LockEnqueue, Pop, mutexVars
<1>9. CASE Release(t)
  <2> DEFINE m == mutex[t]
  <2>1. m \in Mutexes /\ pc[t] = "release" /\ count' = count
    BY <1>9 DEF Release, CallsTyped, CallOK
  <2>2. CASE owner[m] = t
    <3>1. owner' = [owner EXCEPT ![m] = NoOne] /\ LetGo(t, m)
      BY <1>9, <2>2 DEF Release
    <3>2. pc'[t] # "release"
      BY <1>9, <2>2 DEF Release, Goto, CallsTyped
    <3>3. held[t][m] \in Nat /\ held[t][m] > 0 /\ count[m] = 0
      BY <2>1, <2>2 DEF OwnersInv, MutexesTyped
    <3>4. MutexesTyped'
      BY <2>1, <3>1, <3>3 DEF LetGo, MutexesTyped
    <3>5. ASSUME NEW l \in Mutexes
          PROVE  /\ owner'[l] = NoOne => count'[l] = 0
                 /\ \A u \in Threads : owner'[l] = u =>
                      /\ held'[u][l] > count'[l]
                      /\ pc'[u] = "release" /\ mutex'[u] = l => count'[l] = 0
      <4>1. CASE l = m
        <5>1. owner'[l] = NoOne
          BY <2>1, <3>1, <4>1 DEF MutexesTyped
        <5> QED
          BY <2>1, <3>3, <4>1, <5>1
      <4>2. CASE l # m
        <5>1. owner'[l] = owner[l] /\ \A u \in Threads : held'[u][l] = held[u][l]
          BY <2>1, <3>1, <4>2 DEF LetGo, MutexesTyped
        <5>2. \A u \in Threads : pc'[u] = "release" /\ mutex'[u] = l
                                   => pc[u] = "release" /\ mutex[u] = l
          BY <3>2, OthersStay DEF Step
        <5> QED
          BY <2>1, <5>1, <5>2 DEF OwnersInv
      <4> QED
        BY <4>1, <4>2
    <3> QED
      BY <3>4, <3>5 DEF OwnersInv
  <2>3. CASE owner[m] # t
    <3>1. pc'[t] # "release" /\ UNCHANGED <<owner, held>>
      BY <1>5, <1>9, <2>1, <2>3 DEF Release
    <3> QED
      BY <1>2, <2>1, <3>1
  <2> QED
    BY <2>2, <2>3
<1>10. CASE Clean(t)
  <2> DEFINE m == mutex[t]
  <2>1. m \in Mutexes /\ UNCHANGED <<owner, held>> /\ count' = [count EXCEPT ![m] = 0]
    BY <1>10 DEF Clean, CallsTyped, CallOK
  <2>2. pc'[t] # "release"
    BY <1>10 DEF Clean, Goto, CallsTyped
  <2>3. MutexesTyped'
    BY <2>1 DEF MutexesTyped
  <2>4. \A l \in Mutexes : count'[l] = IF l = m THEN 0 ELSE count[l]
    BY <2>1 DEF MutexesTyped
  <2>5. \A u \in Threads, l \in Mutexes : pc'[u] = "release" /\ mutex'[u] = l
                                            => pc[u] = "release" /\ mutex[u] = l
    BY <2>2, OthersStay DEF Step
  <2>6. \A l \in Mutexes : count[l] \in Nat /\ \A u \in Threads : held[u][l] \in Nat
    BY DEF MutexesTyped
  <2> HIDE DEF m
  <2>7. OwnersInv'
    BY <2>1, <2>4, <2>5, <2>6 DEF OwnersInv
  <2> QED
    BY <2>3, <2>7
<1> QED
  BY <1>3, <1>4, <1>6, <1>7, <1>8, <1>9, <1>10 DEF MutexStep

(***************************************************************************)
(* Queues and tokens.                                                      *)
(***************************************************************************)
QueuesTyped == queue \in [Objects -> Seq(Threads)] /\ token \subseteq Threads

\* The queue of o changes and no other does.
OnlyQueue(o) ==
  /\ queue' \in [Objects -> Seq(Threads)]
  /\ \A x \in Objects \ {o} : queue'[x] = queue[x]

\* Some threads leave the queue of o and each of them is unparked.
Wakes(o) ==
  /\ OnlyQueue(o)
  /\ token \subseteq token' /\ token' \subseteq token \cup ToSet(queue[o])
  /\ ToSet(queue'[o]) \subseteq ToSet(queue[o])
  /\ ToSet(queue[o]) \subseteq ToSet(queue'[o]) \cup token'
  /\ IsInjective(queue[o]) =>
       IsInjective(queue'[o]) /\ \A u \in ToSet(queue'[o]) : u \in token' => u \in token

\* One queue is replaced.
LEMMA OneQueue ==
  ASSUME QueuesTyped, NEW o \in Objects, NEW s \in Seq(Threads),
         queue' = [queue EXCEPT ![o] = s]
  PROVE  OnlyQueue(o) /\ queue'[o] = s
BY DEF QueuesTyped, OnlyQueue

\* Waking the first sleeper is a wakeup.
LEMMA WakeFirstWakes ==
  ASSUME QueuesTyped, NEW o \in Objects, WakeFirst(o)
  PROVE  Wakes(o) /\ (queue[o] # << >> => Head(queue[o]) \in token')
<1>1. queue[o] \in Seq(Threads)
  BY DEF QueuesTyped
<1>2. CASE queue[o] = << >>
  BY <1>2 DEF WakeFirst, Wakes, OnlyQueue, QueuesTyped
<1>3. CASE queue[o] # << >>
  <2> DEFINE h == Head(queue[o])
             r == Tail(queue[o])
  <2>1. /\ h \in ToSet(queue[o]) /\ r \in Seq(Threads)
        /\ ToSet(queue[o]) = ToSet(r) \cup {h}
        /\ IsInjective(queue[o]) => IsInjective(r) /\ h \notin ToSet(r)
    BY <1>1, <1>3, TailLists
  <2>2. queue' = [queue EXCEPT ![o] = r] /\ token' = token \cup {h}
    BY <1>3 DEF WakeFirst
  <2> HIDE DEF h, r
  <2>3. OnlyQueue(o) /\ queue'[o] = r
    BY <2>1, <2>2, OneQueue
  <2>4. Wakes(o) /\ h \in token'
    BY <2>1, <2>2, <2>3 DEF Wakes
  <2> QED
    BY <2>4 DEF h
<1> QED
  BY <1>2, <1>3

\* So is waking a number of them.
LEMMA WakeManyWakes ==
  ASSUME QueuesTyped, NEW o \in Objects, NEW n \in 0 .. Len(queue[o]), WakeMany(o, n)
  PROVE  Wakes(o) /\ (n = Len(queue[o]) => queue'[o] = << >>)
<1> DEFINE front == SubSeq(queue[o], 1, n)
           rest == SubSeq(queue[o], n + 1, Len(queue[o]))
<1>1. queue[o] \in Seq(Threads)
  BY DEF QueuesTyped
<1>2. /\ front \in Seq(Threads) /\ rest \in Seq(Threads)
      /\ ToSet(queue[o]) = ToSet(front) \cup ToSet(rest)
      /\ IsInjective(queue[o]) => IsInjective(rest) /\ ToSet(front) \cap ToSet(rest) = {}
  BY <1>1, DrainLists
<1>3. queue' = [queue EXCEPT ![o] = rest] /\ token' = token \cup ToSet(front)
  BY DEF WakeMany
<1>4. n = Len(queue[o]) => rest = << >>
  <2> DEFINE N == Len(queue[o])
  <2>1. N \in Nat
    BY <1>1, ListedThreads
  <2>2. N + 1 \in Int /\ N \in Int /\ N < N + 1
    <3> HIDE DEF N
    <3> QED
      BY <2>1
  <2> QED
    BY <2>2, SubSeqEmpty
<1> HIDE DEF front, rest
<1>5. OnlyQueue(o) /\ queue'[o] = rest
  BY <1>2, <1>3, OneQueue
<1> QED
  BY <1>2, <1>3, <1>4, <1>5 DEF Wakes

\* A sleeper joins its queue.
LEMMA EnqueueAppends ==
  ASSUME QueuesTyped, NEW o \in Objects, NEW t \in Threads, Enqueue(t, o)
  PROVE  /\ OnlyQueue(o)
         /\ ToSet(queue'[o]) = ToSet(queue[o]) \cup {t}
         /\ IsInjective(queue[o]) /\ t \notin ToSet(queue[o]) => IsInjective(queue'[o])
<1> DEFINE a == Append(queue[o], t)
<1>1. queue[o] \in Seq(Threads)
  BY DEF QueuesTyped
<1>2. /\ a \in Seq(Threads) /\ ToSet(a) = ToSet(queue[o]) \cup {t}
      /\ IsInjective(queue[o]) /\ t \notin ToSet(queue[o]) => IsInjective(a)
  BY <1>1, AppendLists
<1>3. queue' = [queue EXCEPT ![o] = a]
  BY DEF Enqueue
<1> HIDE DEF a
<1>4. OnlyQueue(o) /\ queue'[o] = a
  BY <1>2, <1>3, OneQueue
<1> QED
  BY <1>2, <1>4

\* A sleeper leaves its queue.
LEMMA CheckRemoves ==
  ASSUME QueuesTyped, NEW o \in Objects, NEW t \in Threads,
         queue' = [queue EXCEPT ![o] = RemoveFirst(@, t)]
  PROVE  /\ OnlyQueue(o)
         /\ ToSet(queue'[o]) \subseteq ToSet(queue[o])
         /\ ToSet(queue[o]) \subseteq ToSet(queue'[o]) \cup {t}
         /\ IsInjective(queue[o]) => IsInjective(queue'[o]) /\ t \notin ToSet(queue'[o])
<1> DEFINE r == RemoveFirst(queue[o], t)
<1>1. queue[o] \in Seq(Threads)
  BY DEF QueuesTyped
<1>2. /\ r \in Seq(Threads)
      /\ ToSet(r) \subseteq ToSet(queue[o]) /\ ToSet(queue[o]) \subseteq ToSet(r) \cup {t}
      /\ IsInjective(queue[o]) => IsInjective(r) /\ t \notin ToSet(r)
  BY <1>1, RemoveFirstLists
<1>3. queue' = [queue EXCEPT ![o] = r]
  OBVIOUS
<1> HIDE DEF r
<1>4. OnlyQueue(o) /\ queue'[o] = r
  BY <1>2, <1>3, OneQueue
<1> QED
  BY <1>2, <1>4

\* What a step of a thread does to the queues and the tokens: nothing; it joins
\* the queue of the object it works on; it wakes threads of a queue; it looks
\* for itself in a queue once its wait is over; it empties the queue of an object
\* nobody is using; it takes its own token.
Joins(t) ==
  /\ token' = token
  /\ pc'[t] \notin {"idle", "semTry"} /\ mutex'[t] = mutex[t] /\ obj'[t] = obj[t]
  /\ \/ pc[t] = "enqueue" /\ pc'[t] = "lockParked" /\ Enqueue(t, mutex[t])
     \/ pc[t] = "condEnqueue" /\ op[t] = "wait" /\ pc'[t] = "condParked" /\ Enqueue(t, obj[t])
     \/ pc[t] = "condEnqueue" /\ op[t] = "timed" /\ pc'[t] = "condTimed" /\ Enqueue(t, obj[t])
     \/ /\ pc[t] = "condEnqueue" /\ op[t] = "expired" /\ pc'[t] = "condExpired"
        /\ Enqueue(t, obj[t])
     \/ pc[t] = "semTry" /\ pc'[t] = "semParked" /\ Enqueue(t, obj[t])
     \/ pc[t] = "wordEnqueue" /\ pc'[t] = "wordParked" /\ Enqueue(t, obj[t])

Looks(t) ==
  /\ token' = token
  /\ pc[t] \in {"condCheck", "condExpired"} /\ pc'[t] = "cas"
  /\ queue' = [queue EXCEPT ![obj[t]] = RemoveFirst(@, t)]

Empties(o) ==
  /\ token' = token
  /\ \A u \in Threads : pc[u] # "idle" => obj[u] # o
  /\ queue' = [queue EXCEPT ![o] = << >>]

Takes(t) ==
  /\ queue' = queue
  /\ pc[t] \in Parked /\ t \in token /\ token' = token \ {t}
  /\ pc'[t] = AfterPark[pc[t]]
  /\ pc'[t] # "idle" => mutex'[t] = mutex[t] /\ obj'[t] = obj[t]

\* The steps that leave queues and tokens alone; a thread can stop being asleep
\* only where its timeout elapses.
Leaves(t) ==
  /\ queue' = queue /\ token' = token
  /\ pc'[t] \notin Parked \/ UNCHANGED <<pc, mutex, obj>>
  /\ \/ pc[t] \notin Parked
     \/ pc[t] = "condTimed" /\ t \notin token /\ pc'[t] = "condCheck" /\ obj'[t] = obj[t]
Waking(t) ==
  /\ pc[t] \in {"pop", "idle", "stored"}
  /\ pc'[t] \in {"condEnqueue", "idle"}
  /\ \/ pc[t] = "pop" /\ Wakes(mutex[t])
     \/ pc[t] # "pop" /\ \E o \in Conds \cup Sems \cup Words : Wakes(o)

Emptying(t) ==
  /\ pc[t] = "idle" /\ pc'[t] = "idle"
  /\ \E o \in Conds \cup Sems : Empties(o)

QueueStep(t) ==
  Joins(t) \/ Waking(t) \/ Looks(t) \/ Emptying(t) \/ Takes(t) \/ Leaves(t)

\* Every step is one of these.
LEMMA QueueSteps ==
  ASSUME CallsTyped, QueuesTyped, NEW t \in Threads, Step(t)
  PROVE  QueueStep(t)
<1>1. ASSUME NEW what, NEW m, NEW c, Unlocked(t, what, m, c)
      PROVE  pc'[t] \in {"condEnqueue", "idle"}
  BY <1>1 DEF Unlocked, Return, Goto, CallsTyped
<1>2. CASE MutexStep(t)
  <2>1. ASSUME NEW m \in Mutexes, LockBegin(t, m) \/ TryLock(t, m) PROVE Leaves(t)
    BY <2>1 DEF LockBegin, TryLock, Begin, Return, Goto, Leaves, CallsTyped
  <2>2. ASSUME NEW m \in Mutexes, NEW what, NEW c, UnlockBegin(t, what, m, c) PROVE Leaves(t)
    <3>1. pc'[t] \notin Parked
      BY <1>1, <2>2 DEF UnlockBegin, Begin, Goto, CallsTyped
    <3> QED
      BY <2>2, <3>1 DEF UnlockBegin, Leaves
  <2>3. CASE Acquire(t) \/ Contend(t) \/ Clean(t)
    <3>1. pc'[t] \notin Parked /\ pc[t] \notin Parked
      BY <2>3 DEF Acquire, Contend, Clean, Return, Goto, CallsTyped
    <3>2. queue' = queue /\ token' = token
      BY <2>3 DEF Acquire, Contend, Clean
    <3> QED
      BY <3>1, <3>2 DEF Leaves, QueueStep
  <2>4. CASE LockEnqueue(t)
    <3>1. /\ pc[t] = "enqueue" /\ pc'[t] = "lockParked" /\ Enqueue(t, mutex[t])
          /\ token' = token
      BY <2>4 DEF LockEnqueue, Goto, CallsTyped
    <3>2. UNCHANGED callVars
      BY <2>4 DEF LockEnqueue
    <3> QED
      BY <3>1, <3>2 DEF callVars, Joins, QueueStep
  <2>5. CASE Release(t)
    <3>1. pc'[t] \notin Parked
      BY <1>1, <2>5 DEF Release, Goto, CallsTyped
    <3>2. pc[t] = "release" /\ queue' = queue /\ token' = token
      BY <2>5 DEF Release
    <3> QED
      BY <3>1, <3>2 DEF Leaves, QueueStep
  <2>6. CASE Pop(t)
    <3>1. mutex[t] \in Objects /\ pc[t] = "pop"
      BY <2>6 DEF Pop, CallsTyped, CallOK
    <3>2. Wakes(mutex[t])
      BY <2>6, <3>1, WakeFirstWakes DEF Pop
    <3>3. pc'[t] \in {"condEnqueue", "idle"}
      BY <1>1, <2>6 DEF Pop
    <3> QED
      BY <3>1, <3>2, <3>3 DEF Waking, QueueStep
  <2> QED
    BY <1>2, <2>1, <2>2, <2>3, <2>4, <2>5, <2>6 DEF MutexStep, QueueStep
<1>3. CASE CondStep(t)
  <2>1. CASE CondEnqueue(t)
    <3>1. op[t] \in CondOps
      BY <2>1 DEF CondEnqueue, CallsTyped, CallOK
    <3> QED
      BY <2>1, <3>1 DEF CondEnqueue, Goto, callVars, Joins, CallsTyped, QueueStep
  <2>2. CASE Elapse(t)
    BY <2>2 DEF Elapse, Goto, callVars, Leaves, CallsTyped, QueueStep
  <2>3. CASE CondCheck(t) \/ CondExpired(t)
    BY <2>3 DEF CondCheck, CondExpired, Goto, Looks, CallsTyped, QueueStep
  <2>4. ASSUME NEW c \in Conds, CondSignal(t, c) PROVE Waking(t)
    BY <2>4, WakeFirstWakes DEF CondSignal, Waking
  <2>5. ASSUME NEW c \in Conds, CondBroadcast(t, c) PROVE Waking(t)
    <3>1. Len(queue[c]) \in 0 .. Len(queue[c])
      <4>1. queue[c] \in Seq(Threads)
        BY DEF QueuesTyped
      <4> DEFINE N == Len(queue[c])
      <4>2. N \in Nat
        BY <4>1, ListedThreads
      <4>3. N \in 0 .. N
        <5> HIDE DEF N
        <5> QED
          BY <4>2
      <4> QED
        BY <4>3
    <3>2. Wakes(c)
      BY <2>5, <3>1, WakeManyWakes DEF CondBroadcast
    <3> QED
      BY <2>5, <3>2 DEF CondBroadcast, Waking
  <2>6. ASSUME NEW c \in Conds, CondDestroy(t, c) PROVE Emptying(t)
    BY <2>6 DEF CondDestroy, Emptying, Empties
  <2> QED
    BY <1>3, <2>1, <2>2, <2>3, <2>4, <2>5, <2>6 DEF CondStep, QueueStep
<1>4. CASE SemStep(t)
  <2>1. ASSUME NEW s \in Sems, NEW v, SemInit(t, s, v) PROVE Emptying(t)
    BY <2>1 DEF SemInit, Return, Goto, Emptying, Empties, CallsTyped
  <2>2. ASSUME NEW s \in Sems, SemBegin(t, s) PROVE Leaves(t)
    BY <2>2 DEF SemBegin, Begin, Goto, Leaves, CallsTyped
  <2>3. ASSUME NEW s \in Sems, SemPost(t, s) PROVE Waking(t)
    BY <2>3, WakeFirstWakes DEF SemPost, Return, Goto, Waking, CallsTyped
  <2>4. CASE SemTry(t)
    BY <2>4 DEF SemTry, Return, Goto, callVars, Joins, Leaves, CallsTyped, QueueStep
  <2> QED
    BY <1>4, <2>1, <2>2, <2>3, <2>4 DEF SemStep, QueueStep
<1>5. CASE WordStep(t)
  <2>1. ASSUME NEW w \in Words, WordWait(t, w) PROVE Leaves(t)
    BY <2>1 DEF WordWait, Begin, Return, Goto, Leaves, CallsTyped
  <2>2. ASSUME NEW w \in Words, NEW v \in {0, 1}, WordStore(t, w, v) PROVE Leaves(t)
    BY <2>2 DEF WordStore, Begin, Goto, callVars, Leaves, CallsTyped
  <2>3. CASE WordEnqueue(t)
    BY <2>3 DEF WordEnqueue, Goto, callVars, Joins, CallsTyped, QueueStep
  <2>4. ASSUME NEW n \in WakeCounts, WordWake(t, n) PROVE Waking(t)
    <3> DEFINE N == Len(queue[obj[t]])
    <3>1. obj[t] \in Words /\ n \in Nat
      BY <2>4, SyncBounds DEF WordWake, CallsTyped, CallOK
    <3>2. N \in Nat
      BY <3>1, ListedThreads DEF QueuesTyped
    <3>3. Min({n, N}) \in 0 .. N
      <4> HIDE DEF N
      <4>1. \E x \in {n, N} : \A y \in {n, N} : x <= y
        BY <3>1, <3>2
      <4>2. Min({n, N}) \in {n, N} /\ \A y \in {n, N} : Min({n, N}) <= y
        BY <4>1 DEF Min
      <4> QED
        BY <3>1, <3>2, <4>2
    <3>4. Wakes(obj[t])
      BY <2>4, <3>1, <3>3, WakeManyWakes DEF WordWake
    <3> QED
      BY <2>4, <3>1, <3>4 DEF WordWake, Return, Goto, Waking, CallsTyped
  <2> QED
    BY <1>5, <2>1, <2>2, <2>3, <2>4 DEF WordStep, QueueStep
<1>6. CASE Resume(t)
  BY <1>6 DEF Resume, AfterPark, Return, Goto, callVars, Takes, CallsTyped, QueueStep
<1> QED
  BY <1>2, <1>3, <1>4, <1>5, <1>6 DEF Step

\* The objects whose queues the steps change.
LEMMA JoinedObject ==
  ASSUME CallsTyped, NEW t \in Threads, Joins(t)
  PROVE  \E o \in Objects : Enqueue(t, o) /\ (pc'[t] # "condExpired" => ParkedOn(t, o)')
BY DEF Joins, CallsTyped, CallOK, ParkedOn

\* They keep the types of queues and tokens.
LEMMA QueuesStep ==
  ASSUME CallsTyped, QueuesTyped, NEW t \in Threads, QueueStep(t)
  PROVE  QueuesTyped'
<1>1. CASE Joins(t)
  BY <1>1, JoinedObject, EnqueueAppends DEF Joins, QueuesTyped, OnlyQueue
<1>2. CASE Waking(t)
  <2>1. PICK o \in Objects : Wakes(o)
    BY <1>2 DEF Waking, CallsTyped, CallOK
  <2>2. ToSet(queue[o]) \subseteq Threads
    BY ListedThreads DEF QueuesTyped
  <2> QED
    BY <2>1, <2>2 DEF Wakes, OnlyQueue, QueuesTyped
<1>3. CASE Looks(t)
  <2>1. obj[t] \in Objects
    BY <1>3 DEF Looks, CallsTyped, CallOK
  <2> QED
    BY <1>3, <2>1, CheckRemoves DEF Looks, OnlyQueue, QueuesTyped
<1>4. CASE Emptying(t)
  <2>1. << >> \in Seq(Threads)
    BY EmptySeq
  <2> QED
    BY <1>4, <2>1 DEF Emptying, Empties, QueuesTyped
<1>5. CASE Takes(t) \/ Leaves(t)
  BY <1>5 DEF Takes, Leaves, QueuesTyped
<1> QED
  BY <1>1, <1>2, <1>3, <1>4, <1>5 DEF QueueStep

\* Every step keeps the types of the objects.
LEMMA ObjectsStep ==
  ASSUME CallsTyped, ObjectsTyped, NEW t \in Threads, Step(t)
  PROVE  ObjectsTyped'
<1>1. QueuesTyped'
  <2>1. QueuesTyped
    BY DEF QueuesTyped, ObjectsTyped
  <2> QED
    BY <2>1, QueueSteps, QueuesStep
<1>2. value' \in [Sems -> Nat] /\ word' \in [Words -> {0, 1}]
  <2>1. CASE SemStep(t)
    <3>1. word' = word
      BY <2>1 DEF SemStep, SemInit, SemBegin, SemPost, SemTry, objectVars
    <3>2. ASSUME NEW s \in Sems, \E v \in 0 .. MaxPosts : SemInit(t, s, v)
          PROVE  value' \in [Sems -> Nat]
      BY <3>2, SyncBounds DEF SemInit, ObjectsTyped
    <3>3. ASSUME NEW s \in Sems, SemBegin(t, s) \/ SemPost(t, s)
          PROVE  value' \in [Sems -> Nat]
      <4>1. value' = value \/ value' = [value EXCEPT ![s] = value[s] + 1]
        BY <3>3 DEF SemBegin, SemPost, objectVars
      <4>2. value \in [Sems -> Nat]
        BY DEF ObjectsTyped
      <4> QED
        BY <4>1, <4>2
    <3>4. CASE SemTry(t)
      <4>1. obj[t] \in Sems
        BY <3>4 DEF SemTry, CallsTyped, CallOK
      <4> QED
        BY <2>1, <3>4, <4>1, <3>1 DEF SemTry, ObjectsTyped
    <3> QED
      BY <2>1, <3>1, <3>2, <3>3, <3>4 DEF SemStep, ObjectsTyped
  <2>2. CASE WordStep(t)
    BY <2>2 DEF WordStep, WordWait, WordStore, WordEnqueue, WordWake, objectVars, ObjectsTyped
  <2>3. CASE MutexStep(t)
    BY <2>3 DEF MutexStep, LockBegin, TryLock, UnlockBegin, Acquire, Contend, LockEnqueue, Release,
      Clean, Pop, objectVars, ObjectsTyped
  <2>4. CASE CondStep(t) \/ Resume(t)
    BY <2>4 DEF CondStep, CondEnqueue, Elapse, CondCheck, CondExpired, CondSignal, CondBroadcast,
      CondDestroy, Resume, objectVars, ObjectsTyped
  <2> QED
    BY <2>1, <2>2, <2>3, <2>4 DEF Step
<1>3. timed_out' \subseteq Threads
  <2>1. CASE MutexStep(t)
    BY <2>1 DEF MutexStep, LockBegin, TryLock, UnlockBegin, Acquire, Contend, LockEnqueue, Release,
      Clean, Pop, Return, Unlocked, ObjectsTyped
  <2>2. CASE CondStep(t)
    BY <2>2 DEF CondStep, CondEnqueue, Elapse, CondCheck, CondExpired, CondSignal, CondBroadcast,
      CondDestroy, ObjectsTyped
  <2>3. CASE SemStep(t) \/ WordStep(t) \/ Resume(t)
    BY <2>3 DEF SemStep, SemInit, SemBegin, SemPost, SemTry, WordStep, WordWait, WordStore,
      WordEnqueue, WordWake, Resume, Return, ObjectsTyped
  <2> QED
    BY <2>1, <2>2, <2>3 DEF Step
<1>4. signalled' \subseteq Threads /\ elapsed' \subseteq Threads
  <2>1. CASE MutexStep(t)
    BY <2>1 DEF MutexStep, LockBegin, TryLock, UnlockBegin, Acquire, Contend, LockEnqueue, Release,
      Clean, Pop, history, ObjectsTyped
  <2>2. CASE CondStep(t)
    BY <2>2 DEF CondStep, CondEnqueue, Elapse, CondCheck, CondExpired, CondSignal, CondBroadcast,
      CondDestroy, Waiting, history, ObjectsTyped
  <2>3. CASE SemStep(t) \/ WordStep(t) \/ Resume(t)
    BY <2>3 DEF SemStep, SemInit, SemBegin, SemPost, SemTry, WordStep, WordWait, WordStore,
      WordEnqueue, WordWake, Resume, history, ObjectsTyped
  <2> QED
    BY <2>1, <2>2, <2>3 DEF Step
<1> QED
  BY <1>1, <1>2, <1>3, <1>4 DEF QueuesTyped, ObjectsTyped

\* Every step keeps the type invariant.
LEMMA TypeStep ==
  ASSUME TypeOK, OwnersInv, [Next]_vars
  PROVE  TypeOK' /\ OwnersInv'
<1>1. CASE UNCHANGED vars
  <2>1. /\ UNCHANGED <<owner, count, queue, value, word, token, pc, op, mutex, obj>>
        /\ UNCHANGED <<timed_out, held, signalled, elapsed>>
    BY <1>1 DEF vars, mutexVars, objectVars, callVars, history
  <2>2. \A t \in Threads : CallOK(t) => CallOK(t)'
    BY <2>1 DEF CallOK
  <2> QED
    BY <2>1, <2>2 DEF TypeOK, OwnersInv
<1>2. ASSUME NEW t \in Threads, Step(t) PROVE TypeOK' /\ OwnersInv'
  <2>1. CallsTyped /\ MutexesTyped /\ ObjectsTyped
    BY TypeParts
  <2>2. CallsTyped' /\ ObjectsTyped'
    BY <1>2, <2>1, CallStep, ObjectsStep
  <2>3. MutexesTyped' /\ OwnersInv'
    <3>1. CASE MutexStep(t)
      BY <2>1, <3>1, MutexSteps
    <3>2. CASE CondStep(t) \/ SemStep(t) \/ WordStep(t) \/ Resume(t)
      <4>1. UNCHANGED <<owner, count, held>>
        BY <2>1, <3>2, MutexesStay
      <4>2. \A u \in Threads, m \in Mutexes :
              pc'[u] = "release" /\ mutex'[u] = m => pc[u] = "release" /\ mutex[u] = m
        <5>1. ASSUME NEW u \in Threads, pc'[u] = "release"
              PROVE  pc[u] = "release" /\ mutex'[u] = mutex[u]
          <6>1. CASE u = t
            BY <2>1, <3>2, <5>1, <6>1, MutexesStay
          <6>2. CASE u # t
            BY <1>2, <2>1, <5>1, <6>2, OthersStay
          <6> QED
            BY <6>1, <6>2
        <5> QED
          BY <5>1
      <4> QED
        BY <2>1, <4>1, <4>2 DEF MutexesTyped, OwnersInv
    <3> QED
      BY <1>2, <3>1, <3>2 DEF Step
  <2>4. TypeOK'
    BY <2>2, <2>3 DEF TypeOK, CallsTyped, MutexesTyped, ObjectsTyped
  <2> QED
    BY <2>3, <2>4
<1> QED
  BY <1>1, <1>2 DEF Next, Step

\* Types, and that the recursion counts never exceed the levels the owners were
\* told they hold, whatever recursion, foreign unlocks and waits the guest uses
\* (hle_pthread_mutex_lock, hle_pthread_mutex_unlock).
THEOREM TypeCorrect == Spec => [](TypeOK /\ OwnersInv)
<1>1. Init => TypeOK /\ OwnersInv
  <2> SUFFICES ASSUME Init PROVE TypeOK /\ OwnersInv
    OBVIOUS
  <2>1. CallsTyped
    BY DEF Init, CallsTyped, CallOK
  <2>2. MutexesTyped /\ OwnersInv
    BY NoOneAssumption DEF Init, MutexesTyped, OwnersInv
  <2>3. ObjectsTyped
    BY EmptySeq DEF Init, ObjectsTyped
  <2> QED
    BY <2>1, <2>2, <2>3, TypeParts
<1> QED
  BY <1>1, TypeStep, PTL DEF Spec

(***************************************************************************)
(* Sleepers.                                                               *)
(***************************************************************************)

\* Every step keeps sleepers within reach.
LEMMA SleepersStep ==
  ASSUME TypeOK, SleeperIsReachable, [Next]_vars
  PROVE  SleeperIsReachable'
<1> SUFFICES ASSUME NEW u \in Threads, NEW o \in Objects, ParkedOn(u, o)'
             PROVE  u \in ToSet(queue'[o]) \/ u \in token'
  BY DEF SleeperIsReachable
<1>1. CASE UNCHANGED vars
  <2>1. UNCHANGED <<queue, token, pc, mutex, obj>>
    BY <1>1 DEF vars, callVars
  <2>2. ParkedOn(u, o)
    BY <2>1 DEF ParkedOn
  <2> QED
    BY <2>1, <2>2 DEF SleeperIsReachable
<1>2. ASSUME NEW t \in Threads, Step(t) PROVE u \in ToSet(queue'[o]) \/ u \in token'
  <2>1. CallsTyped /\ QueuesTyped
    BY TypeParts DEF ObjectsTyped, QueuesTyped
  <2>2. QueueStep(t)
    BY <1>2, <2>1, QueueSteps
  <2>3. ParkedOn(u, o) => u \in ToSet(queue[o]) \/ u \in token
    BY DEF SleeperIsReachable
  <2>4. u # t => ParkedOn(u, o)
    BY <1>2, <2>1, OthersStay DEF ParkedOn
  <2>5. ParkedOn(u, o) => pc[u] \in Parked
    BY DEF ParkedOn
  <2>6. pc'[u] \in Parked
    BY DEF ParkedOn
  <2>7. CASE Joins(t)
    <3>1. PICK x \in Objects : Enqueue(t, x) /\ (pc'[t] # "condExpired" => ParkedOn(t, x)')
      BY <2>1, <2>7, JoinedObject
    <3>2. /\ ToSet(queue'[x]) = ToSet(queue[x]) \cup {t}
          /\ \A y \in Objects \ {x} : queue'[y] = queue[y]
      BY <2>1, <3>1, EnqueueAppends DEF OnlyQueue
    <3>3. CASE u = t
      <4>1. ParkedOn(t, x)'
        BY <2>6, <3>1, <3>3
      <4>2. o = x
        BY <3>3, <4>1 DEF ParkedOn
      <4> QED
        BY <3>2, <3>3, <4>2
    <3>4. CASE u # t
      BY <2>3, <2>4, <2>7, <3>2, <3>4 DEF Joins
    <3> QED
      BY <3>3, <3>4
  <2>8. CASE Waking(t)
    <3>1. PICK x \in Objects : Wakes(x)
      BY <2>1, <2>8 DEF Waking, CallsTyped, CallOK
    <3>2. u # t
      BY <2>6, <2>8 DEF Waking
    <3> QED
      BY <2>3, <2>4, <3>1, <3>2 DEF Wakes, OnlyQueue
  <2>9. CASE Looks(t)
    <3>1. u # t
      BY <2>6, <2>9 DEF Looks
    <3>2. obj[t] \in Objects
      BY <2>1, <2>9 DEF Looks, CallsTyped, CallOK
    <3>3. /\ ToSet(queue[obj[t]]) \subseteq ToSet(queue'[obj[t]]) \cup {t}
          /\ \A y \in Objects \ {obj[t]} : queue'[y] = queue[y]
      BY <2>1, <2>9, <3>2, CheckRemoves DEF Looks, OnlyQueue
    <3> QED
      BY <2>3, <2>4, <2>9, <3>1, <3>3 DEF Looks
  <2>10. CASE Emptying(t)
    <3>1. PICK x \in Conds \cup Sems : Empties(x)
      BY <2>10 DEF Emptying
    <3>2. u # t
      BY <2>6, <2>10 DEF Emptying
    <3>3. o # x
      <4>1. CASE pc[u] = "lockParked"
        <5>1. o \in Mutexes
          BY <2>1, <2>4, <3>2, <4>1 DEF ParkedOn, CallsTyped, CallOK
        <5> QED
          BY <5>1, ObjectsAssumption
      <4>2. CASE pc[u] # "lockParked"
        BY <2>4, <3>1, <3>2, <4>2 DEF ParkedOn, Empties
      <4> QED
        BY <4>1, <4>2
    <3>4. queue'[o] = queue[o] /\ token' = token
      BY <2>1, <3>1, <3>3 DEF Empties, QueuesTyped
    <3> QED
      BY <2>3, <2>4, <3>2, <3>4
  <2>11. CASE Takes(t)
    <3>1. u # t
      BY <2>6, <2>11 DEF Takes, AfterPark
    <3> QED
      BY <2>3, <2>4, <2>11, <3>1 DEF Takes
  <2>12. CASE Leaves(t)
    <3>1. CASE u = t
      <4>1. UNCHANGED <<pc, mutex, obj>>
        BY <2>6, <2>12, <3>1 DEF Leaves
      <4>2. ParkedOn(u, o)
        BY <4>1 DEF ParkedOn
      <4> QED
        BY <2>3, <2>12, <4>2 DEF Leaves
    <3>2. CASE u # t
      BY <2>3, <2>4, <2>12, <3>2 DEF Leaves
    <3> QED
      BY <3>1, <3>2
  <2> QED
    BY <2>2, <2>7, <2>8, <2>9, <2>10, <2>11, <2>12 DEF QueueStep
<1> QED
  BY <1>1, <1>2 DEF Next, Step

\* Whoever sleeps can be found by the thread that should wake it, whatever
\* recursion, foreign unlocks, timeouts, left-over tokens and duplicate queue
\* entries the guest's calls produce (WAIT_QUEUE, park).
THEOREM SleepersAreReachable == Spec => []SleeperIsReachable
<1>1. Init => SleeperIsReachable
  BY DEF Init, SleeperIsReachable, ParkedOn
<1>2. TypeOK /\ SleeperIsReachable /\ [Next]_vars => SleeperIsReachable'
  BY SleepersStep
<1> QED
  BY <1>1, <1>2, TypeCorrect, PTL DEF Spec

(***************************************************************************)
(* Mutual exclusion, where the guest does not lock a mutex it holds.       *)
(***************************************************************************)

\* From the time a thread has given a mutex up, or has not got it yet.
WithoutMutex ==
  {"cas", "enqueue", "lockParked", "clean", "pop", "condEnqueue", "condParked", "condTimed",
   "condCheck", "condExpired"}

\* Whoever owns a mutex holds it once, nobody else holds it, and no thread in a
\* lock or a wait owns the mutex it is about.
HoldsOnce ==
  /\ \A m \in Mutexes :
       count[m] = 0 /\ \A t \in Threads : held[t][m] = IF owner[m] = t THEN 1 ELSE 0
  /\ \A t \in Threads : pc[t] \in WithoutMutex => owner[mutex[t]] # t

\* Who is in a call without a mutex was in it before.
LEMMA WaitersStay ==
  ASSUME CallsTyped, NEW t \in Threads,
         CondStep(t) \/ SemStep(t) \/ WordStep(t) \/ Resume(t), pc'[t] \in WithoutMutex
  PROVE  pc[t] \in WithoutMutex /\ mutex'[t] = mutex[t]
<1> USE DEF WithoutMutex
<1>1. CASE CondStep(t)
  BY <1>1 DEF CondStep, CondEnqueue, Elapse, CondCheck, CondExpired, CondSignal, CondBroadcast,
    CondDestroy, callVars
<1>2. CASE SemStep(t)
  BY <1>2 DEF SemStep, SemInit, SemBegin, SemPost, SemTry, Begin, Return, Goto, CallsTyped
<1>3. CASE WordStep(t)
  <2>1. ASSUME NEW w \in Words, WordWait(t, w) \/ \E v \in {0, 1} : WordStore(t, w, v)
        PROVE  pc'[t] \in {"idle", "wordEnqueue", "stored"}
    <3>1. WordWait(t, w) => pc'[t] \in {"idle", "wordEnqueue", "stored"}
      BY DEF WordWait, Begin, Return, Goto, CallsTyped
    <3>2. ASSUME NEW v \in {0, 1}, WordStore(t, w, v)
          PROVE  pc'[t] \in {"idle", "wordEnqueue", "stored"}
      BY <3>2 DEF WordStore, Begin, Goto, CallsTyped
    <3> QED
      BY <2>1, <3>1, <3>2
  <2>2. ~WordEnqueue(t) /\ \A n \in WakeCounts : ~WordWake(t, n)
    BY DEF WordEnqueue, WordWake, Return, Goto, CallsTyped
  <2> QED
    BY <1>3, <2>1, <2>2 DEF WordStep
<1>4. CASE Resume(t)
  BY <1>4 DEF Resume, AfterPark, Return, Goto, callVars, CallsTyped
<1> QED
  BY <1>1, <1>2, <1>3, <1>4

\* Without recursion every step keeps one level for the owner.
LEMMA HoldsOnceStep ==
  ASSUME "recursive" \notin Uses, TypeOK, HoldsOnce, NEW t \in Threads, Step(t)
  PROVE  HoldsOnce'
<1> USE NoOneAssumption
<1>1. CallsTyped /\ MutexesTyped
  BY TypeParts
<1>2. \A u \in Threads : u # t => pc'[u] = pc[u] /\ mutex'[u] = mutex[u]
  BY <1>1, OthersStay
<1>3. ASSUME UNCHANGED <<owner, count, held>>,
             pc'[t] \in WithoutMutex => owner[mutex'[t]] # t
      PROVE  HoldsOnce'
  <2>1. ASSUME NEW u \in Threads, pc'[u] \in WithoutMutex PROVE owner'[mutex'[u]] # u
    <3>1. CASE u = t
      BY <1>3, <2>1, <3>1
    <3>2. CASE u # t
      BY <1>2, <1>3, <2>1, <3>2 DEF HoldsOnce
    <3> QED
      BY <3>1, <3>2
  <2> QED
    BY <1>3, <2>1 DEF HoldsOnce
<1>4. ASSUME NEW m \in Mutexes, owner[m] = NoOne, owner' = [owner EXCEPT ![m] = t],
             count' = count, Hold(t, m), pc'[t] = "idle"
      PROVE  HoldsOnce'
  <2>1. ASSUME NEW l \in Mutexes, NEW u \in Threads
        PROVE  count'[l] = 0 /\ held'[u][l] = IF owner'[l] = u THEN 1 ELSE 0
    <3>1. /\ owner'[l] = IF l = m THEN t ELSE owner[l]
          /\ held'[u][l] = IF u = t /\ l = m THEN held[u][l] + 1 ELSE held[u][l]
      BY <1>1, <1>4 DEF Hold, MutexesTyped
    <3> QED
      BY <1>4, <3>1 DEF HoldsOnce
  <2>2. ASSUME NEW u \in Threads, pc'[u] \in WithoutMutex PROVE owner'[mutex'[u]] # u
    <3>1. u # t
      BY <1>4, <2>2 DEF WithoutMutex
    <3>2. pc[u] \in WithoutMutex /\ mutex'[u] = mutex[u] /\ mutex[u] \in Mutexes
      BY <1>1, <1>2, <2>2, <3>1 DEF WithoutMutex, CallsTyped, CallOK
    <3>3. owner'[mutex[u]] = IF mutex[u] = m THEN t ELSE owner[mutex[u]]
      BY <1>1, <1>4, <3>2 DEF MutexesTyped
    <3> QED
      BY <3>1, <3>2, <3>3 DEF HoldsOnce
  <2> QED
    BY <1>4, <2>1, <2>2 DEF HoldsOnce
<1>5. CASE CondStep(t) \/ SemStep(t) \/ WordStep(t) \/ Resume(t)
  <2>1. UNCHANGED <<owner, count, held>>
    BY <1>1, <1>5, MutexesStay
  <2>2. pc'[t] \in WithoutMutex => pc[t] \in WithoutMutex /\ mutex'[t] = mutex[t]
    BY <1>1, <1>5, WaitersStay
  <2> QED
    BY <1>3, <2>1, <2>2 DEF HoldsOnce
<1>6. CASE MutexStep(t)
  <2>1. ASSUME NEW m \in Mutexes, LockBegin(t, m) PROVE HoldsOnce'
    <3>1. UNCHANGED <<owner, count, held>> /\ mutex'[t] = m /\ held[t][m] < 1
      BY <1>1, <2>1 DEF LockBegin, Begin, mutexVars, CallsTyped
    <3>2. owner[m] # t
      BY <3>1 DEF HoldsOnce
    <3> QED
      BY <1>3, <3>1, <3>2
  <2>2. ASSUME NEW m \in Mutexes, TryLock(t, m) PROVE HoldsOnce'
    <3>1. pc'[t] = "idle" /\ held[t][m] < 1
      BY <1>1, <2>2 DEF TryLock, Return, Goto, CallsTyped
    <3>2. owner[m] # t
      BY <3>1 DEF HoldsOnce
    <3>3. CASE owner[m] = NoOne
      <4>1. owner' = [owner EXCEPT ![m] = t] /\ Hold(t, m)
        BY <2>2, <3>3 DEF TryLock
      <4>2. count' = [count EXCEPT ![m] = count[m]]
        BY <2>2, <3>2, <3>3 DEF TryLock
      <4>3. count' = count
        BY <1>1, <4>2 DEF MutexesTyped
      <4> QED
        BY <1>4, <3>1, <3>3, <4>1, <4>3
    <3>4. CASE owner[m] # NoOne
      BY <1>3, <2>2, <3>1, <3>2, <3>4 DEF TryLock, mutexVars, WithoutMutex
    <3> QED
      BY <3>3, <3>4
  <2>3. ASSUME NEW m \in Mutexes, NEW what, NEW c, UnlockBegin(t, what, m, c) PROVE HoldsOnce'
    <3>1. count[m] = 0
      BY DEF HoldsOnce
    <3>2. Begin(t, what, m, c, "release") /\ UNCHANGED <<owner, count, held>>
      BY <2>3, <3>1 DEF UnlockBegin
    <3>3. pc'[t] = "release"
      BY <1>1, <3>2 DEF Begin, Goto, CallsTyped
    <3> QED
      BY <1>3, <3>2, <3>3 DEF WithoutMutex
  <2>4. CASE Acquire(t)
    <3>1. mutex[t] \in Mutexes /\ owner[mutex[t]] # t
      BY <1>1, <2>4 DEF Acquire, CallsTyped, CallOK, HoldsOnce, WithoutMutex
    <3>2. /\ owner[mutex[t]] = NoOne /\ owner' = [owner EXCEPT ![mutex[t]] = t]
          /\ count' = count /\ Hold(t, mutex[t])
      BY <2>4, <3>1 DEF Acquire
    <3>3. pc'[t] = "idle"
      BY <1>1, <2>4 DEF Acquire, Return, Goto, CallsTyped
    <3> QED
      BY <1>4, <3>1, <3>2, <3>3
  <2>5. ASSUME UNCHANGED <<owner, count, held>>, pc[t] \in WithoutMutex,
               pc'[t] = "idle" \/ mutex'[t] = mutex[t]
        PROVE  HoldsOnce'
    BY <1>3, <2>5 DEF HoldsOnce, WithoutMutex
  <2>6. CASE Contend(t) \/ LockEnqueue(t)
    BY <2>5, <2>6 DEF Contend, LockEnqueue, mutexVars, callVars, WithoutMutex
  <2>7. ASSUME Unlocked(t, op[t], mutex[t], obj[t]) PROVE pc'[t] = "idle" \/ mutex'[t] = mutex[t]
    BY <1>1, <2>7 DEF Unlocked, Return, Goto, CallsTyped
  <2>8. CASE Pop(t)
    BY <2>5, <2>7, <2>8 DEF Pop, mutexVars, WithoutMutex
  <2>9. CASE Clean(t)
    <3>1. mutex[t] \in Mutexes
      BY <1>1, <2>9 DEF Clean, CallsTyped, CallOK
    <3>2. count' = count
      BY <1>1, <2>9, <3>1 DEF Clean, HoldsOnce, MutexesTyped
    <3> QED
      BY <2>5, <2>9, <3>2 DEF Clean, callVars, WithoutMutex
  <2>10. CASE Release(t)
    <3> DEFINE m == mutex[t]
    <3>1. m \in Mutexes /\ pc[t] = "release" /\ count' = count
      BY <1>1, <2>10 DEF Release, CallsTyped, CallOK
    <3>2. CASE owner[m] = t
      <4>1. owner' = [owner EXCEPT ![m] = NoOne] /\ LetGo(t, m)
        BY <2>10, <3>2 DEF Release
      <4> HIDE DEF m
      <4>2. \A l \in Mutexes : owner'[l] = IF l = m THEN NoOne ELSE owner[l]
        BY <1>1, <3>1, <4>1 DEF MutexesTyped
      <4>3. ASSUME NEW l \in Mutexes, NEW u \in Threads
            PROVE  count'[l] = 0 /\ held'[u][l] = IF owner'[l] = u THEN 1 ELSE 0
        <5>1. held'[u][l] = IF u = t /\ l = m THEN held[u][l] - 1 ELSE held[u][l]
          BY <1>1, <3>1, <4>1 DEF LetGo, MutexesTyped
        <5> QED
          BY <3>1, <3>2, <4>2, <5>1 DEF HoldsOnce
      <4>4. mutex'[t] = m
        BY <2>10, <3>2 DEF Release, callVars, m
      <4>5. ASSUME NEW u \in Threads, pc'[u] \in WithoutMutex PROVE owner'[mutex'[u]] # u
        <5>1. CASE u = t
          BY <3>1, <4>2, <4>4, <5>1
        <5>2. CASE u # t
          <6>1. pc[u] \in WithoutMutex /\ mutex'[u] = mutex[u] /\ mutex[u] \in Mutexes
            BY <1>1, <1>2, <4>5, <5>2 DEF WithoutMutex, CallsTyped, CallOK
          <6> QED
            BY <4>2, <6>1 DEF HoldsOnce
        <5> QED
          BY <5>1, <5>2
      <4> QED
        BY <3>1, <4>3, <4>5 DEF HoldsOnce
    <3>3. CASE owner[m] # t
      <4>1. UNCHANGED <<owner, count, held>> /\ Unlocked(t, op[t], m, obj[t])
        BY <2>10, <3>1, <3>3 DEF Release
      <4> QED
        BY <1>3, <2>7, <3>3, <4>1 DEF WithoutMutex
    <3> QED
      BY <3>2, <3>3
  <2> QED
    BY <1>6, <2>1, <2>2, <2>3, <2>4, <2>6, <2>8, <2>9, <2>10 DEF MutexStep
<1> QED
  BY <1>5, <1>6 DEF Step

\* Without recursive locking the mutexes exclude, and no thread sleeps on a
\* condition variable with its mutex in its hands: foreign unlocks, timeouts
\* and stray wakeups included (hle_pthread_mutex_lock, scePthreadCondWait).
THEOREM MutexesExclude ==
  ASSUME "recursive" \notin Uses
  PROVE  Spec => [](MutualExclusion /\ MutexReleasedWhileWaiting)
<1>1. Init => HoldsOnce
  BY NoOneAssumption DEF Init, HoldsOnce, WithoutMutex
<1>2. TypeOK /\ HoldsOnce /\ [Next]_vars => HoldsOnce'
  <2>1. HoldsOnce /\ UNCHANGED vars => HoldsOnce'
    BY DEF HoldsOnce, vars, mutexVars, callVars
  <2> QED
    BY <2>1, HoldsOnceStep DEF Next, Step
<1>3. HoldsOnce => MutualExclusion /\ MutexReleasedWhileWaiting
  BY DEF HoldsOnce, MutualExclusion, MutexReleasedWhileWaiting, WithoutMutex
<1> QED
  BY <1>1, <1>2, <1>3, TypeCorrect, PTL DEF Spec

(***************************************************************************)
(* Wakeups.                                                                *)
(***************************************************************************)

\* A thread is in one of the waits the guest uses, and its place in the call
\* is one of that kind of wait.
WaitOK(t) ==
  /\ op[t] \in CondOps => op[t] \in Uses
  /\ pc[t] = "condParked" => op[t] = "wait"
  /\ pc[t] \in {"condTimed", "condCheck"} => op[t] = "timed"
  /\ pc[t] = "condExpired" => op[t] = "expired"

WaitsOK == \A t \in Threads : WaitOK(t)

\* Every step keeps what waits are about.
LEMMA WaitsStep ==
  ASSUME TypeOK, WaitsOK, NEW t \in Threads, Step(t)
  PROVE  WaitsOK'
<1> DEFINE asleep == {"condParked", "condTimed", "condCheck", "condExpired"}
<1>1. CallsTyped
  BY TypeParts
<1>2. SUFFICES WaitOK(t)'
  <2>1. \A u \in Threads : u # t => WaitOK(u)'
    BY <1>1, OthersStay DEF WaitsOK, WaitOK
  <2> QED
    BY <2>1 DEF WaitsOK
<1>3. WaitOK(t)
  BY DEF WaitsOK
<1>4. ASSUME pc'[t] \notin asleep, op'[t] = op[t] \/ op'[t] \notin CondOps PROVE WaitOK(t)'
  BY <1>3, <1>4 DEF WaitOK
<1>5. CASE Return(t)
  BY <1>1, <1>4, <1>5 DEF Return, Goto, CallsTyped
<1>6. CASE UNCHANGED <<pc, op>>
  BY <1>3, <1>6 DEF WaitOK
<1>7. ASSUME NEW m, NEW c, Unlocked(t, op[t], m, c) PROVE WaitOK(t)'
  BY <1>1, <1>4, <1>7 DEF Unlocked, Return, Goto, CallsTyped
<1>8. CASE MutexStep(t)
  <2>1. ASSUME NEW m \in Mutexes, LockBegin(t, m) \/ TryLock(t, m) PROVE WaitOK(t)'
    <3>1. LockBegin(t, m) => pc'[t] = "cas" /\ op'[t] = "lock"
      BY <1>1 DEF LockBegin, Begin, Goto, CallsTyped
    <3>2. TryLock(t, m) => Return(t)
      BY DEF TryLock
    <3> QED
      BY <1>4, <1>5, <2>1, <3>1, <3>2
  <2>2. ASSUME NEW m \in Mutexes, NEW what \in CondOps \cup {"unlock"}, NEW c,
               UnlockBegin(t, what, m, c)
        PROVE  WaitOK(t)'
    <3>1. what \in CondOps => what \in Uses
      BY <2>2 DEF UnlockBegin
    <3>2. Unlocked(t, what, m, c) \/ Begin(t, what, m, c, "release")
      BY <2>2 DEF UnlockBegin
    <3>3. pc'[t] \notin asleep /\ (op'[t] = what \/ op'[t] = "none")
      BY <1>1, <3>2 DEF Unlocked, Begin, Return, Goto, CallsTyped
    <3> QED
      BY <3>1, <3>3 DEF WaitOK
  <2>3. CASE Contend(t) \/ LockEnqueue(t) \/ Clean(t)
    BY <1>1, <1>4, <2>3 DEF Contend, LockEnqueue, Clean, Goto, callVars, CallsTyped
  <2>4. CASE Release(t)
    <3>1. CASE Unlocked(t, op[t], mutex[t], obj[t])
      BY <1>7, <3>1
    <3>2. CASE UNCHANGED callVars /\ pc'[t] \in {"clean", "pop"}
      BY <1>4, <3>2 DEF callVars
    <3> QED
      BY <1>1, <2>4, <3>1, <3>2 DEF Release, Goto, CallsTyped
  <2> QED
    BY <1>5, <1>7, <1>8, <2>1, <2>2, <2>3, <2>4 DEF MutexStep, Acquire, Pop
<1>9. CASE CondStep(t)
  <2>1. CASE CondEnqueue(t)
    <3>1. op[t] \in CondOps /\ op'[t] = op[t]
      BY <1>1, <2>1 DEF CondEnqueue, CallsTyped, CallOK, callVars
    <3>2. /\ op[t] = "wait" => pc'[t] = "condParked"
          /\ op[t] = "timed" => pc'[t] = "condTimed"
          /\ op[t] = "expired" => pc'[t] = "condExpired"
      BY <1>1, <2>1 DEF CondEnqueue, Goto, CallsTyped
    <3> QED
      BY <1>3, <3>1, <3>2 DEF WaitOK
  <2>2. CASE Elapse(t)
    BY <1>1, <1>3, <2>2 DEF Elapse, Goto, callVars, CallsTyped, WaitOK
  <2>3. CASE CondCheck(t) \/ CondExpired(t)
    BY <1>1, <1>4, <2>3 DEF CondCheck, CondExpired, Goto, callVars, CallsTyped
  <2> QED
    BY <1>6, <1>9, <2>1, <2>2, <2>3 DEF CondStep, CondSignal, CondBroadcast, CondDestroy, callVars
<1>10. CASE SemStep(t)
  BY <1>1, <1>4, <1>5, <1>10 DEF SemStep, SemInit, SemBegin, SemPost, SemTry, Begin, Goto,
    callVars, CallsTyped
<1>11. CASE WordStep(t)
  <2>1. ASSUME NEW w \in Words, NEW where \in {"wordEnqueue", "stored"},
               Begin(t, "umtx", None, w, where)
        PROVE  WaitOK(t)'
    BY <1>1, <1>4, <2>1 DEF Begin, Goto, CallsTyped
  <2>2. CASE WordEnqueue(t)
    BY <1>1, <1>4, <2>2 DEF WordEnqueue, Goto, callVars, CallsTyped
  <2> QED
    BY <1>5, <1>6, <1>11, <2>1, <2>2 DEF WordStep, WordWait, WordStore, WordWake, callVars
<1>12. CASE Resume(t)
  <2>1. CASE pc[t] = "condTimed"
    <3>1. pc'[t] = "condCheck" /\ op'[t] = op[t]
      BY <1>1, <1>12, <2>1 DEF Resume, AfterPark, Goto, callVars, CallsTyped
    <3> QED
      BY <1>3, <2>1, <3>1 DEF WaitOK
  <2>2. CASE pc[t] # "condTimed"
    BY <1>1, <1>4, <1>5, <1>12, <2>2 DEF Resume, AfterPark, Goto, callVars, CallsTyped
  <2> QED
    BY <2>1, <2>2
<1> QED
  BY <1>8, <1>9, <1>10, <1>11, <1>12 DEF Step

\* Without timeouts no step leaves a stray token.
LEMMA StraysStep ==
  ASSUME Uses \cap {"timed", "expired"} = {}, TypeOK, WaitsOK, NoStrayWakeup,
         NEW t \in Threads, Step(t)
  PROVE  NoStrayWakeup'
<1>1. CallsTyped /\ QueuesTyped
  BY TypeParts DEF ObjectsTyped, QueuesTyped
<1>2. QueueStep(t)
  BY <1>1, QueueSteps
<1>3. \A u \in Threads : u # t =>
        pc'[u] = pc[u] /\ \A o \in Objects : ParkedOn(u, o)' = ParkedOn(u, o)
  BY <1>1, OthersStay DEF ParkedOn
<1>4. pc[t] \notin {"condTimed", "condCheck", "condExpired"}
  BY DEF WaitsOK, WaitOK
<1>5. /\ \A u \in token : pc[u] \in Parked
      /\ \A o \in Objects :
           IsInjective(queue[o]) /\ \A u \in ToSet(queue[o]) : ParkedOn(u, o) /\ u \notin token
  BY DEF NoStrayWakeup
<1>6. ASSUME NEW o \in Objects PROVE ToSet(queue[o]) \subseteq Threads
  BY <1>1, ListedThreads DEF QueuesTyped
<1>7. \A u, o : ParkedOn(u, o) => pc[u] \in Parked
  BY DEF ParkedOn
<1>8. CASE Joins(t)
  <2>1. PICK x \in Objects : Enqueue(t, x) /\ (pc'[t] # "condExpired" => ParkedOn(t, x)')
    BY <1>1, <1>8, JoinedObject
  <2>2. pc'[t] # "condExpired" /\ pc[t] \notin Parked
    BY <1>8 DEF Joins, WaitsOK, WaitOK
  <2>3. \A o \in Objects : t \notin ToSet(queue[o])
    BY <1>5, <1>7, <2>2
  <2>4. /\ \A y \in Objects \ {x} : queue'[y] = queue[y]
        /\ ToSet(queue'[x]) = ToSet(queue[x]) \cup {t} /\ IsInjective(queue'[x])
    BY <1>1, <1>5, <2>1, <2>3, EnqueueAppends DEF OnlyQueue
  <2>5. token' = token /\ t \notin token
    BY <1>5, <1>8, <2>2 DEF Joins
  <2>6. ASSUME NEW o \in Objects, NEW u \in ToSet(queue'[o])
        PROVE  ParkedOn(u, o)' /\ u \notin token'
    <3>1. CASE u = t
      BY <2>1, <2>2, <2>3, <2>4, <2>5, <2>6, <3>1
    <3>2. CASE u # t
      BY <1>3, <1>5, <1>6, <2>4, <2>5, <2>6, <3>2
    <3> QED
      BY <3>1, <3>2
  <2>7. \A u \in token' : pc'[u] \in Parked
    BY <1>1, <1>3, <1>5, <2>5 DEF QueuesTyped
  <2> QED
    BY <1>5, <2>4, <2>6, <2>7 DEF NoStrayWakeup
<1>9. CASE Waking(t)
  <2>1. PICK x \in Objects : Wakes(x)
    BY <1>1, <1>9 DEF Waking, CallsTyped, CallOK
  <2>2. pc[t] \notin Parked
    BY <1>9 DEF Waking
  <2>3. ASSUME NEW o \in Objects, NEW u \in ToSet(queue'[o])
        PROVE  ParkedOn(u, o)' /\ u \notin token'
    <3>1. u \in ToSet(queue[o])
      BY <2>1, <2>3 DEF Wakes, OnlyQueue
    <3>2. u # t /\ u \in Threads /\ ParkedOn(u, o) /\ u \notin token
      BY <1>5, <1>6, <1>7, <2>2, <3>1
    <3>3. u \notin token'
      <4>1. CASE o = x
        BY <1>5, <2>1, <2>3, <3>2, <4>1 DEF Wakes
      <4>2. CASE o # x
        <5>1. u \notin ToSet(queue[x])
          <6>1. ASSUME u \in ToSet(queue[x]) PROVE FALSE
            <7>1. ParkedOn(u, x)
              BY <1>5, <6>1
            <7> QED
              BY <3>2, <4>2, <7>1 DEF ParkedOn
          <6> QED
            BY <6>1
        <5> QED
          BY <2>1, <3>2, <5>1 DEF Wakes
      <4> QED
        BY <4>1, <4>2
    <3> QED
      BY <1>3, <3>2, <3>3
  <2>4. \A o \in Objects : IsInjective(queue'[o])
    BY <1>5, <2>1 DEF Wakes, OnlyQueue
  <2>5. \A u \in token' : pc'[u] \in Parked
    <3> SUFFICES ASSUME NEW u \in token' PROVE pc'[u] \in Parked
      OBVIOUS
    <3>1. u \in token \cup ToSet(queue[x])
      BY <2>1 DEF Wakes
    <3>2. pc[u] \in Parked /\ u \in Threads
      BY <1>1, <1>5, <1>6, <1>7, <3>1 DEF QueuesTyped
    <3> QED
      BY <1>3, <2>2, <3>2
  <2> QED
    BY <2>3, <2>4, <2>5 DEF NoStrayWakeup
<1>10. CASE Emptying(t)
  <2>1. PICK x \in Objects : Empties(x)
    BY <1>10 DEF Emptying
  <2>2. token' = token /\ \A o \in Objects : queue'[o] = IF o = x THEN << >> ELSE queue[o]
    BY <1>1, <2>1 DEF Empties, QueuesTyped
  <2>3. IsInjective(<< >>) /\ ToSet(<< >>) = {}
    BY DEF IsInjective, ToSet
  <2>4. pc[t] \notin Parked
    BY <1>10 DEF Emptying
  <2>5. ASSUME NEW o \in Objects, NEW u \in ToSet(queue'[o])
        PROVE  ParkedOn(u, o)' /\ u \notin token'
    <3>1. u \in ToSet(queue[o])
      BY <2>2, <2>3, <2>5
    <3>2. u # t
      BY <1>5, <1>7, <2>4, <3>1
    <3> QED
      BY <1>3, <1>5, <1>6, <2>2, <3>1, <3>2
  <2>6. \A u \in token' : pc'[u] \in Parked
    BY <1>1, <1>3, <1>5, <2>2, <2>4 DEF QueuesTyped
  <2> QED
    BY <1>5, <2>2, <2>3, <2>5, <2>6 DEF NoStrayWakeup
<1>11. CASE Takes(t)
  <2>1. ASSUME NEW o \in Objects, NEW u \in ToSet(queue'[o])
        PROVE  ParkedOn(u, o)' /\ u \notin token'
    <3>1. u \in ToSet(queue[o]) /\ u # t
      BY <1>5, <1>11, <2>1 DEF Takes
    <3> QED
      BY <1>3, <1>5, <1>6, <1>11, <3>1 DEF Takes
  <2>2. \A u \in token' : pc'[u] \in Parked
    BY <1>1, <1>3, <1>5, <1>11 DEF Takes, QueuesTyped
  <2> QED
    BY <1>5, <1>11, <2>1, <2>2 DEF Takes, NoStrayWakeup
<1>12. CASE Leaves(t)
  <2>1. pc[t] \notin Parked
    BY <1>4, <1>12 DEF Leaves
  <2>2. ASSUME NEW o \in Objects, NEW u \in ToSet(queue'[o])
        PROVE  ParkedOn(u, o)' /\ u \notin token'
    <3>1. u \in ToSet(queue[o]) /\ u # t
      BY <1>5, <1>7, <1>12, <2>1, <2>2 DEF Leaves
    <3> QED
      BY <1>3, <1>5, <1>6, <1>12, <3>1 DEF Leaves
  <2>3. \A u \in token' : pc'[u] \in Parked
    BY <1>1, <1>3, <1>5, <1>12, <2>1 DEF Leaves, QueuesTyped
  <2> QED
    BY <1>5, <1>12, <2>2, <2>3 DEF Leaves, NoStrayWakeup
<1>13. ~Looks(t)
  BY <1>4 DEF Looks
<1> QED
  BY <1>2, <1>8, <1>9, <1>10, <1>11, <1>12, <1>13 DEF QueueStep

\* The threads that will take a unit of s without being woken by another post.
Takers(s) ==
  {t \in Threads : obj[t] = s /\ (pc[t] = "semTry" \/ (pc[t] = "semParked" /\ t \in token))}

SemOK(s) == queue[s] # << >> => value[s] <= Cardinality(Takers(s))

\* Counting the threads under way.
LEMMA TakersCount ==
  ASSUME NEW A \in SUBSET Threads, NEW B \in SUBSET Threads
  PROVE  /\ Cardinality(A) \in Nat /\ Cardinality(B) \in Nat
         /\ A \subseteq B => Cardinality(A) <= Cardinality(B)
         /\ \A x \in B : x \notin A /\ A \subseteq B => Cardinality(A) + 1 <= Cardinality(B)
         /\ \A x \in A : A \ {x} \subseteq B => Cardinality(A) - 1 <= Cardinality(B)
<1>1. IsFiniteSet(A) /\ IsFiniteSet(B)
  BY ThreadsAssumption, FS_Subset
<1>2. Cardinality(A) \in Nat /\ Cardinality(B) \in Nat
  BY <1>1, FS_CardinalityType
<1>3. A \subseteq B => Cardinality(A) <= Cardinality(B)
  BY <1>1, FS_Subset
<1>4. ASSUME NEW x \in B, x \notin A, A \subseteq B PROVE Cardinality(A) + 1 <= Cardinality(B)
  <2>1. IsFiniteSet(A \cup {x}) /\ Cardinality(A \cup {x}) = Cardinality(A) + 1
    BY <1>1, <1>4, FS_AddElement
  <2>2. Cardinality(A \cup {x}) <= Cardinality(B)
    BY <1>1, <1>4, FS_Subset
  <2> QED
    BY <2>1, <2>2
<1>5. ASSUME NEW x \in A, A \ {x} \subseteq B PROVE Cardinality(A) - 1 <= Cardinality(B)
  <2>1. Cardinality(A \ {x}) = Cardinality(A) - 1
    BY <1>1, <1>5, FS_RemoveElement
  <2>2. Cardinality(A \ {x}) <= Cardinality(B)
    BY <1>1, <1>5, FS_Subset
  <2> QED
    BY <2>1, <2>2
<1> QED
  BY <1>2, <1>3, <1>4, <1>5

\* Only the calls on semaphores touch their values and their queues.
LEMMA SemaphoresStay ==
  ASSUME CallsTyped, QueuesTyped, NEW t \in Threads,
         MutexStep(t) \/ CondStep(t) \/ WordStep(t) \/ Resume(t)
  PROVE  value' = value /\ \A s \in Sems : queue'[s] = queue[s]
<1> USE ObjectsAssumption
<1>1. value' = value
  BY DEF MutexStep, LockBegin, TryLock, UnlockBegin, Acquire, Contend, LockEnqueue, Release,
    Clean, Pop, CondStep, CondEnqueue, Elapse, CondCheck, CondExpired, CondSignal, CondBroadcast,
    CondDestroy, WordStep, WordWait, WordStore, WordEnqueue, WordWake, Resume, objectVars
<1> SUFFICES \A s \in Sems : queue'[s] = queue[s]
  BY <1>1
<1>2. ASSUME NEW o \in Objects \ Sems, NEW q, queue' = [queue EXCEPT ![o] = q]
      PROVE  \A s \in Sems : queue'[s] = queue[s]
  BY <1>2 DEF QueuesTyped
<1>3. ASSUME NEW o \in Objects \ Sems, WakeFirst(o) \/ \E n : WakeMany(o, n)
      PROVE  \A s \in Sems : queue'[s] = queue[s]
  BY <1>2, <1>3 DEF WakeFirst, WakeMany
<1>4. ASSUME NEW o \in Objects \ Sems, Enqueue(t, o)
      PROVE  \A s \in Sems : queue'[s] = queue[s]
  BY <1>2, <1>4 DEF Enqueue
<1>5. CASE MutexStep(t)
  <2>1. pc[t] \in {"enqueue", "pop"} => mutex[t] \in Objects \ Sems
    BY DEF CallsTyped, CallOK
  <2>2. CASE LockEnqueue(t) \/ Pop(t)
    BY <1>3, <1>4, <2>1, <2>2 DEF LockEnqueue, Pop
  <2>3. CASE ~(LockEnqueue(t) \/ Pop(t))
    BY <1>5, <2>3 DEF MutexStep, LockBegin, TryLock, UnlockBegin, Acquire, Contend, Release, Clean
  <2> QED
    BY <2>2, <2>3
<1>6. CASE CondStep(t)
  <2>1. pc[t] \in {"condEnqueue", "condCheck", "condExpired"} => obj[t] \in Objects \ Sems
    BY DEF CallsTyped, CallOK
  <2>2. CASE CondEnqueue(t)
    BY <1>4, <2>1, <2>2 DEF CondEnqueue
  <2>3. CASE CondCheck(t) \/ CondExpired(t)
    BY <1>2, <2>1, <2>3 DEF CondCheck, CondExpired
  <2>4. CASE Elapse(t)
    BY <2>4 DEF Elapse
  <2>5. ASSUME NEW c \in Conds, CondSignal(t, c) \/ CondBroadcast(t, c) \/ CondDestroy(t, c)
        PROVE  \A s \in Sems : queue'[s] = queue[s]
    BY <1>2, <1>3, <2>5 DEF CondSignal, CondBroadcast, CondDestroy
  <2> QED
    BY <1>6, <2>2, <2>3, <2>4, <2>5 DEF CondStep
<1>7. CASE WordStep(t)
  <2>1. pc[t] \in {"wordEnqueue", "stored"} => obj[t] \in Objects \ Sems
    BY DEF CallsTyped, CallOK
  <2>2. CASE WordEnqueue(t)
    BY <1>4, <2>1, <2>2 DEF WordEnqueue
  <2>3. ASSUME NEW n, WordWake(t, n) PROVE \A s \in Sems : queue'[s] = queue[s]
    BY <1>3, <2>1, <2>3 DEF WordWake
  <2> QED
    BY <1>7, <2>2, <2>3 DEF WordStep, WordWait, WordStore
<1>8. CASE Resume(t)
  BY <1>8 DEF Resume
<1> QED
  BY <1>5, <1>6, <1>7, <1>8

\* A thread on its way to a unit stays on its way until it tries the semaphore.
LEMMA TakersStay ==
  ASSUME CallsTyped, QueuesTyped, NEW t \in Threads, Step(t), NEW s \in Sems
  PROVE  /\ Takers(s) \ {t} \subseteq Takers(s)'
         /\ ~SemTry(t) => Takers(s) \subseteq Takers(s)'
         /\ pc[t] \in {"semTry", "semParked"} => SemTry(t) \/ Resume(t)
<1>1. \A u \in Threads : u # t => pc'[u] = pc[u] /\ obj'[u] = obj[u]
  BY OthersStay
<1>2. token \ {t} \subseteq token'
  BY QueueSteps DEF QueueStep, Joins, Waking, Looks, Emptying, Takes, Leaves, Wakes, Empties
<1>3. Takers(s) \ {t} \subseteq Takers(s)'
  BY <1>1, <1>2 DEF Takers
<1>4. ASSUME pc[t] \in {"semTry", "semParked"} PROVE SemTry(t) \/ Resume(t)
  <2>1. ~MutexStep(t)
    BY <1>4 DEF MutexStep, LockBegin, TryLock, UnlockBegin, Acquire, Contend, LockEnqueue, Release,
      Clean, Pop, Begin
  <2>2. ~CondStep(t)
    BY <1>4 DEF CondStep, CondEnqueue, Elapse, CondCheck, CondExpired, CondSignal, CondBroadcast,
      CondDestroy
  <2>3. ~WordStep(t)
    BY <1>4 DEF WordStep, WordWait, WordStore, WordEnqueue, WordWake, Begin
  <2>4. SemStep(t) => SemTry(t)
    BY <1>4 DEF SemStep, SemInit, SemBegin, SemPost, Begin
  <2> QED
    BY <2>1, <2>2, <2>3, <2>4 DEF Step
<1>5. ASSUME t \in Takers(s), Resume(t) PROVE t \in Takers(s)'
  <2>1. pc[t] = "semParked" /\ obj[t] = s
    BY <1>5 DEF Takers, Resume
  <2>2. pc'[t] = "semTry" /\ obj'[t] = s
    BY <1>5, <2>1 DEF Resume, AfterPark, Goto, callVars, CallsTyped
  <2> QED
    BY <2>2 DEF Takers
<1> QED
  BY <1>3, <1>4, <1>5 DEF Takers

\* Every step keeps takers for the units.
LEMMA SemUnitsStep ==
  ASSUME TypeOK, NoStrayWakeup, SemUnitsHaveTakers, NEW t \in Threads, Step(t)
  PROVE  SemUnitsHaveTakers'
<1>1. CallsTyped /\ QueuesTyped /\ ObjectsTyped
  BY TypeParts DEF ObjectsTyped, QueuesTyped
<1>2. SUFFICES ASSUME NEW s \in Sems PROVE SemOK(s)'
  BY DEF SemUnitsHaveTakers, SemOK, Takers
<1>3. SemOK(s)
  BY DEF SemUnitsHaveTakers, SemOK, Takers
<1>4. value[s] \in Nat /\ Takers(s) \in SUBSET Threads /\ Takers(s)' \in SUBSET Threads
  BY <1>1 DEF ObjectsTyped, Takers
<1>5. ASSUME value'[s] = value[s], queue'[s] # << >> => queue[s] # << >>, ~SemTry(t)
      PROVE  SemOK(s)'
  <2>1. /\ Cardinality(Takers(s)) \in Nat /\ Cardinality(Takers(s)') \in Nat
        /\ Cardinality(Takers(s)) <= Cardinality(Takers(s)')
    BY <1>1, <1>4, <1>5, TakersStay, TakersCount
  <2>2. Cardinality(Takers(s))' = Cardinality(Takers(s)')
    OBVIOUS
  <2> QED
    BY <1>3, <1>4, <1>5, <2>1, <2>2 DEF SemOK
<1>6. CASE MutexStep(t) \/ CondStep(t) \/ WordStep(t) \/ Resume(t)
  <2>1. ~SemTry(t) \/ Resume(t) \/ pc[t] # "semTry"
    BY <1>6 DEF MutexStep, LockBegin, TryLock, UnlockBegin, Acquire, Contend, LockEnqueue, Release,
      Clean, Pop, Begin, CondStep, CondEnqueue, Elapse, CondCheck, CondExpired, CondSignal,
      CondBroadcast, CondDestroy, WordStep, WordWait, WordStore, WordEnqueue, WordWake
  <2>2. ~SemTry(t)
    BY <2>1 DEF SemTry, Resume
  <2> QED
    BY <1>1, <1>5, <1>6, <2>2, SemaphoresStay
<1>7. CASE SemStep(t)
  <2>1. ASSUME NEW r \in Sems, NEW v, SemInit(t, r, v) PROVE SemOK(s)'
    <3>1. CASE r = s
      <4>1. queue'[s] = << >>
        BY <1>1, <2>1, <3>1 DEF SemInit, QueuesTyped
      <4> QED
        BY <4>1 DEF SemOK
    <3>2. CASE r # s
      <4>1. value'[s] = value[s] /\ queue'[s] = queue[s] /\ ~SemTry(t)
        BY <1>1, <2>1, <3>2 DEF SemInit, SemTry, QueuesTyped, ObjectsTyped
      <4> QED
        BY <1>5, <4>1
    <3> QED
      BY <3>1, <3>2
  <2>2. ASSUME NEW r \in Sems, SemBegin(t, r) PROVE SemOK(s)'
    BY <1>5, <2>2 DEF SemBegin, Begin, SemTry, objectVars
  <2>3. ASSUME NEW r \in Sems, SemPost(t, r) PROVE SemOK(s)'
    <3>1. pc[t] = "idle" /\ ~SemTry(t) /\ WakeFirst(r)
      BY <2>3 DEF SemPost, SemTry
    <3>2. Wakes(r) /\ (queue[r] # << >> => Head(queue[r]) \in token')
      BY <1>1, <3>1, WakeFirstWakes
    <3>3. CASE r # s
      <4>1. value'[s] = value[s] /\ queue'[s] = queue[s]
        BY <1>1, <2>3, <3>2, <3>3 DEF SemPost, Wakes, OnlyQueue, ObjectsTyped
      <4> QED
        BY <1>5, <3>1, <4>1
    <3>4. CASE r = s /\ queue[s] = << >>
      <4>1. queue'[s] = << >>
        BY <3>1, <3>4 DEF WakeFirst
      <4> QED
        BY <4>1 DEF SemOK
    <3>5. CASE r = s /\ queue[s] # << >>
      <4> DEFINE h == Head(queue[s])
      <4>1. value'[s] = value[s] + 1
        BY <1>1, <2>3, <3>5 DEF SemPost, ObjectsTyped
      <4>2. h \in ToSet(queue[s]) /\ h \in Threads
        BY <1>1, <3>5, TailLists DEF QueuesTyped
      <4>3. ParkedOn(h, s) /\ h \notin token
        BY <4>2 DEF NoStrayWakeup
      <4>4. pc[h] = "semParked" /\ obj[h] = s
        BY <1>1, <4>2, <4>3, ObjectsAssumption DEF ParkedOn, CallsTyped, CallOK
      <4>5. h \notin Takers(s) /\ h # t /\ h \in token'
        BY <3>1, <3>2, <3>5, <4>3, <4>4 DEF Takers
      <4>6. pc'[h] = pc[h] /\ obj'[h] = obj[h]
        BY <1>1, <4>2, <4>5, OthersStay
      <4>7. h \in Takers(s)'
        BY <4>2, <4>4, <4>5, <4>6 DEF Takers
      <4>8. Takers(s) \subseteq Takers(s)'
        BY <1>1, <3>1, TakersStay
      <4> HIDE DEF h
      <4>9. /\ Cardinality(Takers(s)) + 1 <= Cardinality(Takers(s)')
            /\ Cardinality(Takers(s)) \in Nat /\ Cardinality(Takers(s)') \in Nat
        BY <1>4, <4>5, <4>7, <4>8, TakersCount
      <4> QED
        BY <1>3, <1>4, <3>5, <4>1, <4>9 DEF SemOK
    <3> QED
      BY <3>3, <3>4, <3>5
  <2>4. CASE SemTry(t)
    <3> DEFINE r == obj[t]
    <3>1. r \in Sems /\ pc[t] = "semTry"
      BY <1>1, <2>4 DEF SemTry, CallsTyped, CallOK
    <3>2. CASE r # s
      <4>1. value'[s] = value[s] /\ queue'[s] = queue[s]
        BY <1>1, <2>4, <3>1, <3>2 DEF SemTry, Enqueue, QueuesTyped, ObjectsTyped
      <4>2. t \notin Takers(s)
        BY <3>2 DEF Takers
      <4>3. Takers(s) \subseteq Takers(s)'
        BY <1>1, <4>2, TakersStay
      <4>4. /\ Cardinality(Takers(s)) <= Cardinality(Takers(s)')
            /\ Cardinality(Takers(s)) \in Nat /\ Cardinality(Takers(s)') \in Nat
        BY <1>4, <4>3, TakersCount
      <4> QED
        BY <1>3, <1>4, <4>1, <4>4 DEF SemOK
    <3>3. CASE r = s /\ value[s] > 0
      <4>1. value'[s] = value[s] - 1 /\ queue' = queue
        BY <1>1, <2>4, <3>1, <3>3 DEF SemTry, ObjectsTyped
      <4>2. t \in Takers(s) /\ Takers(s) \ {t} \subseteq Takers(s)'
        BY <1>1, <3>1, <3>3, TakersStay DEF Takers
      <4>3. /\ Cardinality(Takers(s)) - 1 <= Cardinality(Takers(s)')
            /\ Cardinality(Takers(s)) \in Nat /\ Cardinality(Takers(s)') \in Nat
        BY <1>4, <4>2, TakersCount
      <4> QED
        BY <1>3, <1>4, <4>1, <4>3 DEF SemOK
    <3>4. CASE r = s /\ ~(value[s] > 0)
      <4>1. value'[s] = 0
        BY <1>4, <2>4, <3>4 DEF SemTry
      <4>2. Cardinality(Takers(s)') \in Nat
        BY <1>4, TakersCount
      <4> QED
        BY <4>1, <4>2 DEF SemOK
    <3> QED
      BY <3>2, <3>3, <3>4
  <2> QED
    BY <1>7, <2>1, <2>2, <2>3, <2>4 DEF SemStep
<1> QED
  BY <1>6, <1>7 DEF Step

\* Where no wait has a timeout, every wakeup goes to a thread that waits for
\* exactly that, and the units of a semaphore have takers while threads sleep
\* on it, whatever recursion and foreign unlocks the guest uses
\* (WAIT_QUEUE, scePthreadSemWait, scePthreadSemPost).
THEOREM WakeupsGoWhereOwed ==
  ASSUME Uses \cap {"timed", "expired"} = {}
  PROVE  Spec => []WakeupsAreOwed
<1>1. Init => WaitsOK /\ WakeupsAreOwed
  <2> SUFFICES ASSUME Init PROVE WaitsOK /\ WakeupsAreOwed
    OBVIOUS
  <2>1. IsInjective(<< >>) /\ ToSet(<< >>) = {}
    BY DEF IsInjective, ToSet
  <2>2. \A o \in Objects : queue[o] = << >>
    BY DEF Init
  <2>3. NoStrayWakeup
    BY <2>1, <2>2 DEF Init, NoStrayWakeup
  <2>4. SemUnitsHaveTakers
    BY <2>2 DEF SemUnitsHaveTakers
  <2> QED
    BY <2>3, <2>4 DEF Init, WaitsOK, WaitOK, WakeupsAreOwed
<1>2. TypeOK /\ WaitsOK /\ WakeupsAreOwed /\ [Next]_vars => WaitsOK' /\ WakeupsAreOwed'
  <2> SUFFICES ASSUME TypeOK, WaitsOK, WakeupsAreOwed, [Next]_vars
               PROVE  WaitsOK' /\ WakeupsAreOwed'
    OBVIOUS
  <2>1. CASE UNCHANGED vars
    <3>1. UNCHANGED <<queue, value, token, pc, op, mutex, obj>>
      BY <2>1 DEF vars, objectVars, callVars
    <3>2. WaitsOK'
      BY <3>1 DEF WaitsOK, WaitOK
    <3>3. NoStrayWakeup'
      BY <3>1 DEF WakeupsAreOwed, NoStrayWakeup, ParkedOn
    <3>4. SemUnitsHaveTakers'
      BY <3>1 DEF WakeupsAreOwed, SemUnitsHaveTakers
    <3> QED
      BY <3>2, <3>3, <3>4 DEF WakeupsAreOwed
  <2>2. ASSUME NEW t \in Threads, Step(t) PROVE WaitsOK' /\ WakeupsAreOwed'
    BY <2>2, WaitsStep, StraysStep, SemUnitsStep DEF WakeupsAreOwed
  <2> QED
    BY <2>1, <2>2 DEF Next, Step
<1> QED
  BY <1>1, <1>2, TypeCorrect, PTL DEF Spec

(***************************************************************************)
(* Waits with a timeout.                                                   *)
(***************************************************************************)

\* A thread in a timed wait on c that still looks at its queue.
Watches(t, c) == pc[t] \in {"condTimed", "condCheck", "condExpired"} /\ obj[t] = c

\* The queue of a condition variable lists threads that still look at it, none
\* twice; a signalled thread is not in it; and a wait that is to answer timeout
\* is taking its mutex again.
QueuesWatched ==
  \A c \in Conds : IsInjective(queue[c]) /\ \A u \in ToSet(queue[c]) : Watches(u, c)

SignalledGone ==
  \A c \in Conds, u \in signalled : Watches(u, c) => u \notin ToSet(queue[c])

TimedOutLocks == \A u \in timed_out : pc[u] \in {"cas", "enqueue", "lockParked"}

TimedInv == QueuesWatched /\ SignalledGone /\ TimedOutLocks

\* A thread whose wait is over looks for itself in the queue and does nothing else.
LEMMA LookersLook ==
  ASSUME NEW t \in Threads, Step(t), pc[t] \in {"condCheck", "condExpired"}
  PROVE  CondCheck(t) \/ CondExpired(t)
<1>1. ~MutexStep(t)
  BY DEF MutexStep, LockBegin, TryLock, UnlockBegin, Acquire, Contend, LockEnqueue, Release,
    Clean, Pop, Begin
<1>2. ~SemStep(t)
  BY DEF SemStep, SemInit, SemBegin, SemPost, SemTry, Begin
<1>3. ~WordStep(t)
  BY DEF WordStep, WordWait, WordStore, WordEnqueue, WordWake, Begin
<1>4. ~Resume(t)
  BY DEF Resume
<1>5. CondStep(t) => CondCheck(t) \/ CondExpired(t)
  BY DEF CondStep, CondEnqueue, Elapse, CondSignal, CondBroadcast, CondDestroy
<1> QED
  BY <1>1, <1>2, <1>3, <1>4, <1>5 DEF Step

\* A thread looks at a queue from the step in which it joins it.
LEMMA WatchersStep ==
  ASSUME CallsTyped, QueuesTyped, NEW t \in Threads, Step(t), NEW c \in Conds, Watches(t, c)'
  PROVE  CondEnqueue(t) \/ (Watches(t, c) /\ queue' = queue)
<1>1. QueueStep(t)
  BY QueueSteps
<1>2. CASE pc[t] \in {"condCheck", "condExpired"}
  <2>1. pc'[t] = "cas"
    BY <1>2, LookersLook DEF CondCheck, CondExpired, Goto, CallsTyped
  <2> QED
    BY <2>1 DEF Watches
<1>3. CASE pc[t] = "condTimed"
  BY <1>1, <1>3 DEF QueueStep, Joins, Waking, Looks, Emptying, Takes, Leaves, AfterPark, Watches
<1>4. CASE pc[t] \notin {"condTimed", "condCheck", "condExpired"}
  <2>1. pc'[t] \in {"condTimed", "condCheck", "condExpired"}
    BY DEF Watches
  <2>2. ~MutexStep(t)
    BY <2>1 DEF MutexStep, LockBegin, TryLock, UnlockBegin, Acquire, Contend, LockEnqueue,
      Release, Clean, Pop, Begin, Return, Unlocked, Goto, CallsTyped
  <2>3. ~SemStep(t)
    BY <1>4, <2>1 DEF SemStep, SemInit, SemBegin, SemPost, SemTry, Begin, Return, Goto, CallsTyped
  <2>4. ~WordStep(t)
    <3>1. \A w \in Words : ~WordWait(t, w) /\ \A v \in {0, 1} : ~WordStore(t, w, v)
      BY <1>4, <2>1 DEF WordWait, WordStore, Begin, Return, Goto, CallsTyped
    <3>2. ~WordEnqueue(t) /\ \A n \in WakeCounts : ~WordWake(t, n)
      BY <1>4, <2>1 DEF WordEnqueue, WordWake, Return, Goto, CallsTyped
    <3> QED
      BY <3>1, <3>2 DEF WordStep
  <2>5. ~Resume(t)
    BY <1>4, <2>1 DEF Resume, AfterPark, Return, Goto, CallsTyped
  <2>6. CondStep(t) => CondEnqueue(t)
    BY <1>4, <2>1 DEF CondStep, Elapse, CondCheck, CondExpired, CondSignal, CondBroadcast,
      CondDestroy, Goto, CallsTyped
  <2> QED
    BY <2>2, <2>3, <2>4, <2>5, <2>6 DEF Step
<1> QED
  BY <1>2, <1>3, <1>4

\* With timed waits only, queues hold who watches them.
LEMMA WatchedStep ==
  ASSUME "wait" \notin Uses, TypeOK, WaitsOK, QueuesWatched, NEW t \in Threads, Step(t)
  PROVE  QueuesWatched'
<1>1. CallsTyped /\ QueuesTyped
  BY TypeParts DEF ObjectsTyped, QueuesTyped
<1>2. QueueStep(t)
  BY <1>1, QueueSteps
<1>3. SUFFICES ASSUME NEW c \in Conds
               PROVE  IsInjective(queue'[c]) /\ \A u \in ToSet(queue'[c]) : Watches(u, c)'
  BY DEF QueuesWatched
<1>4. IsInjective(queue[c]) /\ \A u \in ToSet(queue[c]) : Watches(u, c) /\ u \in Threads
  BY <1>1, ListedThreads DEF QueuesTyped, QueuesWatched
<1>5. \A u \in Threads : u # t /\ Watches(u, c) => Watches(u, c)'
  BY <1>1, OthersStay DEF Watches
<1>6. CASE Joins(t)
  <2>1. t \notin ToSet(queue[c])
    BY <1>4, <1>6 DEF Joins, Watches
  <2>2. ASSUME NEW x \in Objects, Enqueue(t, x)
        PROVE  /\ x # c => queue'[c] = queue[c]
               /\ x = c => ToSet(queue'[c]) = ToSet(queue[c]) \cup {t} /\ IsInjective(queue'[c])
    BY <1>1, <1>4, <2>1, <2>2, EnqueueAppends DEF OnlyQueue
  <2>3. CASE pc[t] = "condEnqueue"
    <3>1. /\ Enqueue(t, obj[t]) /\ obj[t] \in Conds /\ obj'[t] = obj[t]
          /\ pc'[t] \in {"condTimed", "condExpired"}
      BY <1>1, <1>6, <2>3 DEF Joins, CallsTyped, CallOK, WaitsOK, WaitOK
    <3> QED
      BY <1>4, <1>5, <2>1, <2>2, <3>1 DEF Watches
  <2>4. CASE pc[t] # "condEnqueue"
    <3>1. PICK x \in Objects \ Conds : Enqueue(t, x)
      BY <1>1, <1>6, <2>4, ObjectsAssumption DEF Joins, CallsTyped, CallOK
    <3> QED
      BY <1>4, <1>5, <2>1, <2>2, <3>1
  <2> QED
    BY <2>3, <2>4
<1>7. CASE Waking(t)
  <2>1. PICK x \in Objects : Wakes(x)
    BY <1>1, <1>7 DEF Waking, CallsTyped, CallOK
  <2>2. ~Watches(t, c)
    BY <1>7 DEF Waking, Watches
  <2>3. ToSet(queue'[c]) \subseteq ToSet(queue[c]) /\ IsInjective(queue'[c])
    BY <1>4, <2>1 DEF Wakes, OnlyQueue
  <2> QED
    BY <1>4, <1>5, <2>2, <2>3
<1>8. CASE Looks(t)
  <2>1. obj[t] \in Conds
    BY <1>1, <1>8 DEF Looks, CallsTyped, CallOK
  <2>2. /\ \A y \in Objects \ {obj[t]} : queue'[y] = queue[y]
        /\ ToSet(queue'[obj[t]]) \subseteq ToSet(queue[obj[t]])
        /\ IsInjective(queue[obj[t]]) =>
             IsInjective(queue'[obj[t]]) /\ t \notin ToSet(queue'[obj[t]])
    BY <1>1, <1>8, <2>1, CheckRemoves DEF Looks, OnlyQueue
  <2>3. IsInjective(queue'[c]) /\ ToSet(queue'[c]) \subseteq ToSet(queue[c])
    BY <1>4, <2>2
  <2>4. t \notin ToSet(queue'[c])
    BY <1>4, <2>2 DEF Watches
  <2> QED
    BY <1>4, <1>5, <2>3, <2>4
<1>9. CASE Emptying(t)
  <2>1. PICK x \in Objects : Empties(x)
    BY <1>9 DEF Emptying
  <2>2. queue'[c] = << >> \/ queue'[c] = queue[c]
    BY <1>1, <2>1 DEF Empties, QueuesTyped
  <2>3. IsInjective(<< >>) /\ ToSet(<< >>) = {}
    BY DEF IsInjective, ToSet
  <2>4. ~Watches(t, c)
    BY <1>9 DEF Emptying, Watches
  <2> QED
    BY <1>4, <1>5, <2>2, <2>3, <2>4
<1>10. CASE Looks(t) \/ pc[t] \in {"condCheck", "condExpired"}
  <2>1. Looks(t)
    BY <1>1, <1>10, LookersLook DEF CondCheck, CondExpired, Goto, Looks, CallsTyped
  <2> QED
    BY <1>8, <2>1
<1>11. CASE (Takes(t) \/ Leaves(t)) /\ pc[t] \notin {"condCheck", "condExpired"}
  <2>1. queue' = queue
    BY <1>11 DEF Takes, Leaves
  <2>2. Watches(t, c) => Watches(t, c)'
    BY <1>11 DEF Takes, Leaves, AfterPark, Watches
  <2> QED
    BY <1>4, <1>5, <2>1, <2>2
<1> QED
  BY <1>2, <1>6, <1>7, <1>9, <1>10, <1>11 DEF QueueStep

\* What a step does to the threads that have been signalled: those it adds have left the
\* queue they looked at, and a thread that joins a queue is no longer one of them.
LEMMA SignalledStep ==
  ASSUME CallsTyped, QueuesTyped, QueuesWatched, NEW t \in Threads, Step(t), NEW u \in signalled'
  PROVE  \/ u \in signalled /\ (u = t => ~CondEnqueue(t))
         \/ /\ UNCHANGED <<pc, obj>>
            /\ \A c \in Conds : Watches(u, c) => u \notin ToSet(queue'[c])
<1>1. CASE MutexStep(t)
  <2>1. signalled' \subseteq signalled /\ ~CondEnqueue(t)
    BY <1>1 DEF MutexStep, LockBegin, TryLock, UnlockBegin, Acquire, Contend, LockEnqueue,
      Release, Clean, Pop, Begin, history, CondEnqueue
  <2> QED
    BY <2>1
<1>2. CASE SemStep(t) \/ WordStep(t) \/ Resume(t)
  <2>1. signalled' = signalled
    BY <1>2 DEF SemStep, SemInit, SemBegin, SemPost, SemTry, WordStep, WordWait, WordStore,
      WordEnqueue, WordWake, Resume, history
  <2>2. ~CondEnqueue(t)
    BY <1>2 DEF SemStep, SemInit, SemBegin, SemPost, SemTry, WordStep, WordWait, WordStore,
      WordEnqueue, WordWake, Resume, Begin, CondEnqueue
  <2> QED
    BY <2>1, <2>2
<1>3. CASE CondStep(t)
  <2>1. CASE CondEnqueue(t)
    BY <2>1 DEF CondEnqueue
  <2>2. CASE Elapse(t) \/ CondCheck(t) \/ CondExpired(t)
    BY <2>2 DEF Elapse, CondCheck, CondExpired, history, CondEnqueue
  <2>3. ASSUME NEW c \in Conds, CondSignal(t, c) \/ CondBroadcast(t, c), u \notin signalled
        PROVE  /\ UNCHANGED <<pc, obj>>
               /\ \A x \in Conds : Watches(u, x) => u \notin ToSet(queue'[x])
    <3>1. UNCHANGED <<pc, obj>> /\ u \in Waiting(c)
      BY <2>3 DEF CondSignal, CondBroadcast, callVars
    <3>2. u \notin ToSet(queue'[c])
      <4>1. queue[c] \in Seq(Threads) /\ IsInjective(queue[c])
        BY DEF QueuesTyped, QueuesWatched
      <4>2. CASE CondSignal(t, c)
        <5>1. queue[c] # << >> /\ u = Head(queue[c]) /\ WakeFirst(c)
          BY <2>3, <4>2 DEF CondSignal
        <5>2. queue'[c] = Tail(queue[c])
          BY <5>1 DEF WakeFirst, QueuesTyped
        <5> QED
          BY <4>1, <5>1, <5>2, TailLists
      <4>3. CASE CondBroadcast(t, c)
        <5> DEFINE N == Len(queue[c])
        <5>1. N \in Nat
          BY <4>1, ListedThreads
        <5>2. N \in 0 .. N
          <6> HIDE DEF N
          <6> QED
            BY <5>1
        <5>3. queue'[c] = << >>
          BY <4>3, <5>2, WakeManyWakes DEF CondBroadcast
        <5> QED
          BY <5>3 DEF ToSet
      <4> QED
        BY <2>3, <4>2, <4>3
    <3> QED
      BY <3>1, <3>2 DEF Waiting, Watches
  <2>4. ASSUME NEW c \in Conds, CondSignal(t, c) \/ CondBroadcast(t, c) \/ CondDestroy(t, c)
        PROVE  ~CondEnqueue(t) /\ (CondDestroy(t, c) => signalled' = signalled)
    BY <2>4 DEF CondSignal, CondBroadcast, CondDestroy, history, CondEnqueue
  <2> QED
    BY <1>3, <2>1, <2>2, <2>3, <2>4 DEF CondStep
<1> QED
  BY <1>1, <1>2, <1>3 DEF Step

\* A signalled thread is in no queue.
LEMMA GoneStep ==
  ASSUME "wait" \notin Uses, TypeOK, WaitsOK, QueuesWatched, SignalledGone,
         NEW t \in Threads, Step(t)
  PROVE  SignalledGone'
<1>1. CallsTyped /\ QueuesTyped /\ signalled \subseteq Threads
  BY TypeParts DEF ObjectsTyped, QueuesTyped
<1>2. SUFFICES ASSUME NEW c \in Conds, NEW u \in signalled', Watches(u, c)'
               PROVE  u \notin ToSet(queue'[c])
  BY DEF SignalledGone
<1>3. CASE UNCHANGED <<pc, obj>> /\ \A x \in Conds : Watches(u, x) => u \notin ToSet(queue'[x])
  BY <1>2, <1>3 DEF Watches
<1>4. CASE u = t /\ u \in signalled /\ ~CondEnqueue(t)
  <2>1. Watches(t, c) /\ queue' = queue
    BY <1>1, <1>2, <1>4, WatchersStep
  <2> QED
    BY <1>4, <2>1 DEF SignalledGone
<1>5. CASE u # t /\ u \in signalled
  <2>1. Watches(u, c)
    BY <1>1, <1>2, <1>5, OthersStay DEF Watches
  <2>2. u \notin ToSet(queue[c])
    BY <1>5, <2>1 DEF SignalledGone
  <2>3. ToSet(queue'[c]) \subseteq ToSet(queue[c]) \cup {t}
    <3>1. QueueStep(t)
      BY <1>1, QueueSteps
    <3>2. CASE Joins(t)
      BY <1>1, <3>2, JoinedObject, EnqueueAppends DEF OnlyQueue
    <3>3. CASE Waking(t)
      <4>1. PICK x \in Objects : Wakes(x)
        BY <1>1, <3>3 DEF Waking, CallsTyped, CallOK
      <4> QED
        BY <4>1 DEF Wakes, OnlyQueue
    <3>4. CASE Looks(t)
      <4>1. obj[t] \in Objects
        BY <1>1, <3>4 DEF Looks, CallsTyped, CallOK
      <4> QED
        BY <1>1, <3>4, <4>1, CheckRemoves DEF Looks, OnlyQueue
    <3>5. CASE Emptying(t)
      BY <1>1, <3>5 DEF Emptying, Empties, QueuesTyped, ToSet
    <3>6. CASE Takes(t) \/ Leaves(t)
      BY <3>6 DEF Takes, Leaves
    <3> QED
      BY <3>1, <3>2, <3>3, <3>4, <3>5, <3>6 DEF QueueStep
  <2> QED
    BY <1>5, <2>2, <2>3
<1> QED
  BY <1>1, <1>3, <1>4, <1>5, SignalledStep

\* Who has timed out is on the way to its mutex.
LEMMA TimedOutStep ==
  ASSUME TypeOK, TimedOutLocks, NEW t \in Threads, Step(t)
  PROVE  TimedOutLocks'
<1>1. CallsTyped /\ timed_out \subseteq Threads
  BY TypeParts DEF ObjectsTyped
<1>2. SUFFICES ASSUME t \in timed_out' PROVE pc'[t] \in {"cas", "enqueue", "lockParked"}
  <2>1. \A u \in timed_out' : u # t => u \in timed_out
    BY DEF Step, MutexStep, LockBegin, TryLock, UnlockBegin, Acquire, Contend, LockEnqueue,
      Release, Clean, Pop, CondStep, CondEnqueue, Elapse, CondCheck, CondExpired, CondSignal,
      CondBroadcast, CondDestroy, SemStep, SemInit, SemBegin, SemPost, SemTry, WordStep, WordWait,
      WordStore, WordEnqueue, WordWake, Resume, Return, Unlocked, Begin
  <2> QED
    BY <1>1, <2>1, OthersStay DEF TimedOutLocks
<1>3. t \in timed_out => pc[t] \in {"cas", "enqueue", "lockParked"}
  BY DEF TimedOutLocks
<1>4. ~Return(t)
  BY <1>2 DEF Return
<1>5. CASE t \in timed_out
  <2>1. CASE MutexStep(t)
    BY <1>1, <1>3, <1>4, <1>5, <2>1 DEF MutexStep, LockBegin, TryLock, UnlockBegin, Acquire,
      Contend, LockEnqueue, Release, Clean, Pop, Begin, Goto, CallsTyped
  <2>2. CASE CondStep(t)
    BY <1>1, <1>3, <1>5, <2>2 DEF CondStep, CondEnqueue, Elapse, CondCheck, CondExpired,
      CondSignal, CondBroadcast, CondDestroy
  <2>3. CASE SemStep(t) \/ WordStep(t)
    BY <1>3, <1>5, <2>3 DEF SemStep, SemInit, SemBegin, SemPost, SemTry, WordStep, WordWait,
      WordStore, WordEnqueue, WordWake, Begin
  <2>4. CASE Resume(t)
    BY <1>1, <1>3, <1>5, <2>4 DEF Resume, AfterPark, Goto, CallsTyped
  <2> QED
    BY <2>1, <2>2, <2>3, <2>4 DEF Step
<1>6. CASE t \notin timed_out
  <2>1. CondCheck(t) \/ CondExpired(t)
    BY <1>2, <1>6 DEF Step, MutexStep, LockBegin, TryLock, UnlockBegin, Acquire, Contend,
      LockEnqueue, Release, Clean, Pop, CondStep, CondEnqueue, Elapse, CondSignal,
      CondBroadcast, CondDestroy, SemStep, SemInit, SemBegin, SemPost, SemTry, WordStep, WordWait,
      WordStore, WordEnqueue, WordWake, Resume, Return, Unlocked, Begin
  <2> QED
    BY <1>1, <2>1 DEF CondCheck, CondExpired, Goto, CallsTyped
<1> QED
  BY <1>5, <1>6

\* A signalled thread does not time out.
LEMMA SignalledSucceeds ==
  ASSUME TypeOK, TimedInv, NEW t \in Threads, Step(t), NEW u \in Threads,
         pc[u] = "condCheck", pc'[u] = "cas", u \in signalled
  PROVE  u \notin timed_out'
<1>1. CallsTyped /\ QueuesTyped
  BY TypeParts DEF ObjectsTyped, QueuesTyped
<1>2. u = t
  BY <1>1, OthersStay
<1>3. CondCheck(u)
  BY <1>2, LookersLook DEF CondExpired
<1>4. obj[u] \in Conds
  BY <1>1 DEF CallsTyped, CallOK
<1>5. u \notin ToSet(queue[obj[u]]) /\ u \notin timed_out
  BY <1>4 DEF TimedInv, SignalledGone, TimedOutLocks, Watches
<1> QED
  BY <1>3, <1>5 DEF CondCheck

\* Where every wait has a timeout, sleepers can be found, and a wait that a signal took out
\* of the queue answers success however late it runs (hle_Cnd_timedwait, hle_Cnd_signal).
THEOREM TimedWaitsKeepSignals ==
  ASSUME "wait" \notin Uses
  PROVE  Spec => TimedWaitsAreSound
<1>1. Init => WaitsOK /\ TimedInv
  BY DEF Init, WaitsOK, WaitOK, TimedInv, QueuesWatched, SignalledGone, TimedOutLocks,
    IsInjective, ToSet
<1>2. TypeOK /\ WaitsOK /\ TimedInv /\ [Next]_vars => WaitsOK' /\ TimedInv'
  <2> SUFFICES ASSUME TypeOK, WaitsOK, TimedInv, [Next]_vars PROVE WaitsOK' /\ TimedInv'
    OBVIOUS
  <2>1. CASE UNCHANGED vars
    <3>1. UNCHANGED <<queue, pc, op, obj, timed_out, signalled>>
      BY <2>1 DEF vars, callVars, history
    <3> QED
      BY <3>1 DEF WaitsOK, WaitOK, TimedInv, QueuesWatched, SignalledGone, TimedOutLocks, Watches
  <2>2. ASSUME NEW t \in Threads, Step(t) PROVE WaitsOK' /\ TimedInv'
    BY <2>2, WaitsStep, WatchedStep, GoneStep, TimedOutStep DEF TimedInv
  <2> QED
    BY <2>1, <2>2 DEF Next, Step
<1>3. TypeOK /\ TimedInv /\ [Next]_vars =>
        [\A t \in Threads : pc[t] = "condCheck" /\ pc'[t] = "cas" /\ t \in signalled
           => t \notin timed_out']_vars
  BY SignalledSucceeds DEF Next, Step
<1>4. Spec => SignalledWaitSucceeds
  BY <1>1, <1>2, <1>3, TypeCorrect, PTL DEF Spec, SignalledWaitSucceeds
<1> QED
  BY <1>4, SleepersAreReachable DEF TimedWaitsAreSound
===============================================================================
