--------------------------- MODULE PageCacheProofs ---------------------------
(***************************************************************************)
(* The page cache, for any number of tasks, files and pages and a cache of *)
(* any size.                                                               *)
(*                                                                         *)
(* The list of entries is looked at as a set: the keys of its entries are  *)
(* distinct, so a step adds an entry, takes one away or changes one.  The  *)
(* argument is about who may do so: the holder of fat32_lock adds entries  *)
(* and changes what they hold, a pin keeps an entry, and pins are counted. *)
(***************************************************************************)
EXTENDS PageCache, FiniteSetTheorems, TLAPS

Data == Contents \cup {0}
Users == CacheTasks \cup {Nobody}
Entries == [key : CacheKeys, vnode : Users, data : Data, dirty : BOOLEAN, pin : Nat]
Scopes == CacheFiles \cup {"all"}

\* The jobs, by their fields.
OnPage == {"read", "write", "dirty", "landed", "failed", "drop"}
Jobs ==
    [pc : {"idle", "release"}] \cup
    [pc : OnPage, key : CacheKeys] \cup
    [pc : {"evict"}, key : CacheKeys, op : {"read", "write"}, page : Data, victim : Entries] \cup
    [pc : {"walk"}, scope : Scopes, at : Nat] \cup
    [pc : {"written", "unwritten"}, scope : Scopes, at : DOMAIN Buckets] \cup
    [pc : {"pinned", "writing"}, scope : Scopes, at : DOMAIN Buckets, through : Users]

TypeInv ==
    /\ cache \in Seq(Entries) /\ disk \in [CacheKeys -> Data] /\ expected \in [CacheKeys -> Data]
    /\ job \in [CacheTasks -> Jobs] /\ vnode \in [CacheTasks -> CacheFiles \cup {Nobody}]
    /\ fat_lock \in Users

\* The entries of a list.
Elems(s) == {s[i] : i \in DOMAIN s}
KeysOf(s) == {e.key : e \in Elems(s)}
Distinct(s) == \A i, j \in DOMAIN s : s[i].key = s[j].key => i = j

\* Who holds fat32_lock.
Holding == {"evict", "read", "write", "dirty", "landed", "failed", "drop", "writing"}
LockInv == \A t \in CacheTasks : job[t].pc \in Holding <=> fat_lock = t

\* The pins: one for each task that has the page.
Pins(t, k) ==
    \/ job[t].pc \in {"read", "write", "dirty", "landed", "failed"} /\ job[t].key = k
    \/ job[t].pc \in {"pinned", "writing", "written", "unwritten"} /\ Buckets[job[t].at] = k
Pinners(k) == {t \in CacheTasks : Pins(t, k)}
PinAt(k) ==
    /\ \A e \in Elems(cache) : e.key = k => e.pin = Cardinality(Pinners(k))
    /\ k \notin KeysOf(cache) => Pinners(k) = {}
PinInv == \A k \in CacheKeys : PinAt(k)

\* The pages that a task is writing, and those whose write has failed.
Works(t, k) == job[t].pc \in {"dirty", "landed", "failed"} /\ job[t].key = k
Drops(t, k) == job[t].pc = "drop" /\ job[t].key = k

\* What a page that is not set apart holds, on the disk and in the cache.
DataAt(k) ==
    (k \notin spoiled /\ \A t \in CacheTasks : ~Works(t, k)) =>
        /\ disk[k] = expected[k]
        /\ (\A t \in CacheTasks : ~Drops(t, k)) =>
               \A e \in Elems(cache) : e.key = k => e.data = expected[k]
DataInv == \A k \in CacheKeys : DataAt(k)

\* The page that is being replaced, and the one that replaces it.
EvictAt(t) ==
    job[t].pc = "evict" =>
        /\ job[t].key \notin KeysOf(cache) /\ job[t].page = disk[job[t].key]
        /\ job[t].victim.key \notin spoiled => job[t].victim.data = expected[job[t].victim.key]
        /\ job[t].victim.key # job[t].key
EvictInv == \A t \in CacheTasks : EvictAt(t)

\* A write that has landed is on the disk.
LandedAt(t) ==
    job[t].pc = "landed" =>
        \A e \in Elems(cache) : e.key = job[t].key => e.data = disk[e.key]
LandedInv == \A t \in CacheTasks : LandedAt(t)

CacheInv == TypeInv /\ Distinct(cache) /\ LockInv /\ PinInv /\ DataInv /\ EvictInv /\ LandedInv

(***************************************************************************)
(* Lists of entries with distinct keys.                                    *)
(***************************************************************************)
LEMMA SameKey ==
    ASSUME NEW s, Distinct(s), NEW a \in Elems(s), NEW b \in Elems(s), a.key = b.key
    PROVE  a = b
  BY Zenon DEF Distinct, Elems

LEMMA ConcatFacts ==
    ASSUME NEW S, NEW a \in Seq(S), NEW b \in Seq(S)
    PROVE  a \o b \in Seq(S) /\ Len(a \o b) = Len(a) + Len(b)
  BY SMTT(20)

LEMMA PushFacts ==
    ASSUME NEW S, NEW s \in Seq(S), NEW e \in S
    PROVE  /\ <<e>> \o s \in Seq(S) /\ Elems(<<e>> \o s) = {e} \cup Elems(s)
           /\ Distinct(s) /\ e.key \notin KeysOf(s) => Distinct(<<e>> \o s)
  <1> DEFINE q == <<e>> \o s
             n == Len(s)
  <1>1. /\ n \in Nat /\ DOMAIN s = 1 .. n /\ q \in Seq(S) /\ DOMAIN q = 1 .. n + 1
        /\ q[1] = e /\ \A i \in 1 .. n : q[i + 1] = s[i]
    OBVIOUS
  <1> HIDE DEF q, n
  <1>2. \A i \in 1 .. n + 1 : i = 1 \/ (i - 1 \in 1 .. n /\ (i - 1) + 1 = i)
    BY <1>1
  <1>3. 1 \in 1 .. n + 1 /\ \A i \in 1 .. n : i + 1 \in 1 .. n + 1
    BY <1>1
  <1>4. \A i \in 1 .. n + 1 : i = 1 \/ (i - 1 \in 1 .. n /\ q[i] = s[i - 1])
    <2> TAKE i \in 1 .. n + 1
    <2>1. CASE i = 1
      BY <2>1
    <2>2. CASE i - 1 \in 1 .. n /\ (i - 1) + 1 = i
      BY <1>1, <2>2, Zenon
    <2> QED
      BY <1>2, <2>1, <2>2, Zenon
  <1>5. Elems(q) = {e} \cup Elems(s)
    <2>1. ASSUME NEW x \in Elems(q) PROVE x \in {e} \cup Elems(s)
      <3>1. PICK i \in 1 .. n + 1 : x = q[i]
        BY <1>1, Zenon DEF Elems
      <3>2. q[i] = e \/ \E j \in 1 .. n : q[i] = s[j]
        BY <1>1, <1>4, Zenon
      <3> QED
        BY <1>1, <3>1, <3>2, Zenon DEF Elems
    <2>2. ASSUME NEW x \in {e} \cup Elems(s) PROVE x \in Elems(q)
      BY <1>1, <1>3, Zenon DEF Elems
    <2> QED
      BY <2>1, <2>2, Zenon
  <1>6. ASSUME Distinct(s), e.key \notin KeysOf(s) PROVE Distinct(q)
    <2>1. \A j \in 1 .. n : s[j].key # e.key
      BY <1>1, <1>6, Zenon DEF KeysOf, Elems
    <2>2. ASSUME NEW i \in 1 .. n + 1, NEW j \in 1 .. n + 1, q[i].key = q[j].key PROVE i = j
      <3>1. CASE i = 1 \/ j = 1
        BY <1>1, <1>4, <2>1, <2>2, <3>1, Zenon
      <3>2. CASE i # 1 /\ j # 1
        <4>1. i - 1 \in 1 .. n /\ j - 1 \in 1 .. n /\ q[i] = s[i - 1] /\ q[j] = s[j - 1]
          BY <1>4, <3>2, Zenon
        <4>2. i - 1 = j - 1
          BY <1>1, <1>6, <2>2, <4>1, Zenon DEF Distinct
        <4> QED
          BY <4>2
      <3> QED
        BY <3>1, <3>2, Zenon
    <2> QED
      BY <1>1, <2>2, Zenon DEF Distinct
  <1> QED
    BY <1>1, <1>5, <1>6, Zenon DEF q

LEMMA CutFacts ==
    ASSUME NEW S, NEW s \in Seq(S), Distinct(s), NEW p \in DOMAIN s
    PROVE  /\ Cut(s, p) \in Seq(S) /\ Distinct(Cut(s, p))
           /\ Elems(Cut(s, p)) = {e \in Elems(s) : e.key # s[p].key}
  <1> DEFINE q == Cut(s, p)
             n == Len(s)
             f(i) == IF i < p THEN i ELSE i + 1
  <1>1. n \in Nat /\ DOMAIN s = 1 .. n /\ p \in 1 .. n
    OBVIOUS
  <1>2. q \in Seq(S) /\ DOMAIN q = 1 .. n - 1 /\ \A i \in 1 .. n - 1 : q[i] = s[f(i)]
    <2> DEFINE a == SubSeq(s, 1, p - 1)
               b == SubSeq(s, p + 1, n)
    <2>1. a \in Seq(S) /\ Len(a) = p - 1 /\ \A i \in 1 .. p - 1 : a[i] = s[i]
      BY <1>1, SMTT(20)
    <2>2. b \in Seq(S) /\ Len(b) = n - p /\ \A i \in 1 .. n - p : b[i] = s[p + i]
      BY <1>1, SMTT(20)
    <2>3. q = a \o b
      BY ZenonT(30) DEF Cut
    <2> HIDE DEF a, b, q
    <2>4. q \in Seq(S) /\ DOMAIN q = 1 .. n - 1
      <3>0. a \o b \in Seq(S) /\ Len(a \o b) = Len(a) + Len(b)
        BY <2>1, <2>2, ConcatFacts, Zenon
      <3>1. q \in Seq(S) /\ Len(q) = (p - 1) + (n - p)
        BY <2>1, <2>2, <2>3, <3>0, Zenon
      <3>2. (p - 1) + (n - p) = n - 1
        BY <1>1
      <3> QED
        BY <3>1, <3>2
    <2>5. ASSUME NEW i \in 1 .. n - 1 PROVE q[i] = s[f(i)]
      <3>1. CASE i < p
        <4>1. i \in 1 .. p - 1
          BY <1>1, <3>1
        <4>2. q[i] = a[i]
          BY <2>1, <2>2, <2>3, <4>1
        <4> QED
          BY <2>1, <3>1, <4>1, <4>2
      <3>2. CASE ~(i < p)
        <4>1. i - (p - 1) \in 1 .. n - p /\ p + (i - (p - 1)) = i + 1
          BY <1>1, <3>2
        <4>2. q[i] = b[i - (p - 1)]
          BY <1>1, <2>1, <2>2, <2>3, <3>2, SMTT(30)
        <4>3. b[i - (p - 1)] = s[p + (i - (p - 1))]
          BY <2>2, <4>1, Zenon
        <4> QED
          BY <3>2, <4>1, <4>2, <4>3
      <3> QED
        BY <3>1, <3>2, Zenon
    <2> QED
      BY <2>4, <2>5, Zenon
  <1>3. \A i \in 1 .. n - 1 : f(i) \in 1 .. n /\ f(i) # p
    BY <1>1
  <1>4. \A i, j \in 1 .. n - 1 : f(i) = f(j) => i = j
    BY <1>1
  <1>5. \A j \in 1 .. n : j # p => \E i \in 1 .. n - 1 : f(i) = j
    <2> TAKE j \in 1 .. n
    <2> HAVE j # p
    <2>1. CASE j < p
      <3>1. j \in 1 .. n - 1 /\ f(j) = j
        BY <1>1, <2>1
      <3> QED
        BY <3>1, Zenon
    <2>2. CASE j > p
      <3>1. j - 1 \in 1 .. n - 1 /\ f(j - 1) = j
        BY <1>1, <2>2
      <3> QED
        BY <3>1, Zenon
    <2> QED
      BY <1>1, <2>1, <2>2
  <1> HIDE DEF q, n, f
  <1>6. Distinct(q)
    <2>1. ASSUME NEW i \in 1 .. n - 1, NEW j \in 1 .. n - 1, q[i].key = q[j].key PROVE i = j
      BY <1>1, <1>2, <1>3, <1>4, <2>1, ZenonT(40) DEF Distinct
    <2> QED
      BY <1>2, <2>1, Zenon DEF Distinct
  <1>7. Elems(q) = {e \in Elems(s) : e.key # s[p].key}
    <2>1. ASSUME NEW x \in Elems(q) PROVE x \in Elems(s) /\ x.key # s[p].key
      <3>1. PICK i \in 1 .. n - 1 : x = s[f(i)]
        BY <1>2, Zenon DEF Elems
      <3>2. f(i) \in 1 .. n /\ f(i) # p
        BY <1>3, Zenon
      <3> QED
        BY <1>1, <3>1, <3>2, Zenon DEF Distinct, Elems
    <2>2. ASSUME NEW x \in Elems(s), x.key # s[p].key PROVE x \in Elems(q)
      <3>1. PICK j \in 1 .. n : x = s[j]
        BY <1>1, Zenon DEF Elems
      <3>2. PICK i \in 1 .. n - 1 : f(i) = j
        BY <1>5, <2>2, <3>1, Zenon
      <3> QED
        BY <1>2, <3>1, <3>2, Zenon DEF Elems
    <2> QED
      BY <2>1, <2>2, Zenon
  <1> QED
    BY <1>2, <1>6, <1>7, Zenon DEF q

Put(s, p, e) == [s EXCEPT ![p] = e]

LEMMA PutFacts ==
    ASSUME NEW S, NEW s \in Seq(S), Distinct(s), NEW p \in DOMAIN s, NEW e \in S, e.key = s[p].key
    PROVE  /\ Put(s, p, e) \in Seq(S) /\ Distinct(Put(s, p, e))
           /\ Elems(Put(s, p, e)) = {x \in Elems(s) : x.key # e.key} \cup {e}
  <1> DEFINE q == [s EXCEPT ![p] = e]
  <1>1. q \in Seq(S) /\ DOMAIN q = DOMAIN s
    OBVIOUS
  <1>2. q[p] = e /\ \A i \in DOMAIN s \ {p} : q[i] = s[i]
    OBVIOUS
  <1> HIDE DEF q
  <1>3. \A i \in DOMAIN s : q[i].key = s[i].key
    BY <1>2, Zenon
  <1>4. Distinct(q)
    BY <1>1, <1>3, Zenon DEF Distinct
  <1>5. Elems(q) = {x \in Elems(s) : x.key # e.key} \cup {e}
    <2>1. ASSUME NEW x \in Elems(q) PROVE x \in {y \in Elems(s) : y.key # e.key} \cup {e}
      <3>1. PICK i \in DOMAIN s : x = q[i]
        BY <1>1, Zenon DEF Elems
      <3>2. CASE i = p
        BY <1>2, <3>1, <3>2, Zenon
      <3>3. CASE i # p
        BY <1>2, <3>1, <3>3, Zenon DEF Elems, Distinct
      <3> QED
        BY <3>2, <3>3, Zenon
    <2>2. ASSUME NEW x \in Elems(s), x.key # e.key PROVE x \in Elems(q)
      BY <1>1, <1>2, <2>2, Zenon DEF Elems
    <2>3. e \in Elems(q)
      BY <1>1, <1>2, Zenon DEF Elems
    <2> QED
      BY <2>1, <2>2, <2>3, Zenon
  <1> QED
    BY <1>1, <1>4, <1>5, Zenon DEF q, Put

LEMMA WhereFacts ==
    ASSUME Distinct(cache), cache \in Seq(Entries), NEW k
    PROVE  /\ Cached(k) <=> k \in KeysOf(cache)
           /\ Cached(k) => /\ Where(k) \in DOMAIN cache /\ Entry(k) = cache[Where(k)]
                           /\ Entry(k) \in Elems(cache) /\ Entry(k).key = k /\ Entry(k) \in Entries
                           /\ \A e \in Elems(cache) : e.key = k => e = Entry(k)
  <1>1. Cached(k) <=> k \in KeysOf(cache)
    BY Zenon DEF Cached, KeysOf, Elems
  <1>2. ASSUME Cached(k)
        PROVE  Where(k) \in DOMAIN cache /\ cache[Where(k)].key = k
    <2>1. PICK i \in DOMAIN cache : cache[i].key = k
      BY <1>2, Zenon DEF Cached
    <2>2. \A j \in 1 .. (i - 1) : cache[j].key # k
      <3>1. \A j \in 1 .. (i - 1) : j \in DOMAIN cache /\ j # i
        BY <2>1
      <3> QED
        BY <2>1, <3>1, Zenon DEF Distinct
    <2>3. \E j \in DOMAIN cache : cache[j].key = k /\ \A m \in 1 .. (j - 1) : cache[m].key # k
      BY <2>1, <2>2, Zenon
    <2> QED
      BY <2>3, Zenon DEF Where
  <1>3. \A i \in DOMAIN cache : cache[i] \in Entries
    OBVIOUS
  <1> QED
    <2>1. ASSUME Cached(k)
          PROVE  /\ Where(k) \in DOMAIN cache /\ Entry(k) = cache[Where(k)]
                 /\ Entry(k) \in Elems(cache) /\ Entry(k).key = k /\ Entry(k) \in Entries
      BY <1>2, <1>3, <2>1, Zenon DEF Entry, Elems
    <2> QED
      BY <1>1, <2>1, SameKey, Zenon

\* The places of a set of indices, counted from 0.
Rank(S, i) == Cardinality({j \in S : j < i})

LEMMA RankFacts ==
    ASSUME NEW n \in Nat, NEW S \in SUBSET (1 .. n)
    PROVE  /\ Cardinality(S) \in Nat
           /\ \A i, j \in S : Rank(S, i) = Rank(S, j) => i = j
           /\ \A m \in 1 .. Cardinality(S) : \E i \in S : Rank(S, i) = m - 1
           /\ \A i \in S : \E m \in 1 .. Cardinality(S) : Rank(S, i) = m - 1
           /\ \A i, j \in S : i < j => Rank(S, i) < Rank(S, j)
           /\ \A i \in S : Rank(S, i) \in 0 .. Cardinality(S) - 1
  <1> DEFINE Below(i) == {j \in S : j < i}
             c == Cardinality(S)
  <1>1. IsFiniteSet(S) /\ c \in Nat
    <2>1. IsFiniteSet(1 .. n)
      BY FS_Interval
    <2> QED
      BY <2>1, FS_Subset, FS_CardinalityType, Zenon
  <1>2. ASSUME NEW i \in S, NEW T \in SUBSET S, i \in T, \A j \in S : j < i => j \in T
        PROVE  Rank(S, i) \in Nat /\ Cardinality(T) \in Nat /\ Rank(S, i) < Cardinality(T)
    <2>1. IsFiniteSet(T) /\ Cardinality(T) \in Nat
      BY <1>1, FS_Subset, FS_CardinalityType, Zenon
    <2>2. IsFiniteSet(Below(i)) /\ Cardinality(Below(i)) \in Nat
      <3>1. Below(i) \in SUBSET S
        OBVIOUS
      <3> HIDE DEF Below
      <3> QED
        BY <1>1, <3>1, FS_Subset, FS_CardinalityType, Zenon
    <2>3. i \notin Below(i) /\ Below(i) \cup {i} \in SUBSET T
      <3>1. i \in Int /\ ~(i < i)
        OBVIOUS
      <3>2. i \notin Below(i)
        BY <3>1, Zenon
      <3> QED
        BY <1>2, <3>2, Zenon
    <2>4. Rank(S, i) = Cardinality(Below(i))
      BY Zenon DEF Rank
    <2> HIDE DEF Below
    <2>5. Cardinality(Below(i) \cup {i}) = Cardinality(Below(i)) + 1
      BY <2>2, <2>3, FS_AddElement, Zenon
    <2>6. Cardinality(Below(i) \cup {i}) <= Cardinality(T)
      BY <2>1, <2>3, FS_Subset, Zenon
    <2> QED
      BY <2>1, <2>2, <2>4, <2>5, <2>6
  <1>3. ASSUME NEW i \in S, NEW j \in S, i < j PROVE Rank(S, i) < Rank(S, j)
    <2>1. Below(j) \in SUBSET S /\ i \in Below(j) /\ \A m \in S : m < i => m \in Below(j)
      BY <1>3
    <2>2. Rank(S, j) = Cardinality(Below(j))
      BY Zenon DEF Rank
    <2> HIDE DEF Below
    <2> QED
      BY <1>2, <2>1, <2>2, Zenon
  <1>4. \A i \in S : Rank(S, i) \in 0 .. c - 1
    <2> TAKE i \in S
    <2>1. Rank(S, i) \in Nat /\ Rank(S, i) < c
      BY <1>2, Zenon
    <2> QED
      BY <1>1, <2>1
  <1>5. \A i, j \in S : Rank(S, i) = Rank(S, j) => i = j
    <2> TAKE i, j \in S
    <2>1. i < j \/ j < i \/ i = j
      OBVIOUS
    <2>2. Rank(S, i) \in Int /\ Rank(S, j) \in Int
      BY <1>1, <1>4
    <2> QED
      BY <1>3, <2>1, <2>2
  <1>6. \A m \in 0 .. c - 1 : \E i \in S : Rank(S, i) = m
    <2> DEFINE f == [i \in S |-> Rank(S, i)]
    <2>1. f \in Injection(S, 0 .. c - 1)
      BY <1>4, <1>5, Zenon DEF Injection, IsInjective
    <2>2. IsFiniteSet(0 .. c - 1) /\ Cardinality(0 .. c - 1) = c
      <3> HIDE DEF c
      <3>1. 0 \in Int /\ c - 1 \in Int
        BY <1>1
      <3>2. /\ IsFiniteSet(0 .. c - 1)
            /\ Cardinality(0 .. c - 1) = IF 0 > c - 1 THEN 0 ELSE (c - 1) - 0 + 1
        BY <3>1, FS_Interval, Zenon
      <3> QED
        BY <1>1, <3>2
    <2> HIDE DEF f
    <2>3. f \in Surjection(S, 0 .. c - 1)
      BY <2>1, <2>2, FS_Injection, Zenon DEF c
    <2> QED
      BY <2>3, Zenon DEF Surjection, f
  <1>7. \A m \in 1 .. c : m - 1 \in 0 .. c - 1
    BY <1>1
  <1>8. \A r \in 0 .. c - 1 : r + 1 \in 1 .. c /\ r = (r + 1) - 1
    BY <1>1
  <1> HIDE DEF c
  <1>9. \A i \in S : \E m \in 1 .. c : Rank(S, i) = m - 1
    BY <1>4, <1>8, Zenon
  <1> QED
    BY <1>1, <1>3, <1>4, <1>5, <1>6, <1>7, <1>9, Zenon DEF c

\* The last of a set of indices.
LEMMA LastOne ==
    ASSUME NEW n \in Nat, NEW S \in SUBSET (1 .. n), S # {}
    PROVE  \E i \in S : \A j \in S : j <= i
  <1> DEFINE c == Cardinality(S)
  <1>1. c \in Nat \ {0}
    <2>1. IsFiniteSet(1 .. n)
      BY FS_Interval
    <2>2. IsFiniteSet(S)
      BY <2>1, FS_Subset, Zenon
    <2> QED
      BY <2>2, RankFacts, FS_EmptySet, Zenon
  <1> HIDE DEF c
  <1>2. c \in 1 .. c /\ \A r \in 0 .. c - 1 : ~(c - 1 < r)
    BY <1>1
  <1>3. PICK i \in S : Rank(S, i) = c - 1
    BY <1>2, RankFacts, Zenon DEF c
  <1>4. ASSUME NEW j \in S PROVE j <= i
    <2>1. ~(i < j)
      <3>0. i < j => Rank(S, i) < Rank(S, j)
        BY RankFacts, Zenon
      <3>1. i < j => c - 1 < Rank(S, j)
        BY <1>3, <3>0, Zenon
      <3>2. Rank(S, j) \in 0 .. c - 1
        BY RankFacts, Zenon DEF c
      <3> QED
        BY <1>2, <3>1, <3>2, Zenon
    <2> QED
      BY <2>1
  <1> QED
    BY <1>4, Zenon

\* unhook_matching leaves the entries of other files and the pinned ones.
LEMMA KeptFacts ==
    ASSUME Distinct(cache), cache \in Seq(Entries), NEW f
    PROVE  /\ Kept(f) \in Seq(Entries) /\ Distinct(Kept(f))
           /\ Elems(Kept(f)) = {e \in Elems(cache) : e.key[1] # f \/ e.pin # 0}
  <1> DEFINE S == Staying(f)
             c == Cardinality(S)
             q == Kept(f)
             nth(m) == CHOOSE i \in S : Rank(S, i) = m - 1
  <1>1. /\ Len(cache) \in Nat /\ DOMAIN cache = 1 .. Len(cache) /\ S \in SUBSET (1 .. Len(cache))
        /\ \A i \in DOMAIN cache : cache[i] \in Entries
    BY DEF Staying
  <1>2. /\ c \in Nat /\ \A i, j \in S : Rank(S, i) = Rank(S, j) => i = j
        /\ \A m \in 1 .. c : \E i \in S : Rank(S, i) = m - 1
        /\ \A i \in S : \E m \in 1 .. c : Rank(S, i) = m - 1
    <2> HIDE DEF S
    <2> QED
      BY <1>1, RankFacts, Zenon
  <1>3. q = [m \in 1 .. c |-> cache[nth(m)]]
    BY Zenon DEF Kept, Rank
  <1>4. \A m \in 1 .. c : nth(m) \in S /\ Rank(S, nth(m)) = m - 1
    <2> HIDE DEF S, c
    <2> QED
      BY <1>2, Zenon
  <1>5. \A i \in S : i \in DOMAIN cache /\ (cache[i].key[1] # f \/ cache[i].pin # 0)
    BY Zenon DEF Staying
  <1>6. \A i \in DOMAIN cache : (cache[i].key[1] # f \/ cache[i].pin # 0) => i \in S
    BY Zenon DEF Staying
  <1> HIDE DEF S, nth, q
  <1>7. /\ DOMAIN q = 1 .. c /\ \A m \in 1 .. c : q[m] = cache[nth(m)] /\ q[m] \in Entries
    BY <1>1, <1>3, <1>4, <1>5, Zenon
  <1> HIDE DEF c
  <1>8. q \in Seq(Entries)
    <2>1. q \in [1 .. c -> Entries]
      BY <1>3, <1>7, Zenon
    <2> QED
      BY <1>2, <2>1
  <1>9. Distinct(q)
    <2>1. ASSUME NEW i \in 1 .. c, NEW j \in 1 .. c, q[i].key = q[j].key PROVE i = j
      <3>0. /\ nth(i) \in DOMAIN cache /\ nth(j) \in DOMAIN cache
            /\ cache[nth(i)].key = cache[nth(j)].key
        BY <1>4, <1>5, <1>7, <2>1, Zenon
      <3>1. nth(i) = nth(j)
        BY <3>0, Zenon DEF Distinct
      <3>2. i - 1 = j - 1
        BY <1>4, <3>1, Zenon
      <3> QED
        BY <3>2
    <2> QED
      BY <1>7, <2>1, Zenon DEF Distinct
  <1>10. Elems(q) = {e \in Elems(cache) : e.key[1] # f \/ e.pin # 0}
    <2>1. ASSUME NEW x \in Elems(q) PROVE x \in Elems(cache) /\ (x.key[1] # f \/ x.pin # 0)
      BY <1>4, <1>5, <1>7, Zenon DEF Elems
    <2>2. ASSUME NEW x \in Elems(cache), x.key[1] # f \/ x.pin # 0 PROVE x \in Elems(q)
      <3>1. PICK i \in S : x = cache[i]
        BY <1>6, <2>2, Zenon DEF Elems
      <3>3. PICK m \in 1 .. c : Rank(S, i) = m - 1
        BY <1>2, Zenon
      <3>4. nth(m) = i
        BY <1>2, <1>4, <3>3, Zenon
      <3> QED
        BY <1>7, <3>1, <3>4, Zenon DEF Elems
    <2> QED
      BY <2>1, <2>2, Zenon
  <1> QED
    BY <1>8, <1>9, <1>10, Zenon DEF q

(***************************************************************************)
(* A step of the cache: the entries of the pages of K make way for N.      *)
(***************************************************************************)
Swap(K, N) ==
    /\ cache' \in Seq(Entries) /\ Distinct(cache')
    /\ Elems(cache') = {x \in Elems(cache) : x.key \notin K} \cup N

LEMMA SwapNone == ASSUME CacheInv, cache' = cache PROVE Swap({}, {})
  BY Zenon DEF CacheInv, TypeInv, Swap

LEMMA SwapChange ==
    ASSUME CacheInv, NEW k, Cached(k), NEW e \in Entries, e.key = k, Change(k, e)
    PROVE  Swap({k}, {e})
  <1>1. cache \in Seq(Entries) /\ Distinct(cache)
    BY Zenon DEF CacheInv, TypeInv
  <1>2. Where(k) \in DOMAIN cache /\ cache[Where(k)].key = k
    BY <1>1, WhereFacts, Zenon
  <1>3. cache' = [cache EXCEPT ![Where(k)] = e]
    BY Zenon DEF Change
  <1>4. /\ cache' \in Seq(Entries) /\ Distinct(cache')
        /\ Elems(cache') = {x \in Elems(cache) : x.key # e.key} \cup {e}
    <2>1. e.key = cache[Where(k)].key
      BY <1>2, Zenon
    <2> DEFINE p == Where(k)
               q == Put(cache, p, e)
    <2>2. p \in DOMAIN cache /\ e.key = cache[p].key
      BY <1>2, <2>1, Zenon
    <2> HIDE DEF p
    <2>3. /\ q \in Seq(Entries) /\ Distinct(q)
          /\ Elems(q) = {x \in Elems(cache) : x.key # e.key} \cup {e}
      BY <1>1, <2>2, PutFacts
    <2> QED
      BY <1>3, <2>3, Zenon DEF p, Put
  <1>5. {x \in Elems(cache) : x.key # e.key} = {x \in Elems(cache) : x.key \notin {k}}
    OBVIOUS
  <1> QED
    BY <1>4, <1>5, Zenon DEF Swap

LEMMA SwapCut ==
    ASSUME CacheInv, NEW p \in DOMAIN cache, cache' = Cut(cache, p)
    PROVE  Swap({cache[p].key}, {})
  <1>1. cache \in Seq(Entries) /\ Distinct(cache)
    BY Zenon DEF CacheInv, TypeInv
  <1>2. /\ cache' \in Seq(Entries) /\ Distinct(cache')
        /\ Elems(cache') = {x \in Elems(cache) : x.key # cache[p].key}
    BY <1>1, CutFacts
  <1>3. Elems(cache') = {x \in Elems(cache) : x.key \notin {cache[p].key}} \cup {}
    BY <1>2
  <1> QED
    BY <1>2, <1>3, Zenon DEF Swap

LEMMA SwapPush ==
    ASSUME CacheInv, NEW e \in Entries, e.key \notin KeysOf(cache), cache' = <<e>> \o cache
    PROVE  Swap({e.key}, {e})
  <1>1. cache \in Seq(Entries) /\ Distinct(cache)
    BY Zenon DEF CacheInv, TypeInv
  <1>2. cache' \in Seq(Entries) /\ Elems(cache') = {e} \cup Elems(cache) /\ Distinct(cache')
    BY <1>1, PushFacts, Zenon
  <1>3. \A x \in Elems(cache) : x.key \notin {e.key}
    BY Zenon DEF KeysOf
  <1> QED
    BY <1>2, <1>3, Zenon DEF Swap

LEMMA SwapReplace ==
    ASSUME CacheInv, NEW p \in DOMAIN cache, NEW e \in Entries,
           e.key = cache[p].key \/ e.key \notin KeysOf(cache), cache' = <<e>> \o Cut(cache, p)
    PROVE  Swap({cache[p].key, e.key}, {e})
  <1> DEFINE c == Cut(cache, p)
             v == cache[p].key
  <1>1. cache \in Seq(Entries) /\ Distinct(cache)
    BY Zenon DEF CacheInv, TypeInv
  <1>2. c \in Seq(Entries) /\ Distinct(c) /\ Elems(c) = {x \in Elems(cache) : x.key # v}
    BY <1>1, CutFacts
  <1>3. cache' = <<e>> \o c
    OBVIOUS
  <1> HIDE DEF c, v
  <1>4. \A x \in Elems(c) : x.key # e.key
    BY <1>2, Zenon DEF KeysOf, v
  <1>5. e.key \notin KeysOf(c)
    BY <1>4, Zenon DEF KeysOf
  <1>6. cache' \in Seq(Entries) /\ Elems(cache') = {e} \cup Elems(c) /\ Distinct(cache')
    <2>1. /\ <<e>> \o c \in Seq(Entries) /\ Elems(<<e>> \o c) = {e} \cup Elems(c)
          /\ Distinct(<<e>> \o c)
      BY <1>2, <1>5, PushFacts, Zenon
    <2> QED
      BY <1>3, <2>1, Zenon
  <1>7. Elems(c) = {x \in Elems(cache) : x.key \notin {v, e.key}}
    BY <1>2, <1>4, Zenon
  <1> QED
    BY <1>6, <1>7 DEF Swap, v

LEMMA SwapKept ==
    ASSUME CacheInv, NEW f, cache' = Kept(f)
    PROVE  Swap({e.key : e \in {x \in Elems(cache) : x.key[1] = f /\ x.pin = 0}}, {})
  <1> DEFINE G == {x \in Elems(cache) : x.key[1] = f /\ x.pin = 0}
             K == {e.key : e \in G}
  <1>1. cache \in Seq(Entries) /\ Distinct(cache)
    BY Zenon DEF CacheInv, TypeInv
  <1>2. /\ cache' \in Seq(Entries) /\ Distinct(cache')
        /\ Elems(cache') = {e \in Elems(cache) : e.key[1] # f \/ e.pin # 0}
    BY <1>1, KeptFacts, Zenon
  <1>3. \A e \in Elems(cache) : e.key \in K <=> e \in G
    BY <1>1, SameKey, Zenon
  <1>4. \A e \in Elems(cache) : e.key \notin K <=> (e.key[1] # f \/ e.pin # 0)
    BY <1>3, Zenon
  <1> HIDE DEF K
  <1>5. Swap(K, {})
    BY <1>2, <1>4, Zenon DEF Swap
  <1> QED
    BY <1>5, Zenon DEF K

(***************************************************************************)
(* Pages that a step leaves alone.                                         *)
(***************************************************************************)
SameEntry(k) ==
    /\ \A e \in Elems(cache') : e.key = k => \E x \in Elems(cache) :
           x.key = k /\ x.pin = e.pin /\ x.data = e.data
    /\ k \in KeysOf(cache') <=> k \in KeysOf(cache)
SameData(k) == \A e \in Elems(cache') : e.key = k => \E x \in Elems(cache) :
    x.key = k /\ x.data = e.data

LEMMA SwapElsewhere ==
    ASSUME NEW K, NEW N, Swap(K, N), \A x \in N : x.key \in K, NEW k, k \notin K
    PROVE  SameEntry(k) /\ SameData(k)
  <1>1. \A e \in Elems(cache') : e.key = k => e \in Elems(cache)
    BY Zenon DEF Swap
  <1>2. \A e \in Elems(cache) : e.key = k => e \in Elems(cache')
    BY Zenon DEF Swap
  <1>3. k \in KeysOf(cache') <=> k \in KeysOf(cache)
    BY <1>1, <1>2, Zenon DEF KeysOf
  <1> QED
    BY <1>1, <1>3, Zenon DEF SameEntry, SameData

\* One task moves on.
Turns(t) == job' \in [CacheTasks -> Jobs] /\ \A u \in CacheTasks \ {t} : job'[u] = job[u]

LEMMA TurnFacts ==
    ASSUME job \in [CacheTasks -> Jobs], NEW t \in CacheTasks, NEW r \in Jobs,
           job' = [job EXCEPT ![t] = r]
    PROVE  Turns(t) /\ job'[t] = r
  BY Zenon DEF Turns

LEMMA StillFacts ==
    ASSUME job \in [CacheTasks -> Jobs], NEW t \in CacheTasks, job' = job
    PROVE  Turns(t) /\ job'[t] = job[t]
  BY Zenon DEF Turns

LEMMA PinnersStay ==
    ASSUME NEW t \in CacheTasks, Turns(t), NEW k, Pins(t, k)' <=> Pins(t, k)
    PROVE  Pinners(k)' = Pinners(k)
  <1>1. ASSUME NEW u \in CacheTasks PROVE Pins(u, k)' <=> Pins(u, k)
    <2>1. CASE u = t
      BY <2>1, Zenon
    <2>2. CASE u # t
      BY <2>2, Zenon DEF Turns, Pins
    <2> QED
      BY <2>1, <2>2, Zenon
  <1> QED
    BY <1>1, Zenon DEF Pinners

LEMMA PinnersMore ==
    ASSUME NEW t \in CacheTasks, Turns(t), NEW k, Pins(t, k)', ~Pins(t, k)
    PROVE  /\ Pinners(k)' = Pinners(k) \cup {t} /\ Cardinality(Pinners(k)) \in Nat
           /\ Cardinality(Pinners(k)') = Cardinality(Pinners(k)) + 1
  <1>1. ASSUME NEW u \in CacheTasks, u # t PROVE Pins(u, k)' <=> Pins(u, k)
    BY <1>1, Zenon DEF Turns, Pins
  <1>2. Pinners(k)' = Pinners(k) \cup {t} /\ t \notin Pinners(k)
    BY <1>1, Zenon DEF Pinners
  <1>3. IsFiniteSet(Pinners(k)) /\ Cardinality(Pinners(k)) \in Nat
    <2>1. Pinners(k) \in SUBSET CacheTasks
      BY Zenon DEF Pinners
    <2> QED
      BY <2>1, CacheAssumption, FS_Subset, FS_CardinalityType, Zenon
  <1>4. Cardinality(Pinners(k) \cup {t}) = Cardinality(Pinners(k)) + 1
    BY <1>2, <1>3, FS_AddElement, Zenon
  <1> QED
    BY <1>2, <1>3, <1>4, Zenon

LEMMA PinnersLess ==
    ASSUME NEW t \in CacheTasks, Turns(t), NEW k, ~Pins(t, k)', Pins(t, k)
    PROVE  /\ Pinners(k) # {} /\ Cardinality(Pinners(k)) \in Nat \ {0}
           /\ Cardinality(Pinners(k)') = Cardinality(Pinners(k)) - 1
  <1>1. ASSUME NEW u \in CacheTasks, u # t PROVE Pins(u, k)' <=> Pins(u, k)
    BY <1>1, Zenon DEF Turns, Pins
  <1>2. Pinners(k)' = Pinners(k) \ {t} /\ t \in Pinners(k)
    BY <1>1, Zenon DEF Pinners
  <1>3. IsFiniteSet(Pinners(k)) /\ Cardinality(Pinners(k)) \in Nat
    <2>1. Pinners(k) \in SUBSET CacheTasks
      BY Zenon DEF Pinners
    <2> QED
      BY <2>1, CacheAssumption, FS_Subset, FS_CardinalityType, Zenon
  <1>4. Cardinality(Pinners(k) \ {t}) = Cardinality(Pinners(k)) - 1
    BY <1>2, <1>3, FS_RemoveElement, Zenon
  <1>5. Cardinality(Pinners(k)) # 0
    BY <1>2, <1>3, FS_EmptySet, Zenon
  <1> QED
    BY <1>2, <1>3, <1>4, <1>5, Zenon

LEMMA ElemType == ASSUME NEW s \in Seq(Entries), NEW e \in Elems(s) PROVE e \in Entries /\ e.key \in CacheKeys
  <1>1. e \in Entries
    BY DEF Elems
  <1> QED
    BY <1>1 DEF Entries

(***************************************************************************)
(* What is left of the invariant after a step.                             *)
(***************************************************************************)
PinQuiet(t, k) == SameEntry(k) /\ (Pins(t, k)' <=> Pins(t, k))
DataQuiet(t, k) ==
    /\ SameData(k) /\ disk'[k] = disk[k] /\ expected'[k] = expected[k]
    /\ k \in spoiled => k \in spoiled'
    /\ Works(t, k) => Works(t, k)'
    /\ Drops(t, k) => Drops(t, k)'

LEMMA PinQuietKept ==
    ASSUME NEW t \in CacheTasks, Turns(t), NEW k, PinAt(k), PinQuiet(t, k)
    PROVE  PinAt(k)'
  <1>1. Pinners(k)' = Pinners(k)
    BY PinnersStay, Zenon DEF PinQuiet
  <1>2. SameEntry(k)
    BY Zenon DEF PinQuiet
  <1>3. ASSUME NEW e \in Elems(cache'), e.key = k PROVE e.pin = Cardinality(Pinners(k))
    BY <1>2, <1>3, Zenon DEF SameEntry, PinAt
  <1>4. k \notin KeysOf(cache') => Pinners(k) = {}
    BY <1>2, Zenon DEF SameEntry, PinAt
  <1> QED
    BY <1>1, <1>3, <1>4, Zenon DEF PinAt, Elems, KeysOf

LEMMA DataQuietKept ==
    ASSUME NEW t \in CacheTasks, Turns(t), NEW k, DataAt(k), DataQuiet(t, k)
    PROVE  DataAt(k)'
  <1>1. ASSUME NEW u \in CacheTasks PROVE (Works(u, k) => Works(u, k)') /\ (Drops(u, k) => Drops(u, k)')
    <2>1. CASE u = t
      BY <2>1, Zenon DEF DataQuiet
    <2>2. CASE u # t
      BY <2>2, Zenon DEF Turns, Works, Drops
    <2> QED
      BY <2>1, <2>2, Zenon
  <1> SUFFICES ASSUME k \notin spoiled', \A u \in CacheTasks : ~Works(u, k)'
               PROVE  /\ disk'[k] = expected'[k]
                      /\ (\A u \in CacheTasks : ~Drops(u, k)') =>
                             \A e \in Elems(cache') : e.key = k => e.data = expected'[k]
    BY Zenon DEF DataAt, Elems
  <1>2. k \notin spoiled /\ \A u \in CacheTasks : ~Works(u, k)
    BY <1>1, Zenon DEF DataQuiet
  <1>3. disk'[k] = expected'[k]
    BY <1>2, Zenon DEF DataQuiet, DataAt
  <1>4. ASSUME \A u \in CacheTasks : ~Drops(u, k)', NEW e \in Elems(cache'), e.key = k
        PROVE  e.data = expected'[k]
    <2>1. PICK x \in Elems(cache) : x.key = k /\ x.data = e.data
      BY <1>4, Zenon DEF DataQuiet, SameData
    <2>2. x.data = expected[k]
      BY <1>1, <1>2, <1>4, <2>1, Zenon DEF DataAt
    <2> QED
      BY <2>1, <2>2, Zenon DEF DataQuiet
  <1> QED
    BY <1>3, <1>4, Zenon

\* A task inside the file system, or one that finds it free, is alone there.
Alone(t) == \A u \in CacheTasks \ {t} : job[u].pc \notin Holding

LEMMA LockFree ==
    ASSUME CacheInv, fat_lock = Nobody
    PROVE  \A u \in CacheTasks : job[u].pc \notin Holding
  BY CacheAssumption, Zenon DEF CacheInv, LockInv

LEMMA LockHeld ==
    ASSUME CacheInv, NEW t \in CacheTasks, job[t].pc \in Holding
    PROVE  Alone(t) /\ fat_lock = t
  BY Zenon DEF CacheInv, LockInv, Alone

LEMMA AloneKept ==
    ASSUME NEW t \in CacheTasks, Turns(t), Alone(t), EvictAt(t)', LandedAt(t)'
    PROVE  EvictInv' /\ LandedInv'
  <1>1. ASSUME NEW u \in CacheTasks, u # t PROVE job'[u].pc \notin Holding
    BY <1>1, Zenon DEF Alone, Turns
  <1>2. \A x : x \notin Holding => x # "evict" /\ x # "landed"
    BY Zenon DEF Holding
  <1>3. ASSUME NEW u \in CacheTasks PROVE EvictAt(u)' /\ LandedAt(u)'
    <2>1. CASE u = t
      BY <2>1, Zenon
    <2>2. CASE u # t
      BY <1>1, <1>2, <2>2, Zenon DEF EvictAt, LandedAt
    <2> QED
      BY <2>1, <2>2, Zenon
  <1> QED
    BY <1>3, Zenon DEF EvictInv, LandedInv

\* Steps that touch neither the disk nor what the entries hold.
LEMMA QuietKept ==
    ASSUME CacheInv, NEW t \in CacheTasks, Turns(t), job'[t].pc \notin Holding,
           UNCHANGED <<disk, expected, spoiled>>, KeysOf(cache') = KeysOf(cache),
           \A k \in CacheKeys : SameData(k), cache' \in Seq(Entries)
    PROVE  EvictInv' /\ LandedInv'
  <1>1. disk' = disk /\ expected' = expected /\ spoiled' = spoiled
    OBVIOUS
  <1>2. job'[t].pc # "evict" /\ job'[t].pc # "landed"
    BY Zenon DEF Holding
  <1>3. ASSUME NEW u \in CacheTasks, u # t PROVE EvictAt(u)' /\ LandedAt(u)'
    <2>1. job'[u] = job[u]
      BY <1>3, Zenon DEF Turns
    <2>2. EvictAt(u) /\ LandedAt(u)
      BY Zenon DEF CacheInv, EvictInv, LandedInv
    <2>3. EvictAt(u)'
      BY <1>1, <2>1, <2>2, Zenon DEF EvictAt
    <2>4. ASSUME job[u].pc = "landed", NEW e \in Elems(cache'), e.key = job[u].key
          PROVE  e.data = disk[e.key]
      <3>1. e.key \in CacheKeys
        BY ElemType, Zenon
      <3>2. PICK x \in Elems(cache) : x.key = e.key /\ x.data = e.data
        BY <3>1, Zenon DEF SameData
      <3> QED
        BY <2>2, <2>4, <3>2, Zenon DEF LandedAt
    <2>5. LandedAt(u)'
      BY <1>1, <2>1, <2>4, Zenon DEF LandedAt, Elems
    <2> QED
      BY <2>3, <2>5, Zenon
  <1>4. EvictAt(t)' /\ LandedAt(t)'
    BY <1>2, Zenon DEF EvictAt, LandedAt
  <1> QED
    BY <1>3, <1>4, Zenon DEF EvictInv, LandedInv

(***************************************************************************)
(* The jobs by their places, and the places by their jobs.                 *)
(***************************************************************************)
Visits == {"pinned", "writing", "written", "unwritten"}

LEMMA JobFacts ==
    ASSUME TypeInv, NEW t \in CacheTasks
    PROVE  /\ job[t] \in Jobs
           /\ job[t].pc \in OnPage => job[t] \in [pc : OnPage, key : CacheKeys] /\ job[t].key \in CacheKeys
           /\ job[t].pc = "evict" => /\ job[t].key \in CacheKeys /\ job[t].op \in {"read", "write"}
                                     /\ job[t].page \in Data /\ job[t].victim \in Entries
           /\ job[t].pc = "walk" => job[t].scope \in Scopes
           /\ job[t].pc \in Visits => /\ job[t].scope \in Scopes /\ job[t].at \in DOMAIN Buckets
                                      /\ Buckets[job[t].at] \in CacheKeys
           /\ job[t].pc \in {"pinned", "writing"} => job[t] \in
                  [pc : {"pinned", "writing"}, scope : Scopes, at : DOMAIN Buckets, through : Users]
  <1>1. job[t] \in Jobs
    BY Zenon DEF TypeInv
  <1> DEFINE r == job[t]
  <1> HIDE DEF r
  <1>2. /\ r.pc \in OnPage => r \in [pc : OnPage, key : CacheKeys] /\ r.key \in CacheKeys
        /\ r.pc = "evict" => /\ r.key \in CacheKeys /\ r.op \in {"read", "write"}
                             /\ r.page \in Data /\ r.victim \in Entries
    BY <1>1 DEF r, Jobs, OnPage
  <1>3. /\ r.pc = "walk" => r.scope \in Scopes
        /\ r.pc \in Visits => r.scope \in Scopes /\ r.at \in DOMAIN Buckets
        /\ r.pc \in {"pinned", "writing"} =>
               r \in [pc : {"pinned", "writing"}, scope : Scopes, at : DOMAIN Buckets, through : Users]
    BY <1>1 DEF r, Jobs, OnPage, Visits
  <1>4. \A i \in DOMAIN Buckets : Buckets[i] \in CacheKeys
    BY Zenon DEF CacheKeys
  <1> QED
    BY <1>1, <1>2, <1>3, <1>4, Zenon DEF r

LEMMA JobMakers ==
    /\ Idle \in Jobs /\ [pc |-> "release"] \in Jobs
    /\ \A p \in OnPage, k \in CacheKeys : [pc |-> p, key |-> k] \in Jobs
    /\ \A s \in Scopes, i \in Nat : [pc |-> "walk", scope |-> s, at |-> i] \in Jobs
    /\ \A p \in {"written", "unwritten"}, s \in Scopes, i \in DOMAIN Buckets :
           [pc |-> p, scope |-> s, at |-> i] \in Jobs
    /\ \A p \in {"pinned", "writing"}, s \in Scopes, i \in DOMAIN Buckets, u \in Users :
           [pc |-> p, scope |-> s, at |-> i, through |-> u] \in Jobs
    /\ \A k \in CacheKeys, o \in {"read", "write"}, d \in Data, v \in Entries :
           [pc |-> "evict", key |-> k, op |-> o, page |-> d, victim |-> v] \in Jobs
  <1>1. Idle \in Jobs /\ [pc |-> "release"] \in Jobs
    BY DEF Idle, Jobs
  <1>2. \A p \in OnPage, k \in CacheKeys : [pc |-> p, key |-> k] \in Jobs
    BY DEF Jobs
  <1>3. \A s \in Scopes, i \in Nat : [pc |-> "walk", scope |-> s, at |-> i] \in Jobs
    BY DEF Jobs
  <1>4. \A p \in {"written", "unwritten"}, s \in Scopes, i \in DOMAIN Buckets :
           [pc |-> p, scope |-> s, at |-> i] \in Jobs
    BY DEF Jobs
  <1>5. \A p \in {"pinned", "writing"}, s \in Scopes, i \in DOMAIN Buckets, u \in Users :
           [pc |-> p, scope |-> s, at |-> i, through |-> u] \in Jobs
    BY DEF Jobs
  <1>6. \A k \in CacheKeys, o \in {"read", "write"}, d \in Data, v \in Entries :
           [pc |-> "evict", key |-> k, op |-> o, page |-> d, victim |-> v] \in Jobs
    BY DEF Jobs
  <1> QED
    BY <1>1, <1>2, <1>3, <1>4, <1>5, <1>6, Zenon

\* A task that pins a page finds it in the cache, with its pin counted.
LEMMA PinnedEntry ==
    ASSUME CacheInv, NEW t \in CacheTasks, NEW k \in CacheKeys, Pins(t, k)
    PROVE  /\ Cached(k) /\ Entry(k) \in Entries /\ Entry(k) \in Elems(cache) /\ Entry(k).key = k
           /\ Entry(k).pin = Cardinality(Pinners(k))
           /\ \A e \in Elems(cache) : e.key = k => e = Entry(k)
  <1>1. PinAt(k) /\ Pinners(k) # {}
    BY Zenon DEF CacheInv, PinInv, Pinners
  <1>2. cache \in Seq(Entries) /\ Distinct(cache)
    BY Zenon DEF CacheInv, TypeInv
  <1>3. Cached(k)
    BY <1>1, <1>2, WhereFacts, Zenon DEF PinAt
  <1>4. /\ Entry(k) \in Elems(cache) /\ Entry(k).key = k /\ Entry(k) \in Entries
        /\ \A e \in Elems(cache) : e.key = k => e = Entry(k)
    BY <1>2, <1>3, WhereFacts, Zenon
  <1> QED
    BY <1>1, <1>3, <1>4, Zenon DEF PinAt

\* One page's entry is changed: the other pages keep theirs.
LEMMA OneSwap ==
    ASSUME NEW k, NEW e, e.key = k, Swap({k}, {e})
    PROVE  /\ \A j : j # k => SameEntry(j) /\ SameData(j)
           /\ \A x \in Elems(cache') : x.key = k => x = e
           /\ e \in Elems(cache') /\ k \in KeysOf(cache')
  <1>1. \A j : j # k => SameEntry(j) /\ SameData(j)
    <2> SUFFICES ASSUME NEW j, j # k PROVE SameEntry(j) /\ SameData(j)
      BY Zenon
    <2> DEFINE K == {k}
               N == {e}
    <2>1. j \notin K /\ (\A x \in N : x.key \in K) /\ Swap(K, N)
      OBVIOUS
    <2> HIDE DEF K, N
    <2> QED
      BY <2>1, SwapElsewhere, Zenon
  <1>2. \A x \in Elems(cache') : x.key = k => x = e
    BY Zenon DEF Swap
  <1>3. e \in Elems(cache')
    BY Zenon DEF Swap
  <1> QED
    BY <1>1, <1>2, <1>3, Zenon DEF KeysOf

\* ... and if it holds what it held, no page has changed.
LEMMA DataSwap ==
    ASSUME NEW k, NEW e, NEW x \in Elems(cache), x.key = k, e.key = k, e.data = x.data,
           Swap({k}, {e}), k \in KeysOf(cache)
    PROVE  (\A j : SameData(j)) /\ KeysOf(cache') = KeysOf(cache)
  <1>1. SameData(k)
    <2>1. \A y \in Elems(cache') : y.key = k => y = e
      BY OneSwap, Zenon
    <2> QED
      BY <2>1, Zenon DEF SameData
  <1>2. \A j : SameData(j)
    BY <1>1, OneSwap, Zenon
  <1>3. \A j : j \in KeysOf(cache') <=> j \in KeysOf(cache)
    BY OneSwap, Zenon DEF SameEntry
  <1> QED
    BY <1>2, <1>3, Zenon

LEMMA CacheStays ==
    ASSUME cache' = cache
    PROVE  (\A k : SameEntry(k) /\ SameData(k)) /\ KeysOf(cache') = KeysOf(cache)
  BY Zenon DEF SameEntry, SameData

(***************************************************************************)
(* The pieces of the invariant, put together.                              *)
(***************************************************************************)
LEMMA TypeKept ==
    ASSUME TypeInv, NEW t \in CacheTasks, Turns(t), cache' \in Seq(Entries),
           disk' \in [CacheKeys -> Data], expected' \in [CacheKeys -> Data],
           vnode' \in [CacheTasks -> CacheFiles \cup {Nobody}], fat_lock' \in Users
    PROVE  TypeInv'
  BY Zenon DEF TypeInv, Turns

LEMMA LockSame ==
    ASSUME CacheInv, NEW t \in CacheTasks, Turns(t), fat_lock' = fat_lock,
           job'[t].pc \in Holding <=> job[t].pc \in Holding
    PROVE  LockInv'
  <1>1. ASSUME NEW u \in CacheTasks PROVE job'[u].pc \in Holding <=> fat_lock' = u
    <2>1. job[u].pc \in Holding <=> fat_lock = u
      BY Zenon DEF CacheInv, LockInv
    <2>2. CASE u = t
      BY <2>1, <2>2, Zenon
    <2>3. CASE u # t
      BY <2>1, <2>3, Zenon DEF Turns
    <2> QED
      BY <2>2, <2>3, Zenon
  <1> QED
    BY <1>1, Zenon DEF LockInv

LEMMA LockTake ==
    ASSUME CacheInv, NEW t \in CacheTasks, Turns(t), fat_lock = Nobody, fat_lock' = t,
           job'[t].pc \in Holding
    PROVE  LockInv' /\ Alone(t)
  <1>1. \A u \in CacheTasks : job[u].pc \notin Holding
    BY LockFree, Zenon
  <1>2. ASSUME NEW u \in CacheTasks PROVE job'[u].pc \in Holding <=> fat_lock' = u
    <2>2. CASE u = t
      BY <2>2, Zenon
    <2>3. CASE u # t
      BY <1>1, <2>3, Zenon DEF Turns
    <2> QED
      BY <2>2, <2>3, Zenon
  <1> QED
    BY <1>1, <1>2, Zenon DEF LockInv, Alone

LEMMA LockDrop ==
    ASSUME CacheInv, NEW t \in CacheTasks, Turns(t), job[t].pc \in Holding, fat_lock' = Nobody,
           job'[t].pc \notin Holding
    PROVE  LockInv'
  <1>1. Alone(t)
    BY LockHeld, Zenon
  <1>2. ASSUME NEW u \in CacheTasks PROVE job'[u].pc \notin Holding /\ fat_lock' # u
    <2>1. fat_lock' # u
      BY CacheAssumption, Zenon
    <2>2. CASE u = t
      BY <2>1, <2>2, Zenon
    <2>3. CASE u # t
      BY <1>1, <2>1, <2>3, Zenon DEF Turns, Alone
    <2> QED
      BY <2>2, <2>3, Zenon
  <1> QED
    BY <1>2, Zenon DEF LockInv

LEMMA Assembled ==
    ASSUME TypeInv', Distinct(cache'), LockInv', EvictInv' /\ LandedInv',
           \A k \in CacheKeys : PinAt(k)' /\ DataAt(k)'
    PROVE  CacheInv'
  <1>1. PinInv' /\ DataInv'
    BY Zenon DEF PinInv, DataInv
  <1> QED
    BY <1>1, Zenon DEF CacheInv

LEMMA Typed ==
    ASSUME CacheInv
    PROVE  /\ TypeInv /\ job \in [CacheTasks -> Jobs] /\ cache \in Seq(Entries) /\ Distinct(cache)
           /\ disk \in [CacheKeys -> Data] /\ expected \in [CacheKeys -> Data]
           /\ vnode \in [CacheTasks -> CacheFiles \cup {Nobody}] /\ fat_lock \in Users
           /\ \A k \in CacheKeys : PinAt(k) /\ DataAt(k)
  BY Zenon DEF CacheInv, TypeInv, PinInv, DataInv

\* Steps that change no entry and nothing on the disk, and take and leave no page.
LEMMA JobOnly ==
    ASSUME CacheInv, NEW t \in CacheTasks, Turns(t), UNCHANGED <<cache, disk, expected, spoiled>>,
           vnode' \in [CacheTasks -> CacheFiles \cup {Nobody}], fat_lock' \in Users, LockInv',
           \A k \in CacheKeys : (Pins(t, k)' <=> Pins(t, k)) /\ ~Works(t, k) /\ ~Drops(t, k),
           EvictInv' /\ LandedInv'
    PROVE  CacheInv'
  <1>1. cache' = cache /\ disk' = disk /\ expected' = expected /\ spoiled' = spoiled
    OBVIOUS
  <1>2. TypeInv' /\ Distinct(cache')
    <2>1. Distinct(cache')
      BY <1>1, Typed, Zenon
    <2>2. cache' \in Seq(Entries) /\ disk' \in [CacheKeys -> Data] /\ expected' \in [CacheKeys -> Data]
      BY <1>1, Typed, Zenon
    <2> QED
      BY <2>1, <2>2, Typed, TypeKept, Zenon
  <1>3. ASSUME NEW k \in CacheKeys PROVE PinAt(k)' /\ DataAt(k)'
    <2>1. SameEntry(k) /\ SameData(k)
      BY <1>1, CacheStays, Zenon
    <2>2. PinQuiet(t, k)
      BY <2>1, Zenon DEF PinQuiet
    <2>3. DataQuiet(t, k)
      BY <1>1, <2>1, Zenon DEF DataQuiet
    <2> QED
      BY <2>2, <2>3, Typed, PinQuietKept, DataQuietKept, Zenon
  <1> QED
    BY <1>2, <1>3, Assembled, Zenon

(***************************************************************************)
(* The steps.                                                              *)
(***************************************************************************)

\* The places where a task holds no page.
LEMMA AtRest ==
    ASSUME NEW t, NEW k
    PROVE  /\ job[t].pc \in {"idle", "release", "walk"} => ~Pins(t, k) /\ job[t].pc \notin Holding
           /\ job[t].pc \in {"idle", "release", "walk", "evict"} \cup Visits => ~Works(t, k) /\ ~Drops(t, k)
           /\ job[t].pc \in Visits => (Pins(t, k) <=> Buckets[job[t].at] = k)
  BY DEF Pins, Works, Drops, Holding, Visits

LEMMA AtRestNext ==
    ASSUME NEW t, NEW k
    PROVE  /\ job'[t].pc \in {"idle", "release", "walk"} =>
                  /\ ~Pins(t, k)' /\ job'[t].pc \notin Holding /\ EvictAt(t)' /\ LandedAt(t)'
           /\ job'[t].pc \in Visits => /\ Pins(t, k)' <=> Buckets[job'[t].at] = k
                                       /\ EvictAt(t)' /\ LandedAt(t)'
  BY DEF Pins, Holding, Visits, EvictAt, LandedAt

LEMMA StartWalkInv ==
    ASSUME CacheInv, NEW t \in CacheTasks, NEW s \in Scopes, StartWalk(t, s)
    PROVE  CacheInv'
  <1> DEFINE r == [pc |-> "walk", scope |-> s, at |-> 1]
  <1>1. r \in Jobs /\ r.pc = "walk"
    BY JobMakers
  <1>2. /\ job' = [job EXCEPT ![t] = r] /\ job[t] = Idle
        /\ UNCHANGED <<cache, disk, vnode, fat_lock, expected, spoiled>>
    BY Zenon DEF StartWalk
  <1> HIDE DEF r
  <1>3. Turns(t) /\ job'[t] = r
    BY <1>1, <1>2, Typed, TurnFacts, Zenon
  <1>4. job[t].pc = "idle" /\ job'[t].pc = "walk"
    BY <1>1, <1>2, <1>3 DEF Idle
  <1>5. \A k : ~Pins(t, k)' /\ ~Pins(t, k) /\ ~Works(t, k) /\ ~Drops(t, k)
    BY <1>4, AtRest, AtRestNext, Zenon
  <1>6. job[t].pc \notin Holding /\ job'[t].pc \notin Holding
    BY <1>4, AtRest, AtRestNext, Zenon
  <1>7. LockInv'
    BY <1>2, <1>3, <1>6, LockSame, Zenon
  <1>8. EvictInv' /\ LandedInv'
    BY <1>2, <1>3, <1>6, CacheStays, Typed, QuietKept, Zenon
  <1> QED
    BY <1>2, <1>3, <1>5, <1>7, <1>8, Typed, JobOnly, Zenon

LEMMA WalkEndInv ==
    ASSUME CacheInv, NEW t \in CacheTasks, WalkEnd(t)
    PROVE  CacheInv'
  <1>1. Idle \in Jobs /\ Idle.pc = "idle"
    BY JobMakers DEF Idle
  <1>2. /\ job' = [job EXCEPT ![t] = Idle] /\ job[t].pc = "walk"
        /\ UNCHANGED <<cache, disk, vnode, fat_lock, expected, spoiled>>
    BY Zenon DEF WalkEnd
  <1>3. Turns(t) /\ job'[t].pc = "idle"
    BY <1>1, <1>2, Typed, TurnFacts, Zenon
  <1>5. \A k : ~Pins(t, k)' /\ ~Pins(t, k) /\ ~Works(t, k) /\ ~Drops(t, k)
    BY <1>2, <1>3, AtRest, AtRestNext, Zenon
  <1>6. job[t].pc \notin Holding /\ job'[t].pc \notin Holding
    BY <1>2, <1>3, AtRest, AtRestNext, Zenon
  <1>7. LockInv'
    BY <1>2, <1>3, <1>6, LockSame, Zenon
  <1>8. EvictInv' /\ LandedInv'
    BY <1>2, <1>3, <1>6, CacheStays, Typed, QuietKept, Zenon
  <1> QED
    BY <1>2, <1>3, <1>5, <1>7, <1>8, Typed, JobOnly, Zenon

LEMMA WalkLockInv ==
    ASSUME CacheInv, NEW t \in CacheTasks, WalkLock(t)
    PROVE  CacheInv'
  <1> DEFINE r == [job[t] EXCEPT !.pc = "writing"]
  <1>1. /\ job' = [job EXCEPT ![t] = r] /\ job[t].pc = "pinned" /\ fat_lock = Nobody /\ fat_lock' = t
        /\ UNCHANGED <<cache, disk, vnode, expected, spoiled>>
    BY Zenon DEF WalkLock, Go
  <1>2. r \in Jobs /\ r.pc = "writing" /\ r.at = job[t].at
    <2>1. job[t] \in [pc : {"pinned", "writing"}, scope : Scopes, at : DOMAIN Buckets, through : Users]
      BY <1>1, JobFacts, Typed, Zenon
    <2> QED
      BY <2>1 DEF Jobs
  <1> HIDE DEF r
  <1>3. Turns(t) /\ job'[t] = r
    BY <1>1, <1>2, Typed, TurnFacts, Zenon
  <1>4. job[t].pc \in Visits /\ job'[t].pc \in Visits /\ job'[t].pc \in Holding
    BY <1>1, <1>2, <1>3 DEF Visits, Holding
  <1>5. \A k : (Pins(t, k)' <=> Pins(t, k)) /\ ~Works(t, k) /\ ~Drops(t, k)
    BY <1>2, <1>3, <1>4, AtRest, AtRestNext, Zenon
  <1>6. LockInv' /\ Alone(t)
    BY <1>1, <1>3, <1>4, LockTake, Zenon
  <1>7. EvictInv' /\ LandedInv'
    BY <1>3, <1>4, <1>6, AtRestNext, AloneKept, Zenon
  <1>8. fat_lock' \in Users
    BY <1>1, Zenon DEF Users
  <1> QED
    BY <1>1, <1>3, <1>5, <1>6, <1>7, <1>8, Typed, JobOnly, Zenon

LEMMA OpenInv ==
    ASSUME CacheInv, NEW t \in CacheTasks, NEW f \in CacheFiles, Open(t, f)
    PROVE  CacheInv'
  <1>1. /\ job' = job /\ job[t] = Idle /\ vnode' = [vnode EXCEPT ![t] = f]
        /\ UNCHANGED <<cache, disk, fat_lock, expected, spoiled>> /\ fat_lock = Nobody
    BY Zenon DEF Open
  <1>2. Turns(t) /\ job'[t] = job[t] /\ job[t].pc = "idle" /\ job'[t].pc = "idle"
    <2>1. Turns(t) /\ job'[t] = job[t]
      BY <1>1, Typed, StillFacts, Zenon
    <2> QED
      BY <1>1, <2>1 DEF Idle
  <1>3. \A k : ~Pins(t, k)' /\ ~Pins(t, k) /\ ~Works(t, k) /\ ~Drops(t, k)
    BY <1>2, AtRest, AtRestNext, Zenon
  <1>4. vnode' \in [CacheTasks -> CacheFiles \cup {Nobody}]
    BY <1>1, Typed, Zenon
  <1>5. LockInv'
    BY <1>1, <1>2, LockSame, Zenon
  <1>6. EvictInv' /\ LandedInv'
    <2>1. Alone(t)
      BY <1>1, LockFree, Zenon DEF Alone
    <2> QED
      BY <1>2, <2>1, AtRestNext, AloneKept, Zenon
  <1> QED
    BY <1>1, <1>2, <1>3, <1>4, <1>5, <1>6, Typed, JobOnly, Zenon

LEMMA RecreateInv ==
    ASSUME CacheInv, NEW t \in CacheTasks, NEW f \in CacheFiles, Recreate(t, f)
    PROVE  CacheInv'
  <1>1. /\ job' = job /\ job[t] = Idle /\ vnode' = vnode
        /\ UNCHANGED <<cache, disk, fat_lock, expected, spoiled>> /\ fat_lock = Nobody
    BY Zenon DEF Recreate
  <1>2. Turns(t) /\ job'[t] = job[t] /\ job[t].pc = "idle" /\ job'[t].pc = "idle"
    <2>1. Turns(t) /\ job'[t] = job[t]
      BY <1>1, Typed, StillFacts, Zenon
    <2> QED
      BY <1>1, <2>1 DEF Idle
  <1>3. \A k : ~Pins(t, k)' /\ ~Pins(t, k) /\ ~Works(t, k) /\ ~Drops(t, k)
    BY <1>2, AtRest, AtRestNext, Zenon
  <1>5. LockInv'
    BY <1>1, <1>2, LockSame, Zenon
  <1>6. EvictInv' /\ LandedInv'
    <2>1. Alone(t)
      BY <1>1, LockFree, Zenon DEF Alone
    <2> QED
      BY <1>2, <2>1, AtRestNext, AloneKept, Zenon
  <1> QED
    BY <1>1, <1>2, <1>3, <1>5, <1>6, Typed, JobOnly, Zenon

\* Lists whose entries differ in nothing that matters here.
LEMMA AlikeFacts ==
    ASSUME NEW s, NEW q, Distinct(s), DOMAIN q = DOMAIN s,
           \A i \in DOMAIN s : q[i].key = s[i].key /\ q[i].pin = s[i].pin /\ q[i].data = s[i].data
    PROVE  /\ Distinct(q) /\ KeysOf(q) = KeysOf(s)
           /\ \A e \in Elems(q) : \E x \in Elems(s) :
                  x.key = e.key /\ x.pin = e.pin /\ x.data = e.data
  <1>1. Distinct(q)
    BY Zenon DEF Distinct
  <1>2. ASSUME NEW e \in Elems(q)
        PROVE  \E x \in Elems(s) : x.key = e.key /\ x.pin = e.pin /\ x.data = e.data
    <2>1. PICK i \in DOMAIN s : e = q[i]
      BY Zenon DEF Elems
    <2>2. s[i] \in Elems(s) /\ s[i].key = e.key /\ s[i].pin = e.pin /\ s[i].data = e.data
      BY <2>1, Zenon DEF Elems
    <2> QED
      BY <2>2, Zenon
  <1>3. ASSUME NEW e \in Elems(s) PROVE \E x \in Elems(q) : x.key = e.key
    <2>1. PICK i \in DOMAIN s : e = s[i]
      BY Zenon DEF Elems
    <2>2. q[i] \in Elems(q) /\ q[i].key = e.key
      BY <2>1, Zenon DEF Elems
    <2> QED
      BY <2>2, Zenon
  <1>4. \A k : k \in KeysOf(q) <=> k \in KeysOf(s)
    <2>1. ASSUME NEW k \in KeysOf(q) PROVE k \in KeysOf(s)
      <3>1. PICK e \in Elems(q) : k = e.key
        BY Zenon DEF KeysOf
      <3> QED
        BY <1>2, <3>1, Zenon DEF KeysOf
    <2>2. ASSUME NEW k \in KeysOf(s) PROVE k \in KeysOf(q)
      <3>1. PICK e \in Elems(s) : k = e.key
        BY Zenon DEF KeysOf
      <3> QED
        BY <1>3, <3>1, Zenon DEF KeysOf
    <2> QED
      BY <2>1, <2>2, Zenon
  <1> QED
    BY <1>1, <1>2, <1>4, Zenon

\* pagecache_forget_vnode changes no page.
LEMMA ForgetFacts ==
    ASSUME CacheInv, NEW t,
           cache' = [i \in DOMAIN cache |->
                        IF cache[i].vnode = t THEN [cache[i] EXCEPT !.vnode = Nobody] ELSE cache[i]]
    PROVE  /\ cache' \in Seq(Entries) /\ Distinct(cache') /\ KeysOf(cache') = KeysOf(cache)
           /\ \A k : SameEntry(k) /\ SameData(k)
  <1> DEFINE Off(e) == IF e.vnode = t THEN [e EXCEPT !.vnode = Nobody] ELSE e
  <1>1. cache \in Seq(Entries) /\ Distinct(cache)
    BY Typed, Zenon
  <1>2. \A e \in Entries : /\ Off(e) \in Entries /\ Off(e).key = e.key
                           /\ Off(e).pin = e.pin /\ Off(e).data = e.data
    BY DEF Entries, Users
  <1>3. cache' = [i \in DOMAIN cache |-> Off(cache[i])]
    BY Zenon
  <1> HIDE DEF Off
  <1>4. /\ DOMAIN cache' = DOMAIN cache /\ \A i \in DOMAIN cache : cache[i] \in Entries /\ cache'[i] = Off(cache[i])
    <2>1. \A i \in DOMAIN cache : cache[i] \in Entries
      BY <1>1
    <2> QED
      BY <1>3, <2>1, Zenon
  <1>5. cache' \in Seq(Entries)
    <2>1. \A i \in DOMAIN cache : cache'[i] \in Entries
      BY <1>2, <1>4, Zenon
    <2>2. Len(cache) \in Nat /\ DOMAIN cache = 1 .. Len(cache)
      BY <1>1
    <2>3. cache' \in [1 .. Len(cache) -> Entries]
      BY <1>3, <2>1, <2>2, Zenon
    <2> QED
      BY <2>2, <2>3
  <1>6. \A i \in DOMAIN cache : /\ cache'[i].key = cache[i].key /\ cache'[i].pin = cache[i].pin
                                /\ cache'[i].data = cache[i].data
    BY <1>2, <1>4, Zenon
  <1>7. DOMAIN cache' = DOMAIN cache
    BY <1>4, Zenon
  <1>8. /\ Distinct(cache') /\ KeysOf(cache') = KeysOf(cache)
        /\ \A e \in Elems(cache') : \E x \in Elems(cache) :
               x.key = e.key /\ x.pin = e.pin /\ x.data = e.data
    <2> DEFINE q == cache'
    <2>1. /\ DOMAIN q = DOMAIN cache
          /\ \A i \in DOMAIN cache : /\ q[i].key = cache[i].key /\ q[i].pin = cache[i].pin
                                      /\ q[i].data = cache[i].data
      BY <1>6, <1>7, Zenon
    <2> HIDE DEF q
    <2>2. /\ Distinct(q) /\ KeysOf(q) = KeysOf(cache)
          /\ \A e \in Elems(q) : \E x \in Elems(cache) :
                 x.key = e.key /\ x.pin = e.pin /\ x.data = e.data
      BY <1>1, <2>1, AlikeFacts, ZenonT(40)
    <2> QED
      BY <2>2, Zenon DEF q
  <1>9. ASSUME NEW k PROVE SameEntry(k) /\ SameData(k)
    <2>1. ASSUME NEW e \in Elems(cache'), e.key = k
          PROVE  \E x \in Elems(cache) : x.key = k /\ x.pin = e.pin /\ x.data = e.data
      BY <1>8, <2>1
    <2> QED
      BY <1>8, <2>1 DEF SameEntry, SameData
  <1> QED
    BY <1>5, <1>8, <1>9

LEMMA ForgetVnodeInv ==
    ASSUME CacheInv, NEW t \in CacheTasks, ForgetVnode(t)
    PROVE  CacheInv'
  <1> DEFINE r == [job[t] EXCEPT !.pc = "release"]
  <1>1. /\ job' = [job EXCEPT ![t] = r] /\ job[t] = Idle
        /\ UNCHANGED <<disk, vnode, fat_lock, expected, spoiled>>
    BY Zenon DEF ForgetVnode, Go
  <1>2. r \in Jobs /\ r.pc = "release" /\ job[t].pc = "idle"
    BY <1>1, JobMakers DEF Idle
  <1>3. /\ cache' \in Seq(Entries) /\ Distinct(cache') /\ KeysOf(cache') = KeysOf(cache)
        /\ \A k : SameEntry(k) /\ SameData(k)
    BY ForgetFacts, Zenon DEF ForgetVnode
  <1> HIDE DEF r
  <1>4. Turns(t) /\ job'[t] = r /\ job'[t].pc = "release"
    BY <1>1, <1>2, Typed, TurnFacts, Zenon
  <1>5. \A k : ~Pins(t, k)' /\ ~Pins(t, k) /\ ~Works(t, k) /\ ~Drops(t, k)
    BY <1>2, <1>4, AtRest, AtRestNext, Zenon
  <1>6. job[t].pc \notin Holding /\ job'[t].pc \notin Holding
    BY <1>2, <1>4, AtRest, AtRestNext, Zenon
  <1>7. LockInv'
    BY <1>1, <1>4, <1>6, LockSame, Zenon
  <1>8. EvictInv' /\ LandedInv'
    BY <1>1, <1>3, <1>4, <1>6, QuietKept, Zenon
  <1>9. TypeInv'
    BY <1>1, <1>3, <1>4, Typed, TypeKept, Zenon
  <1>10. ASSUME NEW k \in CacheKeys PROVE PinAt(k)' /\ DataAt(k)'
    <2>1. PinQuiet(t, k)
      BY <1>3, <1>5, Zenon DEF PinQuiet
    <2>2. DataQuiet(t, k)
      BY <1>1, <1>3, <1>5, Zenon DEF DataQuiet
    <2> QED
      BY <1>4, <2>1, <2>2, Typed, PinQuietKept, DataQuietKept, Zenon
  <1> QED
    BY <1>3, <1>7, <1>8, <1>9, <1>10, Assembled, Zenon

LEMMA PinFacts ==
    ASSUME NEW e \in Entries
    PROVE  /\ Pinned(e) \in Entries /\ Pinned(e).key = e.key /\ Pinned(e).data = e.data
           /\ Pinned(e).pin = e.pin + 1
           /\ Unpinned(e) \in Entries /\ Unpinned(e).key = e.key /\ Unpinned(e).data = e.data
           /\ e.pin # 0 => Unpinned(e).pin = e.pin - 1
           /\ e.key \in CacheKeys /\ e.vnode \in Users /\ e.data \in Data /\ e.pin \in Nat
  BY DEF Entries, Pinned, Unpinned

\* One task more has the page, or one less.
LEMMA PinUp ==
    ASSUME NEW t \in CacheTasks, Turns(t), NEW k, PinAt(k), ~Pins(t, k), Pins(t, k)',
           NEW x \in Elems(cache), x.key = k, NEW e, e.key = k, e.pin = x.pin + 1, Swap({k}, {e})
    PROVE  PinAt(k)'
  <1>1. Cardinality(Pinners(k)') = Cardinality(Pinners(k)) + 1
    BY PinnersMore, Zenon
  <1>2. e.pin = Cardinality(Pinners(k)')
    BY <1>1, Zenon DEF PinAt
  <1>3. (\A y \in Elems(cache') : y.key = k => y = e) /\ k \in KeysOf(cache')
    BY OneSwap, Zenon
  <1> QED
    BY <1>2, <1>3, Zenon DEF PinAt, Elems, KeysOf

LEMMA PinDown ==
    ASSUME NEW t \in CacheTasks, Turns(t), NEW k, PinAt(k), Pins(t, k), ~Pins(t, k)',
           NEW x \in Elems(cache), x \in Entries, x.key = k, NEW e, e.key = k,
           e.pin = Unpinned(x).pin, Swap({k}, {e})
    PROVE  PinAt(k)'
  <1>1. /\ Cardinality(Pinners(k)') = Cardinality(Pinners(k)) - 1
        /\ Cardinality(Pinners(k)) \in Nat \ {0}
    BY PinnersLess, Zenon
  <1>2. x.pin = Cardinality(Pinners(k))
    BY Zenon DEF PinAt
  <1>3. e.pin = Cardinality(Pinners(k)')
    <2>1. x.pin # 0 => e.pin = x.pin - 1
      BY PinFacts, Zenon
    <2> QED
      BY <1>1, <1>2, <2>1
  <1>4. (\A y \in Elems(cache') : y.key = k => y = e) /\ k \in KeysOf(cache')
    BY OneSwap, Zenon
  <1> QED
    BY <1>3, <1>4, Zenon DEF PinAt, Elems, KeysOf

LEMMA PinOne ==
    ASSUME NEW t \in CacheTasks, Turns(t), NEW k, PinAt(k), ~Pins(t, k), Pins(t, k)',
           k \notin KeysOf(cache), NEW e, e.key = k, e.pin = 1,
           \A y \in Elems(cache') : y.key = k => y = e, k \in KeysOf(cache')
    PROVE  PinAt(k)'
  <1>1. Pinners(k) = {} /\ Cardinality(Pinners(k)') = Cardinality(Pinners(k)) + 1
    BY PinnersMore, Zenon DEF PinAt
  <1>2. Cardinality(Pinners(k)) = 0
    BY <1>1, FS_EmptySet, Zenon
  <1>3. Cardinality(Pinners(k)') = 1
    BY <1>1, <1>2
  <1> QED
    BY <1>3, Zenon DEF PinAt, Elems, KeysOf

\* A walk takes a pin or gives it back, outside the file system.
LEMMA PinStep ==
    ASSUME CacheInv, NEW t \in CacheTasks, Turns(t), NEW k \in CacheKeys, NEW x \in Elems(cache),
           x.key = k, NEW e, e.key = k, e.data = x.data, Swap({k}, {e}),
           UNCHANGED <<disk, vnode, fat_lock, expected, spoiled>>,
           job[t].pc \notin Holding, job'[t].pc \notin Holding,
           \A j : j # k => ~Pins(t, j) /\ ~Pins(t, j)', \A j : ~Works(t, j) /\ ~Drops(t, j),
           PinAt(k)'
    PROVE  CacheInv'
  <1>1. cache' \in Seq(Entries) /\ Distinct(cache')
    BY Zenon DEF Swap
  <1>2. k \in KeysOf(cache)
    BY Zenon DEF KeysOf
  <1>3. (\A j : SameData(j)) /\ KeysOf(cache') = KeysOf(cache)
    BY <1>2, DataSwap, Zenon
  <1>4. \A j : j # k => SameEntry(j)
    BY OneSwap, Zenon
  <1>5. LockInv'
    BY LockSame, Zenon
  <1>6. EvictInv' /\ LandedInv'
    BY <1>1, <1>3, QuietKept, Zenon
  <1>7. TypeInv'
    BY <1>1, Typed, TypeKept, Zenon
  <1>8. ASSUME NEW j \in CacheKeys PROVE PinAt(j)' /\ DataAt(j)'
    <2>1. PinAt(j)'
      <3>1. CASE j = k
        BY <3>1, Zenon
      <3>2. CASE j # k
        <4>1. PinQuiet(t, j)
          BY <1>4, <3>2, Zenon DEF PinQuiet
        <4> QED
          BY <4>1, Typed, PinQuietKept, Zenon
      <3> QED
        BY <3>1, <3>2, Zenon
    <2>2. DataQuiet(t, j)
      BY <1>3, Zenon DEF DataQuiet
    <2> QED
      BY <2>1, <2>2, Typed, DataQuietKept, Zenon
  <1> QED
    BY <1>1, <1>5, <1>6, <1>7, <1>8, Assembled, Zenon

LEMMA WalkPinInv ==
    ASSUME CacheInv, NEW t \in CacheTasks, WalkPin(t)
    PROVE  CacheInv'
  <1>1. PICK i \in ToWrite(t) :
            /\ job' = [job EXCEPT ![t] = [pc |-> "pinned", scope |-> job[t].scope, at |-> i,
                   through |-> IF job[t].scope = "all" THEN Entry(Buckets[i]).vnode ELSE t]]
            /\ Change(Buckets[i], Pinned(Entry(Buckets[i])))
    BY Zenon DEF WalkPin
  <1> DEFINE k == Buckets[i]
             x == Entry(k)
             e == Pinned(x)
             u == IF job[t].scope = "all" THEN x.vnode ELSE t
             r == [pc |-> "pinned", scope |-> job[t].scope, at |-> i, through |-> u]
  <1>2. i \in DOMAIN Buckets /\ Cached(k) /\ k \in CacheKeys
    BY Zenon DEF ToWrite, CacheKeys
  <1>3. /\ job[t].pc = "walk" /\ UNCHANGED <<disk, vnode, fat_lock, expected, spoiled>>
        /\ job' = [job EXCEPT ![t] = r] /\ Change(k, e)
    BY <1>1, Zenon DEF WalkPin
  <1>4. x \in Elems(cache) /\ x.key = k /\ x \in Entries
    BY <1>2, Typed, WhereFacts, Zenon
  <1>5. e \in Entries /\ e.key = k /\ e.data = x.data /\ e.pin = x.pin + 1 /\ x.vnode \in Users
    BY <1>4, PinFacts, Zenon
  <1>6. r \in Jobs /\ r.pc = "pinned" /\ r.at = i
    <2>1. job[t].scope \in Scopes
      BY <1>3, Typed, JobFacts, Zenon
    <2>2. u \in Users
      BY <1>5, Zenon DEF Users
    <2> HIDE DEF u
    <2> QED
      BY <1>2, <2>1, <2>2, JobMakers
  <1> HIDE DEF e, x, r, k
  <1>7. Swap({k}, {e})
    BY <1>2, <1>3, <1>5, SwapChange, Zenon
  <1>8. Turns(t) /\ job'[t] = r
    BY <1>3, <1>6, Typed, TurnFacts, Zenon
  <1>9. job'[t].pc \in Visits /\ job'[t].pc \notin Holding /\ job'[t].at = i
    BY <1>6, <1>8 DEF Visits, Holding
  <1>10. /\ job[t].pc \notin Holding /\ \A j : ~Pins(t, j) /\ ~Works(t, j) /\ ~Drops(t, j)
         /\ \A j : Pins(t, j)' <=> j = k
    BY <1>3, <1>9, AtRest, AtRestNext, Zenon DEF k
  <1>11. PinAt(k)'
    BY <1>2, <1>4, <1>5, <1>7, <1>8, <1>10, Typed, PinUp, Zenon
  <1> QED
    BY <1>2, <1>3, <1>4, <1>5, <1>7, <1>8, <1>9, <1>10, <1>11, PinStep, Zenon

LEMMA WalkOnInv ==
    ASSUME CacheInv, NEW t \in CacheTasks, WalkOn(t)
    PROVE  CacheInv'
  <1>0. PICK k : k = Buckets[job[t].at]
    OBVIOUS
  <1> DEFINE x == Entry(k)
             b == job[t].pc = "unwritten"
             e == [Unpinned(x) EXCEPT !.dirty = Unpinned(x).dirty /\ b]
             r == [pc |-> "walk", scope |-> job[t].scope, at |-> job[t].at + 1]
  <1>1. /\ job[t].pc \in {"written", "unwritten"} /\ Change(k, e) /\ job' = [job EXCEPT ![t] = r]
        /\ UNCHANGED <<disk, vnode, fat_lock, expected, spoiled>>
    BY <1>0, Zenon DEF WalkOn
  <1>2. job[t].pc \in Visits /\ job[t].pc \notin Holding
    BY <1>1 DEF Visits, Holding
  <1> HIDE DEF x
  <1>3. k \in CacheKeys /\ job[t].scope \in Scopes /\ job[t].at \in DOMAIN Buckets
    BY <1>0, <1>2, Typed, JobFacts, Zenon
  <1>4. r \in Jobs /\ r.pc = "walk"
    <2>1. job[t].at + 1 \in Nat
      BY <1>3, CacheAssumption
    <2> QED
      BY <1>3, <2>1, JobMakers
  <1>5. Pins(t, k)
    BY <1>0, <1>2, AtRest, Zenon
  <1>6. Cached(k) /\ x \in Entries /\ x \in Elems(cache) /\ x.key = k
    BY <1>3, <1>5, PinnedEntry, Zenon DEF x
  <1>7. e \in Entries /\ e.key = k /\ e.data = x.data /\ e.pin = Unpinned(x).pin
    <2> DEFINE y == Unpinned(x)
    <2>1. y \in Entries /\ y.key = k /\ y.data = x.data
      BY <1>6, PinFacts, Zenon
    <2>2. e = [y EXCEPT !.dirty = y.dirty /\ b] /\ b \in BOOLEAN
      OBVIOUS
    <2> HIDE DEF y, x, e, b
    <2>3. e \in Entries /\ e.key = y.key /\ e.data = y.data /\ e.pin = y.pin
      BY <2>1, <2>2 DEF Entries
    <2> QED
      BY <2>1, <2>3, Zenon DEF y
  <1> HIDE DEF e, x, r
  <1>8. Swap({k}, {e})
    BY <1>1, <1>6, <1>7, SwapChange, Zenon
  <1>9. Turns(t) /\ job'[t] = r /\ job'[t].pc = "walk"
    BY <1>1, <1>4, Typed, TurnFacts, Zenon
  <1>10. /\ job'[t].pc \notin Holding /\ \A j : ~Works(t, j) /\ ~Drops(t, j)
         /\ \A j : ~Pins(t, j)' /\ (j # k => ~Pins(t, j))
    BY <1>0, <1>2, <1>9, AtRest, AtRestNext, Zenon
  <1>11. PinAt(k)'
    <2>1. PinAt(k) /\ ~Pins(t, k)'
      BY <1>3, <1>10, Typed, Zenon
    <2> QED
      BY <1>5, <1>6, <1>7, <1>8, <1>9, <2>1, PinDown, Zenon
  <1> QED
    BY <1>1, <1>2, <1>3, <1>6, <1>7, <1>8, <1>9, <1>10, <1>11, PinStep, Zenon

(***************************************************************************)
(* Steps inside the file system.                                           *)
(***************************************************************************)
LEMMA HolderStep ==
    ASSUME CacheInv, NEW t \in CacheTasks, Turns(t), Alone(t), TypeInv', Distinct(cache'), LockInv',
           EvictAt(t)', LandedAt(t)',
           \A k \in CacheKeys : (PinAt(k)' \/ PinQuiet(t, k)) /\ (DataAt(k)' \/ DataQuiet(t, k))
    PROVE  CacheInv'
  <1>1. ASSUME NEW k \in CacheKeys PROVE PinAt(k)' /\ DataAt(k)'
    BY Typed, PinQuietKept, DataQuietKept, Zenon
  <1>2. EvictInv' /\ LandedInv'
    BY AloneKept, Zenon
  <1> QED
    BY <1>1, <1>2, Assembled, Zenon

\* The places of a task that has a page in hand.
LEMMA OnPageFacts ==
    ASSUME NEW t, NEW k
    PROVE  /\ job[t].pc \in OnPage => job[t].pc \in Holding
           /\ job[t].pc \in OnPage /\ job[t].pc # "drop" => (Pins(t, k) <=> job[t].key = k)
           /\ job[t].pc = "drop" => ~Pins(t, k)
           /\ job[t].pc \in {"read", "write"} => ~Works(t, k) /\ ~Drops(t, k)
           /\ job[t].pc \in {"dirty", "landed", "failed"} => (Works(t, k) <=> job[t].key = k) /\ ~Drops(t, k)
           /\ job[t].pc = "drop" => (Drops(t, k) <=> job[t].key = k) /\ ~Works(t, k)
  BY DEF OnPage, Holding, Pins, Works, Drops

LEMMA OnPageNext ==
    ASSUME NEW t, NEW k
    PROVE  /\ job'[t].pc \in OnPage => job'[t].pc \in Holding /\ EvictAt(t)'
           /\ job'[t].pc \in OnPage /\ job'[t].pc # "drop" => (Pins(t, k)' <=> job'[t].key = k)
           /\ job'[t].pc = "drop" => ~Pins(t, k)'
           /\ job'[t].pc \in {"dirty", "landed", "failed"} => (Works(t, k)' <=> job'[t].key = k)
           /\ job'[t].pc = "drop" => (Drops(t, k)' <=> job'[t].key = k)
           /\ job'[t].pc # "landed" => LandedAt(t)'
  BY DEF OnPage, Holding, Pins, Works, Drops, EvictAt, LandedAt

\* pagecache_get_page and pagecache_put_page leave what the page holds alone.
LEMMA ReadPageInv ==
    ASSUME CacheInv, NEW t \in CacheTasks, ReadPage(t)
    PROVE  CacheInv'
  <1>0. PICK k : k = job[t].key
    OBVIOUS
  <1> DEFINE x == Entry(k)
             e == Unpinned(x)
  <1>1. /\ job[t].pc = "read" /\ Change(k, e) /\ job' = [job EXCEPT ![t] = Idle]
        /\ fat_lock' = Nobody /\ UNCHANGED <<disk, vnode, expected, spoiled>>
    BY <1>0, Zenon DEF ReadPage
  <1>2. job[t].pc \in OnPage /\ job[t].pc # "drop"
    BY <1>1 DEF OnPage
  <1>3. k \in CacheKeys /\ Pins(t, k) /\ job[t].pc \in Holding
    BY <1>0, <1>2, Typed, JobFacts, OnPageFacts, Zenon
  <1>4. Cached(k) /\ x \in Entries /\ x \in Elems(cache) /\ x.key = k
    BY <1>3, PinnedEntry, Zenon
  <1>5. e \in Entries /\ e.key = k /\ e.data = x.data /\ e.pin = Unpinned(x).pin
    BY <1>4, PinFacts, Zenon
  <1>6. Idle \in Jobs /\ Idle.pc = "idle"
    BY JobMakers DEF Idle
  <1>7. Turns(t) /\ job'[t].pc = "idle"
    BY <1>1, <1>6, Typed, TurnFacts, Zenon
  <1> HIDE DEF e, x
  <1>8. Swap({k}, {e})
    BY <1>1, <1>4, <1>5, SwapChange, Zenon
  <1>9. /\ job'[t].pc \notin Holding /\ \A j : ~Works(t, j) /\ ~Drops(t, j) /\ ~Pins(t, j)'
        /\ \A j : j # k => ~Pins(t, j)
    BY <1>0, <1>1, <1>2, <1>7, OnPageFacts, AtRestNext, Zenon
  <1>10. EvictAt(t)' /\ LandedAt(t)'
    BY <1>7, AtRestNext, Zenon
  <1>11. LockInv' /\ Alone(t)
    BY <1>1, <1>3, <1>7, <1>9, LockDrop, LockHeld, Zenon
  <1>12. PinAt(k)'
    <2>1. PinAt(k) /\ ~Pins(t, k)'
      BY <1>3, <1>9, Typed, Zenon
    <2> QED
      BY <1>3, <1>4, <1>5, <1>7, <1>8, <2>1, PinDown, Zenon
  <1>13. \A j : SameData(j)
    <2>1. k \in KeysOf(cache)
      BY <1>4, Zenon DEF KeysOf
    <2> QED
      BY <1>4, <1>5, <1>8, <2>1, DataSwap, Zenon
  <1>14. TypeInv' /\ Distinct(cache')
    <2>1. cache' \in Seq(Entries) /\ Distinct(cache')
      BY <1>8, Zenon DEF Swap
    <2>2. fat_lock' \in Users
      BY <1>1, Zenon DEF Users
    <2> QED
      BY <1>1, <1>7, <2>1, <2>2, Typed, TypeKept, Zenon
  <1>15. ASSUME NEW j \in CacheKeys PROVE (PinAt(j)' \/ PinQuiet(t, j)) /\ DataQuiet(t, j)
    <2>1. DataQuiet(t, j)
      BY <1>1, <1>9, <1>13, Zenon DEF DataQuiet
    <2>2. CASE j # k
      <3>1. SameEntry(j)
        BY <1>5, <1>8, <2>2, OneSwap, Zenon
      <3> QED
        BY <1>9, <2>1, <2>2, <3>1, Zenon DEF PinQuiet
    <2> QED
      BY <1>12, <2>1, <2>2, Zenon
  <1> QED
    BY <1>7, <1>10, <1>11, <1>14, <1>15, HolderStep, Zenon

LEMMA AloneData ==
    ASSUME CacheInv, NEW t \in CacheTasks, Alone(t), NEW k \in CacheKeys, ~Works(t, k), k \notin spoiled
    PROVE  /\ disk[k] = expected[k]
           /\ ~Drops(t, k) => \A e \in Elems(cache) : e.key = k => e.data = expected[k]
  <1>1. ASSUME NEW u \in CacheTasks PROVE ~Works(u, k) /\ (~Drops(t, k) => ~Drops(u, k))
    <2>1. CASE u = t
      BY <2>1, Zenon
    <2>2. CASE u # t
      <3>1. job[u].pc \notin Holding
        BY <2>2, Zenon DEF Alone
      <3> QED
        BY <3>1 DEF Holding, Works, Drops
    <2> QED
      BY <2>1, <2>2, Zenon
  <1>2. DataAt(k)
    BY Typed, Zenon
  <1> QED
    BY <1>1, <1>2, Zenon DEF DataAt

\* The start of a read or a write.
LEMMA FindFacts ==
    ASSUME CacheInv, NEW t \in CacheTasks, NEW k \in CacheKeys, NEW op \in {"read", "write"},
           job[t] = Idle, fat_lock = Nobody, fat_lock' = t,
           job' = [job EXCEPT ![t] = [pc |-> op, key |-> k]]
    PROVE  /\ Turns(t) /\ LockInv' /\ Alone(t) /\ EvictAt(t)' /\ LandedAt(t)' /\ fat_lock' \in Users
           /\ \A j : /\ ~Pins(t, j) /\ ~Works(t, j) /\ ~Drops(t, j)
                     /\ Pins(t, j)' <=> j = k
  <1> DEFINE r == [pc |-> op, key |-> k]
  <1>1. r \in Jobs /\ r.pc = op /\ r.key = k
    <2>1. op \in OnPage
      BY DEF OnPage
    <2> QED
      BY <2>1, JobMakers
  <1> HIDE DEF r
  <1>2. Turns(t) /\ job'[t] = r
    BY <1>1, Typed, TurnFacts, Zenon DEF r
  <1>3. /\ job'[t].pc \in OnPage /\ job'[t].pc # "drop" /\ job'[t].pc # "landed" /\ job'[t].key = k
        /\ job[t].pc = "idle"
    BY <1>1, <1>2 DEF OnPage, Idle
  <1>4. job'[t].pc \in Holding /\ EvictAt(t)' /\ LandedAt(t)' /\ \A j : Pins(t, j)' <=> j = k
    BY <1>3, OnPageNext, Zenon
  <1>5. \A j : ~Pins(t, j) /\ ~Works(t, j) /\ ~Drops(t, j)
    BY <1>3, AtRest, Zenon
  <1>6. LockInv' /\ Alone(t)
    BY <1>2, <1>4, LockTake, Zenon
  <1> QED
    BY <1>2, <1>4, <1>5, <1>6, Zenon DEF Users

LEMMA FindHitInv ==
    ASSUME CacheInv, NEW t \in CacheTasks, NEW k \in CacheKeys, NEW op \in {"read", "write"},
           job[t] = Idle, fat_lock = Nobody, fat_lock' = t, Hit(t, k, op),
           UNCHANGED <<disk, vnode, expected, spoiled>>
    PROVE  CacheInv'
  <1> DEFINE x == Entry(k)
             e == Pinned(x)
             p == Where(k)
  <1>1. /\ Cached(k) /\ cache' = <<e>> \o Cut(cache, p)
        /\ job' = [job EXCEPT ![t] = [pc |-> op, key |-> k]]
    BY Zenon DEF Hit
  <1>2. /\ Turns(t) /\ LockInv' /\ Alone(t) /\ EvictAt(t)' /\ LandedAt(t)' /\ fat_lock' \in Users
        /\ \A j : ~Pins(t, j) /\ ~Works(t, j) /\ ~Drops(t, j) /\ (Pins(t, j)' <=> j = k)
    BY <1>1, FindFacts, Zenon
  <1>3. /\ p \in DOMAIN cache /\ x \in Elems(cache) /\ x \in Entries /\ x.key = k
        /\ x = cache[p] /\ cache[p].key = k /\ k \in KeysOf(cache)
    BY <1>1, Typed, WhereFacts, Zenon
  <1>4. e \in Entries /\ e.key = k /\ e.data = x.data /\ e.pin = x.pin + 1
    BY <1>3, PinFacts, Zenon
  <1> HIDE DEF x, e, p
  <1>5. Swap({k}, {e})
    <2>1. e.key = cache[p].key
      BY <1>3, <1>4, Zenon
    <2>2. Swap({cache[p].key, e.key}, {e})
      BY <1>1, <1>3, <1>4, <2>1, SwapReplace, Zenon
    <2>3. {cache[p].key, e.key} = {k}
      BY <1>3, <1>4
    <2> QED
      BY <2>2, <2>3, Zenon
  <1>6. PinAt(k)'
    BY <1>2, <1>3, <1>4, <1>5, Typed, PinUp, Zenon
  <1>7. \A j : SameData(j)
    BY <1>3, <1>4, <1>5, DataSwap, Zenon
  <1>8. TypeInv' /\ Distinct(cache')
    <2>1. cache' \in Seq(Entries) /\ Distinct(cache')
      BY <1>5, Zenon DEF Swap
    <2> QED
      BY <1>2, <2>1, Typed, TypeKept, Zenon
  <1>9. ASSUME NEW j \in CacheKeys PROVE (PinAt(j)' \/ PinQuiet(t, j)) /\ DataQuiet(t, j)
    <2>1. DataQuiet(t, j)
      BY <1>2, <1>7, Zenon DEF DataQuiet
    <2>2. CASE j # k
      <3>1. SameEntry(j)
        BY <1>4, <1>5, <2>2, OneSwap, Zenon
      <3> QED
        BY <1>2, <2>1, <2>2, <3>1, Zenon DEF PinQuiet
    <2> QED
      BY <1>6, <2>1, <2>2, Zenon
  <1> QED
    BY <1>2, <1>8, <1>9, HolderStep, Zenon

\* An entry that nobody has pinned goes.
LEMMA PinGone ==
    ASSUME NEW t \in CacheTasks, Turns(t), NEW v, PinAt(v), Pins(t, v)' <=> Pins(t, v),
           NEW x \in Elems(cache), x.key = v, x.pin = 0, \A e \in Elems(cache') : e.key # v
    PROVE  PinAt(v)'
  <1>1. Pinners(v)' = Pinners(v)
    BY PinnersStay, Zenon
  <1>2. Cardinality(Pinners(v)) = 0
    BY Zenon DEF PinAt
  <1>3. IsFiniteSet(Pinners(v))
    <2>1. Pinners(v) \in SUBSET CacheTasks
      BY Zenon DEF Pinners
    <2> QED
      BY <2>1, CacheAssumption, FS_Subset, Zenon
  <1>4. Pinners(v) = {}
    BY <1>2, <1>3, FS_EmptySet, Zenon
  <1> QED
    BY <1>1, <1>4, Zenon DEF PinAt, Elems

\* A new entry, of what the disk holds, perhaps in the place of an unpinned one.
LEMMA FreshStep ==
    ASSUME CacheInv, NEW t \in CacheTasks, Turns(t), Alone(t), NEW k \in CacheKeys,
           NEW v, NEW e, e.key = k, e.pin = 1, e.data = disk[k], Swap({v, k}, {e}),
           k \notin KeysOf(cache), v = k \/ \E x \in Elems(cache) : x.key = v /\ x.pin = 0,
           \A j \in CacheKeys : disk'[j] = disk[j] \/ (j # k /\ (j \notin spoiled => disk'[j] = expected[j])),
           UNCHANGED <<vnode, expected, spoiled>>, disk' \in [CacheKeys -> Data],
           fat_lock' \in Users, LockInv', EvictAt(t)', LandedAt(t)',
           \A j : ~Pins(t, j) /\ ~Works(t, j) /\ ~Drops(t, j) /\ (Pins(t, j)' <=> j = k)
    PROVE  CacheInv'
  <1>1. /\ cache' \in Seq(Entries) /\ Distinct(cache')
        /\ \A y \in Elems(cache') : y = e \/ (y \in Elems(cache) /\ y.key # v /\ y.key # k)
        /\ e \in Elems(cache')
    BY DEF Swap
  <1>2. (\A y \in Elems(cache') : y.key = k => y = e) /\ k \in KeysOf(cache')
    BY <1>1, Zenon DEF KeysOf
  <1>3. ASSUME NEW j, j # v, j # k PROVE SameEntry(j) /\ SameData(j)
    <2> DEFINE K == {v, k}
               N == {e}
    <2>1. Swap(K, N) /\ j \notin K /\ \A y \in N : y.key \in K
      BY <1>3
    <2> HIDE DEF K, N
    <2> QED
      BY <2>1, SwapElsewhere, Zenon
  <1>4. PinAt(k)'
    BY <1>2, Typed, PinOne, Zenon
  <1>5. ASSUME NEW j \in CacheKeys, j # k PROVE (PinAt(j)' \/ PinQuiet(t, j)) /\ SameData(j)
    <2>1. CASE j = v
      <3>1. PICK x \in Elems(cache) : x.key = v /\ x.pin = 0
        BY <1>5, <2>1, Zenon
      <3>2. \A y \in Elems(cache') : y.key # v
        BY <1>1, <1>5, <2>1, Zenon
      <3>3. PinAt(v)'
        BY <1>5, <2>1, <3>1, <3>2, Typed, PinGone, Zenon
      <3> QED
        BY <2>1, <3>2, <3>3, Zenon DEF SameData
    <2>2. CASE j # v
      BY <1>3, <1>5, <2>2, Zenon DEF PinQuiet
    <2> QED
      BY <2>1, <2>2, Zenon
  <1>6. ASSUME NEW j \in CacheKeys, j \notin spoiled
        PROVE  disk'[j] = expected[j] /\ \A y \in Elems(cache') : y.key = j => y.data = expected[j]
    <2>1. /\ disk[j] = expected[j]
          /\ \A y \in Elems(cache) : y.key = j => y.data = expected[j]
      BY <1>6, AloneData, Zenon
    <2>2. disk'[j] = expected[j]
      BY <1>6, <2>1, Zenon
    <2>3. CASE j = k
      BY <1>2, <2>1, <2>2, <2>3, Zenon
    <2>4. CASE j # k
      <3>1. SameData(j)
        BY <1>5, <2>4, Zenon
      <3>2. ASSUME NEW y \in Elems(cache'), y.key = j PROVE y.data = expected[j]
        BY <2>1, <3>1, <3>2, Zenon DEF SameData
      <3> QED
        BY <2>2, <3>2, Zenon
    <2> QED
      BY <2>3, <2>4, Zenon
  <1>7. ASSUME NEW j \in CacheKeys PROVE DataAt(j)'
    BY <1>6, Zenon DEF DataAt, Elems
  <1>8. TypeInv'
    BY <1>1, Typed, TypeKept, Zenon
  <1>9. ASSUME NEW j \in CacheKeys
        PROVE  (PinAt(j)' \/ PinQuiet(t, j)) /\ (DataAt(j)' \/ DataQuiet(t, j))
    BY <1>4, <1>5, <1>7, Zenon
  <1> QED
    BY <1>1, <1>8, <1>9, HolderStep, ZenonT(40)

LEMMA FreshFacts ==
    ASSUME NEW t \in CacheTasks, NEW k \in CacheKeys, NEW d \in Data
    PROVE  /\ Fresh(t, k, d) \in Entries /\ Fresh(t, k, d).key = k /\ Fresh(t, k, d).pin = 1
           /\ Fresh(t, k, d).data = d
  BY DEF Fresh, Entries, Users

LEMMA FindNewInv ==
    ASSUME CacheInv, NEW t \in CacheTasks, NEW k \in CacheKeys, NEW op \in {"read", "write"},
           job[t] = Idle, fat_lock = Nobody, fat_lock' = t, AddNew(t, k, op),
           UNCHANGED <<disk, vnode, expected, spoiled>>
    PROVE  CacheInv'
  <1> DEFINE e == Fresh(t, k, disk[k])
  <1>1. /\ ~Cached(k) /\ cache' = <<e>> \o cache
        /\ job' = [job EXCEPT ![t] = [pc |-> op, key |-> k]]
    BY Zenon DEF AddNew
  <1>2. /\ Turns(t) /\ LockInv' /\ Alone(t) /\ EvictAt(t)' /\ LandedAt(t)' /\ fat_lock' \in Users
        /\ \A j : ~Pins(t, j) /\ ~Works(t, j) /\ ~Drops(t, j) /\ (Pins(t, j)' <=> j = k)
    BY <1>1, FindFacts, Zenon
  <1>3. k \notin KeysOf(cache)
    BY <1>1, Typed, WhereFacts, Zenon
  <1>4. e \in Entries /\ e.key = k /\ e.pin = 1 /\ e.data = disk[k]
    <2>1. disk[k] \in Data
      BY Typed, Zenon
    <2> QED
      BY <2>1, FreshFacts, Zenon
  <1> HIDE DEF e
  <1>5. Swap({k, k}, {e})
    <2>1. Swap({e.key}, {e})
      BY <1>1, <1>3, <1>4, SwapPush, Zenon
    <2>2. {e.key} = {k, k}
      BY <1>4
    <2> QED
      BY <2>1, <2>2, Zenon
  <1>6. disk' = disk /\ disk' \in [CacheKeys -> Data] /\ UNCHANGED <<vnode, expected, spoiled>>
    BY Typed, Zenon
  <1>7. \A j \in CacheKeys : disk'[j] = disk[j] \/ (j # k /\ (j \notin spoiled => disk'[j] = expected[j]))
    BY <1>6, Zenon
  <1> QED
    BY <1>2, <1>3, <1>4, <1>5, <1>6, <1>7, FreshStep, Zenon

\* The entry that is recycled.
LEMMA VictimFacts ==
    ASSUME CacheInv, Victims # {}
    PROVE  /\ Victim \in DOMAIN cache /\ cache[Victim].pin = 0
           /\ cache[Victim] \in Elems(cache) /\ cache[Victim] \in Entries
  <1>1. cache \in Seq(Entries)
    BY Typed, Zenon
  <1>2. Victims \in SUBSET (DOMAIN cache) /\ DOMAIN cache = 1 .. Len(cache) /\ Len(cache) \in Nat
    BY <1>1 DEF Victims
  <1>3. \E i \in Victims : \A j \in Victims : j <= i
    BY <1>2, LastOne, Zenon
  <1>4. Victim \in Victims
    BY <1>3, Zenon DEF Victim
  <1> QED
    BY <1>1, <1>4, ElemType, Zenon DEF Victims, Elems

LEMMA FindEvictInv ==
    ASSUME CacheInv, NEW t \in CacheTasks, NEW k \in CacheKeys, NEW op \in {"read", "write"},
           job[t] = Idle, fat_lock = Nobody, fat_lock' = t, AddEvicting(t, k, op),
           UNCHANGED <<disk, vnode, expected, spoiled>>
    PROVE  CacheInv'
  <1>0. PICK p : p = Victim
    OBVIOUS
  <1>1. PICK x : x = cache[p]
    OBVIOUS
  <1>2. PICK v : v = x.key
    OBVIOUS
  <1>3. p \in DOMAIN cache /\ x.pin = 0 /\ x \in Elems(cache) /\ x \in Entries /\ v \in CacheKeys
    <2>1. Victims # {}
      BY Zenon DEF AddEvicting
    <2>2. p \in DOMAIN cache /\ x.pin = 0 /\ x \in Elems(cache) /\ x \in Entries
      BY <1>0, <1>1, <2>1, VictimFacts, Zenon
    <2> QED
      BY <1>2, <2>2, PinFacts, Zenon
  <1>4. k \notin KeysOf(cache) /\ v # k
    <2>1. k \notin KeysOf(cache)
      BY Typed, WhereFacts, Zenon DEF AddEvicting
    <2> QED
      BY <1>2, <1>3, <2>1, Zenon DEF KeysOf
  <1>5. /\ disk[k] \in Data /\ disk' = disk /\ disk' \in [CacheKeys -> Data]
        /\ expected' = expected /\ spoiled' = spoiled /\ vnode' = vnode
    BY Typed, Zenon
  <1>6. CASE /\ cache' = <<Fresh(t, k, disk[k])>> \o Cut(cache, p)
             /\ job' = [job EXCEPT ![t] = [pc |-> op, key |-> k]]
    <2> DEFINE e == Fresh(t, k, disk[k])
    <2>1. e \in Entries /\ e.key = k /\ e.pin = 1 /\ e.data = disk[k]
      BY <1>5, FreshFacts, Zenon
    <2>2. cache' = <<e>> \o Cut(cache, p)
      BY <1>6, Zenon
    <2> HIDE DEF e
    <2>3. Swap({v, k}, {e})
      <3>1. Swap({cache[p].key, e.key}, {e})
        BY <1>3, <1>4, <2>1, <2>2, SwapReplace, Zenon
      <3> QED
        BY <1>1, <1>2, <2>1, <3>1, Zenon
    <2>4. /\ Turns(t) /\ LockInv' /\ Alone(t) /\ EvictAt(t)' /\ LandedAt(t)' /\ fat_lock' \in Users
          /\ \A j : ~Pins(t, j) /\ ~Works(t, j) /\ ~Drops(t, j) /\ (Pins(t, j)' <=> j = k)
      BY <1>6, FindFacts, Zenon
    <2>5. v = k \/ \E y \in Elems(cache) : y.key = v /\ y.pin = 0
      BY <1>2, <1>3, Zenon
    <2>6. \A j \in CacheKeys : disk'[j] = disk[j] \/ (j # k /\ (j \notin spoiled => disk'[j] = expected[j]))
      BY <1>5, Zenon
    <2>7. UNCHANGED <<vnode, expected, spoiled>>
      BY <1>5, Zenon
    <2> QED
      BY <1>4, <1>5, <2>1, <2>3, <2>4, <2>5, <2>6, <2>7, FreshStep, Zenon
  <1>7. CASE /\ cache' = Cut(cache, p)
             /\ job' = [job EXCEPT ![t] = [pc |-> "evict", key |-> k, op |-> op,
                                           page |-> disk[k], victim |-> x]]
    <2> DEFINE r == [pc |-> "evict", key |-> k, op |-> op, page |-> disk[k], victim |-> x]
    <2>1. /\ r \in Jobs /\ r.pc = "evict" /\ r.key = k /\ r.page = disk[k] /\ r.victim = x
      BY <1>3, <1>5, JobMakers
    <2>2. job' = [job EXCEPT ![t] = r]
      BY <1>7, Zenon
    <2> HIDE DEF r
    <2>3. Turns(t) /\ job'[t] = r /\ job[t].pc = "idle" /\ job'[t].pc = "evict"
      <3>1. Turns(t) /\ job'[t] = r
        BY <2>1, <2>2, Typed, TurnFacts, Zenon
      <3> QED
        BY <2>1, <3>1 DEF Idle
    <2>4. /\ job'[t].pc \in Holding /\ LandedAt(t)'
          /\ \A j : ~Pins(t, j)' /\ ~Pins(t, j) /\ ~Works(t, j) /\ ~Drops(t, j)
      <3>1. \A j : ~Pins(t, j) /\ ~Works(t, j) /\ ~Drops(t, j)
        BY <2>3, AtRest, Zenon
      <3>2. job'[t].pc \in Holding /\ LandedAt(t)' /\ \A j : ~Pins(t, j)'
        BY <2>3 DEF Holding, LandedAt, Pins
      <3> QED
        BY <3>1, <3>2, Zenon
    <2>5. LockInv' /\ Alone(t)
      BY <2>3, <2>4, LockTake, Zenon
    <2>6. Swap({v}, {})
      BY <1>1, <1>2, <1>3, <1>7, SwapCut, Zenon
    <2>7. /\ cache' \in Seq(Entries) /\ Distinct(cache')
          /\ \A e \in Elems(cache') : e \in Elems(cache) /\ e.key # v
      BY <2>6 DEF Swap
    <2>8. \A j : j # v => SameEntry(j) /\ SameData(j)
      <3> DEFINE K == {v}
                 N == {}
      <3>1. Swap(K, N) /\ (\A j : j # v => j \notin K) /\ \A y \in N : y.key \in K
        BY <2>6
      <3> HIDE DEF K, N
      <3> QED
        BY <3>1, SwapElsewhere, Zenon
    <2>9. EvictAt(t)'
      <3>1. k \notin KeysOf(cache')
        BY <1>4, <2>7, Zenon DEF KeysOf
      <3>2. v \notin spoiled => x.data = expected[v]
        BY <1>2, <1>3, <2>4, <2>5, AloneData, Zenon
      <3>3. /\ job'[t].key = k /\ job'[t].page = disk'[k] /\ job'[t].victim = x
            /\ x.key \notin spoiled' => x.data = expected'[x.key]
            /\ x.key # k
        BY <1>2, <1>4, <1>5, <2>1, <2>3, <3>2, Zenon
      <3> QED
        BY <3>1, <3>3, Zenon DEF EvictAt, KeysOf, Elems
    <2>10. PinAt(v)'
      BY <1>2, <1>3, <2>3, <2>4, <2>7, Typed, PinGone, Zenon
    <2>11. TypeInv'
      <3>1. fat_lock' \in Users
        BY Zenon DEF Users
      <3> QED
        BY <1>5, <2>3, <2>7, <3>1, Typed, TypeKept, Zenon
    <2>12. ASSUME NEW j \in CacheKeys PROVE (PinAt(j)' \/ PinQuiet(t, j)) /\ DataQuiet(t, j)
      <3>1. SameData(j)
        BY <2>7, <2>8, Zenon DEF SameData
      <3>2. DataQuiet(t, j)
        BY <1>5, <2>4, <3>1, Zenon DEF DataQuiet
      <3>3. j # v => PinQuiet(t, j)
        BY <2>4, <2>8, Zenon DEF PinQuiet
      <3> QED
        BY <2>10, <3>2, <3>3, Zenon
    <2> QED
      BY <2>3, <2>4, <2>5, <2>7, <2>9, <2>11, <2>12, HolderStep, Zenon
  <1> QED
    BY <1>0, <1>1, <1>6, <1>7, Zenon DEF AddEvicting

LEMMA FindInv ==
    ASSUME CacheInv, NEW t \in CacheTasks, NEW k \in CacheKeys, NEW op \in {"read", "write"}, Find(t, k, op)
    PROVE  CacheInv'
  <1>1. /\ job[t] = Idle /\ fat_lock = Nobody /\ fat_lock' = t
        /\ UNCHANGED <<disk, vnode, expected, spoiled>>
        /\ Hit(t, k, op) \/ AddNew(t, k, op) \/ AddEvicting(t, k, op)
    BY Zenon DEF Find
  <1> QED
    BY <1>1, FindHitInv, FindNewInv, FindEvictInv, Zenon

LEMMA EvictedInv ==
    ASSUME CacheInv, NEW t \in CacheTasks, Evicted(t)
    PROVE  CacheInv'
  <1>0. PICK k, w, op : k = job[t].key /\ w = job[t].victim.key /\ op = job[t].op
    BY Zenon
  <1> DEFINE e == Fresh(t, k, job[t].page)
             r == [pc |-> op, key |-> k]
  <1>1. /\ job[t].pc = "evict" /\ cache' = <<e>> \o cache /\ job' = [job EXCEPT ![t] = r]
        /\ disk' \in {disk, [disk EXCEPT ![w] = job[t].victim.data]}
        /\ vnode' = vnode /\ fat_lock' = fat_lock /\ expected' = expected /\ spoiled' = spoiled
    BY <1>0, Zenon DEF Evicted
  <1>2. /\ k \in CacheKeys /\ op \in {"read", "write"} /\ job[t].page \in Data
        /\ w \in CacheKeys /\ job[t].victim.data \in Data
    <2>1. job[t].key \in CacheKeys /\ job[t].op \in {"read", "write"} /\ job[t].page \in Data /\ job[t].victim \in Entries
      BY <1>1, Typed, JobFacts, Zenon
    <2> QED
      BY <1>0, <2>1, PinFacts, Zenon
  <1>3. /\ k \notin KeysOf(cache) /\ job[t].page = disk[k] /\ w # k
        /\ w \notin spoiled => job[t].victim.data = expected[w]
    <2>1. EvictAt(t)
      BY Zenon DEF CacheInv, EvictInv
    <2> QED
      BY <1>0, <1>1, <2>1, Zenon DEF EvictAt
  <1>4. e \in Entries /\ e.key = k /\ e.pin = 1 /\ e.data = disk[k]
    <2>1. e \in Entries /\ e.key = k /\ e.pin = 1 /\ e.data = job[t].page
      BY <1>2, FreshFacts, ZenonT(40)
    <2> HIDE DEF e
    <2> QED
      BY <1>3, <2>1, Zenon
  <1>5. r \in Jobs /\ r.pc = op /\ r.key = k /\ op \in OnPage
    <2>1. op \in OnPage
      BY <1>2 DEF OnPage
    <2> QED
      BY <1>2, <2>1, JobMakers
  <1> HIDE DEF e, r
  <1>6. Turns(t) /\ job'[t] = r
    BY <1>1, <1>5, Typed, TurnFacts, Zenon
  <1>7. /\ job[t].pc \in Holding /\ job'[t].pc \in OnPage /\ job'[t].pc # "drop"
        /\ job'[t].pc # "landed" /\ job'[t].key = k
    BY <1>1, <1>2, <1>5, <1>6, SMTT(30) DEF Holding
  <1>8. job'[t].pc \in Holding /\ EvictAt(t)' /\ LandedAt(t)' /\ \A j : Pins(t, j)' <=> j = k
    BY <1>7, OnPageNext, Zenon
  <1>9. \A j : ~Pins(t, j) /\ ~Works(t, j) /\ ~Drops(t, j)
    BY <1>1 DEF Pins, Works, Drops
  <1>10. LockInv' /\ Alone(t) /\ fat_lock' \in Users
    BY <1>1, <1>6, <1>7, <1>8, Typed, LockSame, LockHeld, Zenon
  <1>11. Swap({k, k}, {e})
    <2>1. Swap({e.key}, {e})
      BY <1>1, <1>3, <1>4, SwapPush, Zenon
    <2>2. {e.key} = {k, k}
      BY <1>4
    <2> QED
      BY <2>1, <2>2, Zenon
  <1>12. disk' \in [CacheKeys -> Data]
    BY <1>1, <1>2, Typed, Zenon
  <1>13. ASSUME NEW j \in CacheKeys
         PROVE  disk'[j] = disk[j] \/ (j # k /\ (j \notin spoiled => disk'[j] = expected[j]))
    <2>1. CASE j # w
      <3>1. disk \in [CacheKeys -> Data]
        BY Typed, Zenon
      <3> QED
        BY <1>1, <2>1, <3>1, Zenon
    <2>2. CASE j = w
      <3>1. disk'[w] = disk[w] \/ disk'[w] = job[t].victim.data
        <4>1. disk \in [CacheKeys -> Data]
          BY Typed, Zenon
        <4> QED
          BY <1>1, <1>2, <4>1, Zenon
      <3> QED
        BY <1>3, <2>2, <3>1, Zenon
    <2> QED
      BY <2>1, <2>2, Zenon
  <1>14. UNCHANGED <<vnode, expected, spoiled>>
    BY <1>1, Zenon
  <1> QED
    BY <1>2, <1>3, <1>4, <1>6, <1>8, <1>9, <1>10, <1>11, <1>12, <1>13, <1>14, FreshStep, Zenon

LEMMA PinSame ==
    ASSUME NEW t \in CacheTasks, Turns(t), NEW k, PinAt(k), Pins(t, k)' <=> Pins(t, k),
           NEW x \in Elems(cache), x.key = k, NEW e, e.key = k, e.pin = x.pin, Swap({k}, {e})
    PROVE  PinAt(k)'
  <1>1. Pinners(k)' = Pinners(k)
    BY PinnersStay, Zenon
  <1>2. e.pin = Cardinality(Pinners(k))
    BY Zenon DEF PinAt
  <1>3. (\A y \in Elems(cache') : y.key = k => y = e) /\ k \in KeysOf(cache')
    BY OneSwap, Zenon
  <1> QED
    BY <1>1, <1>2, <1>3, Zenon DEF PinAt, Elems, KeysOf

\* Nothing is said of a page while it is being written.
LEMMA AtWork ==
    ASSUME NEW t \in CacheTasks, NEW k, Works(t, k)' \/ k \in spoiled'
    PROVE  DataAt(k)'
  BY Zenon DEF DataAt

\* Moving from one place on a page to another.
LEMMA OnPageTurn ==
    ASSUME CacheInv, NEW t \in CacheTasks, NEW k, job[t].pc \in OnPage, k = job[t].key,
           NEW pc \in OnPage, job' = [job EXCEPT ![t].pc = pc]
    PROVE  Turns(t) /\ job'[t].pc = pc /\ job'[t].key = k /\ k \in CacheKeys
  <1>1. job[t] \in [pc : OnPage, key : CacheKeys]
    BY Typed, JobFacts, Zenon
  <1> DEFINE r == [job[t] EXCEPT !.pc = pc]
  <1>2. r \in [pc : OnPage, key : CacheKeys] /\ r.pc = pc /\ r.key = k
    BY <1>1
  <1>3. r \in Jobs
    BY <1>2, Zenon DEF Jobs
  <1>4. job' = [job EXCEPT ![t] = r]
    BY Zenon
  <1> HIDE DEF r
  <1>5. Turns(t) /\ job'[t] = r
    BY <1>3, <1>4, Typed, TurnFacts, Zenon
  <1> QED
    BY <1>1, <1>2, <1>5, SMTT(30)

LEMMA CopyInInv ==
    ASSUME CacheInv, NEW t \in CacheTasks, CopyIn(t)
    PROVE  CacheInv'
  <1>0. PICK k : k = job[t].key
    BY Zenon
  <1> DEFINE x == Entry(k)
  <1>1. PICK c \in Contents : Change(k, [x EXCEPT !.data = c, !.dirty = TRUE])
    BY <1>0, Zenon DEF CopyIn
  <1> DEFINE e == [x EXCEPT !.data = c, !.dirty = TRUE]
  <1>2. /\ job[t].pc = "write" /\ job' = [job EXCEPT ![t].pc = "dirty"]
        /\ disk' = disk /\ vnode' = vnode /\ fat_lock' = fat_lock /\ expected' = expected /\ spoiled' = spoiled
    BY Zenon DEF CopyIn, Go
  <1>3. job[t].pc \in OnPage /\ job[t].pc # "drop" /\ "dirty" \in OnPage
    BY <1>2 DEF OnPage
  <1>4. Turns(t) /\ job'[t].pc = "dirty" /\ job'[t].key = k /\ k \in CacheKeys
    BY <1>0, <1>2, <1>3, OnPageTurn, Zenon
  <1>5. Pins(t, k) /\ job[t].pc \in Holding /\ \A j : (Pins(t, j) <=> j = k) /\ ~Works(t, j) /\ ~Drops(t, j)
    BY <1>0, <1>2, <1>3, OnPageFacts, Zenon
  <1>6. /\ job'[t].pc \in Holding /\ EvictAt(t)' /\ LandedAt(t)'
        /\ \A j : (Pins(t, j)' <=> j = k) /\ (Works(t, j)' <=> j = k)
    <2>1. job'[t].pc \in OnPage /\ job'[t].pc # "drop" /\ job'[t].pc # "landed"
      BY <1>4 DEF OnPage
    <2> QED
      BY <1>4, <2>1, OnPageNext, Zenon
  <1>7. Cached(k) /\ x \in Entries /\ x \in Elems(cache) /\ x.key = k
    BY <1>4, <1>5, PinnedEntry, Zenon
  <1>8. e \in Entries /\ e.key = k /\ e.pin = x.pin
    <2> HIDE DEF x
    <2> QED
      BY <1>7, Zenon DEF Entries, Data
  <1>9. Change(k, e)
    BY <1>1, Zenon
  <1> HIDE DEF e, x
  <1>10. Swap({k}, {e})
    BY <1>7, <1>8, <1>9, SwapChange, Zenon
  <1>11. PinAt(k)'
    BY <1>4, <1>5, <1>6, <1>7, <1>8, <1>10, Typed, PinSame, Zenon
  <1>12. LockInv' /\ Alone(t)
    BY <1>2, <1>4, <1>5, <1>6, LockSame, LockHeld, Zenon
  <1>13. TypeInv' /\ Distinct(cache')
    <2>1. cache' \in Seq(Entries) /\ Distinct(cache')
      BY <1>10, Zenon DEF Swap
    <2> QED
      BY <1>2, <1>4, <2>1, Typed, TypeKept, Zenon
  <1>14. ASSUME NEW j \in CacheKeys
         PROVE  (PinAt(j)' \/ PinQuiet(t, j)) /\ (DataAt(j)' \/ DataQuiet(t, j))
    <2>1. CASE j = k
      BY <1>6, <1>11, <2>1, AtWork, Zenon
    <2>2. CASE j # k
      <3>1. SameEntry(j) /\ SameData(j)
        BY <1>8, <1>10, <2>2, OneSwap, Zenon
      <3>2. PinQuiet(t, j)
        BY <1>5, <1>6, <3>1, Zenon DEF PinQuiet
      <3>3. DataQuiet(t, j)
        BY <1>2, <1>5, <3>1, Zenon DEF DataQuiet
      <3> QED
        BY <3>2, <3>3, Zenon
    <2> QED
      BY <2>1, <2>2, Zenon
  <1> QED
    BY <1>4, <1>6, <1>12, <1>13, <1>14, HolderStep, Zenon

LEMMA WriteThroughInv ==
    ASSUME CacheInv, NEW t \in CacheTasks, WriteThrough(t)
    PROVE  CacheInv'
  <1>0. PICK k : k = job[t].key
    BY Zenon
  <1> DEFINE x == Entry(k)
             full == [disk EXCEPT ![k] = x.data]
  <1>1. /\ job[t].pc = "dirty" /\ cache' = cache
        /\ vnode' = vnode /\ fat_lock' = fat_lock /\ expected' = expected /\ spoiled' = spoiled
    BY Zenon DEF WriteThrough
  <1>2. PICK pc \in {"landed", "failed"} :
            /\ job' = [job EXCEPT ![t].pc = pc] /\ disk' \in {disk, full}
            /\ pc = "landed" => disk' = full
    <2>1. \/ Go(t, "landed") /\ disk' = full
          \/ Go(t, "failed") /\ disk' \in {disk, full}
      BY <1>0, Zenon DEF WriteThrough
    <2> HIDE DEF full
    <2>2. CASE Go(t, "landed") /\ disk' = full
      BY <2>2 DEF Go
    <2>3. CASE Go(t, "failed") /\ disk' \in {disk, full}
      BY <2>3 DEF Go
    <2> QED
      BY <2>1, <2>2, <2>3, Zenon
  <1>3. job[t].pc \in OnPage /\ job[t].pc # "drop" /\ pc \in OnPage
    BY <1>1, <1>2 DEF OnPage
  <1>4. Turns(t) /\ job'[t].pc = pc /\ job'[t].key = k /\ k \in CacheKeys
    BY <1>0, <1>2, <1>3, OnPageTurn, Zenon
  <1>5. Pins(t, k) /\ job[t].pc \in Holding /\ \A j : (Pins(t, j) <=> j = k) /\ (Works(t, j) <=> j = k) /\ ~Drops(t, j)
    BY <1>0, <1>1, <1>3, OnPageFacts, Zenon
  <1>6. /\ job'[t].pc \in Holding /\ EvictAt(t)'
        /\ \A j : (Pins(t, j)' <=> j = k) /\ (Works(t, j)' <=> j = k)
    <2>1. job'[t].pc \in OnPage /\ job'[t].pc # "drop" /\ job'[t].pc \in {"dirty", "landed", "failed"}
      BY <1>2, <1>4 DEF OnPage
    <2> QED
      BY <1>4, <2>1, OnPageNext, Zenon
  <1>7. x \in Entries /\ \A e \in Elems(cache) : e.key = k => e = x
    BY <1>4, <1>5, PinnedEntry, Zenon
  <1>8. /\ disk' \in [CacheKeys -> Data] /\ \A j \in CacheKeys : j # k => disk'[j] = disk[j]
        /\ pc = "landed" => disk'[k] = x.data
    <2>1. disk \in [CacheKeys -> Data] /\ x.data \in Data
      BY <1>7, Typed, PinFacts, Zenon
    <2> HIDE DEF x
    <2> QED
      BY <1>2, <1>4, <2>1, Zenon
  <1> HIDE DEF x, full
  <1>9. LandedAt(t)'
    <2>1. ASSUME pc = "landed", NEW e \in Elems(cache), e.key = k PROVE e.data = disk'[e.key]
      BY <1>7, <1>8, <2>1, Zenon
    <2> QED
      BY <1>1, <1>4, <2>1, Zenon DEF LandedAt, Elems
  <1>10. LockInv' /\ Alone(t)
    BY <1>1, <1>4, <1>5, <1>6, LockSame, LockHeld, Zenon
  <1>11. TypeInv' /\ Distinct(cache')
    <2>1. cache' \in Seq(Entries) /\ Distinct(cache')
      BY <1>1, Typed, Zenon
    <2> QED
      BY <1>1, <1>4, <1>8, <2>1, Typed, TypeKept, Zenon
  <1>12. ASSUME NEW j \in CacheKeys
         PROVE  PinQuiet(t, j) /\ (DataAt(j)' \/ DataQuiet(t, j))
    <2>1. SameEntry(j) /\ SameData(j)
      BY <1>1, CacheStays, Zenon
    <2>2. PinQuiet(t, j)
      BY <1>5, <1>6, <2>1, Zenon DEF PinQuiet
    <2>3. CASE j = k
      BY <1>6, <2>2, <2>3, AtWork, Zenon
    <2>4. CASE j # k
      BY <1>1, <1>5, <1>8, <2>1, <2>2, <2>4, Zenon DEF DataQuiet
    <2> QED
      BY <2>3, <2>4, Zenon
  <1> QED
    BY <1>4, <1>6, <1>9, <1>10, <1>11, <1>12, HolderStep, Zenon

LEMMA PageLandedInv ==
    ASSUME CacheInv, NEW t \in CacheTasks, PageLanded(t)
    PROVE  CacheInv'
  <1>0. PICK k : k = job[t].key
    BY Zenon
  <1> DEFINE x == Entry(k)
             e == [Unpinned(x) EXCEPT !.dirty = FALSE]
  <1>1. /\ job[t].pc = "landed" /\ Change(k, e) /\ job' = [job EXCEPT ![t] = Idle]
        /\ expected' = [expected EXCEPT ![k] = disk[k]] /\ spoiled' = spoiled \ {k}
        /\ fat_lock' = Nobody /\ disk' = disk /\ vnode' = vnode
    BY <1>0, Zenon DEF PageLanded
  <1>2. job[t].pc \in OnPage /\ job[t].pc # "drop"
    BY <1>1 DEF OnPage
  <1>3. /\ k \in CacheKeys /\ Pins(t, k) /\ job[t].pc \in Holding
        /\ \A j : j # k => ~Pins(t, j) /\ ~Works(t, j) /\ ~Drops(t, j)
    BY <1>0, <1>1, <1>2, Typed, JobFacts, OnPageFacts, Zenon
  <1>4. Cached(k) /\ x \in Entries /\ x \in Elems(cache) /\ x.key = k
    BY <1>3, PinnedEntry, Zenon
  <1>5. e \in Entries /\ e.key = k /\ e.data = x.data /\ e.pin = Unpinned(x).pin
    <2> DEFINE y == Unpinned(x)
    <2>1. y \in Entries /\ y.key = k /\ y.data = x.data /\ e = [y EXCEPT !.dirty = FALSE]
      BY <1>4, PinFacts, Zenon
    <2> HIDE DEF y, x, e
    <2>2. e \in Entries /\ e.key = y.key /\ e.data = y.data /\ e.pin = y.pin
      BY <2>1, Zenon DEF Entries
    <2> QED
      BY <2>1, <2>2, Zenon DEF y
  <1>6. Turns(t) /\ job'[t].pc = "idle"
    <2>1. Idle \in Jobs /\ Idle.pc = "idle"
      BY JobMakers DEF Idle
    <2> QED
      BY <1>1, <2>1, Typed, TurnFacts, Zenon
  <1> HIDE DEF e, x
  <1>7. Swap({k}, {e})
    BY <1>1, <1>4, <1>5, SwapChange, Zenon
  <1>8. job'[t].pc \notin Holding /\ EvictAt(t)' /\ LandedAt(t)' /\ \A j : ~Pins(t, j)'
    BY <1>6, AtRestNext, Zenon
  <1>9. LockInv' /\ Alone(t) /\ fat_lock' \in Users
    BY <1>1, <1>3, <1>6, <1>8, LockDrop, LockHeld, Zenon DEF Users
  <1>10. PinAt(k)'
    <2>1. PinAt(k) /\ ~Pins(t, k)'
      BY <1>3, <1>8, Typed, Zenon
    <2> QED
      BY <1>3, <1>4, <1>5, <1>6, <1>7, <2>1, PinDown, Zenon
  <1>11. /\ expected' \in [CacheKeys -> Data] /\ expected'[k] = disk[k]
         /\ \A j \in CacheKeys : j # k => expected'[j] = expected[j]
    <2>1. expected \in [CacheKeys -> Data] /\ disk[k] \in Data
      BY <1>3, Typed, Zenon
    <2> QED
      BY <1>1, <1>3, <2>1, Zenon
  <1>12. DataAt(k)'
    <2>1. x.data = disk[k]
      <3>1. LandedAt(t)
        BY Zenon DEF CacheInv, LandedInv
      <3> QED
        BY <1>0, <1>1, <1>4, <3>1, Zenon DEF LandedAt
    <2>2. \A y \in Elems(cache') : y.key = k => y.data = disk[k]
      BY <1>5, <1>7, <2>1, OneSwap, Zenon
    <2> QED
      BY <1>1, <1>11, <2>2, Zenon DEF DataAt, Elems
  <1>13. TypeInv' /\ Distinct(cache')
    <2>1. cache' \in Seq(Entries) /\ Distinct(cache')
      BY <1>7, Zenon DEF Swap
    <2> QED
      BY <1>1, <1>6, <1>9, <1>11, <2>1, Typed, TypeKept, Zenon
  <1>14. ASSUME NEW j \in CacheKeys, j # k PROVE PinQuiet(t, j) /\ DataQuiet(t, j)
    <2>1. SameEntry(j) /\ SameData(j)
      BY <1>5, <1>7, <1>14, OneSwap, Zenon
    <2>2. j \in spoiled => j \in spoiled'
      BY <1>1, <1>14, Zenon
    <2>3. PinQuiet(t, j)
      BY <1>3, <1>8, <1>14, <2>1, Zenon DEF PinQuiet
    <2> QED
      BY <1>1, <1>3, <1>11, <1>14, <2>1, <2>2, <2>3, Zenon DEF DataQuiet
  <1>15. \A j \in CacheKeys : (PinAt(j)' \/ PinQuiet(t, j)) /\ (DataAt(j)' \/ DataQuiet(t, j))
    BY <1>10, <1>12, <1>14, Zenon
  <1> QED
    BY <1>6, <1>8, <1>9, <1>13, <1>15, HolderStep, Zenon

LEMMA PutFailedInv ==
    ASSUME CacheInv, NEW t \in CacheTasks, PutFailed(t)
    PROVE  CacheInv'
  <1>0. PICK k : k = job[t].key
    BY Zenon
  <1> DEFINE x == Entry(k)
             e == Unpinned(x)
  <1>1. /\ job[t].pc = "failed" /\ Change(k, e) /\ job' = [job EXCEPT ![t].pc = "drop"]
        /\ expected' = [expected EXCEPT ![k] = disk[k]] /\ spoiled' = spoiled
        /\ fat_lock' = fat_lock /\ disk' = disk /\ vnode' = vnode
    BY <1>0, Zenon DEF PutFailed, Go
  <1>2. job[t].pc \in OnPage /\ job[t].pc # "drop" /\ "drop" \in OnPage
    BY <1>1 DEF OnPage
  <1>3. /\ Pins(t, k) /\ job[t].pc \in Holding
        /\ \A j : j # k => ~Pins(t, j) /\ ~Works(t, j) /\ ~Drops(t, j)
    BY <1>0, <1>1, <1>2, OnPageFacts, Zenon
  <1>4. Turns(t) /\ job'[t].pc = "drop" /\ job'[t].key = k /\ k \in CacheKeys
    BY <1>0, <1>1, <1>2, OnPageTurn, Zenon
  <1>5. Cached(k) /\ x \in Entries /\ x \in Elems(cache) /\ x.key = k
    BY <1>3, <1>4, PinnedEntry, Zenon
  <1>6. e \in Entries /\ e.key = k /\ e.data = x.data /\ e.pin = Unpinned(x).pin
    BY <1>5, PinFacts, Zenon
  <1> HIDE DEF e, x
  <1>7. Swap({k}, {e})
    BY <1>1, <1>5, <1>6, SwapChange, Zenon
  <1>8. job'[t].pc \in Holding /\ EvictAt(t)' /\ LandedAt(t)' /\ (\A j : ~Pins(t, j)') /\ Drops(t, k)'
    <2>1. job'[t].pc \in OnPage /\ job'[t].pc # "landed"
      BY <1>4 DEF OnPage
    <2> QED
      BY <1>4, <2>1, OnPageNext, Zenon
  <1>9. LockInv' /\ Alone(t)
    BY <1>1, <1>3, <1>4, <1>8, LockSame, LockHeld, Zenon
  <1>10. PinAt(k)'
    <2>1. PinAt(k) /\ ~Pins(t, k)'
      BY <1>4, <1>8, Typed, Zenon
    <2> QED
      BY <1>3, <1>4, <1>5, <1>6, <1>7, <2>1, PinDown, Zenon
  <1>11. /\ expected' \in [CacheKeys -> Data] /\ expected'[k] = disk[k]
         /\ \A j \in CacheKeys : j # k => expected'[j] = expected[j]
    <2>1. expected \in [CacheKeys -> Data] /\ disk[k] \in Data
      BY <1>4, Typed, Zenon
    <2> QED
      BY <1>1, <1>4, <2>1, Zenon
  <1>12. DataAt(k)'
    BY <1>1, <1>8, <1>11, Zenon DEF DataAt
  <1>13. TypeInv' /\ Distinct(cache')
    <2>1. cache' \in Seq(Entries) /\ Distinct(cache')
      BY <1>7, Zenon DEF Swap
    <2> QED
      BY <1>1, <1>4, <1>11, <2>1, Typed, TypeKept, Zenon
  <1>14. ASSUME NEW j \in CacheKeys, j # k PROVE PinQuiet(t, j) /\ DataQuiet(t, j)
    <2>1. SameEntry(j) /\ SameData(j)
      BY <1>6, <1>7, <1>14, OneSwap, Zenon
    <2>2. PinQuiet(t, j)
      BY <1>3, <1>8, <1>14, <2>1, Zenon DEF PinQuiet
    <2> QED
      BY <1>1, <1>3, <1>11, <1>14, <2>1, <2>2, Zenon DEF DataQuiet
  <1>15. \A j \in CacheKeys : (PinAt(j)' \/ PinQuiet(t, j)) /\ (DataAt(j)' \/ DataQuiet(t, j))
    BY <1>10, <1>12, <1>14, Zenon
  <1> QED
    BY <1>4, <1>8, <1>9, <1>13, <1>15, HolderStep, Zenon

LEMMA DropPageInv ==
    ASSUME CacheInv, NEW t \in CacheTasks, DropPage(t)
    PROVE  CacheInv'
  <1>0. PICK k : k = job[t].key
    BY Zenon
  <1>1. /\ job[t].pc = "drop" /\ job' = [job EXCEPT ![t] = Idle]
        /\ expected' = [j \in CacheKeys |-> IF j \in spoiled' THEN 0 ELSE expected[j]]
        /\ fat_lock' = Nobody /\ disk' = disk /\ vnode' = vnode
        /\ \/ Cached(k) /\ Entry(k).pin = 0 /\ cache' = Cut(cache, Where(k)) /\ spoiled' = spoiled
           \/ spoiled' = spoiled \cup {k} /\ cache' = cache
    BY <1>0, Zenon DEF DropPage
  <1>2. /\ k \in CacheKeys /\ job[t].pc \in Holding /\ \A j : ~Pins(t, j) /\ ~Works(t, j)
        /\ \A j : j # k => ~Drops(t, j)
    <2>1. job[t].pc \in OnPage
      BY <1>1 DEF OnPage
    <2> QED
      BY <1>0, <1>1, <2>1, Typed, JobFacts, OnPageFacts, Zenon
  <1>3. Turns(t) /\ job'[t].pc = "idle"
    <2>1. Idle \in Jobs /\ Idle.pc = "idle"
      BY JobMakers DEF Idle
    <2> QED
      BY <1>1, <2>1, Typed, TurnFacts, Zenon
  <1>4. job'[t].pc \notin Holding /\ EvictAt(t)' /\ LandedAt(t)' /\ \A j : ~Pins(t, j)'
    BY <1>3, AtRestNext, Zenon
  <1>5. LockInv' /\ Alone(t) /\ fat_lock' \in Users
    BY <1>1, <1>2, <1>3, <1>4, LockDrop, LockHeld, Zenon DEF Users
  <1>6. /\ expected' \in [CacheKeys -> Data]
        /\ \A j \in CacheKeys : j \notin spoiled' => expected'[j] = expected[j]
    <2>1. expected \in [CacheKeys -> Data] /\ 0 \in Data
      BY Typed, Zenon DEF Data
    <2> QED
      BY <1>1, <2>1, Zenon
  <1>7. ASSUME NEW j \in CacheKeys, j # k, SameData(j), j \in spoiled => j \in spoiled'
        PROVE  DataAt(j)' \/ DataQuiet(t, j)
    <2>1. CASE j \in spoiled'
      BY <2>1, AtWork, Zenon
    <2>2. CASE j \notin spoiled'
      BY <1>1, <1>2, <1>6, <1>7, <2>2, ZenonT(40) DEF DataQuiet
    <2> QED
      BY <2>1, <2>2, Zenon
  <1>8. CASE Cached(k) /\ Entry(k).pin = 0 /\ cache' = Cut(cache, Where(k)) /\ spoiled' = spoiled
    <2>0. PICK p : p = Where(k)
      BY Zenon
    <2>1. PICK x : x = Entry(k)
      BY Zenon
    <2>2. p \in DOMAIN cache /\ x \in Elems(cache) /\ x.key = k /\ x = cache[p] /\ x.pin = 0
      BY <1>8, <2>0, <2>1, Typed, WhereFacts, Zenon
    <2>3. Swap({k}, {})
      <3>1. Swap({cache[p].key}, {})
        BY <1>8, <2>0, <2>2, SwapCut, Zenon
      <3> QED
        BY <2>2, <3>1, Zenon
    <2>4. /\ cache' \in Seq(Entries) /\ Distinct(cache')
          /\ \A e \in Elems(cache') : e.key # k
      BY <2>3 DEF Swap
    <2>5. \A j : j # k => SameEntry(j) /\ SameData(j)
      <3> DEFINE K == {k}
                 N == {}
      <3>1. Swap(K, N) /\ (\A j : j # k => j \notin K) /\ \A y \in N : y.key \in K
        BY <2>3
      <3> HIDE DEF K, N
      <3> QED
        BY <3>1, SwapElsewhere, Zenon
    <2>6. PinAt(k)'
      BY <1>2, <1>3, <1>4, <2>2, <2>4, Typed, PinGone, Zenon
    <2>7. DataAt(k)'
      <3>1. k \notin spoiled => disk'[k] = expected'[k]
        BY <1>1, <1>2, <1>5, <1>6, <1>8, AloneData, Zenon
      <3> QED
        BY <1>8, <2>4, <3>1, Zenon DEF DataAt, Elems
    <2>8. TypeInv'
      BY <1>1, <1>3, <1>5, <1>6, <2>4, Typed, TypeKept, Zenon
    <2>9. ASSUME NEW j \in CacheKeys, j # k PROVE PinQuiet(t, j) /\ (DataAt(j)' \/ DataQuiet(t, j))
      <3>1. PinQuiet(t, j)
        BY <1>2, <1>4, <2>5, <2>9, Zenon DEF PinQuiet
      <3> QED
        BY <1>7, <1>8, <2>5, <2>9, <3>1, Zenon
    <2>10. \A j \in CacheKeys : (PinAt(j)' \/ PinQuiet(t, j)) /\ (DataAt(j)' \/ DataQuiet(t, j))
      BY <2>6, <2>7, <2>9, Zenon
    <2> QED
      BY <1>3, <1>4, <1>5, <2>4, <2>8, <2>10, HolderStep, Zenon
  <1>9. CASE spoiled' = spoiled \cup {k} /\ cache' = cache
    <2>1. cache' \in Seq(Entries) /\ Distinct(cache')
      BY <1>9, Typed, Zenon
    <2>2. TypeInv'
      BY <1>1, <1>3, <1>5, <1>6, <2>1, Typed, TypeKept, ZenonT(40)
    <2>3. DataAt(k)'
      BY <1>9, AtWork, Zenon
    <2>4. ASSUME NEW j \in CacheKeys PROVE PinQuiet(t, j) /\ (DataAt(j)' \/ DataQuiet(t, j))
      <3>1. SameEntry(j) /\ SameData(j)
        BY <1>9, CacheStays, Zenon
      <3>2. PinQuiet(t, j)
        BY <1>2, <1>4, <3>1, Zenon DEF PinQuiet
      <3>3. j \in spoiled => j \in spoiled'
        BY <1>9, Zenon
      <3> QED
        BY <1>7, <2>3, <3>1, <3>2, <3>3, Zenon
    <2> QED
      BY <1>3, <1>4, <1>5, <2>1, <2>2, <2>4, HolderStep, Zenon
  <1> QED
    BY <1>1, <1>8, <1>9, Zenon

LEMMA WalkWriteInv ==
    ASSUME CacheInv, NEW t \in CacheTasks, WalkWrite(t)
    PROVE  CacheInv'
  <1>0. PICK k : k = Buckets[job[t].at]
    BY Zenon
  <1>1. /\ job[t].pc = "writing" /\ cache' = cache /\ fat_lock' = Nobody
        /\ vnode' = vnode /\ expected' = expected /\ spoiled' = spoiled
    BY Zenon DEF WalkWrite
  <1>2. PICK pc \in {"written", "unwritten"} :
            /\ job' = [job EXCEPT ![t] = [pc |-> pc, scope |-> job[t].scope, at |-> job[t].at]]
            /\ disk' \in {disk, [disk EXCEPT ![k] = Entry(k).data]}
    <2>1. \/ WalkAt(t, "written") /\ disk' = [disk EXCEPT ![k] = Entry(k).data]
          \/ WalkAt(t, "unwritten") /\ disk' = disk
      BY <1>0, Zenon DEF WalkWrite
    <2>2. CASE WalkAt(t, "written") /\ disk' = [disk EXCEPT ![k] = Entry(k).data]
      BY <2>2, Zenon DEF WalkAt
    <2>3. CASE WalkAt(t, "unwritten") /\ disk' = disk
      BY <2>3, Zenon DEF WalkAt
    <2> QED
      BY <2>1, <2>2, <2>3, Zenon
  <1>3. job[t].pc \in Visits /\ job[t].pc \in Holding
    BY <1>1 DEF Visits, Holding
  <1>4. k \in CacheKeys /\ job[t].scope \in Scopes /\ job[t].at \in DOMAIN Buckets
    BY <1>0, <1>3, Typed, JobFacts, ZenonT(40)
  <1> DEFINE r == [pc |-> pc, scope |-> job[t].scope, at |-> job[t].at]
  <1>5. r \in Jobs /\ r.pc = pc /\ r.at = job[t].at
    BY <1>4, JobMakers
  <1> HIDE DEF r
  <1>6. Turns(t) /\ job'[t] = r
    BY <1>2, <1>5, Typed, TurnFacts, Zenon DEF r
  <1>7. job'[t].pc \in Visits /\ job'[t].pc \notin Holding /\ job'[t].at = job[t].at
    BY <1>2, <1>5, <1>6, SMTT(30) DEF Visits, Holding
  <1>8. /\ EvictAt(t)' /\ LandedAt(t)' /\ Pins(t, k)
        /\ \A j : (Pins(t, j)' <=> Pins(t, j)) /\ ~Works(t, j) /\ ~Drops(t, j)
    BY <1>0, <1>3, <1>7, AtRest, AtRestNext, Zenon
  <1>9. LockInv' /\ Alone(t) /\ fat_lock' \in Users
    BY <1>1, <1>3, <1>6, <1>7, LockDrop, LockHeld, Zenon DEF Users
  <1>10. PICK x : x = Entry(k)
    BY Zenon
  <1>11. x \in Entries /\ x \in Elems(cache) /\ x.key = k
    BY <1>4, <1>8, <1>10, PinnedEntry, Zenon
  <1>12. /\ disk' \in [CacheKeys -> Data] /\ \A j \in CacheKeys : j # k => disk'[j] = disk[j]
         /\ disk'[k] \in {disk[k], x.data}
    <2>1. disk \in [CacheKeys -> Data] /\ x.data \in Data
      BY <1>11, Typed, PinFacts, Zenon
    <2> QED
      BY <1>2, <1>4, <1>10, <2>1, Zenon
  <1>13. k \notin spoiled => /\ disk'[k] = expected[k]
                            /\ \A e \in Elems(cache) : e.key = k => e.data = expected[k]
    BY <1>4, <1>8, <1>9, <1>11, <1>12, AloneData, Zenon
  <1>14. DataAt(k)'
    BY <1>1, <1>13, Zenon DEF DataAt, Elems
  <1>15. TypeInv' /\ Distinct(cache')
    <2>1. cache' \in Seq(Entries) /\ Distinct(cache')
      BY <1>1, Typed, Zenon
    <2> QED
      BY <1>1, <1>6, <1>9, <1>12, <2>1, Typed, TypeKept, Zenon
  <1>16. ASSUME NEW j \in CacheKeys PROVE PinQuiet(t, j) /\ (DataAt(j)' \/ DataQuiet(t, j))
    <2>1. SameEntry(j) /\ SameData(j)
      BY <1>1, CacheStays, Zenon
    <2>2. PinQuiet(t, j)
      BY <1>8, <2>1, Zenon DEF PinQuiet
    <2>3. j # k => DataQuiet(t, j)
      BY <1>1, <1>8, <1>12, <2>1, Zenon DEF DataQuiet
    <2> QED
      BY <1>14, <2>2, <2>3, Zenon
  <1> QED
    BY <1>6, <1>8, <1>9, <1>15, <1>16, HolderStep, Zenon

\* The tasks outside the file system while it is free.
LEMMA OutsideFacts ==
    ASSUME CacheInv, NEW t \in CacheTasks, Turns(t), fat_lock = Nobody, fat_lock' = fat_lock,
           job[t].pc \in {"idle", "release"}, job'[t].pc = "idle"
    PROVE  /\ LockInv' /\ Alone(t) /\ EvictAt(t)' /\ LandedAt(t)' /\ EvictInv' /\ LandedInv'
           /\ fat_lock' \in Users
           /\ \A j : ~Pins(t, j)' /\ ~Pins(t, j) /\ ~Works(t, j) /\ ~Drops(t, j)
  <1>1. Alone(t)
    BY LockFree, Zenon DEF Alone
  <1>2. job'[t].pc \notin Holding /\ EvictAt(t)' /\ LandedAt(t)' /\ \A j : ~Pins(t, j)'
    BY AtRestNext, Zenon
  <1>3. job[t].pc \notin Holding /\ \A j : ~Pins(t, j) /\ ~Works(t, j) /\ ~Drops(t, j)
    BY AtRest, Zenon
  <1>4. LockInv'
    BY <1>2, <1>3, LockSame, Zenon
  <1>5. EvictInv' /\ LandedInv'
    BY <1>1, <1>2, AloneKept, Zenon
  <1> QED
    BY <1>1, <1>2, <1>3, <1>4, <1>5, Typed, Zenon

\* The pages of a file that loses its contents.
LEMMA EmptiedInv ==
    ASSUME CacheInv, NEW t \in CacheTasks, Turns(t), fat_lock = Nobody, fat_lock' = fat_lock,
           job[t].pc \in {"idle", "release"}, job'[t].pc = "idle", NEW f, Emptied(f),
           vnode' \in [CacheTasks -> CacheFiles \cup {Nobody}]
    PROVE  CacheInv'
  <1> DEFINE G == {x \in Elems(cache) : x.key[1] = f /\ x.pin = 0}
             K == {e.key : e \in G}
             N == {}
  <1>1. /\ cache' = Kept(f) /\ spoiled' = spoiled \cup StillPinned(f)
        /\ disk' = [k \in CacheKeys |-> IF k[1] = f THEN 0 ELSE disk[k]]
        /\ expected' = [k \in CacheKeys |-> IF k[1] = f THEN 0 ELSE expected[k]]
    BY Zenon DEF Emptied
  <1>2. /\ LockInv' /\ Alone(t) /\ EvictAt(t)' /\ LandedAt(t)' /\ fat_lock' \in Users
        /\ \A j : ~Pins(t, j)' /\ ~Pins(t, j) /\ ~Works(t, j) /\ ~Drops(t, j)
    BY OutsideFacts, Zenon
  <1>3. Swap(K, N)
    BY <1>1, SwapKept, Zenon
  <1>4. /\ cache' \in Seq(Entries) /\ Distinct(cache')
        /\ \A e \in Elems(cache') : e \in Elems(cache) /\ (e.key[1] # f \/ e.pin # 0)
    <2>1. cache \in Seq(Entries) /\ Distinct(cache)
      BY Typed, Zenon
    <2> QED
      BY <1>1, <2>1, KeptFacts, Zenon
  <1>5. \A j \in K : (\E x \in Elems(cache) : x.key = j /\ x.pin = 0) /\ \A e \in Elems(cache') : e.key # j
    <2> SUFFICES ASSUME NEW j \in K
                 PROVE  (\E x \in Elems(cache) : x.key = j /\ x.pin = 0) /\ \A e \in Elems(cache') : e.key # j
      BY Zenon
    <2>1. \E x \in Elems(cache) : x.key = j /\ x.pin = 0
      BY Zenon
    <2> HIDE DEF K
    <2>2. \A e \in Elems(cache') : e.key # j
      BY <1>3, Zenon DEF Swap, N
    <2> QED
      BY <2>1, <2>2, Zenon
  <1> HIDE DEF K, N
  <1>6. \A j : j \notin K => SameEntry(j)
    <2>1. \A y \in N : y.key \in K
      BY Zenon DEF N
    <2> QED
      BY <1>3, <2>1, SwapElsewhere, Zenon
  <1>7. ASSUME NEW j \in CacheKeys PROVE PinAt(j)' \/ PinQuiet(t, j)
    <2>1. CASE j \in K
      <3>1. PICK x \in Elems(cache) : x.key = j /\ x.pin = 0
        BY <1>5, <2>1, Zenon
      <3>2. \A e \in Elems(cache') : e.key # j
        BY <1>5, <2>1, Zenon
      <3> QED
        BY <1>2, <3>1, <3>2, Typed, PinGone, Zenon
    <2>2. CASE j \notin K
      BY <1>2, <1>6, <2>2, Zenon DEF PinQuiet
    <2> QED
      BY <2>1, <2>2, Zenon
  <1>8. /\ disk' \in [CacheKeys -> Data] /\ expected' \in [CacheKeys -> Data]
        /\ \A j \in CacheKeys : /\ j[1] = f => disk'[j] = 0 /\ expected'[j] = 0
                                /\ j[1] # f => disk'[j] = disk[j] /\ expected'[j] = expected[j]
    <2>1. disk \in [CacheKeys -> Data] /\ expected \in [CacheKeys -> Data] /\ 0 \in Data
      BY Typed, Zenon DEF Data
    <2> QED
      BY <1>1, <2>1, Zenon
  <1>9. ASSUME NEW j \in CacheKeys, NEW e \in Elems(cache'), e.key = j, j[1] = f PROVE j \in spoiled'
    <2>1. e \in Elems(cache) /\ e.pin # 0
      BY <1>4, <1>9, Zenon
    <2>2. PICK i \in DOMAIN cache : e = cache[i]
      BY <2>1, Zenon DEF Elems
    <2>3. cache[i].key = j /\ cache[i].pin # 0
      BY <1>9, <2>1, <2>2, Zenon
    <2>4. j \in StillPinned(f)
      BY <1>9, <2>3, Zenon DEF StillPinned, PagesOf
    <2> QED
      BY <1>1, <2>4, Zenon
  <1>10. ASSUME NEW j \in CacheKeys PROVE DataAt(j)' \/ DataQuiet(t, j)
    <2>1. CASE j[1] = f
      <3>1. disk'[j] = expected'[j]
        BY <1>8, <2>1, Zenon
      <3>2. j \notin spoiled' => \A e \in Elems(cache') : e.key # j
        BY <1>9, <2>1, Zenon
      <3> QED
        BY <3>1, <3>2, Zenon DEF DataAt, Elems
    <2>2. CASE j[1] # f
      <3>1. SameData(j)
        BY <1>4, Zenon DEF SameData
      <3>2. j \in spoiled => j \in spoiled'
        BY <1>1, Zenon
      <3> QED
        BY <1>2, <1>8, <2>2, <3>1, <3>2, ZenonT(40) DEF DataQuiet
    <2> QED
      BY <2>1, <2>2, Zenon
  <1>11. TypeInv'
    BY <1>2, <1>4, <1>8, Typed, TypeKept, Zenon
  <1>12. \A j \in CacheKeys : (PinAt(j)' \/ PinQuiet(t, j)) /\ (DataAt(j)' \/ DataQuiet(t, j))
    BY <1>7, <1>10, Zenon
  <1> QED
    BY <1>2, <1>4, <1>11, <1>12, HolderStep, Zenon

\* The same step where the file keeps its contents.
LEMMA OutsideInv ==
    ASSUME CacheInv, NEW t \in CacheTasks, Turns(t), fat_lock = Nobody, fat_lock' = fat_lock,
           job[t].pc \in {"idle", "release"}, job'[t].pc = "idle",
           UNCHANGED <<cache, disk, expected, spoiled>>,
           vnode' \in [CacheTasks -> CacheFiles \cup {Nobody}]
    PROVE  CacheInv'
  <1>1. /\ LockInv' /\ EvictInv' /\ LandedInv' /\ fat_lock' \in Users
        /\ \A j : ~Pins(t, j)' /\ ~Pins(t, j) /\ ~Works(t, j) /\ ~Drops(t, j)
    BY OutsideFacts, Zenon
  <1> QED
    BY <1>1, JobOnly, Zenon

LEMMA ReleaseVnodeInv ==
    ASSUME CacheInv, NEW t \in CacheTasks, ReleaseVnode(t)
    PROVE  CacheInv'
  <1>1. /\ fat_lock = Nobody /\ fat_lock' = fat_lock /\ job[t].pc \in {"idle", "release"}
        /\ vnode' = [vnode EXCEPT ![t] = Nobody] /\ job' = [job EXCEPT ![t] = Idle]
        /\ Emptied(vnode[t]) \/ UNCHANGED <<cache, disk, expected, spoiled>>
    BY Zenon DEF ReleaseVnode
  <1>2. Turns(t) /\ job'[t].pc = "idle"
    <2>1. Idle \in Jobs /\ Idle.pc = "idle"
      BY JobMakers DEF Idle
    <2> QED
      BY <1>1, <2>1, Typed, TurnFacts, Zenon
  <1>3. vnode' \in [CacheTasks -> CacheFiles \cup {Nobody}]
    BY <1>1, Typed, Zenon
  <1> QED
    BY <1>1, <1>2, <1>3, EmptiedInv, OutsideInv, Zenon

LEMMA UnlinkFileInv ==
    ASSUME CacheInv, NEW t \in CacheTasks, NEW f, UnlinkFile(t, f)
    PROVE  CacheInv'
  <1>1. /\ fat_lock = Nobody /\ fat_lock' = fat_lock /\ job[t] = Idle /\ vnode' = vnode /\ job' = job
        /\ Emptied(f) \/ UNCHANGED <<cache, disk, expected, spoiled>>
    BY Zenon DEF UnlinkFile
  <1>2. Turns(t) /\ job[t].pc \in {"idle", "release"} /\ job'[t].pc = "idle"
    <2>1. Turns(t) /\ job'[t] = job[t]
      BY <1>1, Typed, StillFacts, Zenon
    <2> QED
      BY <1>1, <2>1 DEF Idle
  <1>3. vnode' \in [CacheTasks -> CacheFiles \cup {Nobody}]
    BY <1>1, Typed, Zenon
  <1> QED
    BY <1>1, <1>2, <1>3, EmptiedInv, OutsideInv, Zenon

LEMMA TruncatePagesInv ==
    ASSUME CacheInv, NEW t \in CacheTasks, TruncatePages(t)
    PROVE  CacheInv'
  <1>1. /\ fat_lock = Nobody /\ fat_lock' = fat_lock /\ job[t] = Idle /\ vnode' = vnode /\ job' = job
        /\ Emptied(vnode[t])
    BY Zenon DEF TruncatePages
  <1>2. Turns(t) /\ job[t].pc \in {"idle", "release"} /\ job'[t].pc = "idle"
    <2>1. Turns(t) /\ job'[t] = job[t]
      BY <1>1, Typed, StillFacts, Zenon
    <2> QED
      BY <1>1, <2>1 DEF Idle
  <1>3. vnode' \in [CacheTasks -> CacheFiles \cup {Nobody}]
    BY <1>1, Typed, Zenon
  <1> QED
    BY <1>1, <1>2, <1>3, EmptiedInv, Zenon

(***************************************************************************)
(* The theorems.                                                           *)
(***************************************************************************)
LEMMA InitCache == ASSUME PageCacheInit PROVE CacheInv
  <1>1. /\ cache = <<>> /\ disk = [k \in CacheKeys |-> 0] /\ fat_lock = Nobody /\ expected = disk
        /\ job = [t \in CacheTasks |-> Idle] /\ vnode = [t \in CacheTasks |-> Nobody]
    BY Zenon DEF PageCacheInit
  <1>2. Elems(cache) = {} /\ Distinct(cache) /\ cache \in Seq(Entries)
    BY <1>1 DEF Elems, Distinct
  <1>3. KeysOf(cache) = {}
    BY <1>2, Zenon DEF KeysOf
  <1>4. \A t \in CacheTasks : job[t].pc = "idle"
    BY <1>1 DEF Idle
  <1>5. ASSUME NEW t \in CacheTasks
        PROVE  /\ job[t].pc \notin Holding /\ EvictAt(t) /\ LandedAt(t)
               /\ \A k : ~Pins(t, k) /\ ~Works(t, k) /\ ~Drops(t, k)
    <2>1. job[t].pc \notin Holding /\ \A k : ~Pins(t, k) /\ ~Works(t, k) /\ ~Drops(t, k)
      BY <1>4, AtRest, Zenon
    <2>2. job[t].pc # "evict" /\ job[t].pc # "landed"
      BY <1>4
    <2> QED
      BY <2>1, <2>2, Zenon DEF EvictAt, LandedAt
  <1>6. TypeInv
    <2>1. disk \in [CacheKeys -> Data] /\ expected \in [CacheKeys -> Data]
      BY <1>1, Zenon DEF Data
    <2>2. job \in [CacheTasks -> Jobs]
      BY <1>1, JobMakers, Zenon
    <2>3. vnode \in [CacheTasks -> CacheFiles \cup {Nobody}] /\ fat_lock \in Users
      BY <1>1, Zenon DEF Users
    <2> QED
      BY <1>2, <2>1, <2>2, <2>3, Zenon DEF TypeInv
  <1>7. LockInv
    BY <1>1, <1>5, CacheAssumption, Zenon DEF LockInv
  <1>8. PinInv
    <2>1. \A k : Pinners(k) = {}
      BY <1>5, Zenon DEF Pinners
    <2> QED
      BY <1>2, <2>1, Zenon DEF PinInv, PinAt
  <1>9. DataInv
    BY <1>1, <1>2, Zenon DEF DataInv, DataAt
  <1> QED
    BY <1>2, <1>5, <1>6, <1>7, <1>8, <1>9, Zenon DEF CacheInv, EvictInv, LandedInv

LEMMA NextCache ==
    ASSUME NEW quiet \in BOOLEAN, CacheInv, [PageCacheNext(quiet)]_pcVars
    PROVE  CacheInv'
  <1>1. CASE UNCHANGED pcVars
    <2>1. /\ cache' = cache /\ disk' = disk /\ vnode' = vnode /\ fat_lock' = fat_lock
          /\ job' = job /\ expected' = expected /\ spoiled' = spoiled
      BY <1>1, Zenon DEF pcVars
    <2>2. TypeInv' /\ Distinct(cache)' /\ LockInv' /\ EvictInv' /\ LandedInv'
      BY <2>1, Zenon DEF CacheInv, TypeInv, LockInv, EvictInv, EvictAt, LandedInv, LandedAt
    <2>3. PinInv'
      BY <2>1, Zenon DEF CacheInv, PinInv, PinAt, Pinners, Pins
    <2>4. DataInv'
      BY <2>1, Zenon DEF CacheInv, DataInv, DataAt, Works, Drops
    <2> QED
      BY <2>2, <2>3, <2>4, Zenon DEF CacheInv
  <1>2. CASE PageCacheNext(quiet)
    <2>1. PICK t \in CacheTasks :
            \/ \E k \in CacheKeys, op \in {"read", "write"} : Find(t, k, op)
            \/ Evicted(t) \/ ReadPage(t)
            \/ CopyIn(t) \/ WriteThrough(t) \/ PageLanded(t) \/ PutFailed(t) \/ DropPage(t)
            \/ \E f \in CacheFiles : Open(t, f)
            \/ \E f \in CacheFiles : UnlinkFile(t, f) \/ Recreate(t, f)
            \/ TruncatePages(t) \/ ForgetVnode(t) \/ ReleaseVnode(t)
            \/ \E s \in CacheFiles \cup {"all"} : StartWalk(t, s)
            \/ WalkPin(t) \/ WalkLock(t) \/ WalkWrite(t) \/ WalkOn(t) \/ WalkEnd(t)
      BY <1>2, Zenon DEF PageCacheNext
    <2>2. CASE \E k \in CacheKeys, op \in {"read", "write"} : Find(t, k, op)
      BY <2>2, FindInv, Zenon
    <2>3. CASE Evicted(t) \/ ReadPage(t)
      BY <2>3, EvictedInv, ReadPageInv, Zenon
    <2>4. CASE CopyIn(t) \/ WriteThrough(t) \/ PageLanded(t) \/ PutFailed(t) \/ DropPage(t)
      BY <2>4, CopyInInv, WriteThroughInv, PageLandedInv, PutFailedInv, DropPageInv, Zenon
    <2>5. CASE \E f \in CacheFiles : Open(t, f)
      BY <2>5, OpenInv, Zenon
    <2>6. CASE \E f \in CacheFiles : UnlinkFile(t, f) \/ Recreate(t, f)
      BY <2>6, UnlinkFileInv, RecreateInv, Zenon
    <2>7. CASE TruncatePages(t) \/ ForgetVnode(t) \/ ReleaseVnode(t)
      BY <2>7, TruncatePagesInv, ForgetVnodeInv, ReleaseVnodeInv, Zenon
    <2>8. CASE \E s \in CacheFiles \cup {"all"} : StartWalk(t, s)
      BY <2>8, StartWalkInv, Zenon DEF Scopes
    <2>9. CASE WalkPin(t) \/ WalkLock(t) \/ WalkWrite(t) \/ WalkOn(t) \/ WalkEnd(t)
      BY <2>9, WalkPinInv, WalkLockInv, WalkWriteInv, WalkOnInv, WalkEndInv, Zenon
    <2> QED
      BY <2>1, <2>2, <2>3, <2>4, <2>5, <2>6, <2>7, <2>8, <2>9, Zenon
  <1> QED
    BY <1>1, <1>2, Zenon

LEMMA CacheInvariant == ASSUME NEW quiet \in BOOLEAN PROVE PageCacheSpec(quiet) => []CacheInv
  <1>1. PageCacheInit => CacheInv
    BY InitCache
  <1>2. CacheInv /\ [PageCacheNext(quiet)]_pcVars => CacheInv'
    BY NextCache
  <1> QED
    BY <1>1, <1>2, PTL DEF PageCacheSpec

\* pagecache_add_page never leaves two entries for a page: it drops its lock
\* while the page it evicts is written back, but whoever adds a page holds
\* fat32_lock, and a sync, which does not hold it, adds none.
THEOREM CachedOnce == ASSUME NEW quiet \in BOOLEAN PROVE PageCacheSpec(quiet) => []PageCachedOnce
  <1>1. CacheInv => PageCachedOnce
    BY Zenon DEF CacheInv, Distinct, PageCachedOnce
  <1> QED
    BY <1>1, CacheInvariant, PTL

\* A read returns what the last completed write of the page left, from
\* pagecache_get_page or from the disk, whatever pagecache_add_page evicted,
\* pagecache_sync wrote and unhook_matching removed, and whoever did so at the
\* same time: for any number of tasks, files and pages and any size of the cache.
THEOREM ReadsReturnWrites == ASSUME NEW quiet \in BOOLEAN PROVE PageCacheSpec(quiet) => []ReadsSeeWrites
  <1>1. CacheInv => ReadsSeeWrites
    <2> SUFFICES ASSUME CacheInv, fat_lock = Nobody, NEW k \in CacheKeys \ spoiled
                 PROVE  (IF Cached(k) THEN Entry(k).data ELSE disk[k]) = expected[k]
      BY Zenon DEF ReadsSeeWrites
    <2>1. ASSUME NEW t \in CacheTasks PROVE ~Works(t, k) /\ ~Drops(t, k)
      <3>1. job[t].pc \notin Holding
        BY LockFree, Zenon
      <3> QED
        BY <3>1 DEF Holding, Works, Drops
    <2>2. disk[k] = expected[k] /\ \A e \in Elems(cache) : e.key = k => e.data = expected[k]
      BY <2>1, Typed, Zenon DEF DataAt
    <2>3. Cached(k) => Entry(k) \in Elems(cache) /\ Entry(k).key = k
      BY Typed, WhereFacts, Zenon
    <2> QED
      BY <2>2, <2>3, Zenon
  <1> QED
    BY <1>1, CacheInvariant, PTL
=============================================================================
