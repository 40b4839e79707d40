----------------------------- MODULE OSStepProofs -----------------------------
(***************************************************************************)
(* Every step of OSThreads preserves the inductive invariant.  First what  *)
(* the queue operations do to the set of threads linked in each queue, and *)
(* that they keep the queues well formed, and a sorted queue sorted: the   *)
(* rest uses these facts and never looks at the sequences again.  Then     *)
(* what a step of the executing fiber does to the shape of its call chain, *)
(* with one lemma for the part of ControlInv that every step other than    *)
(* those of the idle loop, of the dispatch and of callbacks preserves for  *)
(* the same reason; then the OS functions one by one; then the scheduler.  *)
(***************************************************************************)
EXTENDS OSThreadsInductive, SequenceTheorems, WellFoundedInduction, FiniteSetTheorems, TLAPS

-----------------------------------------------------------------------------
(* Numbers and sequences.                                                  *)

\* A set of naturals that is not empty has a least element.
LEMMA LeastElement ==
  ASSUME NEW S \in SUBSET Nat, S # {}
  PROVE  \E x \in S : \A y \in S : x <= y
<1>1. PICK x \in S : \A y \in S : ~ (<< y, x >> \in OpToRel(<, Nat))
  BY NatLessThanWellFounded, WFMin
<1>2. ASSUME NEW y \in S, y < x
      PROVE  << y, x >> \in OpToRel(<, Nat)
  <2>1. << y, x >> \in Nat \X Nat
    OBVIOUS
  <2> QED  BY <1>2, <2>1 DEF OpToRel
<1>3. \A y \in S : ~ (y < x)
  BY <1>1, <1>2, Zenon
<1>4. \A y \in S : x <= y
  BY <1>3
<1> QED  BY <1>4

\* A sequence has no elements exactly when it is empty.
LEMMA ToSetEmpty ==
  ASSUME NEW T, NEW s \in Seq(T)
  PROVE  ToSet(s) = {} <=> s = << >>
<1>1. s # << >> => s[1] \in ToSet(s)
  <2>1. s # << >> => Len(s) \in Nat \ {0} /\ DOMAIN s = 1 .. Len(s)
    BY EmptySeq, LenProperties
  <2> QED  BY <2>1 DEF ToSet
<1>2. ToSet(<< >>) = {}
  BY DEF ToSet
<1> QED  BY <1>1, <1>2

LEMMA HeadInToSet ==
  ASSUME NEW T, NEW s \in Seq(T), s # << >>
  PROVE  Head(s) \in ToSet(s) /\ Head(s) \in T
BY DEF ToSet

\* Removing the first occurrence of an element.
LEMMA RemoveFirstShape ==
  ASSUME NEW T, NEW s \in Seq(T), NEW e, \E i \in 1 .. Len(s) : s[i] = e,
         NEW r, r = RemoveFirst(s, e)
  PROVE  /\ r \in Seq(T)
         /\ Len(r) = Len(s) - 1
         /\ \E k \in 1 .. Len(s) :
              /\ s[k] = e
              /\ \A i \in 1 .. Len(s) - 1 : r[i] = IF i < k THEN s[i] ELSE s[i + 1]
<1> DEFINE I == {i \in 1 .. Len(s) : s[i] = e}
           k == CHOOSE i \in I : \A j \in I : i <= j
<1>1. k \in I
  <2>1. I \in SUBSET Nat /\ I # {}
    OBVIOUS
  <2> QED  BY <2>1, LeastElement
<1>2. r = SubSeq(s, 1, k - 1) \o SubSeq(s, k + 1, Len(s))
  BY DEF RemoveFirst, RemoveAt, SelectInSeq, Min
<1>3. k \in 1 .. Len(s) /\ s[k] = e
  BY <1>1
<1> HIDE DEF k
<1>4. /\ r \in Seq(T)
      /\ Len(r) = Len(s) - 1
      /\ \A i \in 1 .. Len(s) - 1 : r[i] = IF i < k THEN s[i] ELSE s[i + 1]
  <2>1. /\ SubSeq(s, 1, k - 1) \in Seq(T)
        /\ Len(SubSeq(s, 1, k - 1)) = k - 1
        /\ \A i \in 1 .. k - 1 : SubSeq(s, 1, k - 1)[i] = s[i]
    BY <1>3
  <2>2. /\ SubSeq(s, k + 1, Len(s)) \in Seq(T)
        /\ Len(SubSeq(s, k + 1, Len(s))) = Len(s) - k
        /\ \A i \in 1 .. Len(s) - k : SubSeq(s, k + 1, Len(s))[i] = s[k + i]
    BY <1>3
  <2> DEFINE u == SubSeq(s, 1, k - 1)
             v == SubSeq(s, k + 1, Len(s))
  <2> HIDE DEF u, v
  <2>3. /\ u \o v \in Seq(T) /\ Len(u \o v) = Len(u) + Len(v)
        /\ \A i \in 1 .. Len(u) + Len(v) :
             (u \o v)[i] = IF i <= Len(u) THEN u[i] ELSE v[i - Len(u)]
    BY <2>1, <2>2, ConcatProperties DEF u, v
  <2>4. r = u \o v
    BY <1>2 DEF u, v
  <2>5. Len(u) = k - 1 /\ Len(v) = Len(s) - k
        /\ (\A i \in 1 .. k - 1 : u[i] = s[i])
        /\ (\A i \in 1 .. Len(s) - k : v[i] = s[k + i])
    BY <2>1, <2>2 DEF u, v
  <2>6. r \in Seq(T) /\ Len(r) = Len(s) - 1
    <3>1. Len(u) + Len(v) = Len(s) - 1
      BY <1>3, <2>5
    <3> QED  BY <2>3, <2>4, <3>1
  <2>7. ASSUME NEW i \in 1 .. Len(s) - 1
        PROVE  r[i] = IF i < k THEN s[i] ELSE s[i + 1]
    <3>1. CASE i < k
      BY <1>3, <2>3, <2>4, <2>5, <3>1
    <3>2. CASE i >= k
      <4>1. i - Len(u) \in 1 .. Len(s) - k /\ k + (i - Len(u)) = i + 1
        BY <1>3, <2>5, <3>2
      <4>2. r[i] = v[i - Len(u)]
        BY <1>3, <2>3, <2>4, <2>5, <3>2
      <4>3. v[i - Len(u)] = s[i + 1]
        BY <2>5, <4>1
      <4>4. ~ (i < k)
        BY <1>3, <3>2
      <4> QED  BY <4>2, <4>3, <4>4
    <3> QED  BY <1>3, <3>1, <3>2
  <2> QED  BY <2>6, <2>7
<1> QED  BY <1>3, <1>4

LEMMA RemoveFirstType ==
  ASSUME NEW T, NEW s \in Seq(T), NEW e
  PROVE  RemoveFirst(s, e) \in Seq(T)
<1>1. CASE ~ \E i \in 1 .. Len(s) : s[i] = e
  BY <1>1 DEF RemoveFirst
<1>2. CASE \E i \in 1 .. Len(s) : s[i] = e
  BY <1>2, RemoveFirstShape
<1> QED  BY <1>1, <1>2

\* In a sequence without duplicates there is no other one.
LEMMA RemoveFirstFacts ==
  ASSUME NEW T, NEW s \in Seq(T), NEW e, IsInjective(s)
  PROVE  /\ RemoveFirst(s, e) \in Seq(T)
         /\ IsInjective(RemoveFirst(s, e))
         /\ ToSet(RemoveFirst(s, e)) = ToSet(s) \ {e}
<1>1. CASE ~ \E i \in 1 .. Len(s) : s[i] = e
  BY <1>1 DEF RemoveFirst, ToSet
<1>2. CASE \E i \in 1 .. Len(s) : s[i] = e
  <2> DEFINE r == RemoveFirst(s, e)
  <2>1. /\ r \in Seq(T)
        /\ Len(r) = Len(s) - 1
        /\ \E k \in 1 .. Len(s) :
             /\ s[k] = e
             /\ \A i \in 1 .. Len(s) - 1 : r[i] = IF i < k THEN s[i] ELSE s[i + 1]
    BY <1>2, RemoveFirstShape
  <2> HIDE DEF r
  <2>2. PICK k \in 1 .. Len(s) :
          /\ s[k] = e
          /\ \A i \in 1 .. Len(s) - 1 : r[i] = IF i < k THEN s[i] ELSE s[i + 1]
    BY <2>1
  <2>3. IsInjective(r)
    <3>1. DOMAIN r = 1 .. Len(s) - 1 /\ DOMAIN s = 1 .. Len(s) /\ Len(s) \in Nat
      BY <2>1
    <3>2. \A i \in DOMAIN r : r[i] = s[IF i < k THEN i ELSE i + 1]
      BY <2>2, <3>1
    <3> QED  BY <2>2, <3>1, <3>2 DEF IsInjective
  <2>4. ToSet(r) \subseteq ToSet(s) \ {e}
    BY <2>1, <2>2 DEF IsInjective, ToSet
  <2>5. ASSUME NEW j \in 1 .. Len(s), s[j] # e
        PROVE  s[j] \in ToSet(r)
    <3>1. CASE j < k
      BY <2>1, <2>2, <2>5, <3>1 DEF ToSet
    <3>2. CASE j > k
      <4>1. j - 1 \in DOMAIN r /\ r[j - 1] = s[j]
        BY <2>1, <2>2, <3>2
      <4> QED  BY <4>1 DEF ToSet
    <3> QED  BY <2>2, <2>5, <3>1, <3>2
  <2>6. ToSet(s) \ {e} \subseteq ToSet(r)
    BY <2>5 DEF ToSet
  <2> QED  BY <2>1, <2>3, <2>4, <2>6 DEF r
<1> QED  BY <1>1, <1>2

\* Inserting a new element.
InsertedAt(r, s, k, e) ==
  \A i \in 1 .. Len(s) + 1 : r[i] = IF i < k THEN s[i] ELSE IF i = k THEN e ELSE s[i - 1]

LEMMA InsertAtShape ==
  ASSUME NEW T, NEW s \in Seq(T), NEW e \in T, NEW k \in 1 .. Len(s) + 1,
         NEW r, r = InsertAt(s, k, e)
  PROVE  /\ r \in Seq(T)
         /\ Len(r) = Len(s) + 1
         /\ InsertedAt(r, s, k, e)
<1>1. /\ SubSeq(s, 1, k - 1) \in Seq(T)
      /\ Len(SubSeq(s, 1, k - 1)) = k - 1
      /\ \A i \in 1 .. k - 1 : SubSeq(s, 1, k - 1)[i] = s[i]
  BY SubSeqProperties
<1>2. /\ SubSeq(s, k, Len(s)) \in Seq(T)
      /\ Len(SubSeq(s, k, Len(s))) = Len(s) - k + 1
      /\ \A i \in 1 .. Len(s) - k + 1 : SubSeq(s, k, Len(s))[i] = s[k + i - 1]
  BY SubSeqProperties
<1>3. << e >> \in Seq(T) /\ Len(<< e >>) = 1 /\ << e >>[1] = e
  OBVIOUS
<1> DEFINE u == SubSeq(s, 1, k - 1)
           v == SubSeq(s, k, Len(s))
           w == u \o << e >>
<1> HIDE DEF u, v
<1>4. /\ w \in Seq(T) /\ Len(w) = k
      /\ \A i \in 1 .. k : w[i] = IF i < k THEN s[i] ELSE e
  BY <1>1, <1>3, ConcatProperties DEF u
<1>5. r = w \o v
  BY DEF InsertAt, u, v
<1> HIDE DEF w
<1>6. Len(v) = Len(s) - k + 1 /\ v \in Seq(T)
      /\ \A i \in 1 .. Len(s) - k + 1 : v[i] = s[k + i - 1]
  BY <1>2 DEF v
<1>7. /\ w \o v \in Seq(T) /\ Len(w \o v) = k + Len(v)
      /\ \A i \in 1 .. k + Len(v) : (w \o v)[i] = IF i <= k THEN w[i] ELSE v[i - k]
  <2>1. k \in Nat /\ Len(v) \in Nat
    BY <1>6
  <2> QED  BY <1>4, <1>6, <2>1, ConcatProperties
<1>8. InsertedAt(w \o v, s, k, e)
  <2>1. Len(s) \in Nat /\ k \in Nat /\ k + Len(v) = Len(s) + 1
    BY <1>6
  <2> SUFFICES ASSUME NEW i \in 1 .. Len(s) + 1
               PROVE  (w \o v)[i] = IF i < k THEN s[i] ELSE IF i = k THEN e ELSE s[i - 1]
    BY DEF InsertedAt
  <2>2. (w \o v)[i] = IF i <= k THEN w[i] ELSE v[i - k]
    BY <1>7, <2>1
  <2>3. CASE i <= k
    <3>1. i \in 1 .. k
      BY <2>1, <2>3
    <3> QED  BY <1>4, <2>1, <2>2, <2>3, <3>1
  <2>4. CASE i > k
    <3>1. i - k \in 1 .. Len(s) - k + 1 /\ k + (i - k) - 1 = i - 1
      BY <2>1, <2>4
    <3>2. v[i - k] = s[i - 1]
      BY <1>6, <3>1
    <3>3. ~ (i <= k) /\ ~ (i < k) /\ i # k
      BY <2>1, <2>4
    <3>4. (w \o v)[i] = v[i - k]
      BY <2>2, <3>3, Zenon
    <3> QED  BY <3>2, <3>3, <3>4, Zenon
  <2>5. i <= k \/ i > k
    BY <2>1
  <2> QED  BY <2>3, <2>4, <2>5, Zenon
<1> QED  BY <1>4, <1>5, <1>6, <1>7, <1>8

LEMMA InsertAtFacts ==
  ASSUME NEW T, NEW s \in Seq(T), NEW e \in T, e \notin ToSet(s), IsInjective(s),
         NEW k \in 1 .. Len(s) + 1
  PROVE  /\ InsertAt(s, k, e) \in Seq(T)
         /\ IsInjective(InsertAt(s, k, e))
         /\ ToSet(InsertAt(s, k, e)) = ToSet(s) \cup {e}
<1> DEFINE r == InsertAt(s, k, e)
<1>0. r = InsertAt(s, k, e)
  OBVIOUS
<1> HIDE DEF r
<1>1. /\ r \in Seq(T)
      /\ Len(r) = Len(s) + 1
      /\ \A i \in 1 .. Len(s) + 1 :
           r[i] = IF i < k THEN s[i] ELSE IF i = k THEN e ELSE s[i - 1]
  <2>1. r \in Seq(T) /\ Len(r) = Len(s) + 1
    BY <1>0, InsertAtShape
  <2>2. InsertedAt(r, s, k, e)
    BY <1>0, InsertAtShape
  <2> QED  BY <2>1, <2>2 DEF InsertedAt
<1>2. IsInjective(r)
  <2>1. \A i \in 1 .. Len(s) : s[i] # e
    BY DEF ToSet
  <2>2. \A i, j \in 1 .. Len(s) : s[i] = s[j] => i = j
    BY DEF IsInjective
  <2>3. ASSUME NEW i \in 1 .. Len(s) + 1, NEW j \in 1 .. Len(s) + 1, i < j
        PROVE  r[i] # r[j]
    <3>1. CASE j < k
      BY <1>1, <2>2, <2>3, <3>1
    <3>2. CASE i = k
      <4>1. r[i] = e /\ r[j] = s[j - 1] /\ j - 1 \in 1 .. Len(s)
        BY <1>1, <2>3, <3>2
      <4> QED  BY <2>1, <4>1
    <3>5. CASE j = k
      <4>1. r[j] = e /\ r[i] = s[i] /\ i \in 1 .. Len(s)
        BY <1>1, <2>3, <3>5
      <4> QED  BY <2>1, <4>1
    <3>3. CASE i < k /\ k < j
      <4>1. r[i] = s[i] /\ r[j] = s[j - 1]
        BY <1>1, <2>3, <3>3
      <4>2. i \in 1 .. Len(s) /\ j - 1 \in 1 .. Len(s) /\ i # j - 1
        BY <2>3, <3>3
      <4> QED  BY <2>2, <4>1, <4>2
    <3>4. CASE k < i
      <4>1. r[i] = s[i - 1] /\ r[j] = s[j - 1]
        BY <1>1, <2>3, <3>4
      <4>2. i - 1 \in 1 .. Len(s) /\ j - 1 \in 1 .. Len(s) /\ i - 1 # j - 1
        BY <2>3, <3>4
      <4> QED  BY <2>2, <4>1, <4>2
    <3> QED  BY <2>3, <3>1, <3>2, <3>3, <3>4, <3>5
  <2>4. DOMAIN r = 1 .. Len(s) + 1
    BY <1>1
  <2> QED  BY <2>3, <2>4 DEF IsInjective
<1>3. ToSet(r) \subseteq ToSet(s) \cup {e}
  BY <1>1 DEF ToSet
<1>4. e \in ToSet(r)
  BY <1>1 DEF ToSet
<1>5. ASSUME NEW j \in 1 .. Len(s)
      PROVE  s[j] \in ToSet(r)
  <2>1. CASE j < k
    BY <1>1, <2>1 DEF ToSet
  <2>2. CASE j >= k
    <3>1. j + 1 \in DOMAIN r /\ r[j + 1] = s[j]
      BY <1>1, <2>2
    <3> QED  BY <3>1 DEF ToSet
  <2> QED  BY <2>1, <2>2
<1>6. ToSet(s) \subseteq ToSet(r)
  BY <1>5 DEF ToSet
<1> QED  BY <1>1, <1>2, <1>3, <1>4, <1>6 DEF r

\* Appending a new element, and taking the first one away.
LEMMA AppendFacts ==
  ASSUME NEW T, NEW s \in Seq(T), NEW e \in T, e \notin ToSet(s), IsInjective(s)
  PROVE  /\ Append(s, e) \in Seq(T)
         /\ IsInjective(Append(s, e))
         /\ ToSet(Append(s, e)) = ToSet(s) \cup {e}
<1>1. /\ Append(s, e) \in Seq(T) /\ Len(Append(s, e)) = Len(s) + 1
      /\ \A i \in 1 .. Len(s) : Append(s, e)[i] = s[i]
      /\ Append(s, e)[Len(s) + 1] = e
  BY AppendProperties
<1> DEFINE r == Append(s, e)
<1> HIDE DEF r
<1>2. IsInjective(r)
  BY <1>1 DEF r, IsInjective, ToSet
<1>3. ToSet(r) = ToSet(s) \cup {e}
  <2>1. ToSet(r) \subseteq ToSet(s) \cup {e}
    BY <1>1 DEF r, ToSet
  <2>2. e \in ToSet(r)
    BY <1>1 DEF r, ToSet
  <2>3. ToSet(s) \subseteq ToSet(r)
    BY <1>1 DEF r, ToSet
  <2> QED  BY <2>1, <2>2, <2>3
<1> QED  BY <1>1, <1>2, <1>3 DEF r

LEMMA TailFacts ==
  ASSUME NEW T, NEW s \in Seq(T), s # << >>, IsInjective(s)
  PROVE  /\ Tail(s) \in Seq(T)
         /\ IsInjective(Tail(s))
         /\ ToSet(Tail(s)) = ToSet(s) \ {Head(s)}
<1>1. /\ Tail(s) \in Seq(T) /\ Len(Tail(s)) = Len(s) - 1
      /\ \A i \in 1 .. Len(s) - 1 : Tail(s)[i] = s[i + 1]
      /\ Head(s) = s[1] /\ Len(s) \in Nat \ {0} /\ DOMAIN s = 1 .. Len(s)
  BY HeadTailProperties
<1> DEFINE r == Tail(s)
<1> HIDE DEF r
<1>2. IsInjective(r)
  BY <1>1 DEF r, IsInjective
<1>3. ToSet(r) \subseteq ToSet(s) \ {Head(s)}
  BY <1>1 DEF r, IsInjective, ToSet
<1>4. ASSUME NEW j \in 1 .. Len(s), j # 1
      PROVE  s[j] \in ToSet(r)
  <2>1. j - 1 \in DOMAIN r /\ r[j - 1] = s[j]
    BY <1>1, <1>4 DEF r
  <2> QED  BY <2>1 DEF ToSet
<1>5. ToSet(s) \ {Head(s)} \subseteq ToSet(r)
  BY <1>1, <1>4 DEF ToSet
<1> QED  BY <1>1, <1>2, <1>3, <1>5 DEF r

-----------------------------------------------------------------------------
(* The queue operations.                                                   *)

\* L is well formed over the queues Q and the threads T: its mask is exact, and
\* a thread is linked at most once, in the queue its pointer names.
WellFormed(L, Q, T) ==
  /\ L \in [queue   : [Q -> Seq(T)],
            at      : [T -> Q \cup {Null}],
            pending : SUBSET Priority]
  /\ L.pending = {p \in Priority : L.queue[p] # << >>}
  /\ \A q \in Q : /\ IsInjective(L.queue[q])
                  /\ \A t \in ToSet(L.queue[q]) : L.at[t] = q

In(L, q) == ToSet(L.queue[q])

\* M is L with t linked into q, which then is the sequence s.
LinkedAs(M, L, q, t, s) ==
  M = [queue   |-> [L.queue EXCEPT ![q] = s],
       at      |-> [L.at EXCEPT ![t] = q],
       pending |-> IF q \in Priority THEN L.pending \cup {q} ELSE L.pending]

\* M is L with t added to the queue q.
Added(M, L, q, t, Q) ==
  /\ In(M, q) = In(L, q) \cup {t}
  /\ \A r \in Q : r # q => In(M, r) = In(L, r)
  /\ M.at = [L.at EXCEPT ![t] = q]
  /\ M.pending = IF q \in Priority THEN L.pending \cup {q} ELSE L.pending

\* Linking a thread that is in no queue, at either end or in the middle.
LEMMA LinkFacts ==
  ASSUME NEW Q, NEW T, Priority \subseteq Q, Null \notin Q,
         NEW L, WellFormed(L, Q, T),
         NEW t \in T, \A q \in Q : t \notin In(L, q),
         NEW q \in Q, NEW s,
         s \in Seq(T), IsInjective(s), ToSet(s) = In(L, q) \cup {t},
         NEW M, LinkedAs(M, L, q, t, s)
  PROVE  WellFormed(M, Q, T) /\ Added(M, L, q, t, Q)
<1>1. /\ L.queue \in [Q -> Seq(T)] /\ L.at \in [T -> Q \cup {Null}]
      /\ L.pending \in SUBSET Priority
  BY DEF WellFormed
<1>2. M.queue[q] = s /\ \A r \in Q : r # q => M.queue[r] = L.queue[r]
  BY <1>1 DEF LinkedAs
<1>3. M.at[t] = q /\ \A u \in T : u # t => M.at[u] = L.at[u]
  BY <1>1 DEF LinkedAs
<1>4. M \in [queue : [Q -> Seq(T)], at : [T -> Q \cup {Null}], pending : SUBSET Priority]
  BY <1>1 DEF LinkedAs
<1>5. s # << >>
  BY ToSetEmpty
<1>6. M.pending = {p \in Priority : M.queue[p] # << >>}
  <2>1. L.pending = {p \in Priority : L.queue[p] # << >>}
    BY DEF WellFormed
  <2>2. M.pending = IF q \in Priority THEN L.pending \cup {q} ELSE L.pending
    BY DEF LinkedAs
  <2> QED  BY <1>2, <1>5, <2>1, <2>2
<1>7. \A r \in Q : IsInjective(M.queue[r])
  BY <1>2 DEF WellFormed
<1>8. \A r \in Q : \A u \in ToSet(M.queue[r]) : M.at[u] = r
  <2>1. SUFFICES ASSUME NEW r \in Q, NEW u \in ToSet(M.queue[r])
                 PROVE  M.at[u] = r
    OBVIOUS
  <2>2. u \in T
    <3>1. M.queue[r] \in Seq(T)
      BY <1>4
    <3> QED  BY <3>1, <2>1 DEF ToSet
  <2>3. CASE u = t
    BY <1>2, <1>3, <2>1, <2>3 DEF In
  <2>4. CASE u # t
    <3>1. u \in ToSet(L.queue[r])
      BY <1>2, <2>1, <2>4 DEF In
    <3>2. L.at[u] = r
      BY <3>1 DEF WellFormed
    <3> QED  BY <1>3, <2>2, <2>4, <3>2
  <2> QED  BY <2>3, <2>4
<1>9. WellFormed(M, Q, T)
  BY <1>4, <1>6, <1>7, <1>8 DEF WellFormed
<1>10. In(M, q) = In(L, q) \cup {t} /\ \A r \in Q : r # q => In(M, r) = In(L, r)
  BY <1>2 DEF In
<1> QED  BY <1>1, <1>9, <1>10 DEF Added, LinkedAs

\* The place that a priority p has in a sequence, in front of the first element
\* of a greater number.
LEMMA InsertPositionFacts ==
  ASSUME NEW T, NEW s \in Seq(T), NEW p, NEW f,
         NEW k, k = InsertPosition(s, p, f)
  PROVE  /\ k \in 1 .. Len(s) + 1
         /\ \A i \in 1 .. Len(s) : i < k => ~ (f[s[i]] > p)
         /\ k <= Len(s) => f[s[k]] > p
<1> DEFINE behind == {i \in DOMAIN s : f[s[i]] > p}
<1>1. DOMAIN s = 1 .. Len(s) /\ Len(s) \in Nat
  BY LenProperties
<1>2. CASE behind = {}
  <2>1. k = Len(s) + 1
    BY <1>2 DEF InsertPosition
  <2> QED  BY <1>1, <1>2, <2>1
<1>3. CASE behind # {}
  <2>1. behind \in SUBSET Nat
    BY <1>1
  <2>2. \E i \in behind : \A j \in behind : i <= j
    BY <1>3, <2>1, LeastElement
  <2>3. k \in behind /\ \A j \in behind : k <= j
    BY <1>3, <2>2 DEF InsertPosition
  <2> HIDE DEF behind
  <2>4. k \in 1 .. Len(s) /\ f[s[k]] > p
    BY <1>1, <2>3 DEF behind
  <2>5. ASSUME NEW i \in 1 .. Len(s), i < k
        PROVE  ~ (f[s[i]] > p)
    <3>1. i \notin behind
      BY <1>1, <2>3, <2>4, <2>5
    <3> QED  BY <1>1, <3>1 DEF behind
  <2> QED  BY <1>1, <2>4, <2>5
<1> QED  BY <1>2, <1>3

LEMMA InsertByPriorityFacts ==
  ASSUME NEW Q, NEW T, Priority \subseteq Q, Null \notin Q,
         NEW L, WellFormed(L, Q, T),
         NEW t \in T, \A q \in Q : t \notin In(L, q),
         NEW q \in Q, NEW p, NEW f,
         NEW M, M = InsertByPriority(L, q, t, p, f)
  PROVE  WellFormed(M, Q, T) /\ Added(M, L, q, t, Q)
<1> DEFINE s == L.queue[q]
           k == InsertPosition(s, p, f)
<1>1. s \in Seq(T) /\ IsInjective(s) /\ t \notin ToSet(s)
  BY DEF WellFormed, In
<1>2. k \in 1 .. Len(s) + 1
  BY <1>1, InsertPositionFacts
<1> HIDE DEF k
<1>3. /\ InsertAt(s, k, t) \in Seq(T)
      /\ IsInjective(InsertAt(s, k, t))
      /\ ToSet(InsertAt(s, k, t)) = ToSet(s) \cup {t}
  BY <1>1, <1>2, InsertAtFacts
<1>4. LinkedAs(M, L, q, t, InsertAt(s, k, t))
  <2>1. L.queue \in [Q -> Seq(T)]
    BY DEF WellFormed
  <2> QED  BY <2>1 DEF InsertByPriority, LinkedAs, k
<1> DEFINE r == InsertAt(s, k, t)
<1>5. r \in Seq(T) /\ IsInjective(r) /\ ToSet(r) = In(L, q) \cup {t}
  BY <1>3 DEF In
<1> HIDE DEF s, r
<1>6. LinkedAs(M, L, q, t, r)
  BY <1>4 DEF r
<1> QED  BY <1>5, <1>6, LinkFacts

LEMMA LinkOnRunQueueFacts ==
  ASSUME NEW Q, NEW T, Priority \subseteq Q, Null \notin Q,
         NEW L, WellFormed(L, Q, T),
         NEW t \in T, \A q \in Q : t \notin In(L, q),
         NEW p \in Priority,
         NEW M, M = LinkOnRunQueue(L, t, p)
  PROVE  WellFormed(M, Q, T) /\ Added(M, L, p, t, Q)
<1> DEFINE s == L.queue[p]
<1>1. s \in Seq(T) /\ IsInjective(s) /\ t \notin ToSet(s) /\ p \in Q
  BY DEF WellFormed, In
<1>2. /\ Append(s, t) \in Seq(T)
      /\ IsInjective(Append(s, t))
      /\ ToSet(Append(s, t)) = ToSet(s) \cup {t}
  BY <1>1, AppendFacts
<1>3. LinkedAs(M, L, p, t, Append(s, t))
  <2>1. L.queue \in [Q -> Seq(T)]
    BY DEF WellFormed
  <2> QED  BY <1>1, <2>1 DEF LinkOnRunQueue, LinkedAs
<1> DEFINE a == Append(s, t)
<1>4. a \in Seq(T) /\ IsInjective(a) /\ ToSet(a) = In(L, p) \cup {t}
  BY <1>2 DEF In
<1> HIDE DEF s, a
<1>6. LinkedAs(M, L, p, t, a)
  BY <1>3 DEF a
<1> QED  BY <1>1, <1>4, <1>6, LinkFacts

\* M is L with t taken out of q, which then is the sequence s, and the mask
\* brought up to date.
UnlinkedAs(M, L, q, t, s, at) ==
  M = [queue   |-> [L.queue EXCEPT ![q] = s],
       at      |-> at,
       pending |-> IF q \in Priority /\ s = << >> THEN L.pending \ {q} ELSE L.pending]

\* M is L without t in any queue.
Removed(M, L, t, Q) == \A q \in Q : In(M, q) = In(L, q) \ {t}

\* Taking a thread out of the only queue it can be in.  Its pointer may be
\* cleared or left as it is.
LEMMA UnlinkedFacts ==
  ASSUME NEW Q, NEW T, Priority \subseteq Q,
         NEW L, WellFormed(L, Q, T),
         NEW t \in T, NEW q \in Q, \A r \in Q : r # q => t \notin In(L, r),
         NEW s, s \in Seq(T), IsInjective(s), ToSet(s) = In(L, q) \ {t},
         NEW at, at \in [T -> Q \cup {Null}], \A u \in T : u # t => at[u] = L.at[u],
         NEW M, UnlinkedAs(M, L, q, t, s, at)
  PROVE  WellFormed(M, Q, T) /\ Removed(M, L, t, Q)
<1>1. /\ L.queue \in [Q -> Seq(T)] /\ L.at \in [T -> Q \cup {Null}]
      /\ L.pending \in SUBSET Priority
      /\ L.pending = {p \in Priority : L.queue[p] # << >>}
  BY DEF WellFormed
<1>2. /\ M.queue[q] = s /\ \A r \in Q : r # q => M.queue[r] = L.queue[r]
      /\ M.at = at
      /\ M.pending = IF q \in Priority /\ s = << >> THEN L.pending \ {q} ELSE L.pending
  BY <1>1 DEF UnlinkedAs
<1>3. M \in [queue : [Q -> Seq(T)], at : [T -> Q \cup {Null}], pending : SUBSET Priority]
  BY <1>1 DEF UnlinkedAs
<1>4. Removed(M, L, t, Q)
  BY <1>2 DEF Removed, In
<1>5. M.pending = {p \in Priority : M.queue[p] # << >>}
  <2>1. s # << >> => L.queue[q] # << >>
    <3>1. L.queue[q] = << >> => ToSet(s) = {}
      BY <1>1, ToSetEmpty DEF In
    <3> QED  BY <3>1, ToSetEmpty
  <2> QED  BY <1>1, <1>2, <2>1
<1>6. \A r \in Q : IsInjective(M.queue[r])
  BY <1>2 DEF WellFormed
<1>7. \A r \in Q : \A u \in ToSet(M.queue[r]) : M.at[u] = r
  <2>1. SUFFICES ASSUME NEW r \in Q, NEW u \in ToSet(M.queue[r])
                 PROVE  M.at[u] = r
    OBVIOUS
  <2>2. u \in T
    <3>1. M.queue[r] \in Seq(T)
      BY <1>3
    <3> QED  BY <3>1, <2>1 DEF ToSet
  <2>3. u # t /\ u \in ToSet(L.queue[r])
    BY <1>4, <2>1 DEF Removed, In
  <2>4. L.at[u] = r
    BY <2>3 DEF WellFormed
  <2> QED  BY <1>2, <2>2, <2>3, <2>4
<1> QED  BY <1>3, <1>4, <1>5, <1>6, <1>7 DEF WellFormed

LEMMA UnlinkFacts ==
  ASSUME NEW Q, NEW T, Priority \subseteq Q, Null \notin Q,
         NEW L, WellFormed(L, Q, T),
         NEW t \in T,
         NEW M, M = Unlink(L, t)
  PROVE  /\ WellFormed(M, Q, T)
         /\ Removed(M, L, t, Q)
         /\ M.at = [L.at EXCEPT ![t] = Null]
         /\ L.at[t] \notin Priority => M.pending = L.pending
<1>1. /\ L.queue \in [Q -> Seq(T)] /\ L.at \in [T -> Q \cup {Null}]
      /\ L.pending \in SUBSET Priority
      /\ L.pending = {p \in Priority : L.queue[p] # << >>}
      /\ \A r \in Q : t \in In(L, r) => L.at[t] = r
  BY DEF WellFormed, In
<1>2. CASE L.at[t] = Null
  <2>1. M = L
    BY <1>2 DEF Unlink
  <2>2. \A r \in Q : t \notin In(L, r)
    BY <1>1, <1>2
  <2>3. [L.at EXCEPT ![t] = Null] = L.at
    BY <1>1, <1>2
  <2> QED  BY <2>1, <2>2, <2>3 DEF Removed
<1>3. CASE L.at[t] # Null
  <2> DEFINE q == L.at[t]
             s == RemoveFirst(L.queue[q], t)
             at == [L.at EXCEPT ![t] = Null]
             K == [queue |-> [L.queue EXCEPT ![q] = s], at |-> at, pending |-> L.pending]
  <2>1. q \in Q /\ L.queue[q] \in Seq(T) /\ IsInjective(L.queue[q])
    BY <1>1, <1>3 DEF WellFormed
  <2>2. s \in Seq(T) /\ IsInjective(s) /\ ToSet(s) = In(L, q) \ {t}
    BY <2>1, RemoveFirstFacts DEF In
  <2>3. M = UpdatePending(K, q)
    <3>1. [L.queue EXCEPT ![q] = RemoveFirst(@, t)] = [L.queue EXCEPT ![q] = s]
      BY <1>1, <2>1
    <3> QED  BY <1>3, <3>1 DEF Unlink
  <2>4. at \in [T -> Q \cup {Null}] /\ \A u \in T : u # t => at[u] = L.at[u]
    BY <1>1
  <2>5. \A r \in Q : r # q => t \notin In(L, r)
    BY <1>1
  <2> HIDE DEF s, at
  <2>6. UnlinkedAs(M, L, q, t, s, at)
    <3>1. K.queue[q] = s
      BY <1>1, <2>1
    <3>2. CASE q \in Priority /\ s = << >>
      BY <2>3, <3>1, <3>2 DEF UpdatePending, UnlinkedAs
    <3>3. CASE ~ (q \in Priority /\ s = << >>)
      BY <2>3, <3>1, <3>3 DEF UpdatePending, UnlinkedAs
    <3> QED  BY <3>2, <3>3
  <2> HIDE DEF q
  <2>7. WellFormed(M, Q, T) /\ Removed(M, L, t, Q)
    BY <2>1, <2>2, <2>4, <2>5, <2>6, UnlinkedFacts
  <2>8. M.at = at /\ (q \notin Priority => M.pending = L.pending)
    BY <2>6 DEF UnlinkedAs
  <2> QED  BY <2>7, <2>8 DEF at, q
<1> QED  BY <1>2, <1>3

\* Popping the first waiter of a wait queue.
LEMMA PopHeadFacts ==
  ASSUME NEW Q, NEW T, Priority \subseteq Q,
         NEW L, WellFormed(L, Q, T),
         NEW q \in Q, q \notin Priority, L.queue[q] # << >>,
         NEW t, t = Head(L.queue[q]),
         NEW M, M = PopHead(L, q)
  PROVE  /\ WellFormed(M, Q, T)
         /\ Removed(M, L, t, Q)
         /\ M.at = L.at
         /\ M.pending = L.pending
         /\ t \in T /\ t \in In(L, q)
<1>1. /\ L.queue \in [Q -> Seq(T)] /\ L.at \in [T -> Q \cup {Null}]
      /\ IsInjective(L.queue[q]) /\ L.queue[q] \in Seq(T)
      /\ \A r \in Q : t \in In(L, r) => L.at[t] = r
      /\ L \in [queue : [Q -> Seq(T)], at : [T -> Q \cup {Null}], pending : SUBSET Priority]
  BY DEF WellFormed, In
<1>2. t \in T /\ t \in In(L, q)
  BY <1>1, HeadInToSet DEF In
<1> DEFINE s == Tail(L.queue[q])
<1>3. s \in Seq(T) /\ IsInjective(s) /\ ToSet(s) = In(L, q) \ {t}
  BY <1>1, TailFacts DEF In
<1>4. UnlinkedAs(M, L, q, t, s, L.at)
  BY <1>1 DEF PopHead, UnlinkedAs
<1>5. \A r \in Q : r # q => t \notin In(L, r)
  BY <1>1, <1>2
<1> HIDE DEF s
<1>6. L.at \in [T -> Q \cup {Null}] /\ \A u \in T : u # t => L.at[u] = L.at[u]
  BY <1>1
<1>7. WellFormed(M, Q, T) /\ Removed(M, L, t, Q)
  BY <1>2, <1>3, <1>4, <1>5, <1>6, UnlinkedFacts
<1>8. M.at = L.at /\ M.pending = L.pending
  BY <1>4 DEF UnlinkedAs
<1> QED  BY <1>2, <1>7, <1>8

\* Taking the first thread of a run queue, as SelectThread does.
LEMMA DispatchFacts ==
  ASSUME NEW Q, NEW T, Priority \subseteq Q,
         NEW L, WellFormed(L, Q, T),
         NEW p \in Priority, L.queue[p] # << >>,
         NEW t, t = Head(L.queue[p]),
         NEW M, M = ClearPointer(UpdatePending(PopHead(L, p), p), t)
  PROVE  /\ WellFormed(M, Q, T)
         /\ Removed(M, L, t, Q)
         /\ M.at = [L.at EXCEPT ![t] = Null]
         /\ t \in T /\ t \in In(L, p)
<1>1. /\ L.queue \in [Q -> Seq(T)] /\ L.at \in [T -> Q \cup {Null}] /\ p \in Q
      /\ IsInjective(L.queue[p]) /\ L.queue[p] \in Seq(T)
      /\ \A r \in Q : t \in In(L, r) => L.at[t] = r
      /\ L \in [queue : [Q -> Seq(T)], at : [T -> Q \cup {Null}], pending : SUBSET Priority]
  BY DEF WellFormed, In
<1>2. t \in T /\ t \in In(L, p)
  BY <1>1, HeadInToSet DEF In
<1> DEFINE s == Tail(L.queue[p])
           at == [L.at EXCEPT ![t] = Null]
           K == PopHead(L, p)
<1>3. s \in Seq(T) /\ IsInjective(s) /\ ToSet(s) = In(L, p) \ {t}
  BY <1>1, TailFacts DEF In
<1>4. K = [queue |-> [L.queue EXCEPT ![p] = s], at |-> L.at, pending |-> L.pending]
  BY <1>1 DEF PopHead
<1>5. K.queue[p] = s
  BY <1>1, <1>4
<1> HIDE DEF K
<1>6. UnlinkedAs(M, L, p, t, s, at)
  <2> HIDE DEF s
  <2>1. CASE s = << >>
    <3>1. UpdatePending(K, p)
            = [queue |-> [L.queue EXCEPT ![p] = s], at |-> L.at, pending |-> L.pending \ {p}]
      BY <1>4, <1>5, <2>1 DEF UpdatePending
    <3> QED  BY <2>1, <3>1 DEF ClearPointer, UnlinkedAs, K
  <2>2. CASE s # << >>
    <3>1. UpdatePending(K, p) = K
      BY <1>5, <2>2 DEF UpdatePending
    <3> QED  BY <1>4, <2>2, <3>1 DEF ClearPointer, UnlinkedAs, K
  <2> QED  BY <2>1, <2>2
<1>7. \A r \in Q : r # p => t \notin In(L, r)
  BY <1>1, <1>2
<1>8. at \in [T -> Q \cup {Null}] /\ \A u \in T : u # t => at[u] = L.at[u]
  BY <1>1
<1> HIDE DEF s, at
<1>9. WellFormed(M, Q, T) /\ Removed(M, L, t, Q)
  <2>1. p \in Q
    BY <1>1
  <2> QED  BY <1>2, <1>3, <1>6, <1>7, <1>8, <2>1, UnlinkedFacts
<1>10. M.at = at
  BY <1>6 DEF UnlinkedAs
<1> QED  BY <1>2, <1>9, <1>10 DEF at

-----------------------------------------------------------------------------
(* The order of a queue.                                                   *)

\* s is in the order of the numbers f gives its elements.
SortedBy(s, f) == \A i, j \in DOMAIN s : i < j => f[s[i]] <= f[s[j]]

LEMMA SortedAgain ==
  ASSUME NEW T, NEW s \in Seq(T), NEW f, SortedBy(s, f), NEW g,
         \A u \in ToSet(s) : g[u] = f[u]
  PROVE  SortedBy(s, g)
BY DEF SortedBy, ToSet

LEMMA SortedRemove ==
  ASSUME NEW T, NEW s \in Seq(T), NEW f, SortedBy(s, f), NEW e
  PROVE  SortedBy(RemoveFirst(s, e), f)
<1>1. CASE ~ \E i \in 1 .. Len(s) : s[i] = e
  BY <1>1 DEF RemoveFirst
<1>2. CASE \E i \in 1 .. Len(s) : s[i] = e
  <2> DEFINE r == RemoveFirst(s, e)
  <2>1. /\ r \in Seq(T)
        /\ Len(r) = Len(s) - 1
        /\ \E k \in 1 .. Len(s) :
             /\ s[k] = e
             /\ \A i \in 1 .. Len(s) - 1 : r[i] = IF i < k THEN s[i] ELSE s[i + 1]
    BY <1>2, RemoveFirstShape
  <2> HIDE DEF r
  <2>2. PICK k \in 1 .. Len(s) :
               \A i \in 1 .. Len(s) - 1 : r[i] = IF i < k THEN s[i] ELSE s[i + 1]
    BY <2>1
  <2>3. DOMAIN r = 1 .. Len(s) - 1 /\ DOMAIN s = 1 .. Len(s) /\ Len(s) \in Nat
    BY <2>1
  <2>4. ASSUME NEW i \in 1 .. Len(s) - 1, NEW j \in 1 .. Len(s) - 1, i < j
        PROVE  f[r[i]] <= f[r[j]]
    <3> DEFINE a == IF i < k THEN i ELSE i + 1
               b == IF j < k THEN j ELSE j + 1
    <3>1. a \in 1 .. Len(s) /\ b \in 1 .. Len(s) /\ a < b
      BY <2>3, <2>4
    <3>2. r[i] = s[a] /\ r[j] = s[b]
      BY <2>2, <2>4
    <3> HIDE DEF a, b
    <3> QED  BY <2>3, <3>1, <3>2 DEF SortedBy
  <2>5. SortedBy(r, f)
    BY <2>3, <2>4 DEF SortedBy
  <2> QED  BY <2>5 DEF r
<1> QED  BY <1>1, <1>2

LEMMA SortedTail ==
  ASSUME NEW T, NEW s \in Seq(T), s # << >>, NEW f, SortedBy(s, f)
  PROVE  SortedBy(Tail(s), f)
<1>1. /\ Tail(s) \in Seq(T) /\ Len(Tail(s)) = Len(s) - 1
      /\ \A i \in 1 .. Len(s) - 1 : Tail(s)[i] = s[i + 1]
      /\ Len(s) \in Nat \ {0} /\ DOMAIN s = 1 .. Len(s)
  BY HeadTailProperties, EmptySeq
<1>2. DOMAIN Tail(s) = 1 .. Len(s) - 1
  BY <1>1
<1>3. ASSUME NEW i \in 1 .. Len(s) - 1, NEW j \in 1 .. Len(s) - 1, i < j
      PROVE  f[Tail(s)[i]] <= f[Tail(s)[j]]
  <2>1. i + 1 \in DOMAIN s /\ j + 1 \in DOMAIN s /\ i + 1 < j + 1
    BY <1>1, <1>3
  <2> QED  BY <1>1, <2>1 DEF SortedBy
<1> QED  BY <1>2, <1>3 DEF SortedBy

\* Nobody in a sorted queue comes before its head.
LEMMA SortedHead ==
  ASSUME NEW T, NEW s \in Seq(T), s # << >>, NEW f \in [T -> Nat], SortedBy(s, f)
  PROVE  /\ Head(s) \in T
         /\ \A u \in ToSet(s) : f[Head(s)] <= f[u]
<1>1. Head(s) = s[1] /\ DOMAIN s = 1 .. Len(s) /\ Len(s) \in Nat \ {0} /\ Head(s) \in T
  BY HeadTailProperties, EmptySeq
<1>2. ASSUME NEW i \in 1 .. Len(s)
      PROVE  f[s[1]] <= f[s[i]]
  <2>1. CASE i = 1
    BY <1>1, <2>1
  <2>2. CASE i > 1
    BY <1>1, <2>2 DEF SortedBy
  <2> QED  BY <2>1, <2>2
<1> QED  BY <1>1, <1>2 DEF ToSet

\* InsertThreadIntoQueueByPriority keeps the order, whatever number the thread
\* had before.
LEMMA SortedInsert ==
  ASSUME NEW T, NEW s \in Seq(T), NEW f \in [T -> Nat], SortedBy(s, f),
         NEW t \in T, NEW p \in Nat,
         NEW g \in [T -> Nat], g[t] = p, \A u \in ToSet(s) : g[u] = f[u],
         NEW r, r = InsertAt(s, InsertPosition(s, p, f), t)
  PROVE  SortedBy(r, g)
<1> DEFINE k == InsertPosition(s, p, f)
<1>1. /\ k \in 1 .. Len(s) + 1
      /\ \A i \in 1 .. Len(s) : i < k => ~ (f[s[i]] > p)
      /\ k <= Len(s) => f[s[k]] > p
  BY InsertPositionFacts
<1>2. r = InsertAt(s, k, t)
  OBVIOUS
<1> HIDE DEF k
<1>3. /\ r \in Seq(T) /\ Len(r) = Len(s) + 1
      /\ \A i \in 1 .. Len(s) + 1 :
           r[i] = IF i < k THEN s[i] ELSE IF i = k THEN t ELSE s[i - 1]
  <2>1. r \in Seq(T) /\ Len(r) = Len(s) + 1
    BY <1>1, <1>2, InsertAtShape
  <2>2. InsertedAt(r, s, k, t)
    BY <1>1, <1>2, InsertAtShape
  <2> QED  BY <2>1, <2>2 DEF InsertedAt
<1>4. Len(s) \in Nat /\ DOMAIN s = 1 .. Len(s) /\ DOMAIN r = 1 .. Len(s) + 1
  BY <1>3, LenProperties
<1>5. \A i \in 1 .. Len(s) : s[i] \in T /\ f[s[i]] \in Nat /\ g[s[i]] = f[s[i]]
  <2>1. \A i \in 1 .. Len(s) : s[i] \in T /\ s[i] \in ToSet(s)
    BY <1>4, ElementOfSeq DEF ToSet
  <2> QED  BY <2>1
<1>6. \A i, j \in 1 .. Len(s) : i < j => f[s[i]] <= f[s[j]]
  BY <1>4 DEF SortedBy
<1>7. \A i \in 1 .. Len(s) : i < k => f[s[i]] <= p
  BY <1>1, <1>5
<1>8. \A i \in 1 .. Len(s) : k <= i => p < f[s[i]]
  <2>1. SUFFICES ASSUME NEW i \in 1 .. Len(s), k <= i
                 PROVE  p < f[s[i]]
    OBVIOUS
  <2>2. k \in 1 .. Len(s) /\ p < f[s[k]]
    BY <1>1, <1>4, <1>5, <2>1
  <2>3. CASE k = i
    BY <2>2, <2>3
  <2>4. CASE k < i
    BY <1>5, <1>6, <2>2, <2>4
  <2> QED  BY <1>1, <2>1, <2>3, <2>4
<1>9. ASSUME NEW i \in 1 .. Len(s) + 1, NEW j \in 1 .. Len(s) + 1, i < j
      PROVE  g[r[i]] <= g[r[j]]
  <2>1. CASE j < k
    <3>1. r[i] = s[i] /\ r[j] = s[j] /\ i \in 1 .. Len(s) /\ j \in 1 .. Len(s)
      BY <1>1, <1>3, <1>4, <1>9, <2>1
    <3> QED  BY <1>5, <1>6, <1>9, <3>1
  <2>2. CASE j = k
    <3>1. r[i] = s[i] /\ r[j] = t /\ i \in 1 .. Len(s)
      BY <1>1, <1>3, <1>4, <1>9, <2>2
    <3> QED  BY <1>5, <1>7, <1>9, <2>2, <3>1
  <2>3. CASE i = k
    <3>1. r[i] = t /\ r[j] = s[j - 1] /\ j - 1 \in 1 .. Len(s) /\ k <= j - 1
      BY <1>1, <1>3, <1>4, <1>9, <2>3
    <3>2. p < f[s[j - 1]]
      BY <1>8, <3>1
    <3>3. g[s[j - 1]] = f[s[j - 1]] /\ f[s[j - 1]] \in Nat
      BY <1>5, <3>1
    <3>4. g[r[i]] = p /\ g[r[j]] = f[s[j - 1]]
      BY <3>1, <3>3
    <3> QED  BY <3>2, <3>3, <3>4
  <2>4. CASE i < k /\ k < j
    <3>1. /\ r[i] = s[i] /\ r[j] = s[j - 1] /\ i \in 1 .. Len(s)
          /\ j - 1 \in 1 .. Len(s) /\ k <= j - 1
      BY <1>1, <1>3, <1>4, <1>9, <2>4
    <3>2. f[s[i]] <= p /\ p < f[s[j - 1]]
      BY <1>7, <1>8, <2>4, <3>1
    <3>3. /\ g[s[i]] = f[s[i]] /\ f[s[i]] \in Nat
          /\ g[s[j - 1]] = f[s[j - 1]] /\ f[s[j - 1]] \in Nat
      BY <1>5, <3>1
    <3>4. g[r[i]] = f[s[i]] /\ g[r[j]] = f[s[j - 1]]
      BY <3>1, <3>3
    <3> QED  BY <3>2, <3>3, <3>4
  <2>5. CASE k < i
    <3>1. /\ r[i] = s[i - 1] /\ r[j] = s[j - 1] /\ i - 1 \in 1 .. Len(s)
          /\ j - 1 \in 1 .. Len(s) /\ i - 1 < j - 1
      BY <1>1, <1>3, <1>4, <1>9, <2>5
    <3> QED  BY <1>5, <1>6, <3>1
  <2> QED  BY <1>1, <1>4, <1>9, <2>1, <2>2, <2>3, <2>4, <2>5
<1> QED  BY <1>4, <1>9 DEF SortedBy

-----------------------------------------------------------------------------
(* Sequences of frames.                                                    *)

\* Replacing the first frame of a chain.
LEMMA ReplaceFacts ==
  ASSUME NEW s \in Seq(Frame), s # << >>, NEW g \in Seq(Frame),
         NEW r, r = g \o Tail(s)
  PROVE  /\ r \in Seq(Frame) /\ Tail(s) \in Seq(Frame) /\ Head(s) = s[1] /\ Head(s) \in Frame
         /\ Len(s) \in Nat \ {0} /\ Len(g) \in Nat /\ DOMAIN r = 1 .. Len(g) + Len(s) - 1
         /\ DOMAIN s = 1 .. Len(s) /\ DOMAIN g = 1 .. Len(g) /\ DOMAIN Tail(s) = 1 .. Len(s) - 1
         /\ \A i \in 1 .. Len(s) - 1 : Tail(s)[i] = s[i + 1]
         /\ \A i \in 1 .. Len(g) : r[i] = g[i]
         /\ \A i \in 1 .. Len(s) - 1 : r[Len(g) + i] = Tail(s)[i]
<1>1. /\ Tail(s) \in Seq(Frame) /\ Len(Tail(s)) = Len(s) - 1 /\ Len(s) \in Nat \ {0}
      /\ \A i \in 1 .. Len(Tail(s)) : Tail(s)[i] = s[i + 1]
      /\ Head(s) = s[1] /\ Head(s) \in Frame
  BY HeadTailProperties, EmptySeq
<1> DEFINE t == Tail(s)
<1>2. t \in Seq(Frame) /\ Len(t) = Len(s) - 1
  BY <1>1
<1> HIDE DEF t
<1>3. /\ g \o t \in Seq(Frame) /\ Len(g \o t) = Len(g) + Len(t) /\ Len(g) \in Nat
      /\ \A i \in 1 .. Len(g) + Len(t) :
           (g \o t)[i] = IF i <= Len(g) THEN g[i] ELSE t[i - Len(g)]
  BY <1>2, ConcatProperties, LenProperties
<1>4. r = g \o t
  BY DEF t
<1>5. ASSUME NEW i \in 1 .. Len(s) - 1
      PROVE  r[Len(g) + i] = t[i]
  <2>1. Len(g) + i \in 1 .. Len(g) + Len(t) /\ ~ (Len(g) + i <= Len(g))
        /\ (Len(g) + i) - Len(g) = i
    BY <1>1, <1>2, <1>3
  <2> QED  BY <1>3, <1>4, <2>1
<1>6. \A i \in 1 .. Len(g) : r[i] = g[i]
  BY <1>1, <1>2, <1>3, <1>4
<1>7. DOMAIN r = 1 .. Len(g) + Len(s) - 1 /\ r \in Seq(Frame)
  BY <1>1, <1>2, <1>3, <1>4
<1>8. DOMAIN s = 1 .. Len(s) /\ DOMAIN g = 1 .. Len(g) /\ DOMAIN t = 1 .. Len(s) - 1
  BY <1>2, LenProperties
<1> QED  BY <1>1, <1>3, <1>5, <1>6, <1>7, <1>8 DEF t

\* Every place of the new chain is one of the new frames or one that was there.
LEMMA PlaceFacts ==
  ASSUME NEW n \in Nat, NEW m \in Nat, NEW k \in 1 .. n + m
  PROVE  k \in 1 .. n \/ \E i \in 1 .. m : k = n + i
<1>1. CASE k <= n
  BY <1>1
<1>2. CASE k > n
  <2>1. k - n \in 1 .. m /\ k = n + (k - n)
    BY <1>2
  <2> QED  BY <2>1
<1> QED  BY <1>1, <1>2

LEMMA HasReplace ==
  ASSUME NEW s \in Seq(Frame), s # << >>, NEW g \in Seq(Frame), NEW ops
  PROVE  /\ Has(g \o Tail(s), ops) <=> Has(g, ops) \/ Has(Tail(s), ops)
         /\ Has(s, ops) <=> Head(s).op \in ops \/ Has(Tail(s), ops)
<1> DEFINE r == g \o Tail(s)
           t == Tail(s)
<1>1. /\ r \in Seq(Frame) /\ Head(s) = s[1]
      /\ Len(s) \in Nat \ {0} /\ Len(g) \in Nat /\ DOMAIN r = 1 .. Len(g) + Len(s) - 1
      /\ DOMAIN s = 1 .. Len(s) /\ DOMAIN g = 1 .. Len(g) /\ DOMAIN t = 1 .. Len(s) - 1
      /\ \A i \in 1 .. Len(s) - 1 : t[i] = s[i + 1]
      /\ \A i \in 1 .. Len(g) : r[i] = g[i]
      /\ \A i \in 1 .. Len(s) - 1 : r[Len(g) + i] = t[i]
  BY ReplaceFacts
<1> HIDE DEF r, t
<1>2. Has(r, ops) => Has(g, ops) \/ Has(t, ops)
  <2>1. SUFFICES ASSUME NEW k \in DOMAIN r, r[k].op \in ops
                 PROVE  Has(g, ops) \/ Has(t, ops)
    BY DEF Has
  <2>2. k \in 1 .. Len(g) \/ \E i \in 1 .. Len(s) - 1 : k = Len(g) + i
    <3>1. Len(g) \in Nat /\ Len(s) - 1 \in Nat /\ k \in 1 .. Len(g) + (Len(s) - 1)
      BY <1>1
    <3> QED  BY <3>1, PlaceFacts
  <2>3. CASE k \in 1 .. Len(g)
    <3>1. k \in DOMAIN g /\ r[k] = g[k]
      BY <1>1, <2>3
    <3> QED  BY <2>1, <3>1 DEF Has
  <2>4. ASSUME NEW i \in 1 .. Len(s) - 1, k = Len(g) + i
        PROVE  Has(t, ops)
    <3>1. r[k] = t[i] /\ i \in DOMAIN t
      BY <1>1, <2>4
    <3> QED  BY <2>1, <3>1 DEF Has
  <2> QED  BY <2>2, <2>3, <2>4
<1>3. Has(g, ops) => Has(r, ops)
  <2>1. SUFFICES ASSUME NEW i \in 1 .. Len(g), g[i].op \in ops
                 PROVE  Has(r, ops)
    BY <1>1 DEF Has
  <2>2. i \in DOMAIN r /\ r[i].op \in ops
    BY <1>1, <2>1
  <2> QED  BY <2>2 DEF Has
<1>4. Has(t, ops) => Has(r, ops)
  <2>1. SUFFICES ASSUME NEW i \in 1 .. Len(s) - 1, t[i].op \in ops
                 PROVE  Has(r, ops)
    BY <1>1 DEF Has
  <2>2. Len(g) + i \in DOMAIN r /\ r[Len(g) + i].op \in ops
    BY <1>1, <2>1
  <2> QED  BY <2>2 DEF Has
<1>5. Has(s, ops) => s[1].op \in ops \/ Has(t, ops)
  <2>1. SUFFICES ASSUME NEW k \in DOMAIN s, s[k].op \in ops, k # 1
                 PROVE  Has(t, ops)
    BY DEF Has
  <2>2. k - 1 \in DOMAIN t /\ t[k - 1] = s[k]
    BY <1>1, <2>1
  <2> QED  BY <2>1, <2>2 DEF Has
<1>6. Has(t, ops) => Has(s, ops)
  <2>1. SUFFICES ASSUME NEW i \in 1 .. Len(s) - 1, t[i].op \in ops
                 PROVE  Has(s, ops)
    BY <1>1 DEF Has
  <2>2. i + 1 \in DOMAIN s /\ s[i + 1].op \in ops
    BY <1>1, <2>1
  <2> QED  BY <2>2 DEF Has
<1>7. s[1].op \in ops => Has(s, ops)
  <2>1. 1 \in DOMAIN s
    BY <1>1
  <2> QED  BY <2>1 DEF Has
<1> QED  BY <1>1, <1>2, <1>3, <1>4, <1>5, <1>6, <1>7 DEF r, t

\* A chain stays in shape when its first frame is replaced by others that are
\* no barriers, if these are quiet wherever there is a barrier below.
LEMMA ShapedReplace ==
  ASSUME NEW s \in Seq(Frame), s # << >>, NEW g \in Seq(Frame),
         Shaped(s), ~ Has(g, Barrier),
         Has(Tail(s), Barrier) => \A i \in DOMAIN g : g[i].op \in Quiet
  PROVE  Shaped(g \o Tail(s))
<1> DEFINE r == g \o Tail(s)
           t == Tail(s)
<1>1. /\ r \in Seq(Frame) /\ Head(s) = s[1]
      /\ Len(s) \in Nat \ {0} /\ Len(g) \in Nat /\ DOMAIN r = 1 .. Len(g) + Len(s) - 1
      /\ DOMAIN s = 1 .. Len(s) /\ DOMAIN g = 1 .. Len(g) /\ DOMAIN t = 1 .. Len(s) - 1
      /\ \A i \in 1 .. Len(s) - 1 : t[i] = s[i + 1]
      /\ \A i \in 1 .. Len(g) : r[i] = g[i]
      /\ \A i \in 1 .. Len(s) - 1 : r[Len(g) + i] = t[i]
  BY ReplaceFacts
<1>2. Has(t, Barrier) => \A i \in DOMAIN g : g[i].op \in Quiet
  OBVIOUS
<1> HIDE DEF r, t
<1>3. SUFFICES ASSUME NEW i \in DOMAIN r, NEW j \in DOMAIN r, i < j, r[j].op \in Barrier
               PROVE  \/ r[i].op \in Quiet
                      \/ r[i].op \in {"Callback", "IdleCallback"} /\ r[j].op = "IdleLoop"
  BY DEF Shaped, r
<1>4. /\ Len(g) \in Nat /\ Len(s) - 1 \in Nat
      /\ \A k \in DOMAIN r : k \in 1 .. Len(g) + (Len(s) - 1)
  BY <1>1
<1>5. PICK m \in 1 .. Len(s) - 1 : j = Len(g) + m
  <2>1. ASSUME j \in 1 .. Len(g)  PROVE FALSE
    <3>1. j \in DOMAIN g /\ g[j].op \in Barrier
      BY <1>1, <1>3, <2>1
    <3> QED  BY <3>1 DEF Has
  <2> QED  BY <1>4, <2>1, PlaceFacts
<1>6. t[m].op \in Barrier /\ r[j] = t[m] /\ t[m] = s[m + 1]
  BY <1>1, <1>3, <1>5
<1>7. CASE i \in 1 .. Len(g)
  <2>1. Has(t, Barrier)
    BY <1>1, <1>6 DEF Has
  <2>2. i \in DOMAIN g /\ r[i] = g[i]
    BY <1>1, <1>7
  <2> QED  BY <1>2, <2>1, <2>2
<1>8. CASE i \notin 1 .. Len(g)
  <2>1. PICK k \in 1 .. Len(s) - 1 : i = Len(g) + k
    BY <1>4, <1>8, PlaceFacts
  <2>2. k + 1 \in DOMAIN s /\ m + 1 \in DOMAIN s /\ k + 1 < m + 1
        /\ r[i] = s[k + 1] /\ r[j] = s[m + 1]
    <3>1. k < m
      BY <1>1, <1>3, <1>5, <2>1
    <3>2. k + 1 \in DOMAIN s /\ m + 1 \in DOMAIN s /\ k + 1 < m + 1
      BY <1>1, <3>1
    <3>3. r[i] = t[k] /\ t[k] = s[k + 1]
      BY <1>1, <2>1
    <3> QED  BY <1>6, <3>2, <3>3
  <2> QED  BY <1>3, <2>2 DEF Shaped
<1> QED  BY <1>7, <1>8

\* What is below the first frame of a chain in shape.
LEMMA ShapedBelow ==
  ASSUME NEW s \in Seq(Frame), s # << >>, Shaped(s)
  PROVE  /\ Shaped(Tail(s))
         /\ Head(s).op \notin Quiet \cup {"Callback", "IdleCallback"} => ~ Has(Tail(s), Barrier)
         /\ Head(s).op \notin Quiet => ~ Has(Tail(s), {"Callback", "IdleCallback"})
<1> DEFINE t == Tail(s)
<1>1. /\ t \in Seq(Frame) /\ Len(s) \in Nat \ {0} /\ Head(s) = s[1]
      /\ DOMAIN s = 1 .. Len(s) /\ DOMAIN t = 1 .. Len(s) - 1
      /\ \A i \in 1 .. Len(s) - 1 : t[i] = s[i + 1]
  <2>1. << >> \in Seq(Frame)
    OBVIOUS
  <2> QED  BY <2>1, ReplaceFacts
<1> HIDE DEF t
<1>2. Shaped(t)
  <2>1. SUFFICES ASSUME NEW i \in DOMAIN t, NEW j \in DOMAIN t, i < j, t[j].op \in Barrier
                 PROVE  \/ t[i].op \in Quiet
                        \/ t[i].op \in {"Callback", "IdleCallback"} /\ t[j].op = "IdleLoop"
    BY DEF Shaped
  <2>2. i + 1 \in DOMAIN s /\ j + 1 \in DOMAIN s /\ i + 1 < j + 1
        /\ t[i] = s[i + 1] /\ t[j] = s[j + 1]
    BY <1>1, <2>1
  <2> QED  BY <2>1, <2>2 DEF Shaped
<1>3. ASSUME NEW j \in DOMAIN t, t[j].op \in Barrier
      PROVE  \/ s[1].op \in Quiet
             \/ s[1].op \in {"Callback", "IdleCallback"} /\ t[j].op = "IdleLoop"
  <2>1. j + 1 \in DOMAIN s /\ 1 \in DOMAIN s /\ 1 < j + 1 /\ t[j] = s[j + 1]
    BY <1>1
  <2> QED  BY <1>3, <2>1 DEF Shaped
<1>4. Head(s).op \notin Quiet \cup {"Callback", "IdleCallback"} => ~ Has(t, Barrier)
  BY <1>1, <1>3 DEF Has
<1>5. Head(s).op \notin Quiet => ~ Has(t, {"Callback", "IdleCallback"})
  BY <1>1, <1>3 DEF Has, Barrier
<1> QED  BY <1>2, <1>4, <1>5 DEF t

-----------------------------------------------------------------------------
(* Chains on the way to a switch.                                          *)

\* A chain whose first frame does not lead to a switch leads there below.
LEMMA LeavingBelow ==
  ASSUME NEW s \in Seq(Frame), s # << >>, NEW request,
         Leaving(s, request), ~ Leaves(Head(s), request)
  PROVE  /\ Head(s).op \in Quiet \cup {"Callback", "IdleCallback"}
         /\ Leaving(Tail(s), request)
<1> DEFINE t == Tail(s)
<1>1. /\ t \in Seq(Frame) /\ Len(s) \in Nat \ {0} /\ Head(s) = s[1]
      /\ DOMAIN s = 1 .. Len(s) /\ DOMAIN t = 1 .. Len(s) - 1
      /\ \A i \in 1 .. Len(s) - 1 : t[i] = s[i + 1]
  <2>1. << >> \in Seq(Frame)
    OBVIOUS
  <2> QED  BY <2>1, ReplaceFacts
<1> HIDE DEF t
<1>2. PICK i \in DOMAIN s :
        /\ Leaves(s[i], request)
        /\ \A j \in DOMAIN s : j < i => s[j].op \in Quiet \cup {"Callback", "IdleCallback"}
  BY DEF Leaving
<1>3. i # 1 /\ 1 \in DOMAIN s /\ 1 < i
  BY <1>1, <1>2
<1>4. Head(s).op \in Quiet \cup {"Callback", "IdleCallback"}
  BY <1>1, <1>2, <1>3
<1>5. i - 1 \in DOMAIN t /\ t[i - 1] = s[i]
  BY <1>1, <1>3
<1>6. ASSUME NEW j \in DOMAIN t, j < i - 1
      PROVE  t[j].op \in Quiet \cup {"Callback", "IdleCallback"}
  <2>1. j + 1 \in DOMAIN s /\ j + 1 < i /\ t[j] = s[j + 1]
    BY <1>1, <1>6
  <2> QED  BY <1>2, <2>1
<1>7. Leaving(t, request)
  BY <1>2, <1>5, <1>6 DEF Leaving
<1> QED  BY <1>4, <1>7 DEF t

\* A chain leads to a switch when its new frames do, or when they are quiet and
\* the frames below do.
LEMMA LeavingReplace ==
  ASSUME NEW s \in Seq(Frame), s # << >>, NEW g \in Seq(Frame), NEW request,
         \/ Leaving(g, request)
         \/ Leaving(Tail(s), request) /\ \A i \in DOMAIN g : g[i].op \in Quiet
  PROVE  Leaving(g \o Tail(s), request)
<1> DEFINE r == g \o Tail(s)
           t == Tail(s)
           C == Quiet \cup {"Callback", "IdleCallback"}
<1>1. /\ r \in Seq(Frame)
      /\ Len(s) \in Nat \ {0} /\ Len(g) \in Nat /\ DOMAIN r = 1 .. Len(g) + Len(s) - 1
      /\ DOMAIN g = 1 .. Len(g) /\ DOMAIN t = 1 .. Len(s) - 1
      /\ \A i \in 1 .. Len(g) : r[i] = g[i]
      /\ \A i \in 1 .. Len(s) - 1 : r[Len(g) + i] = t[i]
  BY ReplaceFacts
<1>2. \/ Leaving(g, request)
      \/ Leaving(t, request) /\ \A i \in DOMAIN g : g[i].op \in Quiet
  OBVIOUS
<1> HIDE DEF r, t
<1>3. CASE Leaving(g, request)
  <2>1. PICK i \in DOMAIN g : /\ Leaves(g[i], request)
                              /\ \A j \in DOMAIN g : j < i => g[j].op \in C
    BY <1>3 DEF Leaving
  <2>2. i \in DOMAIN r /\ r[i] = g[i]
    BY <1>1
  <2>3. ASSUME NEW j \in DOMAIN r, j < i
        PROVE  r[j].op \in C
    <3>1. j \in DOMAIN g /\ r[j] = g[j]
      BY <1>1, <2>3
    <3> QED  BY <2>1, <2>3, <3>1
  <2>4. Leaving(r, request)
    BY <2>1, <2>2, <2>3 DEF Leaving
  <2> QED  BY <2>4 DEF r
<1>4. CASE Leaving(t, request) /\ \A i \in DOMAIN g : g[i].op \in Quiet
  <2>1. PICK i \in DOMAIN t : /\ Leaves(t[i], request)
                              /\ \A j \in DOMAIN t : j < i => t[j].op \in C
    BY <1>4 DEF Leaving
  <2>2. Len(g) + i \in DOMAIN r /\ r[Len(g) + i] = t[i]
    BY <1>1
  <2>3. ASSUME NEW j \in DOMAIN r, j < Len(g) + i
        PROVE  r[j].op \in C
    <3>1. CASE j \in 1 .. Len(g)
      BY <1>1, <1>4, <3>1
    <3>2. ASSUME NEW k \in 1 .. Len(s) - 1, j = Len(g) + k
          PROVE  r[j].op \in C
      <4>1. k \in DOMAIN t /\ k < i /\ r[j] = t[k]
        BY <1>1, <2>3, <3>2
      <4> QED  BY <2>1, <4>1
    <3>3. j \in 1 .. Len(g) \/ \E k \in 1 .. Len(s) - 1 : j = Len(g) + k
      <4>1. Len(g) \in Nat /\ Len(s) - 1 \in Nat /\ j \in 1 .. Len(g) + (Len(s) - 1)
        BY <1>1
      <4> QED  BY <4>1, PlaceFacts
    <3> QED  BY <3>1, <3>2, <3>3
  <2>4. Leaving(r, request)
    BY <2>1, <2>2, <2>3 DEF Leaving
  <2> QED  BY <2>4 DEF r
<1> QED  BY <1>2, <1>3, <1>4

\* A request to reschedule only adds ways out.
LEMMA LeavingMonotone ==
  ASSUME NEW s, NEW request, NEW request2, request => request2, Leaving(s, request)
  PROVE  Leaving(s, request2)
BY DEF Leaving, Leaves

\* The chains that the actions push.
LEMMA FramesFacts ==
  /\ \A op, x : Call(op, x).op = op /\ Call(op, x).arg = x
  /\ << >> \in Seq(Frame) /\ DOMAIN << >> = {}
  /\ \A f1 \in Frame : /\ << f1 >> \in Seq(Frame)
                       /\ \A i \in DOMAIN << f1 >> : << f1 >>[i] = f1
  /\ \A f1, f2 \in Frame : /\ << f1, f2 >> \in Seq(Frame)
                           /\ \A i \in DOMAIN << f1, f2 >> : << f1, f2 >>[i] \in {f1, f2}
  /\ \A f1, f2, f3 \in Frame :
       /\ << f1, f2, f3 >> \in Seq(Frame)
       /\ \A i \in DOMAIN << f1, f2, f3 >> : << f1, f2, f3 >>[i] \in {f1, f2, f3}
BY DEF Call

LEMMA LeavesFacts ==
  /\ \A request : /\ Leaves(Call("SelectThread", Null), request)
                   /\ Leaves(Call("Select", Null), request)
                   /\ Leaves(Call("ExitReschedule", Null), request)
  /\ \A request : request => Leaves(Call("Reschedule", Null), request)
BY DEF Leaves, Call

LEMMA LeavingFrames ==
  ASSUME NEW request, NEW f1, Leaves(f1, request)
  PROVE  /\ Leaving(<< f1 >>, request)
         /\ \A f2 : Leaving(<< f1, f2 >>, request)
         /\ \A f2 : f2.op \in Quiet => Leaving(<< f2, f1 >>, request)
         /\ \A f2, f3 : f2.op \in Quiet /\ f3.op \in Quiet =>
                        Leaving(<< f2, f3, f1 >>, request)
<1>1. Leaving(<< f1 >>, request)
  BY DEF Leaving
<1>2. ASSUME NEW f2
      PROVE  Leaving(<< f1, f2 >>, request)
  <2>1. 1 \in DOMAIN << f1, f2 >> /\ << f1, f2 >>[1] = f1
        /\ \A j \in DOMAIN << f1, f2 >> : ~ (j < 1)
    OBVIOUS
  <2> QED  BY <2>1 DEF Leaving
<1>3. ASSUME NEW f2, f2.op \in Quiet
      PROVE  Leaving(<< f2, f1 >>, request)
  <2>1. 2 \in DOMAIN << f2, f1 >> /\ << f2, f1 >>[2] = f1
        /\ \A j \in DOMAIN << f2, f1 >> : j < 2 => << f2, f1 >>[j] = f2
    OBVIOUS
  <2> QED  BY <1>3, <2>1 DEF Leaving
<1>4. ASSUME NEW f2, NEW f3, f2.op \in Quiet, f3.op \in Quiet
      PROVE  Leaving(<< f2, f3, f1 >>, request)
  <2>1. 3 \in DOMAIN << f2, f3, f1 >> /\ << f2, f3, f1 >>[3] = f1
        /\ \A j \in DOMAIN << f2, f3, f1 >> : j < 3 => << f2, f3, f1 >>[j] \in {f2, f3}
    OBVIOUS
  <2>2. \A f \in {f2, f3} : f.op \in Quiet
    BY <1>4
  <2> QED  BY <2>1, <2>2 DEF Leaving
<1> QED  BY <1>1, <1>2, <1>3, <1>4

-----------------------------------------------------------------------------
(* The frames that deliver timers.                                         *)

LEMMA OrderingFacts ==
  ASSUME NEW S \in SUBSET Thread, IsFiniteSet(Thread), NEW s \in Orderings(S)
  PROVE  s \in Seq(Thread) /\ ToSet(s) \subseteq S
<1>1. Cardinality(S) \in Nat
  BY FS_Subset, FS_CardinalityType
<1>2. PICK n \in 0 .. Cardinality(S) : s \in [1 .. n -> S]
  BY DEF Orderings
<1>3. s \in Seq(S)
  BY <1>1, <1>2
<1>4. s \in Seq(Thread)
  BY <1>3
<1>5. ToSet(s) \subseteq S
  BY <1>2 DEF ToSet
<1> QED  BY <1>4, <1>5

LEMMA EachFacts ==
  ASSUME NEW s \in Seq(Thread), NEW op \in {"SleepTimerDue", "OSResumeThread"}
  PROVE  /\ Each(op, s) \in Seq(Frame)
         /\ \A i \in DOMAIN Each(op, s) : Each(op, s)[i].op = op
<1>1. Len(s) \in Nat /\ \A i \in 1 .. Len(s) : s[i] \in Thread
  BY LenProperties
<1>2. \A i \in 1 .. Len(s) : Call(op, s[i]) \in Frame /\ Call(op, s[i]).op = op
  BY <1>1 DEF Call, Frame, ThreadCall
<1>3. Each(op, s) \in [1 .. Len(s) -> Frame]
  BY <1>2 DEF Each
<1>4. Each(op, s) \in Seq(Frame)
  BY <1>1, <1>3
<1>5. \A i \in DOMAIN Each(op, s) : Each(op, s)[i].op = op
  BY <1>2 DEF Each
<1> QED  BY <1>4, <1>5

\* The frames of one delivery: quiet, but for what comes after it.
LEMMA PumpFacts ==
  ASSUME NEW s \in Seq(Thread), NEW f \in Frame,
         NEW g, g = Each("SleepTimerDue", s) \o << Call("Reconcile", Null), f >>
  PROVE  /\ g \in Seq(Frame)
         /\ \A i \in DOMAIN g : g[i].op \in Quiet \/ g[i] = f
         /\ \A request : Leaves(f, request) => Leaving(g, request)
<1> DEFINE e == Each("SleepTimerDue", s)
           h == << Call("Reconcile", Null), f >>
<1>1. e \in Seq(Frame) /\ \A i \in DOMAIN e : e[i].op = "SleepTimerDue"
  BY EachFacts
<1>2. h \in Seq(Frame) /\ Len(h) = 2 /\ h[1].op = "Reconcile" /\ h[2] = f
  BY DEF Call, Frame
<1> HIDE DEF e, h
<1>3. /\ e \o h \in Seq(Frame) /\ Len(e \o h) = Len(e) + 2 /\ Len(e) \in Nat
      /\ \A i \in 1 .. Len(e) + 2 : (e \o h)[i] = IF i <= Len(e) THEN e[i] ELSE h[i - Len(e)]
      /\ DOMAIN e = 1 .. Len(e) /\ DOMAIN (e \o h) = 1 .. Len(e) + 2
  <2>1. /\ e \o h \in Seq(Frame) /\ Len(e \o h) = Len(e) + Len(h)
        /\ \A i \in 1 .. Len(e) + Len(h) :
             (e \o h)[i] = IF i <= Len(e) THEN e[i] ELSE h[i - Len(e)]
    BY <1>1, <1>2, ConcatProperties
  <2>2. Len(e) \in Nat /\ DOMAIN e = 1 .. Len(e)
    BY <1>1, LenProperties
  <2>3. DOMAIN (e \o h) = 1 .. Len(e \o h)
    BY <2>1, LenProperties
  <2> QED  BY <1>2, <2>1, <2>2, <2>3
<1>4. g = e \o h
  BY DEF e, h
<1>5. ASSUME NEW i \in DOMAIN g, i # Len(e) + 2
      PROVE  g[i].op \in {"SleepTimerDue", "Reconcile"}
  <2>1. CASE i <= Len(e)
    BY <1>1, <1>3, <1>4, <2>1
  <2>2. CASE i > Len(e)
    <3>1. i = Len(e) + 1 /\ g[i] = h[1]
      BY <1>3, <1>4, <1>5, <2>2
    <3> QED  BY <1>2, <3>1
  <2> QED  BY <1>3, <1>4, <2>1, <2>2
<1>6. Len(e) + 2 \in DOMAIN g /\ g[Len(e) + 2] = f
  <2>1. Len(e) + 2 \in 1 .. Len(e) + 2 /\ ~ (Len(e) + 2 <= Len(e)) /\ Len(e) + 2 - Len(e) = 2
    BY <1>3
  <2> DEFINE n == Len(e) + 2
  <2>2. n \in DOMAIN (e \o h)
    BY <1>3, <2>1
  <2>3. (e \o h)[n] = h[n - Len(e)]
    BY <1>3, <2>1
  <2> QED  BY <1>2, <1>4, <2>1, <2>2, <2>3
<1>7. \A i \in DOMAIN g : g[i].op \in Quiet \/ g[i] = f
  BY <1>5, <1>6 DEF Quiet
<1>8. ASSUME NEW request, Leaves(f, request)
      PROVE  Leaving(g, request)
  <2>1. \A j \in DOMAIN g : j < Len(e) + 2 => g[j].op \in Quiet
    BY <1>3, <1>5 DEF Quiet
  <2> QED  BY <1>6, <1>8, <2>1 DEF Leaving
<1> QED  BY <1>3, <1>4, <1>7, <1>8

-----------------------------------------------------------------------------
(* Steps of the executing fiber.                                           *)

\* The executing fiber replaces its first frame by g; another one may lose its
\* frames, when its thread is terminated.
Replaces(g) ==
  /\ stack[exec] # << >> /\ g \in Seq(Frame)
  /\ stack' \in [Thread -> Seq(Frame)]
  /\ stack'[exec] = g \o Tail(stack[exec])
  /\ \A u \in Thread \ {exec} : stack'[u] = stack[u] \/ stack'[u] = << >>

LEMMA ContinueFacts ==
  ASSUME stack \in [Thread -> Seq(Frame)], exec \in Thread, stack[exec] # << >>,
         NEW g \in Seq(Frame), Continue(g)
  PROVE  /\ Replaces(g)
         /\ \A u \in Thread \ {exec} : stack'[u] = stack[u]
<1>1. Tail(stack[exec]) \in Seq(Frame)
  BY HeadTailProperties
<1>2. g \o Tail(stack[exec]) \in Seq(Frame)
  BY <1>1, ConcatProperties
<1>3. stack' = [stack EXCEPT ![exec] = g \o Tail(stack[exec])]
  BY DEF Continue
<1> QED  BY <1>2, <1>3 DEF Replaces

\* The frames that only a few actions execute or put on the stack.
Special == Barrier \cup {"Dispatch", "OSCreateThread", "ThreadReturns", "WakeNoSwitch",
                         "LeaveFiber"}

\* Whatever executes a frame that is not special, and puts no special frame in
\* its place, and only quiet ones in the place of a quiet one, keeps the call
\* chains in shape, as long as it leaves the globals of the scheduler alone.
LEMMA CalmStep ==
  ASSUME stack \in [Thread -> Seq(Frame)], exec \in Thread,
         ControlInv, NEW g, Replaces(g),
         UNCHANGED << exec, disable, running, current >>,
         Head(stack[exec]).op \notin Special \ {"OSCreateThread"},
         \A i \in DOMAIN g : g[i].op \notin Special,
         Head(stack[exec]).op \in Quiet => \A i \in DOMAIN g : g[i].op \in Quiet
  PROVE  /\ OthersOpen'
         /\ BarrierShape'
         /\ FirstOnly'
         /\ DispatchNext'
         /\ CreateNext'
         /\ NoReturns'
         /\ DisableCounts'
         /\ IdleCallbackIdles'
         /\ IdleRunsNobody'
         /\ OpenRunsItself'
<1> DEFINE s == stack[exec]
           t == Tail(s)
<1>1. s \in Seq(Frame) /\ s # << >> /\ g \in Seq(Frame) /\ stack'[exec] = g \o t
  BY DEF Replaces
<1>2. \A ops : /\ Has(stack'[exec], ops) <=> Has(g, ops) \/ Has(t, ops)
               /\ Has(s, ops) <=> Head(s).op \in ops \/ Has(t, ops)
  BY <1>1, HasReplace
<1>3. \A ops : ops \subseteq Special => ~ Has(g, ops)
  BY DEF Has
<1>4. ~ Has(t, {"Dispatch", "OSCreateThread"})
  BY <1>1 DEF ControlInv, FirstOnly
<1>5. \A ops : ops \subseteq Barrier \/ ops \subseteq {"IdleLoop", "Dispatch"} =>
                 (Has(stack'[exec], ops) <=> Has(s, ops))
  <2>1. SUFFICES ASSUME NEW ops,
                        ops \subseteq Barrier \/ ops \subseteq {"IdleLoop", "Dispatch"}
                 PROVE  Has(stack'[exec], ops) <=> Has(s, ops)
    OBVIOUS
  <2>2. ops \subseteq Special \ {"OSCreateThread"}
    BY <2>1 DEF Special, Barrier
  <2>3. Head(s).op \notin ops /\ ~ Has(g, ops)
    BY <1>3, <2>2
  <2> QED  BY <1>2, <2>3
<1>6. OthersOpen'
  <2>1. SUFFICES ASSUME NEW u \in Thread \ {exec}
                 PROVE  ~ Has(stack'[u], Barrier \cup {"Dispatch", "OSCreateThread"})
    BY DEF OthersOpen, Has
  <2>2. ~ Has(stack[u], Barrier \cup {"Dispatch", "OSCreateThread"})
    BY DEF ControlInv, OthersOpen
  <2>3. ~ Has(<< >>, Barrier \cup {"Dispatch", "OSCreateThread"})
    BY DEF Has
  <2> QED  BY <2>2, <2>3 DEF Replaces
<1>7. BarrierShape'
  <2>1. Shaped(s)
    BY DEF ControlInv, BarrierShape
  <2>2. ~ Has(g, Barrier)
    BY <1>3 DEF Special
  <2>3. Has(t, Barrier) => \A i \in DOMAIN g : g[i].op \in Quiet
    <3>1. Head(s).op \notin {"Callback", "IdleCallback"}
      BY DEF Special, Barrier
    <3> QED  BY <1>1, <2>1, <3>1, ShapedBelow
  <2>4. Shaped(g \o t)
    BY <1>1, <2>1, <2>2, <2>3, ShapedReplace
  <2> QED  BY <1>1, <2>4 DEF BarrierShape, Shaped
<1>8. FirstOnly' /\ DispatchNext' /\ CreateNext'
  <2>1. ~ Has(stack'[exec], {"Dispatch", "OSCreateThread"})
    BY <1>2, <1>3, <1>4 DEF Special
  <2>2. stack'[exec] \in Seq(Frame)
    BY DEF Replaces
  <2>3. stack'[exec] # << >> =>
          /\ ~ Has(Tail(stack'[exec]), {"Dispatch", "OSCreateThread"})
          /\ Head(stack'[exec]).op \notin {"Dispatch", "OSCreateThread"}
    BY <2>1, <2>2, HasReplace, EmptySeq
  <2> QED  BY <2>3 DEF FirstOnly, DispatchNext, CreateNext, At, Has
<1>9. NoReturns'
  <2> DEFINE R == {"ThreadReturns", "WakeNoSwitch", "LeaveFiber"}
  <2>1. \A u \in Thread : ~ Has(stack[u], R)
    BY DEF ControlInv, NoReturns
  <2>2. ~ Has(stack'[exec], R)
    BY <1>2, <1>3, <2>1 DEF Special
  <2>3. ~ Has(<< >>, R)
    BY DEF Has
  <2>4. \A u \in Thread : ~ Has(stack'[u], R)
    BY <2>1, <2>2, <2>3 DEF Replaces
  <2> QED  BY <2>4 DEF NoReturns, Has
<1>10. DisableCounts'
  <2>1. Has(stack'[exec], {"Callback"}) <=> Has(s, {"Callback"})
    BY <1>5 DEF Barrier
  <2> QED  BY <2>1 DEF ControlInv, DisableCounts, Has
<1>11. IdleCallbackIdles' /\ IdleRunsNobody'
  <2>1. Has(stack'[exec], {"IdleCallback"}) <=> Has(s, {"IdleCallback"})
    BY <1>5 DEF Barrier
  <2>2. Has(stack'[exec], {"IdleLoop"}) <=> Has(s, {"IdleLoop"})
    BY <1>5 DEF Barrier
  <2> QED  BY <2>1, <2>2 DEF ControlInv, IdleCallbackIdles, IdleRunsNobody, Has
<1>12. OpenRunsItself'
  <2>1. Has(stack'[exec], {"IdleLoop", "Dispatch"}) <=> Has(s, {"IdleLoop", "Dispatch"})
    BY <1>5
  <2> QED  BY <2>1 DEF ControlInv, OpenRunsItself, Has
<1> QED  BY <1>6, <1>7, <1>8, <1>9, <1>10, <1>11, <1>12

\* The other part of ControlInv: what happens to the executing thread's state
\* must agree with the frames that are left.
CalmState(g) ==
  /\ state'[exec] # "running" =>
       \/ Leaving(g, resched')
       \/ /\ state[exec] # "running" /\ (resched => resched')
          /\ ~ Leaves(Head(stack[exec]), resched)
          /\ \A i \in DOMAIN g : g[i].op \in Quiet
  /\ state[exec] = "running" /\ Has(stack[exec], {"Callback"}) => state'[exec] = "running"
  /\ state'[exec] = "running" => state[exec] = "running"
  /\ \A u \in Thread \ {exec} : Dead(u)' => Dead(u) \/ stack'[u] = << >>

LEMMA CalmControl ==
  ASSUME stack \in [Thread -> Seq(Frame)], exec \in Thread,
         ControlInv, NEW g, Replaces(g),
         UNCHANGED << exec, disable, running, current >>,
         Head(stack[exec]).op \notin Special \ {"OSCreateThread"},
         \A i \in DOMAIN g : g[i].op \notin Special,
         Head(stack[exec]).op \in Quiet => \A i \in DOMAIN g : g[i].op \in Quiet,
         CalmState(g)
  PROVE  ControlInv'
<1> DEFINE s == stack[exec]
           t == Tail(s)
<1>1. s \in Seq(Frame) /\ s # << >> /\ g \in Seq(Frame) /\ stack'[exec] = g \o t
  BY DEF Replaces
<1>2. /\ OthersOpen' /\ BarrierShape' /\ FirstOnly' /\ DispatchNext' /\ CreateNext'
      /\ NoReturns' /\ DisableCounts' /\ IdleCallbackIdles' /\ IdleRunsNobody'
      /\ OpenRunsItself'
  BY CalmStep
<1>3. DeadEmpty'
  <2>1. SUFFICES ASSUME NEW u \in Thread \ {exec}, Dead(u)'
                 PROVE  stack'[u] = << >>
    BY DEF DeadEmpty
  <2>2. Dead(u) \/ stack'[u] = << >>
    BY <2>1 DEF CalmState
  <2>3. Dead(u) => stack[u] = << >>
    BY DEF ControlInv, DeadEmpty
  <2> QED  BY <2>2, <2>3 DEF Replaces
<1>4. NotRunningLeaves'
  <2>1. SUFFICES ASSUME state'[exec] # "running"
                 PROVE  Leaving(g \o t, resched')
    BY <1>1 DEF NotRunningLeaves, Leaving, Leaves
  <2>2. CASE Leaving(g, resched')
    BY <1>1, <2>2, LeavingReplace
  <2>3. CASE /\ state[exec] # "running" /\ (resched => resched')
             /\ ~ Leaves(Head(s), resched)
             /\ \A i \in DOMAIN g : g[i].op \in Quiet
    <3>1. Leaving(s, resched)
      BY <2>3 DEF ControlInv, NotRunningLeaves
    <3>2. Leaving(t, resched)
      BY <1>1, <2>3, <3>1, LeavingBelow
    <3>3. Leaving(t, resched')
      BY <2>3, <3>2, LeavingMonotone
    <3> QED  BY <1>1, <2>3, <3>3, LeavingReplace
  <2> QED  BY <2>1, <2>2, <2>3 DEF CalmState
<1>5. CallbackRuns'
  <2>1. \A ops : /\ Has(stack'[exec], ops) <=> Has(g, ops) \/ Has(t, ops)
                 /\ Has(s, ops) <=> Head(s).op \in ops \/ Has(t, ops)
    BY <1>1, HasReplace
  <2>2. \A ops : ops \subseteq Special => ~ Has(g, ops)
    BY DEF Has
  <2>3. \A ops : ops \subseteq Barrier => (Has(stack'[exec], ops) <=> Has(s, ops))
    <3>1. SUFFICES ASSUME NEW ops, ops \subseteq Barrier
                   PROVE  Has(stack'[exec], ops) <=> Has(s, ops)
      OBVIOUS
    <3>2. ops \subseteq Special \ {"OSCreateThread"}
      BY <3>1 DEF Special, Barrier
    <3> QED  BY <2>1, <2>2, <3>2
  <2>4. /\ Has(stack'[exec], {"Callback"}) <=> Has(s, {"Callback"})
        /\ Has(stack'[exec], {"IdleLoop"}) <=> Has(s, {"IdleLoop"})
    BY <2>3 DEF Barrier
  <2>5. Has(s, {"Callback"}) /\ ~ Has(s, {"IdleLoop"}) => state[exec] = "running"
    BY DEF ControlInv, CallbackRuns
  <2> QED  BY <2>4, <2>5 DEF CalmState, CallbackRuns, Has
<1>6. IdleNotRunning'
  <2>1. \A ops : /\ Has(stack'[exec], ops) <=> Has(g, ops) \/ Has(t, ops)
                 /\ Has(s, ops) <=> Head(s).op \in ops \/ Has(t, ops)
    BY <1>1, HasReplace
  <2>2. ~ Has(g, {"IdleLoop"})
    BY DEF Has, Special, Barrier
  <2>3. Has(stack'[exec], {"IdleLoop"}) => Has(s, {"IdleLoop"})
    BY <2>1, <2>2
  <2>4. Has(s, {"IdleLoop"}) => state[exec] # "running"
    BY DEF ControlInv, IdleNotRunning
  <2> QED  BY <2>3, <2>4 DEF CalmState, IdleNotRunning, Has
<1> QED  BY <1>2, <1>3, <1>4, <1>5, <1>6 DEF ControlInv

-----------------------------------------------------------------------------
(* Where the executing fiber is.                                           *)

\* Below a frame that is neither quiet nor a barrier nothing bars the scheduler,
\* and the globals say that the executing thread runs.
LEMMA OpenFacts ==
  ASSUME stack \in [Thread -> Seq(Frame)], exec \in Thread, ControlInv, stack[exec] # << >>,
         Head(stack[exec]).op \notin Quiet \cup Barrier \cup {"Dispatch"}
  PROVE  /\ ~ Has(stack[exec], Barrier) /\ ~ Has(stack[exec], {"Dispatch"})
         /\ running = exec /\ current = exec /\ disable = 0
<1> DEFINE s == stack[exec]
           t == Tail(s)
<1>1. s \in Seq(Frame) /\ s # << >> /\ << >> \in Seq(Frame)
  OBVIOUS
<1>2. \A ops : Has(s, ops) <=> Head(s).op \in ops \/ Has(t, ops)
  BY <1>1, HasReplace
<1>3. Shaped(s)
  BY DEF ControlInv, BarrierShape
<1>4. Head(s).op \notin Quiet \cup {"Callback", "IdleCallback"}
  BY DEF Barrier
<1>5. ~ Has(t, Barrier)
  BY <1>1, <1>3, <1>4, ShapedBelow
<1>6. ~ Has(s, Barrier)
  BY <1>2, <1>5
<1>7. ~ Has(t, {"Dispatch", "OSCreateThread"})
  BY <1>1 DEF ControlInv, FirstOnly
<1>8. ~ Has(s, {"Dispatch"})
  BY <1>2, <1>7 DEF Has
<1>9. ~ Has(s, {"IdleLoop", "Dispatch"}) /\ ~ Has(s, {"Callback"})
  BY <1>6, <1>8 DEF Has, Barrier
<1> QED  BY <1>6, <1>8, <1>9 DEF ControlInv, OpenRunsItself, DisableCounts

\* If the frame does not end the thread either, the thread is still running.
LEMMA BusyFacts ==
  ASSUME stack \in [Thread -> Seq(Frame)], exec \in Thread, ControlInv, stack[exec] # << >>,
         Head(stack[exec]).op \notin Quiet \cup Barrier \cup {"Dispatch", "ExitReschedule"}
  PROVE  state[exec] = "running"
<1> DEFINE s == stack[exec]
<1>1. s \in Seq(Frame) /\ s # << >>
  OBVIOUS
<1>2. ~ Leaves(Head(s), resched)
  BY DEF Leaves, Quiet, Barrier
<1>3. Head(s).op \notin Quiet \cup {"Callback", "IdleCallback"}
  BY DEF Barrier
<1>4. ~ Leaving(s, resched)
  BY <1>1, <1>2, <1>3, LeavingBelow
<1> QED  BY <1>4 DEF ControlInv, NotRunningLeaves

\* A thread in guest code is running, and the globals say so.
LEMMA GuestFacts ==
  ASSUME ControlInv, InGuestCode
  PROVE  /\ state[exec] = "running"
         /\ running = exec /\ current = exec /\ disable = 0
<1>1. \A ops : ~ Has(stack[exec], ops)
  BY DEF Has, InGuestCode
<1>2. ~ Leaving(stack[exec], resched)
  BY DEF Leaving, InGuestCode
<1> QED  BY <1>1, <1>2 DEF ControlInv, NotRunningLeaves, OpenRunsItself, DisableCounts

-----------------------------------------------------------------------------
(* The places of threads.                                                  *)

LEMMA AddressFacts ==
  /\ Priority \subseteq QueueId /\ WaitQueueId \subseteq QueueId
  /\ Null \notin QueueId /\ Null \notin Thread
  /\ \A q \in WaitQueueId : q \notin Priority
  /\ QueueId = Priority \cup WaitQueueId
  /\ Thread \subseteq WaitQueueId /\ Mutex \subseteq WaitQueueId
  /\ WaitQueue \subseteq WaitQueueId
BY AddressesDistinct DEF AddressesDistinct, QueueId, WaitQueueId

LEMMA PriorityFacts ==
  /\ Priority \subseteq Nat /\ LowestPriority \in Priority
  /\ SuspendedWaitPriority \in Nat /\ SuspendedWaitPriority \notin Priority
  /\ \A p \in Priority : \A q \in Nat : q <= p => q \in Priority
BY ConstantTypes DEF ConstantTypes, Priority, SuspendedWaitPriority

\* The two formulations of well-formed queues.
LEMMA LinksWellFormed ==
  ASSUME TypeOK
  PROVE  PendingMaskExact /\ LinkedOnce <=> WellFormed(links, QueueId, Thread)
BY DEF TypeOK, PendingMaskExact, LinkedOnce, WellFormed

LEMMA WellFormedLinks ==
  ASSUME WellFormed(links, QueueId, Thread)'
  PROVE  /\ PendingMaskExact' /\ LinkedOnce'
         /\ links' \in [queue   : [QueueId -> Seq(Thread)],
                        at      : [Thread -> QueueId \cup {Null}],
                        pending : SUBSET Priority]
BY DEF PendingMaskExact, LinkedOnce, WellFormed

\* A thread that is neither ready nor waiting, or is ready but suspended, is not
\* linked anywhere.
LEMMA NotLinked ==
  ASSUME QueueInv, NEW t \in Thread,
         state[t] # "waiting", ~ OnRunQueue(t)
  PROVE  \A q \in QueueId : t \notin In(links, q)
<1>1. Placed(t)
  BY DEF QueueInv
<1> QED  BY <1>1, AddressFacts DEF Placed, OnRunQueue, In, Members

\* A step that changes the place of one thread.
LEMMA OneThreadMoves ==
  ASSUME QueueInv, NEW t \in Thread,
         WellFormed(links, QueueId, Thread)',
         \A u \in Thread \ {t} :
           /\ \A q \in QueueId : u \in In(links', q) => u \in In(links, q)
           /\ \A p \in Priority : u \in In(links, p) => u \in In(links', p)
           /\ links'.at[u] = links.at[u]
           /\ state'[u] = state[u] /\ suspend'[u] = suspend[u] /\ prio'[u] = prio[u],
         exec' = exec,
         Placed(t)'
  PROVE  QueueInv'
<1>1. ASSUME NEW u \in Thread \ {t}
      PROVE  Placed(u)'
  <2>1. Placed(u)
    BY DEF QueueInv
  <2>2. /\ \A q \in QueueId : u \in Members(q)' => u \in Members(q)
        /\ \A p \in Priority : u \in Members(p) => u \in Members(p)'
        /\ links'.at[u] = links.at[u]
        /\ state'[u] = state[u] /\ suspend'[u] = suspend[u] /\ prio'[u] = prio[u]
    BY DEF In, Members
  <2> QED  BY <2>1, <2>2, AddressFacts DEF Placed, OnRunQueue, Dead
<1>2. \A u \in Thread : Placed(u)'
  BY <1>1
<1> QED  BY <1>2, WellFormedLinks DEF QueueInv

LEMMA NothingMoves ==
  ASSUME QueueInv, UNCHANGED << state, suspend, prio, links, exec >>
  PROVE  QueueInv'
BY DEF QueueInv, PendingMaskExact, LinkedOnce, Placed, Members, OnRunQueue, Dead

\* Moving a linked thread, or one that only kept its pointer, to another queue.
LEMMA MoveFacts ==
  ASSUME NEW L, WellFormed(L, QueueId, Thread), NEW t \in Thread,
         NEW q \in QueueId, NEW p, NEW pr,
         NEW M, M = InsertByPriority(Unlink(L, t), q, t, p, pr)
  PROVE  /\ WellFormed(M, QueueId, Thread)
         /\ In(M, q) = In(L, q) \cup {t}
         /\ \A r \in QueueId : r # q => In(M, r) = In(L, r) \ {t}
         /\ M.at[t] = q /\ \A u \in Thread \ {t} : M.at[u] = L.at[u]
<1> DEFINE K == Unlink(L, t)
<1>1. L.at \in [Thread -> QueueId \cup {Null}]
  BY DEF WellFormed
<1>2. /\ WellFormed(K, QueueId, Thread)
      /\ Removed(K, L, t, QueueId)
      /\ K.at = [L.at EXCEPT ![t] = Null]
  BY AddressFacts, UnlinkFacts
<1> HIDE DEF K
<1>3. \A r \in QueueId : t \notin In(K, r)
  BY <1>2 DEF Removed
<1>4. M = InsertByPriority(K, q, t, p, pr)
  BY DEF K
<1>5. WellFormed(M, QueueId, Thread) /\ Added(M, K, q, t, QueueId)
  BY <1>2, <1>3, <1>4, AddressFacts, InsertByPriorityFacts
<1> QED  BY <1>1, <1>2, <1>5 DEF Added, Removed

\* What the frames carry.
LEMMA FrameFacts ==
  /\ \A t \in Thread :
       /\ \A op \in ThreadCall \cup {"SleepTimerDue", "UnlockAll", "JoinReturn"} :
            Call(op, t) \in Frame
       /\ Call("Promote", t) \in Frame /\ Call("Propagate", t) \in Frame
  /\ Call("Promote", Null) \in Frame /\ Call("Propagate", Null) \in Frame
  /\ \A q \in WaitQueueId :
       \A op \in {"OSSleepThread", "OSWakeupThread", "WakeupLinked", "SleepReturn"} :
         Call(op, q) \in Frame
  /\ \A m \in Mutex : Call("OSLockMutex", m) \in Frame /\ Call("LockRetry", m) \in Frame
  /\ \A op \in {"SelectThread", "Select", "SelectForced", "IdleLoop", "Dispatch",
                "Reschedule", "Reconcile", "ParkReturn", "ExitReschedule", "Callback",
                "IdleCallback"} : Call(op, Null) \in Frame
BY DEF Call, Frame, ThreadCall, QueueCall, MutexCall, PlainCall

LEMMA ArgFacts ==
  ASSUME NEW f \in Frame
  PROVE  /\ f.op \in ThreadCall \cup {"SleepTimerDue", "UnlockAll", "JoinReturn"} =>
              f.arg \in Thread
         /\ f.op \in {"Promote", "Propagate"} => f.arg \in Thread \cup {Null}
         /\ f.op \in {"OSSleepThread", "OSWakeupThread", "WakeupLinked", "SleepReturn"} =>
              f.arg \in WaitQueueId
         /\ f.op \in {"OSLockMutex", "OSUnlockMutex", "LockRetry"} => f.arg \in Mutex
BY DEF Frame, ThreadCall, QueueCall, MutexCall, PlainCall

\* What every step of the executing fiber can use of the invariant.
LEMMA TopFacts ==
  ASSUME IInv, NEW ops, At(ops)
  PROVE  /\ stack \in [Thread -> Seq(Frame)] /\ exec \in Thread /\ stack[exec] # << >>
         /\ Head(stack[exec]) \in Frame /\ Head(stack[exec]).op \in ops
         /\ WellFormed(links, QueueId, Thread)
<1>1. stack \in [Thread -> Seq(Frame)] /\ exec \in Thread /\ stack[exec] # << >>
      /\ Head(stack[exec]).op \in ops
  BY DEF IInv, TypeOK, At
<1>2. Head(stack[exec]) \in Frame
  BY <1>1, HeadTailProperties
<1>3. WellFormed(links, QueueId, Thread)
  BY LinksWellFormed DEF IInv, QueueInv
<1> QED  BY <1>1, <1>2, <1>3

\* What it can use when nothing bars the scheduler and it has not left.
LEMMA BusyTopFacts ==
  ASSUME IInv, NEW ops, At(ops),
         ops \cap (Quiet \cup Barrier \cup {"Dispatch", "ExitReschedule"}) = {}
  PROVE  /\ ~ Has(stack[exec], Barrier) /\ ~ Has(stack[exec], {"Callback"})
         /\ running = exec /\ current = exec /\ disable = 0
         /\ state[exec] = "running" /\ suspend[exec] = 0 /\ prio[exec] \in Priority
         /\ \A q \in QueueId : exec \notin In(links, q)
<1>1. /\ stack \in [Thread -> Seq(Frame)] /\ exec \in Thread /\ stack[exec] # << >>
      /\ Head(stack[exec]).op \in ops
  BY TopFacts
<1>2. Head(stack[exec]).op \notin Quiet \cup Barrier \cup {"Dispatch", "ExitReschedule"}
  BY <1>1
<1>3. ~ Has(stack[exec], Barrier) /\ running = exec /\ current = exec /\ disable = 0
  BY <1>1, <1>2, OpenFacts DEF IInv
<1>4. state[exec] = "running"
  BY <1>1, <1>2, BusyFacts DEF IInv
<1>5. Placed(exec)
  BY <1>1 DEF IInv, QueueInv
<1>6. suspend[exec] = 0 /\ prio[exec] \in Priority
  BY <1>4, <1>5 DEF Placed, Dead
<1>7. \A q \in QueueId : exec \notin In(links, q)
  BY <1>1, <1>4, NotLinked DEF IInv, OnRunQueue
<1>8. ~ Has(stack[exec], {"Callback"})
  BY <1>3 DEF Has, Barrier
<1> QED  BY <1>3, <1>4, <1>6, <1>7, <1>8

\* A step that moves no thread and leaves the globals alone.
LEMMA StillStep ==
  ASSUME IInv, NEW g, Replaces(g), TypeOK', MutexInv',
         UNCHANGED << state, suspend, prio, links, exec, disable, running, current >>,
         resched => resched',
         Head(stack[exec]).op \notin Special,
         \A i \in DOMAIN g : g[i].op \notin Special,
         Head(stack[exec]).op \in Quiet => \A i \in DOMAIN g : g[i].op \in Quiet,
         \/ Head(stack[exec]).op \notin Quiet \cup {"ExitReschedule"}
         \/ Leaving(g, resched')
         \/ ~ Leaves(Head(stack[exec]), resched) /\ \A i \in DOMAIN g : g[i].op \in Quiet
  PROVE  IInv'
<1>1. stack \in [Thread -> Seq(Frame)] /\ exec \in Thread /\ stack[exec] # << >>
  BY DEF IInv, TypeOK, Replaces
<1>2. Head(stack[exec]).op \notin Quiet \cup {"ExitReschedule"} => state[exec] = "running"
  BY <1>1, BusyFacts DEF IInv, Special
<1>3. CalmState(g)
  BY <1>2 DEF CalmState, Dead
<1>4. ControlInv'
  BY <1>1, <1>3, CalmControl DEF IInv
<1>5. QueueInv'
  BY NothingMoves DEF IInv
<1> QED  BY <1>4, <1>5 DEF IInv

-----------------------------------------------------------------------------
(* os_sleep.cpp.                                                           *)

LEMMA OSSleepThreadStep ==
  ASSUME IInv, OSSleepThread
  PROVE  IInv'
<1>1. At({"OSSleepThread"})
  BY DEF OSSleepThread
<1>2. /\ stack \in [Thread -> Seq(Frame)] /\ exec \in Thread /\ stack[exec] # << >>
      /\ Head(stack[exec]).op = "OSSleepThread" /\ Arg \in WaitQueueId
      /\ WellFormed(links, QueueId, Thread)
  BY <1>1, TopFacts, ArgFacts DEF Arg
<1>3. /\ ~ Has(stack[exec], {"Callback"})
      /\ running = exec /\ current = exec /\ disable = 0
      /\ state[exec] = "running" /\ suspend[exec] = 0 /\ prio[exec] \in Priority
      /\ \A q \in QueueId : exec \notin In(links, q)
  BY <1>1, BusyTopFacts DEF Quiet, Barrier
<1> DEFINE g == << Call("SelectThread", Null), Call("SleepReturn", Arg) >>
<1>4. /\ running' = running /\ current' = current /\ disable' = disable /\ exec' = exec
      /\ state' = [state EXCEPT ![exec] = "waiting"]
      /\ links' = InsertByPriority(links, Arg, exec, prio[exec], prio)
      /\ resched' = TRUE
      /\ Continue(g)
      /\ UNCHANGED << suspend, prio, lifeVars, mutexVars, timerVars >>
  BY <1>2, <1>3, AddressFacts DEF OSSleepThread
<1>5. g \in Seq(Frame) /\ \A i \in DOMAIN g : g[i].op \in {"SelectThread", "SleepReturn"}
  BY <1>2, FrameFacts, FramesFacts
<1>6. Replaces(g)
  BY <1>2, <1>4, <1>5, ContinueFacts
<1>7. /\ WellFormed(links', QueueId, Thread)
      /\ Added(links', links, Arg, exec, QueueId)
  BY <1>2, <1>3, <1>4, AddressFacts, InsertByPriorityFacts
<1>8. QueueInv'
  <2>1. Arg \notin Priority /\ Arg \in QueueId
    BY <1>2, AddressFacts
  <2>2. state \in [Thread -> {"none", "ready", "running", "waiting", "moribund"}]
        /\ links.at \in [Thread -> QueueId \cup {Null}]
    BY DEF IInv, TypeOK
  <2>3. \A q \in QueueId : exec \in In(links', q) <=> q = Arg
    BY <1>3, <1>7, <2>1 DEF Added
  <2>4. state'[exec] = "waiting" /\ links'.at[exec] = Arg
    BY <1>2, <1>4, <1>7, <2>2 DEF Added
  <2>5. Placed(exec)'
    BY <1>2, <1>3, <1>4, <2>1, <2>3, <2>4, AddressFacts
    DEF Placed, In, Members, OnRunQueue, Dead
  <2>6. \A u \in Thread \ {exec} :
          /\ \A q \in QueueId : u \in In(links', q) <=> u \in In(links, q)
          /\ links'.at[u] = links.at[u]
          /\ state'[u] = state[u] /\ suspend'[u] = suspend[u] /\ prio'[u] = prio[u]
    BY <1>2, <1>4, <1>7, <2>2 DEF Added
  <2> QED  BY <1>2, <1>4, <1>7, <2>5, <2>6, AddressFacts, OneThreadMoves DEF IInv
<1>9. TypeOK' /\ MutexInv'
  <2>1. links' \in [queue   : [QueueId -> Seq(Thread)],
                    at      : [Thread -> QueueId \cup {Null}],
                    pending : SUBSET Priority]
    BY <1>7, WellFormedLinks
  <2>2. state' \in [Thread -> {"none", "ready", "running", "waiting", "moribund"}]
    BY <1>4 DEF IInv, TypeOK
  <2> QED  BY <1>4, <1>6, <2>1, <2>2
           DEF IInv, TypeOK, MutexInv, Replaces, lifeVars, mutexVars, timerVars
<1>10. ControlInv'
  <2>1. Leaving(g, TRUE)
    BY LeavesFacts, LeavingFrames
  <2>2. CalmState(g)
    <3>1. \A u \in Thread \ {exec} : Dead(u)' => Dead(u)
      BY <1>4 DEF Dead, IInv, TypeOK
    <3> QED  BY <1>3, <1>4, <2>1, <3>1 DEF CalmState
  <2>3. \A i \in DOMAIN g : g[i].op \notin Special
    BY <1>5 DEF Special, Barrier
  <2>4. Head(stack[exec]).op \notin Special /\ Head(stack[exec]).op \notin Quiet
    BY <1>2 DEF Special, Barrier, Quiet
  <2> QED  BY <1>2, <1>4, <1>6, <2>2, <2>3, <2>4, CalmControl DEF IInv
<1> QED  BY <1>8, <1>9, <1>10 DEF IInv

LEMMA SleepReturnStep ==
  ASSUME IInv, SleepReturn
  PROVE  IInv'
<1>1. At({"SleepReturn"})
  BY DEF SleepReturn
<1>2. /\ stack \in [Thread -> Seq(Frame)] /\ exec \in Thread /\ stack[exec] # << >>
      /\ Head(stack[exec]).op = "SleepReturn"
  BY <1>1, TopFacts
<1>3. state[exec] = "running"
  BY <1>1, BusyTopFacts DEF Quiet, Barrier
<1>4. UNCHANGED << threadVars, links, resched, lifeVars, schedVars, mutexVars, timerVars, exec >>
      /\ Continue(<< >>)
  BY <1>3 DEF SleepReturn, Return, threadVars
<1>5. Replaces(<< >>)
  BY <1>2, <1>4, FramesFacts, ContinueFacts
<1>6. TypeOK' /\ MutexInv'
  BY <1>4, <1>5 DEF IInv, TypeOK, MutexInv, Replaces, threadVars, lifeVars, schedVars, mutexVars, timerVars
<1>7. Head(stack[exec]).op \notin Special \cup Quiet \cup {"ExitReschedule"}
  BY <1>2 DEF Special, Barrier, Quiet
<1> QED  BY <1>4, <1>5, <1>6, <1>7, FramesFacts, StillStep DEF threadVars, schedVars

LEMMA OSSleepTicksStep ==
  ASSUME IInv, OSSleepTicks
  PROVE  IInv'
<1>1. At({"OSSleepTicks"})
  BY DEF OSSleepTicks
<1>2. /\ stack \in [Thread -> Seq(Frame)] /\ exec \in Thread /\ stack[exec] # << >>
      /\ Head(stack[exec]).op = "OSSleepTicks"
  BY <1>1, TopFacts
<1>3. current = exec /\ disable = 0
  BY <1>1, BusyTopFacts DEF Quiet, Barrier
<1> DEFINE g == << Call("OSSuspendThread", exec), Call("ParkReturn", Null) >>
<1>4. /\ UNCHANGED << threadVars, links, resched, lifeVars, schedVars, mutexVars, firstSeen, exec >>
      /\ timers' = timers \cup {exec} /\ outstanding' = outstanding \cup {exec}
      /\ Continue(g)
  BY <1>3 DEF OSSleepTicks
<1>5. g \in Seq(Frame) /\ \A i \in DOMAIN g : g[i].op \in {"OSSuspendThread", "ParkReturn"}
  BY <1>2, FrameFacts, FramesFacts DEF ThreadCall
<1> HIDE DEF g
<1>6. Replaces(g)
  BY <1>2, <1>4, <1>5, ContinueFacts
<1>7. TypeOK' /\ MutexInv'
  BY <1>2, <1>4, <1>6
  DEF IInv, TypeOK, MutexInv, Replaces, threadVars, lifeVars, schedVars, mutexVars, timerVars
<1>8. Head(stack[exec]).op \notin Special \cup Quiet \cup {"ExitReschedule"}
      /\ \A i \in DOMAIN g : g[i].op \notin Special
  BY <1>2, <1>5 DEF Special, Barrier, Quiet
<1> QED  BY <1>4, <1>6, <1>7, <1>8, StillStep DEF threadVars, schedVars

LEMMA ParkReturnStep ==
  ASSUME IInv, ParkReturn
  PROVE  IInv'
<1>1. At({"ParkReturn"})
  BY DEF ParkReturn
<1>2. /\ stack \in [Thread -> Seq(Frame)] /\ exec \in Thread /\ stack[exec] # << >>
      /\ Head(stack[exec]).op = "ParkReturn"
  BY <1>1, TopFacts
<1>3. suspend[exec] = 0
  BY <1>1, BusyTopFacts DEF Quiet, Barrier
<1>4. UNCHANGED << threadVars, links, resched, lifeVars, schedVars, mutexVars, timerVars, exec >>
      /\ Continue(<< >>)
  BY <1>3 DEF ParkReturn, Return, threadVars, timerVars
<1>5. Replaces(<< >>)
  BY <1>2, <1>4, FramesFacts, ContinueFacts
<1>6. TypeOK' /\ MutexInv'
  BY <1>4, <1>5 DEF IInv, TypeOK, MutexInv, Replaces, threadVars, lifeVars, schedVars, mutexVars, timerVars
<1>7. Head(stack[exec]).op \notin Special \cup Quiet \cup {"ExitReschedule"}
  BY <1>2 DEF Special, Barrier, Quiet
<1> QED  BY <1>4, <1>5, <1>6, <1>7, FramesFacts, StillStep DEF threadVars, schedVars

LEMMA SleepTimerDueStep ==
  ASSUME IInv, SleepTimerDue
  PROVE  IInv'
<1>1. At({"SleepTimerDue"})
  BY DEF SleepTimerDue
<1>2. /\ stack \in [Thread -> Seq(Frame)] /\ exec \in Thread /\ stack[exec] # << >>
      /\ Head(stack[exec]).op = "SleepTimerDue" /\ Arg \in Thread
  BY <1>1, TopFacts, ArgFacts DEF Arg
<1> DEFINE g == IF Parked(Arg) THEN << Call("OSResumeThread", Arg) >> ELSE << >>
<1>3. /\ UNCHANGED << threadVars, links, resched, lifeVars, schedVars, mutexVars, firstSeen, exec >>
      /\ timers' \in {timers, timers \cup {Arg}}
      /\ outstanding' \in {outstanding, outstanding \ {Arg}}
      /\ Continue(g)
  BY DEF SleepTimerDue
<1>4. g \in Seq(Frame) /\ \A i \in DOMAIN g : g[i].op = "OSResumeThread"
  <2> DEFINE f == Call("OSResumeThread", Arg)
  <2>1. f \in Frame /\ f.op = "OSResumeThread"
    BY <1>2, FrameFacts, FramesFacts DEF ThreadCall
  <2>2. g \in {<< >>, << f >>}
    OBVIOUS
  <2> HIDE DEF f, g
  <2>3. << >> \in Seq(Frame) /\ \A i \in DOMAIN << >> : << >>[i].op = "OSResumeThread"
    BY FramesFacts
  <2>4. << f >> \in Seq(Frame) /\ \A i \in DOMAIN << f >> : << f >>[i] = f
    BY <2>1, FramesFacts
  <2>5. CASE g = << >>
    BY <2>3, <2>5
  <2>6. CASE g = << f >>
    BY <2>1, <2>4, <2>6
  <2> QED  BY <2>2, <2>5, <2>6
<1> HIDE DEF g
<1>5. Replaces(g)
  BY <1>2, <1>3, <1>4, ContinueFacts
<1>6. TypeOK' /\ MutexInv'
  BY <1>2, <1>3, <1>5
  DEF IInv, TypeOK, MutexInv, Replaces, threadVars, lifeVars, schedVars, mutexVars, timerVars
<1>7. Head(stack[exec]).op \notin Special /\ ~ Leaves(Head(stack[exec]), resched)
      /\ \A i \in DOMAIN g : g[i].op \notin Special /\ g[i].op \in Quiet
  BY <1>2, <1>4 DEF Special, Barrier, Quiet, Leaves
<1> QED  BY <1>3, <1>5, <1>6, <1>7, StillStep DEF threadVars, schedVars

LEMMA ReconcileStep ==
  ASSUME IInv, Reconcile
  PROVE  IInv'
<1>1. At({"Reconcile"})
  BY DEF Reconcile
<1>2. /\ stack \in [Thread -> Seq(Frame)] /\ exec \in Thread /\ stack[exec] # << >>
      /\ Head(stack[exec]).op = "Reconcile"
  BY <1>1, TopFacts
<1>3. PICK g \in Seq(Frame) :
        /\ \A i \in DOMAIN g : g[i].op = "OSResumeThread"
        /\ Continue(g)
        /\ outstanding' \in SUBSET outstanding
        /\ firstSeen' \in SUBSET (outstanding \cup firstSeen)
  <2>1. CASE Return /\ UNCHANGED << outstanding, firstSeen >>
    BY <2>1, FramesFacts DEF Return
  <2> DEFINE untimed  == outstanding \ timers
             stranded == {t \in untimed : Parked(t)}
             H == IF Deep THEN {} ELSE stranded \cap firstSeen
  <2>2. ASSUME NEW heal \in Orderings(H),
               outstanding' = (outstanding \ (untimed \ stranded)) \ ToSet(heal),
               firstSeen' = stranded \ ToSet(heal),
               Continue(Each("OSResumeThread", heal))
        PROVE  \E g \in Seq(Frame) :
                 /\ \A i \in DOMAIN g : g[i].op = "OSResumeThread"
                 /\ Continue(g)
                 /\ outstanding' \in SUBSET outstanding
                 /\ firstSeen' \in SUBSET (outstanding \cup firstSeen)
    <3>1. H \in SUBSET Thread /\ IsFiniteSet(Thread)
      BY ConstantTypes DEF ConstantTypes, IInv, TypeOK
    <3>2. heal \in Seq(Thread)
      BY <3>1, OrderingFacts
    <3>3. Each("OSResumeThread", heal) \in Seq(Frame)
          /\ \A i \in DOMAIN Each("OSResumeThread", heal) :
               Each("OSResumeThread", heal)[i].op = "OSResumeThread"
      BY <3>2, EachFacts
    <3> QED  BY <2>2, <3>3
  <2> QED  BY <2>1, <2>2 DEF Reconcile
<1>4. UNCHANGED << threadVars, links, resched, lifeVars, schedVars, mutexVars, timers, exec >>
  BY DEF Reconcile
<1>5. Replaces(g)
  BY <1>2, <1>3, ContinueFacts
<1>6. TypeOK' /\ MutexInv'
  BY <1>2, <1>3, <1>4, <1>5
  DEF IInv, TypeOK, MutexInv, Replaces, threadVars, lifeVars, schedVars, mutexVars, timerVars
<1>7. Head(stack[exec]).op \notin Special /\ ~ Leaves(Head(stack[exec]), resched)
      /\ \A i \in DOMAIN g : g[i].op \notin Special /\ g[i].op \in Quiet
  BY <1>2, <1>3 DEF Special, Barrier, Quiet, Leaves
<1> QED  BY <1>4, <1>5, <1>6, <1>7, StillStep DEF threadVars, schedVars

-----------------------------------------------------------------------------
(* os_scheduler.cpp: mutexes, and the priorities they lend.                *)

LEMMA InheritedPriorityType ==
  ASSUME TypeOK, NEW t \in Thread, NEW mutexes \in Seq(Mutex)
  PROVE  InheritedPriority(t, mutexes) \in Priority
<1> DEFINE contended == {m \in ToSet(mutexes) : links.queue[m] # << >>}
           lent == {prio[Head(links.queue[m])] : m \in contended}
           C == {BasePriority[t]} \cup lent
<1>1. BasePriority[t] \in Priority
  BY ConstantTypes DEF ConstantTypes
<1>2. ASSUME NEW m \in contended
      PROVE  prio[Head(links.queue[m])] \in Nat
  <2>1. m \in Mutex
    BY DEF ToSet
  <2>2. links.queue[m] \in Seq(Thread) /\ links.queue[m] # << >>
    BY <2>1, AddressFacts DEF TypeOK
  <2>3. Head(links.queue[m]) \in Thread
    BY <2>2, HeadInToSet
  <2> QED  BY <2>3, PriorityFacts DEF TypeOK
<1>3. C \in SUBSET Nat /\ C # {}
  BY <1>1, <1>2, PriorityFacts
<1>4. \E p \in C : \A q \in C : p <= q
  BY <1>3, LeastElement
<1> DEFINE p == CHOOSE x \in C : \A q \in C : x <= q
<1>5. p \in C /\ p <= BasePriority[t]
  BY <1>4
<1>6. p = InheritedPriority(t, mutexes)
  BY DEF InheritedPriority
<1> HIDE DEF p, C
<1> QED  BY <1>1, <1>3, <1>5, <1>6, PriorityFacts

LEMMA EffectivePriorityType ==
  ASSUME TypeOK, NEW t \in Thread
  PROVE  EffectivePriority(t) \in Priority
<1>1. held[t] \in Seq(Mutex)
  BY DEF TypeOK
<1> QED  BY <1>1, InheritedPriorityType DEF EffectivePriority

LEMMA ChainFacts ==
  ASSUME TypeOK, NEW t \in Thread
  PROVE  NextInChain(t) \in Thread \cup {Null} /\ OwnerOf(blockedOn[t]) \in Thread \cup {Null}
BY DEF TypeOK, NextInChain, OwnerOf

\* A thread keeps its place among the others when its priority changes.
LEMMA SetPriorityFacts ==
  ASSUME IInv, NEW t \in Thread, NEW p \in Priority, suspend[t] = 0,
         SetPriority(t, p), UNCHANGED << state, suspend, exec >>
  PROVE  /\ QueueInv'
         /\ prio' \in [Thread -> Priority \cup {SuspendedWaitPriority}]
         /\ links' \in [queue   : [QueueId -> Seq(Thread)],
                        at      : [Thread -> QueueId \cup {Null}],
                        pending : SUBSET Priority]
         /\ resched' \in BOOLEAN /\ (resched => resched')
<1>1. /\ state \in [Thread -> {"none", "ready", "running", "waiting", "moribund"}]
      /\ prio \in [Thread -> Priority \cup {SuspendedWaitPriority}]
      /\ resched \in BOOLEAN
      /\ Placed(t) /\ QueueInv
      /\ WellFormed(links, QueueId, Thread)
  BY LinksWellFormed DEF IInv, TypeOK, QueueInv
<1>2. /\ prio' \in [Thread -> Priority \cup {SuspendedWaitPriority}]
      /\ resched' \in BOOLEAN /\ (resched => resched')
      /\ \A u \in Thread \ {t} : prio'[u] = prio[u]
      /\ state[t] \in {"ready", "running", "waiting"} => prio'[t] = p
      /\ state[t] \notin {"ready", "running", "waiting"} => prio'[t] = prio[t]
  BY <1>1 DEF SetPriority
<1>3. ASSUME NEW q \in QueueId,
             links' = InsertByPriority(Unlink(links, t), q, t, p, prio),
             \/ state[t] = "ready" /\ q = p
             \/ state[t] = "waiting" /\ q \in WaitQueueId
      PROVE  QueueInv' /\ WellFormed(links', QueueId, Thread)
  <2>1. /\ WellFormed(links', QueueId, Thread)
        /\ In(links', q) = In(links, q) \cup {t}
        /\ \A r \in QueueId : r # q => In(links', r) = In(links, r) \ {t}
        /\ links'.at[t] = q /\ \A u \in Thread \ {t} : links'.at[u] = links.at[u]
    BY <1>1, <1>3, MoveFacts
  <2>2. \A r \in QueueId : t \in In(links', r) <=> r = q
    BY <2>1
  <2>3. Placed(t)'
    BY <1>1, <1>2, <1>3, <2>1, <2>2, AddressFacts DEF Placed, In, Members, OnRunQueue, Dead
  <2>4. \A u \in Thread \ {t} : \A r \in QueueId : u \in In(links', r) <=> u \in In(links, r)
    BY <2>1
  <2> QED  BY <1>1, <1>2, <2>1, <2>3, <2>4, AddressFacts, OneThreadMoves
<1>4. CASE state[t] = "ready"
  <2>1. links' = InsertByPriority(Unlink(links, t), p, t, p, prio)
    BY <1>4 DEF SetPriority
  <2> QED  BY <1>2, <1>3, <1>4, <2>1, AddressFacts, WellFormedLinks
<1>5. CASE state[t] = "waiting"
  <2>1. links.at[t] \in WaitQueueId /\ links.at[t] # Null
    BY <1>1, <1>5, AddressFacts DEF Placed
  <2>2. links' = InsertByPriority(Unlink(links, t), links.at[t], t, p, prio)
    BY <1>5, <2>1 DEF SetPriority
  <2> QED  BY <1>2, <1>3, <1>5, <2>1, <2>2, AddressFacts, WellFormedLinks
<1>6. CASE state[t] \notin {"ready", "waiting"}
  <2>1. links' = links
    BY <1>6 DEF SetPriority
  <2>2. \A q \in QueueId : t \notin In(links, q)
    BY <1>1, <1>6, NotLinked DEF OnRunQueue
  <2>3. Placed(t)'
    BY <1>1, <1>2, <1>6, <2>1, <2>2, AddressFacts DEF Placed, In, Members, OnRunQueue, Dead
  <2>4. QueueInv'
    BY <1>1, <1>2, <2>1, <2>3, OneThreadMoves
  <2> QED  BY <1>1, <1>2, <2>1, <2>4, WellFormedLinks
<1> QED  BY <1>4, <1>5, <1>6

\* A round of a chain walk, which ends or goes on with one frame.
LEMMA WalkStep ==
  ASSUME IInv, NEW op \in {"Promote", "Propagate"}, At({op}),
         NEW t \in Thread, NEW p \in Priority, suspend[t] = 0,
         SetPriority(t, p), Continue(<< Call(op, NextInChain(t)) >>),
         UNCHANGED << state, suspend, lifeVars, schedVars, mutexVars, timerVars, exec >>
  PROVE  IInv'
<1>1. /\ stack \in [Thread -> Seq(Frame)] /\ exec \in Thread /\ stack[exec] # << >>
      /\ Head(stack[exec]).op = op
  BY TopFacts
<1> DEFINE g == << Call(op, NextInChain(t)) >>
<1>2. NextInChain(t) \in Thread \cup {Null}
  BY ChainFacts DEF IInv
<1>3. g \in Seq(Frame) /\ \A i \in DOMAIN g : g[i].op = op
  <2>1. Call(op, NextInChain(t)) \in Frame
    BY <1>2, FrameFacts
  <2> QED  BY <2>1, FramesFacts
<1> HIDE DEF g
<1>4. Replaces(g)
  BY <1>1, <1>3, ContinueFacts DEF g
<1>5. /\ QueueInv'
      /\ prio' \in [Thread -> Priority \cup {SuspendedWaitPriority}]
      /\ links' \in [queue   : [QueueId -> Seq(Thread)],
                     at      : [Thread -> QueueId \cup {Null}],
                     pending : SUBSET Priority]
      /\ resched' \in BOOLEAN /\ (resched => resched')
  BY SetPriorityFacts
<1>6. TypeOK' /\ MutexInv'
  BY <1>4, <1>5
  DEF IInv, TypeOK, MutexInv, Replaces, lifeVars, schedVars, mutexVars, timerVars
<1>7. op = "Promote" => state[exec] = "running"
  BY BusyTopFacts DEF Quiet, Barrier
<1>8. CalmState(g)
  BY <1>1, <1>3, <1>5, <1>7 DEF CalmState, Dead, Leaves, Quiet
<1>9. /\ Head(stack[exec]).op \notin Special
      /\ \A i \in DOMAIN g : g[i].op \notin Special
      /\ Head(stack[exec]).op \in Quiet => \A i \in DOMAIN g : g[i].op \in Quiet
  BY <1>1, <1>3 DEF Special, Barrier
<1>10. ControlInv'
  <2>1. UNCHANGED << exec, disable, running, current >> /\ ControlInv
    BY DEF IInv, schedVars
  <2>2. Head(stack[exec]).op \notin Special \ {"OSCreateThread"}
    BY <1>9
  <2> QED  BY <1>1, <1>4, <1>8, <1>9, <2>1, <2>2, CalmControl
<1> QED  BY <1>5, <1>6, <1>10 DEF IInv

\* A call that returns with nothing of what moves threads changed.
LEMMA ReturnStep ==
  ASSUME IInv, NEW op, At({op}), Return, TypeOK', MutexInv',
         UNCHANGED << state, suspend, prio, links, exec, disable, running, current,
                      resched >>,
         op \notin Special \cup {"ExitReschedule", "SelectThread", "Select", "Reschedule"}
  PROVE  IInv'
<1>1. /\ stack \in [Thread -> Seq(Frame)] /\ exec \in Thread /\ stack[exec] # << >>
      /\ Head(stack[exec]).op = op
  BY TopFacts
<1>2. Replaces(<< >>)
  BY <1>1, FramesFacts, ContinueFacts DEF Return
<1>3. op \notin Quiet \cup {"ExitReschedule"} \/ ~ Leaves(Head(stack[exec]), resched)
  BY <1>1 DEF Leaves, Special, Barrier
<1> QED  BY <1>1, <1>2, <1>3, FramesFacts, StillStep

LEMMA PromoteStep ==
  ASSUME IInv, Promote
  PROVE  IInv'
<1>1. At({"Promote"})
  BY DEF Promote
<1>2. Arg \in Thread \cup {Null}
  BY <1>1, TopFacts, ArgFacts DEF Arg
<1>3. prio[exec] \in Priority
  BY <1>1, BusyTopFacts DEF Quiet, Barrier
<1>4. UNCHANGED << state, suspend, lifeVars, schedVars, mutexVars, timerVars, exec >>
  BY DEF Promote
<1>5. CASE Return /\ UNCHANGED << prio, resched, links >>
  <2>1. TypeOK' /\ MutexInv'
    <3>1. stack' \in [Thread -> Seq(Frame)]
      BY <1>1, <1>5, TopFacts, FramesFacts, ContinueFacts DEF Return, Replaces
    <3> QED  BY <1>4, <1>5, <3>1
             DEF IInv, TypeOK, MutexInv, lifeVars, schedVars, mutexVars, timerVars
  <2> QED  BY <1>1, <1>4, <1>5, <2>1, ReturnStep DEF Special, Barrier, schedVars
<1>6. CASE /\ Arg # Null /\ ~ (suspend[Arg] > 0) /\ SetPriority(Arg, prio[exec])
           /\ Continue(<< Call("Promote", NextInChain(Arg)) >>)
  <2>1. Arg \in Thread /\ suspend[Arg] = 0
    BY <1>2, <1>6 DEF IInv, TypeOK
  <2> QED  BY <1>1, <1>3, <1>4, <1>6, <2>1, WalkStep
<1> QED  BY <1>5, <1>6 DEF Promote

LEMMA PropagateStep ==
  ASSUME IInv, Propagate
  PROVE  IInv'
<1>1. At({"Propagate"})
  BY DEF Propagate
<1>2. Arg \in Thread \cup {Null}
  BY <1>1, TopFacts, ArgFacts DEF Arg
<1>3. UNCHANGED << state, suspend, lifeVars, schedVars, mutexVars, timerVars, exec >>
  BY DEF Propagate
<1>4. CASE Return /\ UNCHANGED << prio, resched, links >>
  <2>1. TypeOK' /\ MutexInv'
    <3>1. stack' \in [Thread -> Seq(Frame)]
      BY <1>1, <1>4, TopFacts, FramesFacts, ContinueFacts DEF Return, Replaces
    <3> QED  BY <1>3, <1>4, <3>1
             DEF IInv, TypeOK, MutexInv, lifeVars, schedVars, mutexVars, timerVars
  <2> QED  BY <1>1, <1>3, <1>4, <2>1, ReturnStep DEF Special, Barrier, schedVars
<1>5. CASE /\ Arg # Null /\ ~ (suspend[Arg] > 0) /\ SetPriority(Arg, EffectivePriority(Arg))
           /\ Continue(<< Call("Propagate", NextInChain(Arg)) >>)
  <2>1. Arg \in Thread /\ suspend[Arg] = 0
    BY <1>2, <1>5 DEF IInv, TypeOK
  <2>2. EffectivePriority(Arg) \in Priority
    BY <2>1, EffectivePriorityType DEF IInv
  <2> QED  BY <1>1, <1>3, <1>5, <2>1, <2>2, WalkStep
<1> QED  BY <1>4, <1>5 DEF Propagate

LEMMA OSLockMutexStep ==
  ASSUME IInv, OSLockMutex
  PROVE  IInv'
<1>1. At({"OSLockMutex"})
  BY DEF OSLockMutex
<1>2. /\ stack \in [Thread -> Seq(Frame)] /\ exec \in Thread /\ stack[exec] # << >>
      /\ Head(stack[exec]).op = "OSLockMutex" /\ Arg \in Mutex
  BY <1>1, TopFacts, ArgFacts DEF Arg
<1>3. running = exec
  BY <1>1, BusyTopFacts DEF Quiet, Barrier
<1>4. UNCHANGED << threadVars, lifeVars, links, resched, schedVars, timerVars, exec >>
  BY DEF OSLockMutex
<1>5. Head(stack[exec]).op \notin Special \cup Quiet \cup {"ExitReschedule"}
  BY <1>2 DEF Special, Barrier, Quiet
<1> DEFINE m == Arg
<1>6. CASE /\ owner' = [owner EXCEPT ![m] = exec]
           /\ count' = [count EXCEPT ![m] = @ + 1]
           /\ held' = IF owner[m] = Null THEN [held EXCEPT ![exec] = Append(@, m)] ELSE held
           /\ Return
           /\ UNCHANGED blockedOn
  <2>1. Replaces(<< >>)
    BY <1>2, <1>6, FramesFacts, ContinueFacts DEF Return
  <2>2. held' \in [Thread -> Seq(Mutex)]
    BY <1>2, <1>6 DEF IInv, TypeOK
  <2>3. count' \in [Mutex -> Nat] /\ owner' \in [Mutex -> Thread \cup {Null}] /\ MutexInv'
    <3>1. count \in [Mutex -> Nat] /\ owner \in [Mutex -> Thread \cup {Null}]
          /\ \A n \in Mutex : owner[n] # Null => count[n] > 0
      BY DEF IInv, TypeOK, MutexInv
    <3>2. count' \in [Mutex -> Nat] /\ owner' \in [Mutex -> Thread \cup {Null}]
      BY <1>2, <1>6, <3>1
    <3>3. \A n \in Mutex : owner'[n] # Null => count'[n] > 0
      BY <1>2, <1>6, <3>1
    <3> QED  BY <3>2, <3>3 DEF MutexInv
  <2>4. TypeOK'
    BY <1>4, <1>6, <2>1, <2>2, <2>3
    DEF IInv, TypeOK, Replaces, threadVars, lifeVars, schedVars, timerVars
  <2> QED  BY <1>4, <1>5, <2>1, <2>3, <2>4, FramesFacts, StillStep DEF threadVars, schedVars
<1>7. CASE /\ owner[m] # Null
           /\ blockedOn' = [blockedOn EXCEPT ![exec] = m]
           /\ Continue(<< Call("Promote", owner[m]), Call("OSSleepThread", m),
                          Call("LockRetry", m) >>)
           /\ UNCHANGED << held, owner, count >>
  <2> DEFINE g == << Call("Promote", owner[m]), Call("OSSleepThread", m),
                     Call("LockRetry", m) >>
  <2>1. owner[m] \in Thread /\ m \in WaitQueueId
    BY <1>2, <1>7, AddressFacts DEF IInv, TypeOK
  <2>2. Call("Promote", owner[m]) \in Frame /\ Call("OSSleepThread", m) \in Frame
        /\ Call("LockRetry", m) \in Frame
    BY <1>2, <2>1, FrameFacts
  <2>3. g \in Seq(Frame) /\ \A i \in DOMAIN g : g[i].op \in {"Promote", "OSSleepThread", "LockRetry"}
    BY <2>2, FramesFacts
  <2> HIDE DEF g
  <2>4. Replaces(g)
    BY <1>2, <1>7, <2>3, ContinueFacts DEF g
  <2>5. TypeOK' /\ MutexInv'
    BY <1>2, <1>4, <1>7, <2>4
    DEF IInv, TypeOK, MutexInv, Replaces, threadVars, lifeVars, schedVars, timerVars
  <2>6. \A i \in DOMAIN g : g[i].op \notin Special
    BY <2>3 DEF Special, Barrier
  <2> QED  BY <1>4, <1>5, <2>4, <2>5, <2>6, StillStep DEF threadVars, schedVars
<1> QED
  <2>1. running # Null
    BY <1>2, <1>3, AddressFacts
  <2> QED  BY <1>6, <1>7, <2>1 DEF OSLockMutex

LEMMA LockRetryStep ==
  ASSUME IInv, LockRetry
  PROVE  IInv'
<1>1. At({"LockRetry"})
  BY DEF LockRetry
<1>2. /\ stack \in [Thread -> Seq(Frame)] /\ exec \in Thread /\ stack[exec] # << >>
      /\ Head(stack[exec]).op = "LockRetry" /\ Arg \in Mutex
  BY <1>1, TopFacts, ArgFacts DEF Arg
<1>3. /\ UNCHANGED << threadVars, lifeVars, links, resched, schedVars, held, owner, count,
                      timerVars, exec >>
      /\ blockedOn' = [blockedOn EXCEPT ![exec] = Null]
      /\ Continue(<< Call("OSLockMutex", Arg) >>)
  BY DEF LockRetry
<1>4. << Call("OSLockMutex", Arg) >> \in Seq(Frame)
      /\ \A i \in DOMAIN << Call("OSLockMutex", Arg) >> :
           << Call("OSLockMutex", Arg) >>[i].op = "OSLockMutex"
  BY <1>2, FrameFacts, FramesFacts
<1>5. Replaces(<< Call("OSLockMutex", Arg) >>)
  BY <1>2, <1>3, <1>4, ContinueFacts
<1>6. TypeOK' /\ MutexInv'
  BY <1>2, <1>3, <1>5
  DEF IInv, TypeOK, MutexInv, Replaces, threadVars, lifeVars, schedVars, timerVars
<1>7. Head(stack[exec]).op \notin Special \cup Quiet \cup {"ExitReschedule"}
      /\ \A i \in DOMAIN << Call("OSLockMutex", Arg) >> :
           << Call("OSLockMutex", Arg) >>[i].op \notin Special
  BY <1>2, <1>4 DEF Special, Barrier, Quiet
<1> QED  BY <1>3, <1>5, <1>6, <1>7, StillStep DEF threadVars, schedVars

LEMMA UnlockAllStep ==
  ASSUME IInv, UnlockAll
  PROVE  IInv'
<1>1. At({"UnlockAll"})
  BY DEF UnlockAll
<1>2. /\ stack \in [Thread -> Seq(Frame)] /\ exec \in Thread /\ stack[exec] # << >>
      /\ Head(stack[exec]).op = "UnlockAll" /\ Arg \in Thread
  BY <1>1, TopFacts, ArgFacts DEF Arg
<1>3. UNCHANGED << threadVars, lifeVars, links, resched, schedVars, blockedOn, timerVars,
                   exec >>
  BY DEF UnlockAll
<1> DEFINE t == Arg
           m == Head(held[t])
           g == << Call("OSWakeupThread", m), Call("UnlockAll", t) >>
<1>4. CASE Return /\ UNCHANGED << held, owner, count >>
  <2>1. Replaces(<< >>)
    BY <1>2, <1>4, FramesFacts, ContinueFacts DEF Return
  <2>2. TypeOK' /\ MutexInv'
    BY <1>3, <1>4, <2>1
    DEF IInv, TypeOK, MutexInv, Replaces, threadVars, lifeVars, schedVars, timerVars
  <2> QED  BY <1>1, <1>3, <1>4, <2>2, ReturnStep DEF threadVars, schedVars, Special, Barrier
<1>5. CASE /\ held[t] # << >>
           /\ held' = [held EXCEPT ![t] = Tail(@)]
           /\ owner' = [owner EXCEPT ![m] = Null]
           /\ count' = [count EXCEPT ![m] = 0]
           /\ Continue(g)
  <2>1. held[t] \in Seq(Mutex)
    BY <1>2 DEF IInv, TypeOK
  <2>2. m \in Mutex /\ Tail(held[t]) \in Seq(Mutex)
    BY <1>5, <2>1, HeadTailProperties
  <2>3. Call("OSWakeupThread", m) \in Frame /\ Call("UnlockAll", t) \in Frame
    BY <1>2, <2>2, AddressFacts, FrameFacts
  <2>4. g \in Seq(Frame) /\ \A i \in DOMAIN g : g[i].op \in {"OSWakeupThread", "UnlockAll"}
    BY <2>3, FramesFacts
  <2>5. Replaces(g)
    BY <1>2, <1>5, <2>4, ContinueFacts
  <2>6. held' \in [Thread -> Seq(Mutex)]
    BY <1>2, <1>5, <2>2 DEF IInv, TypeOK
  <2>7. count' \in [Mutex -> Nat] /\ owner' \in [Mutex -> Thread \cup {Null}] /\ MutexInv'
    BY <1>5, <2>2 DEF IInv, TypeOK, MutexInv
  <2> HIDE DEF g
  <2>8. TypeOK'
    BY <1>3, <2>5, <2>6, <2>7
    DEF IInv, TypeOK, Replaces, threadVars, lifeVars, schedVars, timerVars
  <2>9. Head(stack[exec]).op \notin Special /\ ~ Leaves(Head(stack[exec]), resched)
        /\ \A i \in DOMAIN g : g[i].op \notin Special /\ g[i].op \in Quiet
    BY <1>2, <2>4 DEF Special, Barrier, Quiet, Leaves
  <2> QED  BY <1>3, <2>5, <2>7, <2>8, <2>9, StillStep DEF threadVars, schedVars
<1> QED  BY <1>4, <1>5 DEF UnlockAll

LEMMA OSUnlockMutexStep ==
  ASSUME IInv, OSUnlockMutex
  PROVE  IInv'
<1>1. At({"OSUnlockMutex"})
  BY DEF OSUnlockMutex
<1>2. /\ stack \in [Thread -> Seq(Frame)] /\ exec \in Thread /\ stack[exec] # << >>
      /\ Head(stack[exec]).op = "OSUnlockMutex" /\ Arg \in Mutex
      /\ WellFormed(links, QueueId, Thread)
  BY <1>1, TopFacts, ArgFacts DEF Arg
<1>3. /\ running = exec /\ state[exec] = "running" /\ suspend[exec] = 0
      /\ \A q \in QueueId : exec \notin In(links, q)
  BY <1>1, BusyTopFacts DEF Quiet, Barrier
<1>4. UNCHANGED << state, suspend, lifeVars, links, resched, schedVars, blockedOn,
                   timerVars, exec >>
  BY DEF OSUnlockMutex
<1>5. Head(stack[exec]).op \notin Special \cup Quiet \cup {"ExitReschedule"}
  BY <1>2 DEF Special, Barrier, Quiet
<1> DEFINE m == Arg
           last == LastUnlock(m)
           rest == RemoveFirst(held[exec], m)
           g == IF last THEN << Call("OSWakeupThread", m) >> ELSE << >>
<1>6. CASE Return /\ UNCHANGED << prio, held, owner, count >>
  <2>1. Replaces(<< >>)
    BY <1>2, <1>6, FramesFacts, ContinueFacts DEF Return
  <2>2. TypeOK' /\ MutexInv'
    BY <1>4, <1>6, <2>1
    DEF IInv, TypeOK, MutexInv, Replaces, lifeVars, schedVars, timerVars
  <2> QED  BY <1>1, <1>4, <1>6, <2>2, ReturnStep DEF schedVars, Special, Barrier
<1>7. CASE /\ owner[m] = running
           /\ count' = [count EXCEPT ![m] = @ - 1]
           /\ held' = IF last THEN [held EXCEPT ![exec] = rest] ELSE held
           /\ owner' = IF last THEN [owner EXCEPT ![m] = Null] ELSE owner
           /\ prio' = IF last /\ prio[exec] < BasePriority[exec]
                      THEN [prio EXCEPT ![exec] = InheritedPriority(exec, rest)]
                      ELSE prio
           /\ Continue(g)
  <2>1. count[m] \in Nat \ {0} /\ owner[m] # Null
    BY <1>2, <1>3, <1>7, AddressFacts DEF IInv, TypeOK, MutexInv
  <2>2. held[exec] \in Seq(Mutex)
    BY <1>2 DEF IInv, TypeOK
  <2>3. rest \in Seq(Mutex)
    BY <2>2, RemoveFirstType
  <2>4. InheritedPriority(exec, rest) \in Priority
    BY <1>2, <2>3, InheritedPriorityType DEF IInv
  <2>5. g \in Seq(Frame) /\ \A i \in DOMAIN g : g[i].op = "OSWakeupThread"
    <3>1. Call("OSWakeupThread", m) \in Frame
      BY <1>2, AddressFacts, FrameFacts
    <3> QED  BY <3>1, FramesFacts
  <2> HIDE DEF g, rest
  <2>6. Replaces(g)
    BY <1>2, <1>7, <2>5, ContinueFacts
  <2>7. held' \in [Thread -> Seq(Mutex)]
    BY <1>2, <1>7, <2>3 DEF IInv, TypeOK
  <2>8. /\ prio' \in [Thread -> Priority \cup {SuspendedWaitPriority}]
        /\ \A u \in Thread \ {exec} : prio'[u] = prio[u]
        /\ prio'[exec] \in Priority \cup {prio[exec]}
    BY <1>2, <1>7, <2>4 DEF IInv, TypeOK
  <2>9. count' \in [Mutex -> Nat] /\ owner' \in [Mutex -> Thread \cup {Null}] /\ MutexInv'
    BY <1>2, <1>7, <2>1 DEF IInv, TypeOK, MutexInv, LastUnlock
  <2>10. TypeOK'
    BY <1>4, <2>6, <2>7, <2>8, <2>9
    DEF IInv, TypeOK, Replaces, lifeVars, schedVars, timerVars
  <2>11. QueueInv'
    <3>1. Placed(exec)
      BY <1>2 DEF IInv, QueueInv
    <3>2. Placed(exec)'
      BY <1>2, <1>3, <1>4, <2>8, <3>1, AddressFacts
      DEF Placed, In, Members, OnRunQueue, Dead
    <3> QED  BY <1>2, <1>4, <2>8, <3>2, OneThreadMoves DEF IInv
  <2>12. ControlInv'
    <3>1. \A i \in DOMAIN g : g[i].op \notin Special
      BY <2>5 DEF Special, Barrier
    <3>2. CalmState(g)
      BY <1>3, <1>4 DEF CalmState, Dead
    <3>3. UNCHANGED << exec, disable, running, current >> /\ ControlInv
      BY <1>4 DEF IInv, schedVars
    <3> QED  BY <1>2, <1>5, <2>6, <3>1, <3>2, <3>3, CalmControl
  <2> QED  BY <2>9, <2>10, <2>11, <2>12 DEF IInv
<1> QED  BY <1>6, <1>7 DEF OSUnlockMutex

-----------------------------------------------------------------------------
(* os_thread.cpp.                                                          *)

LEMMA OSCreateThreadStep ==
  ASSUME IInv, OSCreateThread
  PROVE  IInv'
<1>1. At({"OSCreateThread"})
  BY DEF OSCreateThread
<1>2. /\ stack \in [Thread -> Seq(Frame)] /\ exec \in Thread /\ stack[exec] # << >>
      /\ Head(stack[exec]).op = "OSCreateThread" /\ Arg \in Thread
      /\ WellFormed(links, QueueId, Thread)
  BY <1>1, TopFacts, ArgFacts DEF Arg, ThreadCall
<1>0. PICK t \in Thread : t = Arg
  BY <1>2
<1>3. state[exec] = "running"
  BY <1>1, BusyTopFacts DEF Quiet, Barrier
<1>4. Dead(t)
  BY <1>1, <1>0 DEF IInv, ControlInv, CreateNext
<1>5. /\ state' = [state EXCEPT ![t] = "ready"]
      /\ suspend' = [suspend EXCEPT ![t] = 1]
      /\ prio' = [prio EXCEPT ![t] = BasePriority[t]]
      /\ detached' = [detached EXCEPT ![t] = (t \in Detached)]
      /\ blockedOn' = [blockedOn EXCEPT ![t] = Null]
      /\ held' = [held EXCEPT ![t] = << >>]
      /\ links' = [queue   |-> [links.queue EXCEPT ![t] = << >>],
                   at      |-> links.at,
                   pending |-> links.pending]
      /\ listed' = listed \cup {t}
      /\ Continue(<< >>)
      /\ UNCHANGED << resched, schedVars, owner, count, timerVars, exec >>
  BY <1>0 DEF OSCreateThread, Return
<1>6. Replaces(<< >>)
  BY <1>2, <1>5, FramesFacts, ContinueFacts
<1>7. BasePriority[t] \in Priority
  BY <1>2, ConstantTypes DEF ConstantTypes
<1>8. t \in QueueId /\ t \notin Priority
  BY <1>2, AddressFacts
<1>9. /\ WellFormed(links', QueueId, Thread)
      /\ \A q \in QueueId : In(links', q) \subseteq In(links, q)
      /\ \A p \in Priority : In(links', p) = In(links, p)
  <2>1. In(links', t) = {}
    BY <1>2, <1>5, <1>8 DEF In, ToSet, WellFormed
  <2>2. \A q \in QueueId \ {t} : links'.queue[q] = links.queue[q]
    BY <1>2, <1>5 DEF WellFormed
  <2>3. links'.queue[t] = << >>
    BY <1>2, <1>5, <1>8 DEF WellFormed
  <2>4. Priority \subseteq QueueId \ {t}
    BY <1>8, AddressFacts
  <2>5. links' \in [queue   : [QueueId -> Seq(Thread)],
                    at      : [Thread -> QueueId \cup {Null}],
                    pending : SUBSET Priority]
    <3>1. << >> \in Seq(Thread)
      OBVIOUS
    <3>2. /\ links.queue \in [QueueId -> Seq(Thread)]
          /\ links.at \in [Thread -> QueueId \cup {Null}]
          /\ links.pending \in SUBSET Priority
      BY <1>2 DEF WellFormed
    <3>3. [links.queue EXCEPT ![t] = << >>] \in [QueueId -> Seq(Thread)]
      BY <3>1, <3>2
    <3> QED  BY <1>5, <3>2, <3>3
  <2>6. links'.pending = {p \in Priority : links'.queue[p] # << >>}
    BY <1>2, <1>5, <2>2, <2>4 DEF WellFormed
  <2>7. \A q \in QueueId : /\ IsInjective(links'.queue[q])
                           /\ \A u \in ToSet(links'.queue[q]) : links'.at[u] = q
    <3>1. ASSUME NEW q \in QueueId \ {t}
          PROVE  /\ IsInjective(links'.queue[q])
                 /\ \A u \in ToSet(links'.queue[q]) : links'.at[u] = q
      BY <1>2, <1>5, <2>2 DEF WellFormed
    <3>2. IsInjective(<< >>)
      BY DEF IsInjective
    <3>3. /\ IsInjective(links'.queue[t])
          /\ \A u \in ToSet(links'.queue[t]) : links'.at[u] = t
      BY <2>1, <2>3, <3>2 DEF In
    <3> QED  BY <3>1, <3>3
  <2> QED  BY <2>1, <2>2, <2>4, <2>5, <2>6, <2>7 DEF WellFormed, In
<1>10. /\ state' \in [Thread -> {"none", "ready", "running", "waiting", "moribund"}]
       /\ suspend' \in [Thread -> Nat]
       /\ prio' \in [Thread -> Priority \cup {SuspendedWaitPriority}]
       /\ state'[t] = "ready" /\ suspend'[t] = 1 /\ prio'[t] \in Priority
       /\ \A u \in Thread \ {t} : /\ state'[u] = state[u] /\ suspend'[u] = suspend[u]
                                  /\ prio'[u] = prio[u]
  BY <1>2, <1>5, <1>7 DEF IInv, TypeOK
<1>11. QueueInv'
  <2>1. \A q \in QueueId : t \notin In(links, q)
    BY <1>2, <1>4, NotLinked DEF IInv, Dead, OnRunQueue
  <2>2. Placed(t)'
    BY <1>9, <1>10, <2>1, AddressFacts DEF Placed, In, Members, OnRunQueue, Dead
  <2>3. links'.at = links.at /\ exec' = exec
    BY <1>5
  <2> QED  BY <1>2, <1>9, <1>10, <2>2, <2>3, OneThreadMoves DEF IInv
<1>12. TypeOK' /\ MutexInv'
  <2>1. /\ detached' \in [Thread -> BOOLEAN]
        /\ blockedOn' \in [Thread -> Mutex \cup {Null}]
        /\ held' \in [Thread -> Seq(Mutex)]
        /\ listed' \subseteq Thread
    <3>1. /\ detached \in [Thread -> BOOLEAN]
          /\ blockedOn \in [Thread -> Mutex \cup {Null}]
          /\ held \in [Thread -> Seq(Mutex)]
          /\ listed \subseteq Thread
      BY DEF IInv, TypeOK
    <3>2. << >> \in Seq(Mutex)
      OBVIOUS
    <3>3. detached' \in [Thread -> BOOLEAN] /\ listed' \subseteq Thread
      BY <1>2, <1>5, <3>1
    <3>4. blockedOn' \in [Thread -> Mutex \cup {Null}]
      BY <1>2, <1>5, <3>1
    <3>5. held' \in [Thread -> Seq(Mutex)]
      BY <1>2, <1>5, <3>1, <3>2
    <3> QED  BY <3>3, <3>4, <3>5
  <2>2. links' \in [queue   : [QueueId -> Seq(Thread)],
                    at      : [Thread -> QueueId \cup {Null}],
                    pending : SUBSET Priority]
    BY <1>9, WellFormedLinks
  <2> QED  BY <1>5, <1>6, <1>10, <2>1, <2>2
           DEF IInv, TypeOK, MutexInv, Replaces, schedVars, timerVars
<1>13. ControlInv'
  <2>1. CalmState(<< >>)
    BY <1>2, <1>3, <1>4, <1>10 DEF CalmState, Dead
  <2>2. UNCHANGED << exec, disable, running, current >> /\ ControlInv
    BY <1>5 DEF IInv, schedVars
  <2>3. Head(stack[exec]).op \notin (Special \ {"OSCreateThread"}) \cup Quiet
    BY <1>2 DEF Special, Barrier, Quiet
  <2> QED  BY <1>2, <1>6, <2>1, <2>2, <2>3, FramesFacts, CalmControl
<1> QED  BY <1>11, <1>12, <1>13 DEF IInv

\* What is left to do after the place of a thread changed.
LEMMA AfterMoveFacts ==
  ASSUME IInv, NEW t \in Thread, NEW g,
         \/ g = << >>
         \/ g = << Call("Reschedule", Null) >>
         \/ g = << Call("Propagate", OwnerOf(blockedOn[t])), Call("Reschedule", Null) >>
  PROVE  /\ g \in Seq(Frame) /\ \A i \in DOMAIN g : g[i].op \in {"Propagate", "Reschedule"}
         /\ g = << Call("Reschedule", Null) >> => Leaving(g, TRUE)
<1>1. OwnerOf(blockedOn[t]) \in Thread \cup {Null}
  BY ChainFacts DEF IInv
<1>2. Call("Propagate", OwnerOf(blockedOn[t])) \in Frame /\ Call("Reschedule", Null) \in Frame
  BY <1>1, FrameFacts
<1>3. g \in Seq(Frame) /\ \A i \in DOMAIN g : g[i].op \in {"Propagate", "Reschedule"}
  <2>1. CASE g = << >>
    BY <2>1, FramesFacts
  <2>2. CASE g = << Call("Reschedule", Null) >>
    BY <1>2, <2>2, FramesFacts
  <2>3. CASE g = << Call("Propagate", OwnerOf(blockedOn[t])), Call("Reschedule", Null) >>
    BY <1>2, <2>3, FramesFacts
  <2> QED  BY <2>1, <2>2, <2>3
<1>4. Leaving(<< Call("Reschedule", Null) >>, TRUE)
  BY LeavesFacts, LeavingFrames
<1> QED  BY <1>3, <1>4

\* A waiter that moves within its queue.
LEMMA WaiterMoves ==
  ASSUME IInv, NEW t \in Thread, state[t] = "waiting", NEW p,
         links' = InsertByPriority(Unlink(links, t), links.at[t], t, p, prio),
         state' = state, exec' = exec,
         prio'[t] = p, p \notin Priority => suspend'[t] > 0,
         \A u \in Thread \ {t} : suspend'[u] = suspend[u] /\ prio'[u] = prio[u]
  PROVE  QueueInv' /\ WellFormed(links', QueueId, Thread)
<1>1. Placed(t) /\ WellFormed(links, QueueId, Thread)
  BY LinksWellFormed DEF IInv, QueueInv
<1>2. links.at[t] \in WaitQueueId /\ links.at[t] \in QueueId
  BY <1>1, AddressFacts DEF Placed
<1>3. /\ WellFormed(links', QueueId, Thread)
      /\ In(links', links.at[t]) = In(links, links.at[t]) \cup {t}
      /\ \A r \in QueueId : r # links.at[t] => In(links', r) = In(links, r) \ {t}
      /\ links'.at[t] = links.at[t] /\ \A u \in Thread \ {t} : links'.at[u] = links.at[u]
  BY <1>1, <1>2, MoveFacts
<1>4. \A r \in QueueId : t \in In(links', r) <=> r = links.at[t]
  BY <1>2, <1>3
<1>5. Placed(t)'
  BY <1>1, <1>2, <1>3, <1>4, AddressFacts DEF Placed, In, Members, OnRunQueue, Dead
<1>6. \A u \in Thread \ {t} : \A r \in QueueId : u \in In(links', r) <=> u \in In(links, r)
  BY <1>2, <1>3
<1> QED  BY <1>3, <1>5, <1>6, AddressFacts, OneThreadMoves DEF IInv

LEMMA OSSuspendThreadStep ==
  ASSUME IInv, OSSuspendThread
  PROVE  IInv'
<1>1. At({"OSSuspendThread"})
  BY DEF OSSuspendThread
<1>2. /\ stack \in [Thread -> Seq(Frame)] /\ exec \in Thread /\ stack[exec] # << >>
      /\ Head(stack[exec]).op = "OSSuspendThread" /\ Arg \in Thread
      /\ WellFormed(links, QueueId, Thread)
  BY <1>1, TopFacts, ArgFacts DEF Arg, ThreadCall
<1>0. PICK t \in Thread : t = Arg
  BY <1>2
<1>3. /\ state[exec] = "running" /\ ~ Has(stack[exec], {"Callback"})
      /\ \A q \in QueueId : exec \notin In(links, q)
  BY <1>1, BusyTopFacts DEF Quiet, Barrier
<1> DEFINE first == suspend[t] = 0
           waits == first /\ state[t] = "waiting"
           g == IF ~ first THEN << >>
                ELSE IF waits
                THEN << Call("Propagate", OwnerOf(blockedOn[t])), Call("Reschedule", Null) >>
                ELSE << Call("Reschedule", Null) >>
<1>4. /\ suspend' = [suspend EXCEPT ![t] = @ + 1]
      /\ state' = IF first /\ state[t] = "running"
                  THEN [state EXCEPT ![t] = "ready"] ELSE state
      /\ resched' = (resched \/ (first /\ state[t] = "running"))
      /\ prio' = IF waits THEN [prio EXCEPT ![t] = SuspendedWaitPriority] ELSE prio
      /\ links' = CASE OnRunQueue(t) -> Unlink(links, t)
                    [] waits /\ links.at[t] # Null ->
                         InsertByPriority(Unlink(links, t), links.at[t], t,
                                          SuspendedWaitPriority, prio)
                    [] OTHER -> links
      /\ Continue(g)
      /\ UNCHANGED << lifeVars, schedVars, mutexVars, timerVars, exec >>
  BY <1>0 DEF OSSuspendThread
<1>5. /\ state \in [Thread -> {"none", "ready", "running", "waiting", "moribund"}]
      /\ suspend \in [Thread -> Nat] /\ Placed(t) /\ resched \in BOOLEAN
      /\ prio \in [Thread -> Priority \cup {SuspendedWaitPriority}]
  BY <1>2 DEF IInv, TypeOK, QueueInv
<1>6. /\ state' \in [Thread -> {"none", "ready", "running", "waiting", "moribund"}]
      /\ suspend' \in [Thread -> Nat] /\ suspend'[t] > 0 /\ resched' \in BOOLEAN
      /\ prio' \in [Thread -> Priority \cup {SuspendedWaitPriority}]
      /\ state'[t] = IF first /\ state[t] = "running" THEN "ready" ELSE state[t]
      /\ \A u \in Thread \ {t} : /\ state'[u] = state[u] /\ suspend'[u] = suspend[u]
                                 /\ prio'[u] = prio[u]
      /\ ~ waits => prio'[t] = prio[t]
  BY <1>2, <1>4, <1>5
<1>7. g \in Seq(Frame) /\ \A i \in DOMAIN g : g[i].op \in {"Propagate", "Reschedule"}
  BY <1>2, AfterMoveFacts
<1>8. first /\ state[t] = "running" => Leaving(g, resched')
  BY <1>2, <1>4, AfterMoveFacts
<1> HIDE DEF g
<1>9. Replaces(g)
  BY <1>2, <1>4, <1>7, ContinueFacts
<1>10. QueueInv' /\ WellFormed(links', QueueId, Thread)
  <2>1. CASE waits
    <3>1. links.at[t] # Null
      BY <1>5, <2>1, AddressFacts DEF Placed
    <3>2. links' = InsertByPriority(Unlink(links, t), links.at[t], t,
                                    SuspendedWaitPriority, prio)
      BY <1>4, <2>1, <3>1 DEF OnRunQueue
    <3>3. state' = state /\ prio'[t] = SuspendedWaitPriority
      BY <1>2, <1>4, <1>5, <2>1
    <3> QED  BY <1>2, <1>4, <1>6, <2>1, <3>2, <3>3, WaiterMoves
  <2>2. CASE OnRunQueue(t)
    <3>1. links' = Unlink(links, t)
      <4>1. ~ waits
        BY <2>2 DEF OnRunQueue
      <4> QED  BY <1>4, <2>2, <4>1 DEF OnRunQueue
    <3>2. /\ WellFormed(links', QueueId, Thread)
          /\ Removed(links', links, t, QueueId)
          /\ links'.at = [links.at EXCEPT ![t] = Null]
      <4>1. Priority \subseteq QueueId /\ Null \notin QueueId
        BY AddressFacts
      <4>2. WellFormed(links, QueueId, Thread)
        BY <1>2
      <4> QED  BY <3>1, <4>1, <4>2, UnlinkFacts
    <3>3. links.at \in [Thread -> QueueId \cup {Null}]
      BY <1>2 DEF WellFormed
    <3>4. state'[t] = "ready"
      BY <1>6, <2>2 DEF OnRunQueue
    <3>5. \A q \in QueueId : t \notin In(links', q)
      BY <3>2 DEF Removed
    <3>6. Placed(t)'
      BY <1>6, <3>4, <3>5, AddressFacts DEF Placed, In, Members, OnRunQueue, Dead
    <3>7. \A u \in Thread \ {t} :
            /\ \A q \in QueueId : u \in In(links', q) <=> u \in In(links, q)
            /\ links'.at[u] = links.at[u]
      BY <3>2, <3>3 DEF Removed
    <3> QED  BY <1>2, <1>4, <1>6, <3>2, <3>6, <3>7, AddressFacts, OneThreadMoves DEF IInv
  <2>3. CASE ~ waits /\ ~ OnRunQueue(t)
    <3>1. links' = links
      BY <1>4, <2>3
    <3>2. Placed(t)'
      <4>1. CASE first
        <5>1. \A q \in QueueId : t \notin In(links, q)
          BY <1>2, <2>3, <4>1, NotLinked DEF IInv
        <5> QED  BY <1>4, <1>5, <1>6, <2>3, <3>1, <4>1, <5>1, AddressFacts
                 DEF Placed, In, Members, OnRunQueue, Dead
      <4>2. CASE ~ first
        BY <1>4, <1>5, <1>6, <2>3, <3>1, <4>2, AddressFacts
        DEF Placed, In, Members, OnRunQueue, Dead
      <4> QED  BY <4>1, <4>2
    <3> QED  BY <1>2, <1>4, <1>6, <3>1, <3>2, OneThreadMoves DEF IInv
  <2> QED  BY <2>1, <2>2, <2>3
<1>11. TypeOK' /\ MutexInv'
  BY <1>4, <1>6, <1>9, <1>10, WellFormedLinks
  DEF IInv, TypeOK, MutexInv, Replaces, lifeVars, schedVars, mutexVars, timerVars
<1>12. ControlInv'
  <2>1. CalmState(g)
    <3>1. state'[exec] # "running" => Leaving(g, resched')
      <4>1. CASE t = exec
        BY <1>3, <1>5, <1>6, <1>8, <4>1 DEF Placed
      <4>2. CASE t # exec
        BY <1>2, <1>3, <1>6, <4>2
      <4> QED  BY <4>1, <4>2
    <3>2. \A u \in Thread : Dead(u)' => Dead(u)
      BY <1>2, <1>6 DEF Dead
    <3> QED  BY <1>3, <3>1, <3>2 DEF CalmState
  <2>2. UNCHANGED << exec, disable, running, current >> /\ ControlInv
    BY <1>4 DEF IInv, schedVars
  <2>3. Head(stack[exec]).op \notin (Special \ {"OSCreateThread"}) \cup Quiet
    BY <1>2 DEF Special, Barrier, Quiet
  <2>4. \A i \in DOMAIN g : g[i].op \notin Special
    BY <1>7 DEF Special, Barrier
  <2> QED  BY <1>2, <1>9, <2>1, <2>2, <2>3, <2>4, CalmControl
<1> QED  BY <1>10, <1>11, <1>12 DEF IInv

LEMMA OSResumeThreadStep ==
  ASSUME IInv, OSResumeThread
  PROVE  IInv'
<1>1. At({"OSResumeThread"})
  BY DEF OSResumeThread
<1>2. /\ stack \in [Thread -> Seq(Frame)] /\ exec \in Thread /\ stack[exec] # << >>
      /\ Head(stack[exec]).op = "OSResumeThread" /\ Arg \in Thread
      /\ WellFormed(links, QueueId, Thread)
  BY <1>1, TopFacts, ArgFacts DEF Arg, ThreadCall
<1>0. PICK t \in Thread : t = Arg
  BY <1>2
<1> DEFINE last == suspend[t] = 1
           p == EffectivePriority(t)
           waits == last /\ state[t] = "waiting"
           runs == last /\ state[t] \in {"ready", "running"}
           g == IF ~ last THEN << >>
                ELSE IF waits
                THEN << Call("Propagate", OwnerOf(blockedOn[t])), Call("Reschedule", Null) >>
                ELSE << Call("Reschedule", Null) >>
<1>3. /\ suspend' = [suspend EXCEPT ![t] = Resumed(@)]
      /\ timers' = IF last THEN timers \ {t} ELSE timers
      /\ outstanding' = IF last THEN outstanding \ {t} ELSE outstanding
      /\ prio' = IF waits \/ runs THEN [prio EXCEPT ![t] = p] ELSE prio
      /\ state' = IF runs THEN [state EXCEPT ![t] = "ready"] ELSE state
      /\ resched' = (resched \/ runs)
      /\ links' = CASE runs -> InsertByPriority(links, p, t, p, prio)
                    [] waits /\ links.at[t] # Null ->
                         InsertByPriority(Unlink(links, t), links.at[t], t, p, prio)
                    [] OTHER -> links
      /\ Continue(g)
      /\ UNCHANGED << lifeVars, schedVars, mutexVars, firstSeen, exec >>
  BY <1>0 DEF OSResumeThread
<1>4. p \in Priority
  BY EffectivePriorityType DEF IInv
<1> HIDE DEF p
<1>5. /\ state \in [Thread -> {"none", "ready", "running", "waiting", "moribund"}]
      /\ suspend \in [Thread -> Nat] /\ Placed(t) /\ resched \in BOOLEAN
      /\ prio \in [Thread -> Priority \cup {SuspendedWaitPriority}]
  BY <1>2 DEF IInv, TypeOK, QueueInv
<1>6. state' = state
  BY <1>2, <1>3, <1>5 DEF Placed
<1>7. /\ suspend' \in [Thread -> Nat] /\ resched' \in BOOLEAN
      /\ prio' \in [Thread -> Priority \cup {SuspendedWaitPriority}]
      /\ suspend'[t] = IF suspend[t] = 0 THEN 0 ELSE suspend[t] - 1
      /\ \A u \in Thread \ {t} : suspend'[u] = suspend[u] /\ prio'[u] = prio[u]
      /\ waits \/ runs => prio'[t] = p
      /\ ~ (waits \/ runs) => prio'[t] = prio[t]
  BY <1>3, <1>4, <1>5 DEF Resumed
<1>8. g \in Seq(Frame) /\ \A i \in DOMAIN g : g[i].op \in {"Propagate", "Reschedule"}
  BY AfterMoveFacts
<1> HIDE DEF g
<1>9. Replaces(g)
  BY <1>2, <1>3, <1>8, ContinueFacts
<1>10. QueueInv' /\ WellFormed(links', QueueId, Thread)
  <2>1. CASE waits
    <3>1. links.at[t] # Null
      BY <1>5, <2>1, AddressFacts DEF Placed
    <3>2. links' = InsertByPriority(Unlink(links, t), links.at[t], t, p, prio)
      BY <1>3, <2>1, <3>1
    <3> QED  BY <1>3, <1>4, <1>6, <1>7, <2>1, <3>2, WaiterMoves
  <2>2. CASE runs
    <3>1. links' = InsertByPriority(links, p, t, p, prio)
      BY <1>3, <2>2
    <3>2. state[t] = "ready"
      BY <1>5, <2>2 DEF Placed
    <3>3. \A q \in QueueId : t \notin In(links, q)
      BY <2>2, <3>2, NotLinked DEF IInv, OnRunQueue
    <3>4. /\ WellFormed(links', QueueId, Thread)
          /\ Added(links', links, p, t, QueueId)
      BY <1>2, <1>4, <3>1, <3>3, AddressFacts, InsertByPriorityFacts
    <3>5. links.at \in [Thread -> QueueId \cup {Null}]
      BY <1>2 DEF WellFormed
    <3>6. \A q \in QueueId : t \in In(links', q) <=> q = p
      BY <1>4, <3>3, <3>4, AddressFacts DEF Added
    <3>7. Placed(t)'
      BY <1>4, <1>6, <1>7, <2>2, <3>2, <3>6, AddressFacts
      DEF Placed, In, Members, OnRunQueue, Dead
    <3>8. \A u \in Thread \ {t} :
            /\ \A q \in QueueId : u \in In(links', q) <=> u \in In(links, q)
            /\ links'.at[u] = links.at[u]
      BY <3>4, <3>5 DEF Added
    <3> QED  BY <1>3, <1>6, <1>7, <3>4, <3>7, <3>8, AddressFacts, OneThreadMoves DEF IInv
  <2>3. CASE ~ waits /\ ~ runs
    <3>1. links' = links
      BY <1>3, <2>3
    <3>2. Placed(t)'
      BY <1>3, <1>5, <1>6, <1>7, <2>3, <3>1, AddressFacts
      DEF Placed, In, Members, OnRunQueue, Dead
    <3> QED  BY <1>2, <1>3, <1>6, <1>7, <3>1, <3>2, OneThreadMoves DEF IInv
  <2> QED  BY <2>1, <2>2, <2>3
<1>11. TypeOK' /\ MutexInv'
  BY <1>3, <1>5, <1>6, <1>7, <1>9, <1>10, WellFormedLinks
  DEF IInv, TypeOK, MutexInv, Replaces, lifeVars, schedVars, mutexVars
<1>12. ControlInv'
  <2>1. CalmState(g)
    BY <1>2, <1>3, <1>5, <1>6, <1>8 DEF CalmState, Dead, Leaves, Quiet
  <2>2. UNCHANGED << exec, disable, running, current >> /\ ControlInv
    BY <1>3 DEF IInv, schedVars
  <2>3. Head(stack[exec]).op \notin Special \ {"OSCreateThread"}
    BY <1>2 DEF Special, Barrier
  <2>4. \A i \in DOMAIN g : g[i].op \notin Special /\ g[i].op \in Quiet
    BY <1>8 DEF Special, Barrier, Quiet
  <2> QED  BY <1>2, <1>9, <2>1, <2>2, <2>3, <2>4, CalmControl
<1> QED  BY <1>10, <1>11, <1>12 DEF IInv

\* The end of a thread that is not linked any more.
LEMMA TerminateFacts ==
  ASSUME IInv, NEW t \in Thread, NEW op \in {"ExitReschedule", "Reschedule"},
         stack[exec] # << >>, Terminate(t, Call(op, Null)),
         UNCHANGED << suspend, prio, exec >>,
         WellFormed(links', QueueId, Thread),
         \A q \in QueueId : t \notin In(links', q),
         \A u \in Thread \ {t} :
           /\ \A q \in QueueId : u \in In(links', q) <=> u \in In(links, q)
           /\ links'.at[u] = links.at[u]
  PROVE  /\ QueueInv'
         /\ Replaces(LastRites(t, Call(op, Null)))
         /\ \A i \in DOMAIN LastRites(t, Call(op, Null)) :
              LastRites(t, Call(op, Null))[i].op \in {"UnlockAll", "OSWakeupThread", op}
         /\ \A request : op = "ExitReschedule" \/ request =>
              Leaving(LastRites(t, Call(op, Null)), request)
         /\ state' \in [Thread -> {"none", "ready", "running", "waiting", "moribund"}]
         /\ listed' \in SUBSET Thread
         /\ \A u \in Thread \ {t} : state'[u] = state[u]
         /\ t # exec => stack'[t] = << >>
<1> DEFINE last == Call(op, Null)
           g == LastRites(t, last)
<1>1. /\ stack \in [Thread -> Seq(Frame)] /\ exec \in Thread
      /\ state \in [Thread -> {"none", "ready", "running", "waiting", "moribund"}]
      /\ listed \in SUBSET Thread
  BY DEF IInv, TypeOK
<1>2. /\ Call("UnlockAll", t) \in Frame /\ Call("OSWakeupThread", t) \in Frame
      /\ last \in Frame
  BY FrameFacts, AddressFacts
<1>3. g = << Call("UnlockAll", t), Call("OSWakeupThread", t), last >>
  BY DEF LastRites
<1>4. g \in Seq(Frame) /\ \A i \in DOMAIN g : g[i].op \in {"UnlockAll", "OSWakeupThread", op}
  BY <1>2, <1>3, FramesFacts
<1>5. \A request : op = "ExitReschedule" \/ request => Leaving(g, request)
  <2>1. SUFFICES ASSUME NEW request, op = "ExitReschedule" \/ request
                 PROVE  Leaving(g, request)
    OBVIOUS
  <2>2. Leaves(last, request)
    BY <2>1, LeavesFacts
  <2>3. Call("UnlockAll", t).op \in Quiet /\ Call("OSWakeupThread", t).op \in Quiet
    BY FramesFacts DEF Quiet
  <2> HIDE DEF last
  <2>4. \A f2, f3 : f2.op \in Quiet /\ f3.op \in Quiet => Leaving(<< f2, f3, last >>, request)
    BY <2>2, LeavingFrames
  <2>5. Leaving(<< Call("UnlockAll", t), Call("OSWakeupThread", t), last >>, request)
    BY <2>3, <2>4
  <2> QED  BY <1>3, <2>5
<1> HIDE DEF g
<1>6. stack' = [u \in Thread |-> IF u = exec THEN g \o Tail(stack[u])
                                 ELSE IF u = t THEN << >> ELSE stack[u]]
  BY DEF Terminate, g
<1>7. Replaces(g) /\ (t # exec => stack'[t] = << >>)
  <2>1. g \o Tail(stack[exec]) \in Seq(Frame)
    BY <1>1, <1>4, HeadTailProperties, ConcatProperties
  <2> QED  BY <1>1, <1>4, <1>6, <2>1 DEF Replaces
<1>8. /\ state' \in [Thread -> {"none", "ready", "running", "waiting", "moribund"}]
      /\ listed' \in SUBSET Thread
      /\ \A u \in Thread \ {t} : state'[u] = state[u]
      /\ state'[t] \in {"none", "moribund"}
  BY <1>1 DEF Terminate
<1>9. QueueInv'
  <2>1. Placed(t)'
    BY <1>8, AddressFacts DEF Placed, In, Members, OnRunQueue, Dead
  <2> QED  BY <1>8, <2>1, AddressFacts, OneThreadMoves DEF IInv
<1> QED  BY <1>4, <1>5, <1>7, <1>8, <1>9 DEF g

LEMMA OSExitThreadStep ==
  ASSUME IInv, OSExitThread
  PROVE  IInv'
<1>1. At({"OSExitThread"})
  BY DEF OSExitThread
<1>2. /\ stack \in [Thread -> Seq(Frame)] /\ exec \in Thread /\ stack[exec] # << >>
      /\ Head(stack[exec]).op = "OSExitThread"
      /\ WellFormed(links, QueueId, Thread)
  BY <1>1, TopFacts
<1>3. /\ running = exec /\ state[exec] = "running" /\ ~ Has(stack[exec], {"Callback"})
      /\ \A q \in QueueId : exec \notin In(links, q)
  BY <1>1, BusyTopFacts DEF Quiet, Barrier
<1>4. /\ Terminate(exec, Call("ExitReschedule", Null))
      /\ UNCHANGED << suspend, prio, detached, links, resched, schedVars, mutexVars,
                      timerVars, exec >>
  BY <1>2, <1>3, AddressFacts DEF OSExitThread
<1> DEFINE g == LastRites(exec, Call("ExitReschedule", Null))
<1>5. /\ QueueInv' /\ Replaces(g)
      /\ \A i \in DOMAIN g : g[i].op \in {"UnlockAll", "OSWakeupThread", "ExitReschedule"}
      /\ Leaving(g, resched')
      /\ state' \in [Thread -> {"none", "ready", "running", "waiting", "moribund"}]
      /\ listed' \in SUBSET Thread
      /\ \A u \in Thread \ {exec} : state'[u] = state[u]
  BY <1>2, <1>3, <1>4, TerminateFacts
<1> HIDE DEF g
<1>6. TypeOK' /\ MutexInv'
  BY <1>4, <1>5 DEF IInv, TypeOK, MutexInv, Replaces, schedVars, mutexVars, timerVars
<1>7. ControlInv'
  <2>1. CalmState(g)
    BY <1>3, <1>5 DEF CalmState, Dead
  <2>2. UNCHANGED << exec, disable, running, current >> /\ ControlInv
    BY <1>4 DEF IInv, schedVars
  <2>3. Head(stack[exec]).op \notin (Special \ {"OSCreateThread"}) \cup Quiet
    BY <1>2 DEF Special, Barrier, Quiet
  <2>4. \A i \in DOMAIN g : g[i].op \notin Special
    BY <1>5 DEF Special, Barrier
  <2> QED  BY <1>2, <1>5, <2>1, <2>2, <2>3, <2>4, CalmControl
<1> QED  BY <1>5, <1>6, <1>7 DEF IInv

LEMMA ExitRescheduleStep ==
  ASSUME IInv, ExitReschedule
  PROVE  IInv'
<1>1. At({"ExitReschedule"})
  BY DEF ExitReschedule
<1>2. /\ stack \in [Thread -> Seq(Frame)] /\ exec \in Thread /\ stack[exec] # << >>
      /\ Head(stack[exec]).op = "ExitReschedule"
  BY <1>1, TopFacts
<1> DEFINE g == << Call("SelectThread", Null) >>
<1>3. /\ resched' = TRUE /\ Continue(g)
      /\ UNCHANGED << threadVars, lifeVars, links, schedVars, mutexVars, timerVars, exec >>
  BY DEF ExitReschedule
<1>4. /\ g \in Seq(Frame) /\ \A i \in DOMAIN g : g[i].op = "SelectThread"
      /\ Leaving(g, TRUE)
  <2>1. Call("SelectThread", Null) \in Frame
    BY FrameFacts
  <2>2. Leaves(Call("SelectThread", Null), TRUE)
    BY LeavesFacts
  <2>3. Leaving(g, TRUE)
    BY <2>2, LeavingFrames
  <2>4. g \in Seq(Frame) /\ \A i \in DOMAIN g : g[i].op = "SelectThread"
    BY <2>1, FramesFacts
  <2> QED  BY <2>3, <2>4
<1> HIDE DEF g
<1>5. Replaces(g)
  BY <1>2, <1>3, <1>4, ContinueFacts
<1>6. TypeOK' /\ MutexInv'
  BY <1>3, <1>5
  DEF IInv, TypeOK, MutexInv, Replaces, threadVars, lifeVars, schedVars, mutexVars, timerVars
<1>7. /\ Head(stack[exec]).op \notin Special \cup Quiet
      /\ \A i \in DOMAIN g : g[i].op \notin Special
  BY <1>2, <1>4 DEF Special, Barrier, Quiet
<1> QED  BY <1>3, <1>4, <1>5, <1>6, <1>7, StillStep DEF threadVars, schedVars

LEMMA OSCancelThreadStep ==
  ASSUME IInv, OSCancelThread
  PROVE  IInv'
<1>1. At({"OSCancelThread"})
  BY DEF OSCancelThread
<1>2. /\ stack \in [Thread -> Seq(Frame)] /\ exec \in Thread /\ stack[exec] # << >>
      /\ Head(stack[exec]).op = "OSCancelThread" /\ Arg \in Thread
      /\ WellFormed(links, QueueId, Thread)
  BY <1>1, TopFacts, ArgFacts DEF Arg, ThreadCall
<1>0. PICK t \in Thread : t = Arg
  BY <1>2
<1>3. state[exec] = "running" /\ ~ Has(stack[exec], {"Callback"})
  BY <1>1, BusyTopFacts DEF Quiet, Barrier
<1>4. UNCHANGED << suspend, prio, detached, schedVars, mutexVars, timerVars, exec >>
  BY DEF OSCancelThread
<1>5. CASE Return /\ UNCHANGED << state, listed, links, resched >>
  <2>1. TypeOK' /\ MutexInv'
    <3>1. stack' \in [Thread -> Seq(Frame)]
      BY <1>1, <1>5, TopFacts, FramesFacts, ContinueFacts DEF Return, Replaces
    <3> QED  BY <1>4, <1>5, <3>1
             DEF IInv, TypeOK, MutexInv, schedVars, mutexVars, timerVars
  <2> QED  BY <1>1, <1>4, <1>5, <2>1, ReturnStep DEF Special, Barrier, schedVars
<1> DEFINE linked == state[t] = "waiting" \/ OnRunQueue(t)
           g == LastRites(t, Call("Reschedule", Null))
<1>6. CASE /\ links' = IF linked THEN Unlink(links, t) ELSE links
           /\ resched' = (resched \/ state[t] = "running")
           /\ Terminate(t, Call("Reschedule", Null))
  <2>1. /\ WellFormed(links', QueueId, Thread)
        /\ \A q \in QueueId : t \notin In(links', q)
        /\ \A u \in Thread \ {t} :
             /\ \A q \in QueueId : u \in In(links', q) <=> u \in In(links, q)
             /\ links'.at[u] = links.at[u]
    <3>1. CASE linked
      <4>1. Priority \subseteq QueueId /\ Null \notin QueueId
        BY AddressFacts
      <4>2. links' = Unlink(links, t)
        BY <1>6, <3>1
      <4>3. WellFormed(links, QueueId, Thread)
        BY <1>2
      <4>4. links.at \in [Thread -> QueueId \cup {Null}]
        BY <4>3 DEF WellFormed
      <4>5. /\ WellFormed(links', QueueId, Thread)
            /\ Removed(links', links, t, QueueId)
            /\ links'.at = [links.at EXCEPT ![t] = Null]
        BY <4>1, <4>2, <4>3, UnlinkFacts
      <4> QED  BY <4>4, <4>5 DEF Removed
    <3>2. CASE ~ linked
      <4>1. links' = links
        BY <1>6, <3>2
      <4>2. \A q \in QueueId : t \notin In(links, q)
        BY <3>2, NotLinked DEF IInv
      <4> QED  BY <1>2, <4>1, <4>2
    <3> QED  BY <3>1, <3>2
  <2>2. /\ QueueInv' /\ Replaces(g)
        /\ \A i \in DOMAIN g : g[i].op \in {"UnlockAll", "OSWakeupThread", "Reschedule"}
        /\ resched' => Leaving(g, resched')
        /\ state' \in [Thread -> {"none", "ready", "running", "waiting", "moribund"}]
        /\ listed' \in SUBSET Thread
        /\ \A u \in Thread \ {t} : state'[u] = state[u]
        /\ t # exec => stack'[t] = << >>
    BY <1>2, <1>4, <1>6, <2>1, TerminateFacts
  <2> HIDE DEF g
  <2>3. TypeOK' /\ MutexInv'
    <3>1. resched' \in BOOLEAN
      BY <1>6 DEF IInv, TypeOK
    <3> QED  BY <1>4, <2>1, <2>2, <3>1, WellFormedLinks
             DEF IInv, TypeOK, MutexInv, Replaces, schedVars, mutexVars, timerVars
  <2>4. ControlInv'
    <3>1. CalmState(g)
      BY <1>2, <1>3, <1>6, <2>2 DEF CalmState, Dead
    <3>2. UNCHANGED << exec, disable, running, current >> /\ ControlInv
      BY <1>4 DEF IInv, schedVars
    <3>3. Head(stack[exec]).op \notin (Special \ {"OSCreateThread"}) \cup Quiet
      BY <1>2 DEF Special, Barrier, Quiet
    <3>4. \A i \in DOMAIN g : g[i].op \notin Special
      BY <2>2 DEF Special, Barrier
    <3> QED  BY <1>2, <2>2, <3>1, <3>2, <3>3, <3>4, CalmControl
  <2> QED  BY <2>2, <2>3, <2>4 DEF IInv
<1> QED  BY <1>0, <1>5, <1>6 DEF OSCancelThread

\* Joining and detaching may reap a thread that has ended.
LEMMA ReapStep ==
  ASSUME IInv, NEW op \in {"OSJoinThread", "JoinReturn", "OSDetachThread"}, At({op}),
         NEW t \in Thread,
         IF state[t] = "moribund" THEN Reap(t) ELSE UNCHANGED << state, listed >>,
         NEW g \in Seq(Frame), Continue(g),
         \A i \in DOMAIN g : g[i].op = "OSWakeupThread",
         detached' \in [Thread -> BOOLEAN],
         UNCHANGED << suspend, prio, links, resched, schedVars, mutexVars, timerVars, exec >>
  PROVE  IInv'
<1>1. /\ stack \in [Thread -> Seq(Frame)] /\ exec \in Thread /\ stack[exec] # << >>
      /\ Head(stack[exec]).op = op
      /\ WellFormed(links, QueueId, Thread)
  BY TopFacts
<1>2. state[exec] = "running"
  BY BusyTopFacts DEF Quiet, Barrier
<1>3. /\ state' \in [Thread -> {"none", "ready", "running", "waiting", "moribund"}]
      /\ listed' \in SUBSET Thread
      /\ \A u \in Thread : /\ Dead(u)' <=> Dead(u)
                           /\ ~ Dead(u) => state'[u] = state[u]
      /\ \A u \in Thread \ {t} : state'[u] = state[u]
  BY DEF IInv, TypeOK, Reap, Dead
<1>4. Replaces(g)
  BY <1>1, ContinueFacts
<1>5. QueueInv'
  <2>1. Placed(t)
    BY DEF IInv, QueueInv
  <2>2. Placed(t)'
    BY <1>3, <2>1, AddressFacts DEF Placed, Members, OnRunQueue, Dead
  <2>3. WellFormed(links, QueueId, Thread)'
    BY <1>1 DEF WellFormed
  <2> QED  BY <1>3, <2>2, <2>3, OneThreadMoves DEF IInv
<1>6. TypeOK' /\ MutexInv'
  BY <1>3, <1>4 DEF IInv, TypeOK, MutexInv, Replaces, schedVars, mutexVars, timerVars
<1>7. ControlInv'
  <2>1. CalmState(g)
    BY <1>1, <1>2, <1>3 DEF CalmState, Dead
  <2>2. UNCHANGED << exec, disable, running, current >> /\ ControlInv
    BY DEF IInv, schedVars
  <2>3. Head(stack[exec]).op \notin (Special \ {"OSCreateThread"}) \cup Quiet
    BY <1>1 DEF Special, Barrier, Quiet
  <2>4. \A i \in DOMAIN g : g[i].op \notin Special
    BY DEF Special, Barrier
  <2> QED  BY <1>1, <1>4, <2>1, <2>2, <2>3, <2>4, CalmControl
<1> QED  BY <1>5, <1>6, <1>7 DEF IInv

LEMMA OSJoinThreadStep ==
  ASSUME IInv, OSJoinThread
  PROVE  IInv'
<1>1. At({"OSJoinThread"})
  BY DEF OSJoinThread
<1>2. /\ stack \in [Thread -> Seq(Frame)] /\ exec \in Thread /\ stack[exec] # << >>
      /\ Head(stack[exec]).op = "OSJoinThread" /\ Arg \in Thread
  BY <1>1, TopFacts, ArgFacts DEF Arg, ThreadCall
<1>3. UNCHANGED << suspend, prio, detached, links, resched, schedVars, mutexVars, timerVars,
                   exec >>
  BY DEF OSJoinThread
<1> DEFINE g == << Call("OSSleepThread", Arg), Call("JoinReturn", Arg) >>
<1>4. CASE Continue(g) /\ UNCHANGED << state, listed >>
  <2>1. Call("OSSleepThread", Arg) \in Frame /\ Call("JoinReturn", Arg) \in Frame
    BY <1>2, AddressFacts, FrameFacts
  <2>2. g \in Seq(Frame) /\ \A i \in DOMAIN g : g[i].op \in {"OSSleepThread", "JoinReturn"}
    BY <2>1, FramesFacts
  <2>3. Replaces(g)
    BY <1>2, <1>4, <2>2, ContinueFacts
  <2> HIDE DEF g
  <2>4. TypeOK' /\ MutexInv'
    BY <1>3, <1>4, <2>3 DEF IInv, TypeOK, MutexInv, Replaces, schedVars, mutexVars, timerVars
  <2>5. /\ Head(stack[exec]).op \notin Special \cup Quiet \cup {"ExitReschedule"}
        /\ \A i \in DOMAIN g : g[i].op \notin Special
    BY <1>2, <2>2 DEF Special, Barrier, Quiet
  <2> QED  BY <1>3, <1>4, <2>3, <2>4, <2>5, StillStep DEF schedVars
<1>5. CASE /\ IF state[Arg] = "moribund" THEN Reap(Arg) ELSE UNCHANGED << state, listed >>
           /\ Return
  <2>1. detached' \in [Thread -> BOOLEAN]
    BY <1>3 DEF IInv, TypeOK
  <2> QED  BY <1>1, <1>2, <1>3, <1>5, <2>1, FramesFacts, ReapStep DEF Return
<1> QED  BY <1>4, <1>5 DEF OSJoinThread

LEMMA JoinReturnStep ==
  ASSUME IInv, JoinReturn
  PROVE  IInv'
<1>1. At({"JoinReturn"})
  BY DEF JoinReturn
<1>2. Arg \in Thread
  BY <1>1, TopFacts, ArgFacts DEF Arg
<1>3. detached' \in [Thread -> BOOLEAN]
  BY DEF JoinReturn, IInv, TypeOK
<1> QED  BY <1>1, <1>2, <1>3, FramesFacts, ReapStep DEF JoinReturn, Return

LEMMA OSDetachThreadStep ==
  ASSUME IInv, OSDetachThread
  PROVE  IInv'
<1>1. At({"OSDetachThread"})
  BY DEF OSDetachThread
<1>2. Arg \in Thread
  BY <1>1, TopFacts, ArgFacts DEF Arg, ThreadCall
<1>3. detached' \in [Thread -> BOOLEAN]
  BY <1>2 DEF OSDetachThread, IInv, TypeOK
<1> DEFINE g == << Call("OSWakeupThread", Arg) >>
<1>4. g \in Seq(Frame) /\ \A i \in DOMAIN g : g[i].op = "OSWakeupThread"
  BY <1>2, AddressFacts, FrameFacts, FramesFacts
<1>5. Continue(g)
  BY DEF OSDetachThread
<1> HIDE DEF g
<1> QED  BY <1>1, <1>2, <1>3, <1>4, <1>5, ReapStep DEF OSDetachThread

-----------------------------------------------------------------------------
(* Frames on top of a chain that stays as it is.                           *)

LEMMA OnTopFacts ==
  ASSUME NEW s \in Seq(Frame), NEW f \in Frame, NEW r, r = << f >> \o s
  PROVE  /\ r \in Seq(Frame) /\ r # << >> /\ Head(r) = f /\ Tail(r) = s
         /\ \A ops : Has(r, ops) <=> f.op \in ops \/ Has(s, ops)
<1>1. << f >> \in Seq(Frame) /\ Len(<< f >>) = 1 /\ << f >>[1] = f
  OBVIOUS
<1>2. /\ r \in Seq(Frame) /\ Len(r) = 1 + Len(s)
      /\ \A i \in 1 .. 1 + Len(s) : r[i] = IF i <= 1 THEN << f >>[i] ELSE s[i - 1]
  BY <1>1, ConcatProperties
<1>3. Len(s) \in Nat /\ DOMAIN s = 1 .. Len(s)
  OBVIOUS
<1>4. r # << >> /\ Head(r) = r[1] /\ r[1] = f
  BY <1>1, <1>2, <1>3
<1>5. Tail(r) = s
  <2>1. Tail(r) \in Seq(Frame) /\ Len(Tail(r)) = Len(s)
        /\ \A i \in 1 .. Len(s) : Tail(r)[i] = r[i + 1]
    BY <1>2, <1>3, <1>4, HeadTailProperties
  <2>2. \A i \in 1 .. Len(s) : r[i + 1] = s[i]
    BY <1>2, <1>3
  <2> QED  BY <1>3, <2>1, <2>2, SeqEqual
<1>6. \A ops : Has(r, ops) <=> f.op \in ops \/ Has(s, ops)
  <2>1. << >> \in Seq(Frame)
    OBVIOUS
  <2>2. \A ops : Has(r, ops) <=> Head(r).op \in ops \/ Has(Tail(r), ops)
    BY <1>2, <1>4, <2>1, HasReplace
  <2> QED  BY <1>4, <1>5, <2>2
<1> QED  BY <1>2, <1>4, <1>5, <1>6

LEMMA HeadTailConcat ==
  ASSUME NEW s \in Seq(Frame), s # << >>
  PROVE  s = << Head(s) >> \o Tail(s)
<1> DEFINE r == << Head(s) >> \o Tail(s)
<1>1. Tail(s) \in Seq(Frame) /\ Len(Tail(s)) = Len(s) - 1 /\ Len(s) \in Nat \ {0}
      /\ Head(s) \in Frame /\ \A i \in 1 .. Len(s) - 1 : Tail(s)[i] = s[i + 1]
  BY HeadTailProperties
<1>2. /\ r \in Seq(Frame) /\ Len(r) = Len(s)
      /\ \A i \in 1 .. Len(s) : r[i] = IF i <= 1 THEN Head(s) ELSE Tail(s)[i - 1]
  BY <1>1, ConcatProperties
<1>3. \A i \in 1 .. Len(s) : r[i] = s[i]
  BY <1>1, <1>2
<1> QED  BY <1>2, <1>3, SeqEqual

\* Quiet frames on top leave the shape of a chain alone.
LEMMA AboveFacts ==
  ASSUME NEW s \in Seq(Frame), NEW h \in Seq(Frame), NEW r, r = h \o s,
         \A i \in DOMAIN h : h[i].op \in Quiet
  PROVE  /\ r \in Seq(Frame)
         /\ \A ops : Has(r, ops) <=> Has(h, ops) \/ Has(s, ops)
         /\ Shaped(s) => Shaped(r)
         /\ \A request : Leaving(s, request) => Leaving(r, request)
<1> DEFINE f == Call("Reconcile", Null)
           v == << f >> \o s
<1>1. f \in Frame /\ f.op = "Reconcile"
  BY FrameFacts, FramesFacts
<1> HIDE DEF f
<1>2. /\ v \in Seq(Frame) /\ v # << >> /\ Head(v) = f /\ Tail(v) = s
      /\ \A ops : Has(v, ops) <=> f.op \in ops \/ Has(s, ops)
  BY <1>1, OnTopFacts
<1>3. Shaped(s) => Shaped(v)
  <2>1. << f >> \in Seq(Frame) /\ Len(<< f >>) = 1 /\ << f >>[1] = f
    BY <1>1
  <2>2. /\ DOMAIN v = 1 .. 1 + Len(s) /\ DOMAIN s = 1 .. Len(s) /\ Len(s) \in Nat
        /\ v[1] = f /\ \A i \in 2 .. 1 + Len(s) : v[i] = s[i - 1]
    BY <2>1, ConcatProperties
  <2>3. SUFFICES ASSUME Shaped(s), NEW i \in DOMAIN v, NEW j \in DOMAIN v,
                        i < j, v[j].op \in Barrier
                 PROVE  \/ v[i].op \in Quiet
                        \/ v[i].op \in {"Callback", "IdleCallback"} /\ v[j].op = "IdleLoop"
    BY DEF Shaped
  <2>4. CASE i = 1
    <3>1. v[i].op = "Reconcile"
      BY <1>1, <2>2, <2>4
    <3> QED  BY <3>1 DEF Quiet
  <2>5. CASE i # 1
    <3>1. i - 1 \in DOMAIN s /\ j - 1 \in DOMAIN s /\ i - 1 < j - 1
          /\ v[i] = s[i - 1] /\ v[j] = s[j - 1]
      BY <2>2, <2>3, <2>5
    <3> QED  BY <2>3, <3>1 DEF Shaped
  <2> QED  BY <2>4, <2>5
<1> HIDE DEF v
<1>4. r = h \o Tail(v)
  BY <1>2
<1>5. r \in Seq(Frame)
  BY <1>2, <1>4, ReplaceFacts
<1>6. \A ops : Has(r, ops) <=> Has(h, ops) \/ Has(s, ops)
  <2>1. \A ops : Has(h \o Tail(v), ops) <=> Has(h, ops) \/ Has(Tail(v), ops)
    BY <1>2, HasReplace
  <2>2. h \o Tail(v) = r /\ Tail(v) = s
    BY <1>2, <1>4
  <2> QED  BY <2>1, <2>2
<1>7. Shaped(s) => Shaped(r)
  <2>1. ~ Has(h, Barrier)
    BY DEF Has, Barrier, Quiet
  <2> QED  BY <1>2, <1>3, <1>4, <2>1, ShapedReplace
<1>8. \A request : Leaving(s, request) => Leaving(r, request)
  <2>1. SUFFICES ASSUME NEW request, Leaving(s, request)
                 PROVE  Leaving(r, request)
    OBVIOUS
  <2>2. Leaving(Tail(v), request)
    BY <1>2, <2>1
  <2>3. Leaving(h \o Tail(v), request)
    BY <1>2, <2>2, LeavingReplace
  <2> QED  BY <1>4, <2>3
<1> QED  BY <1>5, <1>6, <1>7, <1>8

\* Whoever executes inside the idle loop has left.
LEMMA IdleLeaves ==
  ASSUME NEW s \in Seq(Frame), Shaped(s), Has(s, {"IdleLoop"}), NEW request
  PROVE  Leaving(s, request)
<1>1. PICK j \in DOMAIN s : s[j].op = "IdleLoop"
  BY DEF Has
<1>2. Leaves(s[j], request)
  BY <1>1 DEF Leaves
<1>3. \A i \in DOMAIN s : i < j => s[i].op \in Quiet \cup {"Callback", "IdleCallback"}
  BY <1>1 DEF Shaped, Barrier
<1> QED  BY <1>2, <1>3 DEF Leaving

-----------------------------------------------------------------------------
(* SelectThread.                                                           *)

LEMMA PumpStep ==
  ASSUME IInv, stack[exec] # << >>, NEW f \in Frame, Pump(f)
  PROVE  \E s \in Seq(Thread) :
           LET g == Each("SleepTimerDue", s) \o << Call("Reconcile", Null), f >>
           IN  /\ Continue(g) /\ Replaces(g) /\ timers' \in SUBSET Thread
               /\ \A i \in DOMAIN g : g[i].op \in Quiet \/ g[i] = f
               /\ \A request : Leaves(f, request) => Leaving(g, request)
<1>1. stack \in [Thread -> Seq(Frame)] /\ exec \in Thread /\ timers \in SUBSET Thread
  BY DEF IInv, TypeOK
<1> DEFINE S == IF Deep THEN {} ELSE timers
<1>2. S \in SUBSET Thread /\ IsFiniteSet(Thread)
  BY <1>1, ConstantTypes DEF ConstantTypes
<1>3. PICK due \in Orderings(S) :
        /\ timers' = timers \ ToSet(due)
        /\ Continue(Each("SleepTimerDue", due) \o << Call("Reconcile", Null), f >>)
  BY DEF Pump
<1> HIDE DEF S
<1>4. due \in Seq(Thread)
  BY <1>2, OrderingFacts
<1> DEFINE g == Each("SleepTimerDue", due) \o << Call("Reconcile", Null), f >>
<1>5. /\ g \in Seq(Frame)
      /\ \A i \in DOMAIN g : g[i].op \in Quiet \/ g[i] = f
      /\ \A request : Leaves(f, request) => Leaving(g, request)
  BY <1>4, PumpFacts
<1>6. Replaces(g)
  BY <1>1, <1>3, <1>5, ContinueFacts
<1> QED  BY <1>1, <1>3, <1>4, <1>5, <1>6

LEMMA SelectThreadStep ==
  ASSUME IInv, SelectThread
  PROVE  IInv'
<1>1. At({"SelectThread", "OSYieldThread"})
  BY DEF SelectThread
<1>2. /\ stack \in [Thread -> Seq(Frame)] /\ exec \in Thread /\ stack[exec] # << >>
      /\ Head(stack[exec]).op \in {"SelectThread", "OSYieldThread"}
  BY <1>1, TopFacts
<1> DEFINE f == Call(IF At({"SelectThread"}) THEN "Select" ELSE "SelectForced", Null)
<1>3. f \in Frame /\ f.op \in {"Select", "SelectForced"}
  BY FrameFacts, FramesFacts
<1>4. Head(stack[exec]).op = "SelectThread" =>
        f.op \in Quiet /\ \A request : Leaves(f, request)
  BY <1>2, LeavesFacts, FramesFacts DEF At, Quiet
<1>5. /\ UNCHANGED << threadVars, lifeVars, links, resched, schedVars, mutexVars,
                      outstanding, firstSeen, exec >>
      /\ Pump(f)
  BY DEF SelectThread
<1> HIDE DEF f
<1>6. PICK s \in Seq(Thread) :
        LET g == Each("SleepTimerDue", s) \o << Call("Reconcile", Null), f >>
        IN  /\ Continue(g) /\ Replaces(g) /\ timers' \in SUBSET Thread
            /\ \A i \in DOMAIN g : g[i].op \in Quiet \/ g[i] = f
            /\ \A request : Leaves(f, request) => Leaving(g, request)
  BY <1>2, <1>3, <1>5, PumpStep
<1> DEFINE g == Each("SleepTimerDue", s) \o << Call("Reconcile", Null), f >>
<1>7. /\ Replaces(g) /\ timers' \in SUBSET Thread
      /\ \A i \in DOMAIN g : g[i].op \in Quiet \/ g[i] = f
      /\ \A request : Leaves(f, request) => Leaving(g, request)
  BY <1>6
<1> HIDE DEF g
<1>8. TypeOK' /\ MutexInv'
  BY <1>5, <1>7
  DEF IInv, TypeOK, MutexInv, Replaces, threadVars, lifeVars, schedVars, mutexVars
<1>9. /\ Head(stack[exec]).op \notin Special
      /\ \A i \in DOMAIN g : g[i].op \notin Special
      /\ Head(stack[exec]).op \in Quiet => \A i \in DOMAIN g : g[i].op \in Quiet
      /\ Head(stack[exec]).op \in Quiet => Leaving(g, resched')
      /\ Head(stack[exec]).op # "ExitReschedule"
  BY <1>2, <1>3, <1>4, <1>7 DEF Special, Barrier, Quiet
<1> QED  BY <1>5, <1>7, <1>8, <1>9, StillStep DEF threadVars, schedVars

LEMMA RescheduleStep ==
  ASSUME IInv, Reschedule
  PROVE  IInv'
<1>1. At({"Reschedule"})
  BY DEF Reschedule
<1>2. /\ stack \in [Thread -> Seq(Frame)] /\ exec \in Thread /\ stack[exec] # << >>
      /\ Head(stack[exec]).op = "Reschedule"
  BY <1>1, TopFacts
<1> DEFINE g == IF resched THEN << Call("SelectThread", Null) >> ELSE << >>
<1>3. /\ Continue(g)
      /\ UNCHANGED << threadVars, lifeVars, links, resched, schedVars, mutexVars, timerVars,
                      exec >>
  BY DEF Reschedule
<1>4. g \in Seq(Frame) /\ \A i \in DOMAIN g : g[i].op = "SelectThread"
  <2>1. Call("SelectThread", Null) \in Frame
    BY FrameFacts
  <2> QED  BY <2>1, FramesFacts
<1>5. resched => Leaving(g, resched)
  <2>1. \A request : Leaves(Call("SelectThread", Null), request)
    BY LeavesFacts
  <2> QED  BY <2>1, LeavingFrames
<1> HIDE DEF g
<1>6. Replaces(g)
  BY <1>2, <1>3, <1>4, ContinueFacts
<1>7. TypeOK' /\ MutexInv'
  BY <1>3, <1>6
  DEF IInv, TypeOK, MutexInv, Replaces, threadVars, lifeVars, schedVars, mutexVars, timerVars
<1>8. /\ Head(stack[exec]).op \notin Special
      /\ ~ resched => ~ Leaves(Head(stack[exec]), resched)
      /\ \A i \in DOMAIN g : g[i].op \notin Special /\ g[i].op \in Quiet
  BY <1>2, <1>4 DEF Special, Barrier, Quiet, Leaves
<1> QED  BY <1>3, <1>5, <1>6, <1>7, <1>8, StillStep DEF threadVars, schedVars

\* Where the executing fiber is when it comes to decide whether to switch.
LEMMA SelectPlace ==
  ASSUME IInv, At({"Select", "SelectForced"})
  PROVE  /\ Shaped(Tail(stack[exec])) /\ Tail(stack[exec]) \in Seq(Frame)
         /\ \A ops : Has(stack[exec], ops) <=>
              Head(stack[exec]).op \in ops \/ Has(Tail(stack[exec]), ops)
         /\ ~ Has(Tail(stack[exec]), {"Dispatch", "OSCreateThread"})
         /\ Has(Tail(stack[exec]), {"IdleLoop"}) => running = Null
         /\ ~ Has(Tail(stack[exec]), {"IdleLoop"}) => running = exec /\ current = exec
         /\ disable = IF Has(Tail(stack[exec]), {"Callback"}) THEN 1 ELSE 0
<1> DEFINE s == stack[exec]
<1>1. s \in Seq(Frame) /\ s # << >> /\ Head(s).op \in {"Select", "SelectForced"}
  BY TopFacts
<1>2. << >> \in Seq(Frame)
  OBVIOUS
<1>3. \A ops : Has(s, ops) <=> Head(s).op \in ops \/ Has(Tail(s), ops)
  BY <1>1, <1>2, HasReplace
<1>4. Shaped(Tail(s)) /\ Tail(s) \in Seq(Frame)
  BY <1>1, ShapedBelow, HeadTailProperties DEF IInv, ControlInv, BarrierShape
<1>5. ~ Has(Tail(s), {"Dispatch", "OSCreateThread"})
  BY <1>1 DEF IInv, ControlInv, FirstOnly
<1>6. \A ops : ops \subseteq {"IdleLoop", "Callback", "Dispatch"} =>
        (Has(s, ops) <=> Has(Tail(s), ops))
  BY <1>1, <1>3
<1>7. Has(s, {"IdleLoop", "Dispatch"}) => Has(Tail(s), {"IdleLoop"})
  BY <1>5, <1>6 DEF Has
<1>8. Has(Tail(s), {"IdleLoop"}) => Has(s, {"IdleLoop"})
  BY <1>6
<1> QED  BY <1>3, <1>4, <1>5, <1>6, <1>7, <1>8
         DEF IInv, ControlInv, IdleRunsNobody, OpenRunsItself, DisableCounts

LEMMA SelectReturnsStep ==
  ASSUME IInv, SelectReturns
  PROVE  IInv'
<1>1. At({"Select", "SelectForced"})
  BY DEF SelectReturns
<1>2. /\ stack \in [Thread -> Seq(Frame)] /\ exec \in Thread /\ stack[exec] # << >>
      /\ Head(stack[exec]).op \in {"Select", "SelectForced"}
  BY <1>1, TopFacts
<1>3. /\ Return /\ (SelectRefused \/ KeepsRunning)
      /\ UNCHANGED << threadVars, lifeVars, links, resched, schedVars, mutexVars, timerVars,
                      exec >>
  BY DEF SelectReturns
<1> DEFINE t == Tail(stack[exec])
<1>4. Replaces(<< >>) /\ << >> \in Seq(Frame)
  BY <1>2, <1>3, FramesFacts, ContinueFacts DEF Return
<1>5. TypeOK' /\ MutexInv'
  BY <1>3, <1>4
  DEF IInv, TypeOK, MutexInv, Replaces, threadVars, lifeVars, schedVars, mutexVars, timerVars
<1>6. QueueInv'
  BY <1>3, NothingMoves DEF IInv, threadVars
<1>7. stack'[exec] = t
  <2>1. t \in Seq(Frame)
    BY <1>1, SelectPlace
  <2>2. << >> \o t = t
    BY <2>1
  <2> QED  BY <1>4, <2>2 DEF Replaces
<1>8. /\ OthersOpen' /\ BarrierShape' /\ FirstOnly' /\ DispatchNext' /\ CreateNext'
      /\ NoReturns' /\ DisableCounts' /\ IdleCallbackIdles' /\ IdleRunsNobody'
      /\ OpenRunsItself'
  <2>1. UNCHANGED << exec, disable, running, current >> /\ ControlInv
    BY <1>3 DEF IInv, schedVars
  <2>2. Head(stack[exec]).op \notin Special \ {"OSCreateThread"}
    BY <1>2 DEF Special, Barrier
  <2> QED  BY <1>2, <1>4, <2>1, <2>2, FramesFacts, CalmStep
<1>9. DeadEmpty'
  BY <1>3, <1>4 DEF IInv, ControlInv, DeadEmpty, Dead, Replaces, threadVars
<1>10. state'[exec] = state[exec]
  BY <1>3 DEF threadVars
<1>11. CallbackRuns' /\ IdleNotRunning'
  <2>1. /\ Has(t, {"Callback"}) => Has(stack[exec], {"Callback"})
        /\ Has(t, {"IdleLoop"}) <=> Has(stack[exec], {"IdleLoop"})
    BY <1>1, <1>2, SelectPlace
  <2> QED  BY <1>3, <1>7, <1>10, <2>1
           DEF IInv, ControlInv, CallbackRuns, IdleNotRunning, Has
<1>12. NotRunningLeaves'
  <2>1. SUFFICES ASSUME state[exec] # "running"
                 PROVE  Leaving(t, resched')
    BY <1>3, <1>7, <1>10 DEF NotRunningLeaves, Leaving, Leaves
  <2>2. CASE Has(t, {"IdleLoop"})
    BY <1>1, <2>2, SelectPlace, IdleLeaves
  <2>3. CASE ~ Has(t, {"IdleLoop"})
    <3>1. running = exec /\ current = exec /\ running # Null
      BY <1>1, <1>2, <2>3, SelectPlace, AddressFacts
    <3>2. disable # 0
      BY <1>3, <2>1, <3>1 DEF SelectRefused, KeepsRunning
    <3>3. Has(t, {"Callback"})
      BY <1>1, <3>2, SelectPlace
    <3>4. Has(stack[exec], {"Callback"}) /\ ~ Has(stack[exec], {"IdleLoop"})
      BY <1>1, <1>2, <2>3, <3>3, SelectPlace
    <3> QED  BY <2>1, <3>4 DEF IInv, ControlInv, CallbackRuns
  <2> QED  BY <2>2, <2>3
<1> QED  BY <1>5, <1>6, <1>8, <1>9, <1>11, <1>12 DEF IInv, ControlInv

\* The place of a fiber that leaves: nothing bars it.
LEMMA LeavePlace ==
  ASSUME IInv, At({"Select", "SelectForced"}), ~ SelectRefused
  PROVE  /\ running = exec /\ disable = 0
         /\ ~ Has(Tail(stack[exec]), Barrier)
<1> DEFINE t == Tail(stack[exec])
<1>1. running # Null /\ disable = 0
  BY DEF SelectRefused
<1>2. ~ Has(t, {"IdleLoop"}) /\ ~ Has(t, {"Callback"}) /\ running = exec
  BY <1>1, SelectPlace
<1>3. ~ Has(t, {"IdleCallback"})
  <2>1. Head(stack[exec]).op \in {"Select", "SelectForced"}
    BY TopFacts
  <2>2. Has(t, {"IdleCallback"}) => Has(stack[exec], {"IdleCallback"})
    BY SelectPlace
  <2>3. Has(stack[exec], {"IdleLoop"}) => Has(t, {"IdleLoop"})
    BY <2>1, SelectPlace
  <2> QED  BY <1>2, <2>2, <2>3 DEF IInv, ControlInv, IdleCallbackIdles
<1> QED  BY <1>1, <1>2, <1>3 DEF Has, Barrier

LEMMA SelectLeavesStep ==
  ASSUME IInv, SelectLeaves
  PROVE  IInv'
<1>1. At({"Select", "SelectForced"}) /\ ~ SelectRefused
  BY DEF SelectLeaves
<1>2. /\ stack \in [Thread -> Seq(Frame)] /\ exec \in Thread /\ stack[exec] # << >>
      /\ Head(stack[exec]).op \in {"Select", "SelectForced"}
      /\ WellFormed(links, QueueId, Thread)
  BY <1>1, TopFacts
<1>3. running = exec /\ disable = 0 /\ ~ Has(Tail(stack[exec]), Barrier)
  BY <1>1, LeavePlace
<1> DEFINE t == Tail(stack[exec])
           preempted == state[exec] = "running"
           idle == links'.pending = {}
           f == IF idle THEN Call("IdleLoop", Null) ELSE Call("Dispatch", Null)
<1>4. /\ links' = IF preempted THEN LinkOnRunQueue(links, exec, prio[exec]) ELSE links
      /\ state' = IF preempted THEN [state EXCEPT ![exec] = "ready"] ELSE state
      /\ resched' = (preempted \/ resched)
      /\ UNCHANGED << suspend, prio, lifeVars, disable, mutexVars, timerVars, exec >>
  BY <1>3 DEF SelectLeaves
<1>5. /\ running' = (IF idle THEN Null ELSE running)
      /\ current' = (IF idle THEN IdleContext ELSE current)
      /\ Continue(<< f >>)
  <2>1. CASE idle
    BY <2>1 DEF SelectLeaves
  <2>2. CASE ~ idle
    BY <2>2 DEF SelectLeaves
  <2> QED  BY <2>1, <2>2
<1>6. f \in Frame /\ f.op = (IF idle THEN "IdleLoop" ELSE "Dispatch")
  BY FrameFacts, FramesFacts
<1> HIDE DEF idle, f
<1>7. /\ state \in [Thread -> {"none", "ready", "running", "waiting", "moribund"}]
      /\ Placed(exec) /\ resched \in BOOLEAN
  BY <1>2 DEF IInv, TypeOK, QueueInv
<1>8. /\ state' \in [Thread -> {"none", "ready", "running", "waiting", "moribund"}]
      /\ state'[exec] = (IF preempted THEN "ready" ELSE state[exec])
      /\ state'[exec] # "running"
      /\ \A u \in Thread \ {exec} : state'[u] = state[u]
  BY <1>2, <1>4, <1>7
<1>9. QueueInv' /\ WellFormed(links', QueueId, Thread)
  <2>1. CASE preempted
    <3>1. prio[exec] \in Priority /\ suspend[exec] = 0
      BY <1>7, <2>1 DEF Placed, Dead
    <3>2. \A q \in QueueId : exec \notin In(links, q)
      BY <1>2, <2>1, NotLinked DEF IInv, OnRunQueue
    <3>3. /\ WellFormed(links', QueueId, Thread)
          /\ Added(links', links, prio[exec], exec, QueueId)
      <4>1. links' = LinkOnRunQueue(links, exec, prio[exec])
        BY <1>4, <2>1
      <4> QED  BY <1>2, <3>1, <3>2, <4>1, AddressFacts, LinkOnRunQueueFacts
    <3>4. links.at \in [Thread -> QueueId \cup {Null}]
      BY <1>2 DEF WellFormed
    <3>5. \A q \in QueueId : exec \in In(links', q) <=> q = prio[exec]
      BY <3>1, <3>2, <3>3, AddressFacts DEF Added
    <3>6. Placed(exec)'
      BY <1>2, <1>4, <1>8, <2>1, <3>1, <3>5, AddressFacts
      DEF Placed, In, Members, OnRunQueue, Dead
    <3>7. \A u \in Thread \ {exec} :
            /\ \A q \in QueueId : u \in In(links', q) <=> u \in In(links, q)
            /\ links'.at[u] = links.at[u]
      BY <3>3, <3>4 DEF Added
    <3> QED  BY <1>2, <1>4, <1>8, <3>3, <3>6, <3>7, AddressFacts, OneThreadMoves DEF IInv
  <2>2. CASE ~ preempted
    <3>1. links' = links /\ state' = state
      BY <1>4, <2>2
    <3> QED  BY <1>2, <1>4, <3>1, NothingMoves DEF IInv
  <2> QED  BY <2>1, <2>2
<1>10. /\ t \in Seq(Frame) /\ ~ Has(t, {"Dispatch", "OSCreateThread"})
  BY <1>1, SelectPlace
<1>11. /\ stack' \in [Thread -> Seq(Frame)] /\ stack'[exec] = << f >> \o t
       /\ \A u \in Thread \ {exec} : stack'[u] = stack[u]
  BY <1>2, <1>5, <1>6, FramesFacts, ContinueFacts DEF Replaces
<1> DEFINE r == << f >> \o t
<1>12. /\ Head(r) = f /\ Tail(r) = t /\ r # << >>
       /\ \A ops : Has(r, ops) <=> f.op \in ops \/ Has(t, ops)
  <2> HIDE DEF t
  <2> QED  BY <1>6, <1>10, OnTopFacts
<1>13. \A ops : ops \subseteq Barrier => ~ Has(t, ops)
  BY <1>3 DEF Has
<1>14. TypeOK' /\ MutexInv'
  <2>1. running' \in Thread \cup {Null} /\ current' \in Thread \cup {Null, IdleContext}
    BY <1>5 DEF IInv, TypeOK
  <2>2. resched' \in BOOLEAN
    BY <1>4, <1>7
  <2> QED  BY <1>4, <1>8, <1>9, <1>11, <2>1, <2>2, WellFormedLinks
           DEF IInv, TypeOK, MutexInv, lifeVars, mutexVars, timerVars
<1>15. BarrierShape'
  <2>1. Shaped(r)
    <3>1. << f >> \in Seq(Frame) /\ Len(<< f >>) = 1
      BY <1>6
    <3>2. /\ DOMAIN r = 1 .. 1 + Len(t) /\ DOMAIN t = 1 .. Len(t) /\ Len(t) \in Nat
          /\ \A i \in 2 .. 1 + Len(t) : r[i] = t[i - 1]
      BY <1>10, <3>1, ConcatProperties
    <3>3. \A i \in 2 .. 1 + Len(t) : r[i].op \notin Barrier
      <4>1. \A i \in DOMAIN t : t[i].op \notin Barrier
        BY <1>3 DEF Has
      <4>2. \A i \in 2 .. 1 + Len(t) : i - 1 \in DOMAIN t
        BY <3>2
      <4> QED  BY <3>2, <4>1, <4>2
    <3> QED  BY <3>2, <3>3 DEF Shaped
  <2> QED  BY <1>4, <1>11, <2>1 DEF BarrierShape, Shaped
<1> HIDE DEF r
<1>16. stack'[exec'] = r /\ exec' = exec
  BY <1>4, <1>11 DEF r
<1>17. \A u \in Thread \ {exec} : Dead(u)' <=> Dead(u)
  BY <1>8 DEF Dead
<1>18. OthersOpen' /\ DeadEmpty' /\ NoReturns'
  <2>1. ~ Has(r, {"ThreadReturns", "WakeNoSwitch", "LeaveFiber"})
    <3>1. ~ Has(stack[exec], {"ThreadReturns", "WakeNoSwitch", "LeaveFiber"})
      BY <1>2 DEF IInv, ControlInv, NoReturns
    <3>2. ~ Has(t, {"ThreadReturns", "WakeNoSwitch", "LeaveFiber"})
      BY <1>1, <3>1, SelectPlace
    <3> QED  BY <1>6, <1>12, <3>2
  <2>2. NoReturns'
    BY <1>2, <1>11, <1>16, <2>1 DEF IInv, ControlInv, NoReturns, Has
  <2> QED  BY <1>11, <1>16, <1>17, <2>2
           DEF IInv, ControlInv, OthersOpen, DeadEmpty, Has
<1>19. FirstOnly' /\ CreateNext'
  <2>1. FirstOnly'
    BY <1>10, <1>12, <1>16 DEF FirstOnly, Has
  <2>2. CreateNext'
    BY <1>6, <1>12, <1>16 DEF CreateNext, At
  <2> QED  BY <2>1, <2>2
<1>20. DispatchNext'
  <2>1. At({"Dispatch"})' => ~ idle /\ f.op = "Dispatch"
    BY <1>6, <1>12, <1>16 DEF At
  <2>2. f.op = "Dispatch" => ~ Has(r, Barrier)
    BY <1>3, <1>12 DEF Barrier
  <2> QED  BY <1>8, <1>16, <2>1, <2>2 DEF DispatchNext, Has, idle
<1>21. DisableCounts' /\ IdleCallbackIdles' /\ CallbackRuns'
  <2>1. ~ Has(r, {"Callback"}) /\ ~ Has(r, {"IdleCallback"})
    BY <1>6, <1>12, <1>13 DEF Barrier
  <2> QED  BY <1>3, <1>4, <1>16, <2>1 DEF DisableCounts, IdleCallbackIdles, CallbackRuns, Has
<1>22. IdleRunsNobody' /\ IdleNotRunning' /\ OpenRunsItself'
  <2>1. Has(r, {"IdleLoop"}) => running' = Null
    BY <1>5, <1>6, <1>12, <1>13 DEF Barrier
  <2>2. Has(r, {"IdleLoop", "Dispatch"})
    BY <1>6, <1>12
  <2> QED  BY <1>8, <1>16, <2>1, <2>2 DEF IdleRunsNobody, IdleNotRunning, OpenRunsItself, Has
<1>23. NotRunningLeaves'
  <2>1. Leaves(f, resched')
    BY <1>6 DEF Leaves
  <2>2. Leaving(<< f >>, resched') /\ << f >> \in Seq(Frame)
    BY <1>6, <2>1, LeavingFrames
  <2>3. Leaving(<< f >> \o Tail(stack[exec]), resched')
    BY <1>2, <2>2, LeavingReplace
  <2> QED  BY <1>16, <2>3 DEF NotRunningLeaves, Leaving, Leaves, r
<1> QED  BY <1>9, <1>14, <1>15, <1>18, <1>19, <1>20, <1>21, <1>22, <1>23 DEF IInv, ControlInv

LEMMA DispatchStep ==
  ASSUME IInv, Dispatch
  PROVE  IInv'
<1>1. At({"Dispatch"})
  BY DEF Dispatch
<1>2. /\ stack \in [Thread -> Seq(Frame)] /\ exec \in Thread /\ stack[exec] # << >>
      /\ Head(stack[exec]).op = "Dispatch"
      /\ WellFormed(links, QueueId, Thread)
  BY <1>1, TopFacts
<1>3. ~ Has(stack[exec], Barrier) /\ links.pending # {} /\ state[exec] # "running"
  BY <1>1 DEF IInv, ControlInv, DispatchNext
<1>4. PICK p \in Priority :
        /\ p = CHOOSE q \in links.pending : \A r \in links.pending : q <= r
        /\ links.queue[p] # << >>
  <2> DEFINE p == CHOOSE q \in links.pending : \A r \in links.pending : q <= r
  <2>1. links.pending \in SUBSET Nat
    BY <1>2, PriorityFacts DEF WellFormed
  <2>2. p \in links.pending
    BY <1>3, <2>1, LeastElement
  <2> QED  BY <1>2, <2>2 DEF WellFormed
<1>5. PICK h \in Thread : h = Head(links.queue[p]) /\ h \in In(links, p)
  <2>1. p \in QueueId /\ links.queue[p] \in Seq(Thread) /\ links.queue[p] # << >>
    BY <1>2, <1>4, AddressFacts DEF WellFormed
  <2>2. Head(links.queue[p]) \in Thread /\ Head(links.queue[p]) \in In(links, p)
    BY <2>1, HeadInToSet DEF In
  <2> QED  BY <2>2
<1> DEFINE popped == UpdatePending(PopHead(links, p), p)
<1>6. Placed(h) /\ state[h] = "ready" /\ suspend[h] = 0 /\ prio[h] = p
  BY <1>4, <1>5 DEF IInv, QueueInv, Placed, In, Members
<1>7. /\ links' = ClearPointer(popped, h)
      /\ state' = [state EXCEPT ![h] = "running"]
      /\ running' = h /\ current' = h /\ exec' = h
      /\ stack' = [stack EXCEPT ![exec] = IF Dead(exec) THEN << >> ELSE Tail(@)]
      /\ resched' = FALSE
      /\ UNCHANGED << suspend, prio, lifeVars, disable, mutexVars, timerVars >>
  BY <1>3, <1>4, <1>5, <1>6 DEF Dispatch, Dead
<1>8. /\ WellFormed(links', QueueId, Thread)
      /\ Removed(links', links, h, QueueId)
      /\ links'.at = [links.at EXCEPT ![h] = Null]
  <2>1. Priority \subseteq QueueId
    BY AddressFacts
  <2>2. WellFormed(links, QueueId, Thread) /\ links.queue[p] # << >>
    BY <1>2, <1>4
  <2>3. h = Head(links.queue[p])
    BY <1>5
  <2>4. links' = ClearPointer(UpdatePending(PopHead(links, p), p), h)
    BY <1>7
  <2> QED  BY <2>1, <2>2, <2>3, <2>4, DispatchFacts
<1> HIDE DEF popped
<1>9. /\ state \in [Thread -> {"none", "ready", "running", "waiting", "moribund"}]
      /\ links.at \in [Thread -> QueueId \cup {Null}]
  BY <1>2 DEF IInv, TypeOK, WellFormed
<1>10. /\ state' \in [Thread -> {"none", "ready", "running", "waiting", "moribund"}]
       /\ state'[h] = "running"
       /\ \A u \in Thread \ {h} : state'[u] = state[u]
  BY <1>5, <1>7, <1>9
<1>11. QueueInv'
  <2>1. Placed(h)'
    <3>1. \A q \in QueueId : h \notin In(links', q)
      BY <1>8 DEF Removed
    <3> QED  BY <1>4, <1>6, <1>7, <1>10, <3>1, AddressFacts
             DEF Placed, In, Members, OnRunQueue, Dead
  <2>2. ASSUME NEW u \in Thread \ {h}
        PROVE  Placed(u)'
    <3>1. Placed(u) /\ state[u] # "running"
      BY <1>3 DEF IInv, QueueInv, Placed
    <3>2. \A q \in QueueId : u \in Members(q)' <=> u \in Members(q)
      BY <1>8 DEF Removed, In, Members
    <3>3. /\ links'.at[u] = links.at[u] /\ state'[u] = state[u]
          /\ suspend'[u] = suspend[u] /\ prio'[u] = prio[u]
      BY <1>7, <1>8, <1>9, <1>10
    <3> QED  BY <3>1, <3>2, <3>3, AddressFacts DEF Placed, OnRunQueue, Dead
  <2>3. \A u \in Thread : Placed(u)'
    BY <2>1, <2>2
  <2> QED  BY <1>8, <2>3, WellFormedLinks DEF QueueInv
<1>12. /\ Tail(stack[exec]) \in Seq(Frame)
       /\ \A ops : Has(stack[exec], ops) <=>
            Head(stack[exec]).op \in ops \/ Has(Tail(stack[exec]), ops)
  <2>1. << >> \in Seq(Frame) /\ stack[exec] \in Seq(Frame)
    BY <1>2
  <2> QED  BY <1>2, <2>1, HasReplace, HeadTailProperties
<1>13. /\ stack' \in [Thread -> Seq(Frame)]
       /\ stack'[exec] = IF Dead(exec) THEN << >> ELSE Tail(stack[exec])
       /\ \A u \in Thread \ {exec} : stack'[u] = stack[u]
  BY <1>2, <1>7, <1>12
<1> DEFINE Closed == Barrier \cup {"Dispatch", "OSCreateThread"}
           Left == {"ThreadReturns", "WakeNoSwitch", "LeaveFiber"}
<1>14. TypeOK' /\ MutexInv'
  BY <1>5, <1>7, <1>8, <1>10, <1>13, WellFormedLinks
  DEF IInv, TypeOK, MutexInv, lifeVars, mutexVars, timerVars
<1>15. \A u \in Thread : ~ Has(stack'[u], Closed) /\ ~ Has(stack'[u], Left)
  <2>1. ~ Has(Tail(stack[exec]), {"Dispatch", "OSCreateThread"})
    BY <1>2 DEF IInv, ControlInv, FirstOnly
  <2>2. ~ Has(Tail(stack[exec]), Barrier) /\ ~ Has(Tail(stack[exec]), Left)
    BY <1>2, <1>3, <1>12 DEF IInv, ControlInv, NoReturns
  <2>3. ~ Has(Tail(stack[exec]), Closed)
    BY <2>1, <2>2 DEF Has
  <2>4. ~ Has(<< >>, Closed) /\ ~ Has(<< >>, Left)
    BY DEF Has
  <2>5. \A u \in Thread \ {exec} : ~ Has(stack[u], Closed) /\ ~ Has(stack[u], Left)
    BY DEF IInv, ControlInv, OthersOpen, NoReturns
  <2> QED  BY <1>13, <2>2, <2>3, <2>4, <2>5
<1>16. DeadEmpty'
  <2>1. SUFFICES ASSUME NEW u \in Thread \ {h}, Dead(u)'
                 PROVE  stack'[u] = << >>
    BY <1>7 DEF DeadEmpty
  <2>2. Dead(u)
    BY <1>10, <2>1 DEF Dead
  <2> QED  BY <1>13, <2>2 DEF IInv, ControlInv, DeadEmpty
<1> DEFINE r == stack'[h]
<1>17. /\ stack'[exec'] = r /\ r \in Seq(Frame)
       /\ \A ops : ops \subseteq Closed \/ ops \subseteq Left => ~ Has(r, ops)
  BY <1>5, <1>7, <1>13, <1>15 DEF Has
<1>18. r # << >> => Head(r).op \notin Closed /\ ~ Has(Tail(r), {"Dispatch", "OSCreateThread"})
  <2>1. SUFFICES ASSUME r # << >>
                 PROVE  Head(r).op \notin Closed /\ ~ Has(Tail(r), {"Dispatch", "OSCreateThread"})
    OBVIOUS
  <2>2. << >> \in Seq(Frame)
    OBVIOUS
  <2>3. \A ops : Has(r, ops) <=> Head(r).op \in ops \/ Has(Tail(r), ops)
    BY <1>17, <2>1, <2>2, HasReplace
  <2>4. ~ Has(r, Closed) /\ ~ Has(r, {"Dispatch", "OSCreateThread"})
    BY <1>17
  <2> QED  BY <2>3, <2>4
<1> HIDE DEF r
<1>19. BarrierShape' /\ FirstOnly' /\ DispatchNext' /\ CreateNext'
  <2>1. BarrierShape'
    BY <1>17 DEF BarrierShape, Shaped, Has
  <2>2. FirstOnly'
    BY <1>17, <1>18 DEF FirstOnly, Has
  <2>3. DispatchNext' /\ CreateNext'
    BY <1>17, <1>18 DEF DispatchNext, CreateNext, At
  <2> QED  BY <2>1, <2>2, <2>3
<1>20. OthersOpen' /\ NoReturns'
  BY <1>15 DEF OthersOpen, NoReturns, Has
<1>21. DisableCounts'
  <2>1. disable = 0
    BY <1>3 DEF IInv, ControlInv, DisableCounts, Has, Barrier
  <2>2. ~ Has(r, {"Callback"})
    BY <1>17 DEF Barrier
  <2> QED  BY <1>7, <1>17, <2>1, <2>2 DEF DisableCounts, Has
<1>22. ~ Has(r, {"IdleLoop"}) /\ ~ Has(r, {"IdleCallback"})
  BY <1>17 DEF Barrier
<1>23. /\ IdleCallbackIdles' /\ IdleRunsNobody' /\ IdleNotRunning' /\ OpenRunsItself'
       /\ NotRunningLeaves' /\ CallbackRuns'
  BY <1>7, <1>10, <1>17, <1>22
  DEF IdleCallbackIdles, IdleRunsNobody, IdleNotRunning, OpenRunsItself, NotRunningLeaves,
      CallbackRuns, Has
<1> QED  BY <1>11, <1>14, <1>16, <1>19, <1>20, <1>21, <1>23 DEF IInv, ControlInv

-----------------------------------------------------------------------------
(* OSWakeupThread.                                                         *)

LEMMA OSWakeupThreadStep ==
  ASSUME IInv, OSWakeupThread
  PROVE  IInv'
<1>1. At({"OSWakeupThread", "WakeupLinked"}) /\ links.queue[Arg] # << >>
  BY DEF OSWakeupThread
<1>2. /\ stack \in [Thread -> Seq(Frame)] /\ exec \in Thread /\ stack[exec] # << >>
      /\ Head(stack[exec]).op \in {"OSWakeupThread", "WakeupLinked"}
      /\ Head(stack[exec]) \in Frame /\ Arg \in WaitQueueId
      /\ WellFormed(links, QueueId, Thread)
  BY <1>1, TopFacts, ArgFacts DEF Arg
<1>3. PICK q \in WaitQueueId : q = Arg
  BY <1>2
<1>4. q \in QueueId /\ q \notin Priority
  BY AddressFacts
<1>5. PICK t \in Thread : t = Head(links.queue[q]) /\ t \in In(links, q)
  BY <1>1, <1>2, <1>3, <1>4, HeadInToSet DEF WellFormed, In
<1>6. Placed(t) /\ state[t] = "waiting"
  BY <1>5 DEF IInv, QueueInv, Placed, In, Members
<1> DEFINE popped == PopHead(links, q)
           g == IF suspend[t] = 0 THEN << Call("WakeupLinked", q) >>
                                  ELSE << Head(stack[exec]) >>
<1>7. /\ links' = IF suspend[t] = 0 THEN LinkOnRunQueue(popped, t, prio[t]) ELSE popped
      /\ resched' = (suspend[t] = 0 \/ resched)
      /\ state' = [state EXCEPT ![t] = "ready"]
      /\ UNCHANGED << suspend, prio, lifeVars, schedVars, mutexVars, timerVars, exec >>
  <2>1. ~ Dead(t) /\ (suspend[t] = 0 => prio[t] \in Priority)
    BY <1>6 DEF Placed, Dead
  <2> QED  BY <1>3, <1>5, <2>1 DEF OSWakeupThread, Wakeable, IInv, TypeOK
<1>8. g \in Seq(Frame) /\ \A i \in DOMAIN g : g[i].op \in {"OSWakeupThread", "WakeupLinked"}
  <2>1. Call("WakeupLinked", q) \in Frame
    BY FrameFacts
  <2> QED  BY <1>2, <2>1, FramesFacts
<1>9. Replaces(g)
  <2>1. CASE suspend[t] = 0
    <3>1. Continue(g)
      BY <1>3, <1>5, <1>6, <2>1 DEF OSWakeupThread, Wakeable, Dead
    <3> QED  BY <1>2, <1>8, <3>1, ContinueFacts
  <2>2. CASE suspend[t] # 0
    <3>1. stack' = stack
      BY <1>3, <1>5, <1>6, <2>2 DEF OSWakeupThread, Wakeable, Dead
    <3>2. stack[exec] = << Head(stack[exec]) >> \o Tail(stack[exec])
      BY <1>2, HeadTailConcat
    <3>3. g = << Head(stack[exec]) >>
      BY <2>2
    <3> QED  BY <1>2, <1>8, <3>1, <3>2, <3>3 DEF Replaces
  <2> QED  BY <2>1, <2>2
<1> HIDE DEF g
<1>10. /\ state \in [Thread -> {"none", "ready", "running", "waiting", "moribund"}]
       /\ suspend \in [Thread -> Nat] /\ resched \in BOOLEAN
       /\ links.at \in [Thread -> QueueId \cup {Null}]
  BY <1>2 DEF IInv, TypeOK, WellFormed
<1>11. /\ state' \in [Thread -> {"none", "ready", "running", "waiting", "moribund"}]
       /\ state'[t] = "ready"
       /\ \A u \in Thread \ {t} : state'[u] = state[u]
  BY <1>7, <1>10
<1>12. /\ WellFormed(popped, QueueId, Thread)
       /\ Removed(popped, links, t, QueueId)
       /\ popped.at = links.at
  <2>1. Priority \subseteq QueueId /\ WellFormed(links, QueueId, Thread)
        /\ links.queue[q] # << >> /\ t = Head(links.queue[q])
    BY <1>1, <1>2, <1>3, <1>5, AddressFacts
  <2> QED  BY <1>4, <2>1, PopHeadFacts
<1> HIDE DEF popped
<1>13. \A r \in QueueId : t \notin In(popped, r)
  BY <1>12 DEF Removed
<1>14. QueueInv' /\ WellFormed(links', QueueId, Thread)
  <2>1. CASE suspend[t] = 0
    <3>1. prio[t] \in Priority
      BY <1>6, <2>1 DEF Placed, Dead
    <3>2. /\ WellFormed(links', QueueId, Thread)
          /\ Added(links', popped, prio[t], t, QueueId)
      <4>1. links' = LinkOnRunQueue(popped, t, prio[t])
        BY <1>7, <2>1
      <4> QED  BY <1>12, <1>13, <3>1, <4>1, AddressFacts, LinkOnRunQueueFacts
    <3>3. \A r \in QueueId : t \in In(links', r) <=> r = prio[t]
      BY <1>13, <3>1, <3>2, AddressFacts DEF Added
    <3>4. Placed(t)'
      BY <1>7, <1>11, <2>1, <3>1, <3>3, AddressFacts
      DEF Placed, In, Members, OnRunQueue, Dead
    <3>5. \A u \in Thread \ {t} :
            /\ \A r \in QueueId : u \in In(links', r) <=> u \in In(links, r)
            /\ links'.at[u] = links.at[u]
      BY <1>10, <1>12, <3>2 DEF Added, Removed
    <3> QED  BY <1>7, <1>11, <3>2, <3>4, <3>5, AddressFacts, OneThreadMoves DEF IInv
  <2>2. CASE suspend[t] # 0
    <3>1. links' = popped
      BY <1>7, <2>2
    <3>2. suspend'[t] > 0
      BY <1>7, <1>10, <2>2
    <3>3. Placed(t)'
      BY <1>7, <1>11, <1>13, <3>1, <3>2, AddressFacts
      DEF Placed, In, Members, OnRunQueue, Dead
    <3>4. \A u \in Thread \ {t} :
            /\ \A r \in QueueId : u \in In(links', r) <=> u \in In(links, r)
            /\ links'.at[u] = links.at[u]
      BY <1>12, <3>1 DEF Removed
    <3> QED  BY <1>7, <1>11, <1>12, <3>1, <3>3, <3>4, AddressFacts, OneThreadMoves DEF IInv
  <2> QED  BY <2>1, <2>2
<1>15. TypeOK' /\ MutexInv'
  <2>1. resched' \in BOOLEAN
    BY <1>7, <1>10
  <2> QED  BY <1>7, <1>9, <1>11, <1>14, <2>1, WellFormedLinks
           DEF IInv, TypeOK, MutexInv, Replaces, lifeVars, schedVars, mutexVars, timerVars
<1>16. ControlInv'
  <2>1. CalmState(g)
    <3>1. state[exec] = "running" => exec # t
      BY <1>6
    <3>2. ~ Leaves(Head(stack[exec]), resched) /\ \A i \in DOMAIN g : g[i].op \in Quiet
      BY <1>2, <1>8 DEF Leaves, Quiet
    <3>3. \A u \in Thread : Dead(u)' => Dead(u)
      BY <1>11 DEF Dead
    <3>4. state'[exec] = IF exec = t THEN "ready" ELSE state[exec]
      BY <1>2, <1>11
    <3>5. resched => resched'
      BY <1>7
    <3> QED  BY <3>1, <3>2, <3>3, <3>4, <3>5 DEF CalmState
  <2>2. UNCHANGED << exec, disable, running, current >> /\ ControlInv
    BY <1>7 DEF IInv, schedVars
  <2>3. Head(stack[exec]).op \notin Special \ {"OSCreateThread"}
    BY <1>2 DEF Special, Barrier
  <2>4. \A i \in DOMAIN g : g[i].op \notin Special /\ g[i].op \in Quiet
    BY <1>8 DEF Special, Barrier, Quiet
  <2> QED  BY <1>2, <1>9, <2>1, <2>2, <2>3, <2>4, CalmControl
<1> QED  BY <1>14, <1>15, <1>16 DEF IInv

LEMMA WakeupDoneStep ==
  ASSUME IInv, WakeupDone
  PROVE  IInv'
<1>1. At({"OSWakeupThread", "WakeupLinked"})
  BY DEF WakeupDone
<1>2. /\ stack \in [Thread -> Seq(Frame)] /\ exec \in Thread /\ stack[exec] # << >>
      /\ Head(stack[exec]).op \in {"OSWakeupThread", "WakeupLinked"}
  BY <1>1, TopFacts
<1> DEFINE g == IF At({"WakeupLinked"}) THEN << Call("SelectThread", Null) >> ELSE << >>
<1>3. /\ Continue(g)
      /\ UNCHANGED << threadVars, lifeVars, links, resched, schedVars, mutexVars, timerVars,
                      exec >>
  BY DEF WakeupDone
<1>4. g \in Seq(Frame) /\ \A i \in DOMAIN g : g[i].op = "SelectThread"
  <2>1. Call("SelectThread", Null) \in Frame
    BY FrameFacts
  <2> QED  BY <2>1, FramesFacts
<1> HIDE DEF g
<1>5. Replaces(g)
  BY <1>2, <1>3, <1>4, ContinueFacts
<1>6. TypeOK' /\ MutexInv'
  BY <1>3, <1>5
  DEF IInv, TypeOK, MutexInv, Replaces, threadVars, lifeVars, schedVars, mutexVars, timerVars
<1>7. /\ Head(stack[exec]).op \notin Special
      /\ ~ Leaves(Head(stack[exec]), resched)
      /\ \A i \in DOMAIN g : g[i].op \notin Special /\ g[i].op \in Quiet
  BY <1>2, <1>4 DEF Special, Barrier, Quiet, Leaves
<1> QED  BY <1>3, <1>5, <1>6, <1>7, StillStep DEF threadVars, schedVars

-----------------------------------------------------------------------------
(* The idle loop, callbacks and guest code.                                *)

\* ControlInv of a chain r of the executing fiber, with d for disable.
ChainInv(r, d) ==
  /\ Shaped(r)
  /\ r # << >> => /\ ~ Has(Tail(r), {"Dispatch", "OSCreateThread"})
                  /\ Head(r).op = "Dispatch" =>
                       ~ Has(r, Barrier) /\ links.pending # {} /\ state[exec] # "running"
                  /\ Head(r).op = "OSCreateThread" => Dead(Head(r).arg)
  /\ ~ Has(r, {"ThreadReturns", "WakeNoSwitch", "LeaveFiber"})
  /\ d = IF Has(r, {"Callback"}) THEN 1 ELSE 0
  /\ Has(r, {"IdleCallback"}) => Has(r, {"IdleLoop"})
  /\ Has(r, {"IdleLoop"}) => running = Null /\ state[exec] # "running"
  /\ ~ Has(r, {"IdleLoop", "Dispatch"}) => running = exec /\ current = exec
  /\ state[exec] # "running" => Leaving(r, resched)
  /\ Has(r, {"Callback"}) /\ ~ Has(r, {"IdleLoop"}) => state[exec] = "running"

LEMMA ChainNow ==
  ASSUME IInv
  PROVE  /\ stack \in [Thread -> Seq(Frame)] /\ exec \in Thread
         /\ stack[exec] \in Seq(Frame) /\ ChainInv(stack[exec], disable)
<1>1. stack \in [Thread -> Seq(Frame)] /\ exec \in Thread
  BY DEF IInv, TypeOK
<1>2. ChainInv(stack[exec], disable)
  <2>1. Shaped(stack[exec])
    BY DEF IInv, ControlInv, BarrierShape
  <2>2. state[exec] # "running" => Leaving(stack[exec], resched)
    BY DEF IInv, ControlInv, NotRunningLeaves
  <2> QED
    BY <1>1, <2>1, <2>2
    DEF ChainInv, IInv, ControlInv, FirstOnly, DispatchNext, CreateNext, At, Arg, NoReturns,
        DisableCounts, IdleCallbackIdles, IdleRunsNobody, IdleNotRunning, OpenRunsItself,
        CallbackRuns
<1> QED  BY <1>1, <1>2

\* A step that changes no more than the chain of the executing fiber.
LEMMA ChainStep ==
  ASSUME IInv, NEW r \in Seq(Frame), stack' = [stack EXCEPT ![exec] = r],
         disable' \in Nat, ChainInv(r, disable'), timers' \in SUBSET Thread,
         UNCHANGED << threadVars, lifeVars, links, resched, running, current, mutexVars,
                      outstanding, firstSeen, exec >>
  PROVE  IInv'
<1>1. stack \in [Thread -> Seq(Frame)] /\ exec \in Thread
  BY ChainNow
<1>2. /\ stack' \in [Thread -> Seq(Frame)] /\ stack'[exec'] = r
      /\ \A u \in Thread \ {exec} : stack'[u] = stack[u]
  BY <1>1
<1>3. UNCHANGED << state, running, current, resched, exec, links >>
  BY DEF threadVars
<1>4. TypeOK' /\ MutexInv'
  BY <1>2 DEF IInv, TypeOK, MutexInv, threadVars, lifeVars, mutexVars
<1>5. QueueInv'
  BY NothingMoves DEF IInv, threadVars
<1>6. OthersOpen' /\ DeadEmpty'
  BY <1>2, <1>3 DEF IInv, ControlInv, OthersOpen, DeadEmpty, Has, Dead
<1>7. BarrierShape'
  BY <1>2 DEF ChainInv, BarrierShape, Shaped
<1>8. FirstOnly' /\ DispatchNext' /\ CreateNext'
  BY <1>2, <1>3 DEF ChainInv, FirstOnly, DispatchNext, CreateNext, At, Arg, Has, Dead
<1>9. NoReturns'
  <2>1. ~ Has(r, {"ThreadReturns", "WakeNoSwitch", "LeaveFiber"})
    BY DEF ChainInv
  <2> QED  BY <1>2, <1>3, <2>1 DEF IInv, ControlInv, NoReturns, Has
<1>10. NotRunningLeaves'
  BY <1>2, <1>3 DEF ChainInv, NotRunningLeaves, Leaving, Leaves
<1>11. /\ DisableCounts' /\ IdleCallbackIdles' /\ IdleRunsNobody' /\ IdleNotRunning'
       /\ OpenRunsItself' /\ CallbackRuns'
  BY <1>2, <1>3
  DEF ChainInv, DisableCounts, IdleCallbackIdles, IdleRunsNobody, IdleNotRunning,
      OpenRunsItself, CallbackRuns, Has
<1> QED  BY <1>4, <1>5, <1>6, <1>7, <1>8, <1>9, <1>10, <1>11 DEF IInv, ControlInv

\* Quiet frames that are put on top of a chain.
LEMMA QuietAbove ==
  ASSUME IInv, stack[exec] # << >>,
         Head(stack[exec]).op \notin {"Dispatch", "OSCreateThread"},
         NEW h \in Seq(Frame), \A i \in DOMAIN h : h[i].op \in Quiet,
         stack' = [stack EXCEPT ![exec] = h \o @],
         timers' \in SUBSET Thread,
         UNCHANGED << threadVars, lifeVars, links, resched, schedVars, mutexVars,
                      outstanding, firstSeen, exec >>
  PROVE  IInv'
<1> DEFINE s == stack[exec]
           r == h \o s
<1>1. s \in Seq(Frame) /\ s # << >> /\ ChainInv(s, disable)
  BY ChainNow
<1>2. /\ r \in Seq(Frame)
      /\ \A ops : Has(r, ops) <=> Has(h, ops) \/ Has(s, ops)
      /\ Shaped(s) => Shaped(r)
      /\ \A request : Leaving(s, request) => Leaving(r, request)
  BY <1>1, AboveFacts
<1>3. stack' = [stack EXCEPT ![exec] = r]
  OBVIOUS
<1>4. Head(s).op \notin {"Dispatch", "OSCreateThread"}
  OBVIOUS
<1> HIDE DEF r, s
<1>5. \A ops : ops \cap Quiet = {} => (Has(r, ops) <=> Has(s, ops))
  BY <1>2 DEF Has
<1>6. << >> \in Seq(Frame)
  OBVIOUS
<1>7. ~ Has(r, {"Dispatch", "OSCreateThread"})
  <2>1. Has(s, {"Dispatch", "OSCreateThread"}) <=>
          \/ Head(s).op \in {"Dispatch", "OSCreateThread"}
          \/ Has(Tail(s), {"Dispatch", "OSCreateThread"})
    BY <1>1, <1>6, HasReplace
  <2>2. ~ Has(s, {"Dispatch", "OSCreateThread"})
    BY <1>1, <1>4, <2>1 DEF ChainInv
  <2> QED  BY <1>5, <2>2 DEF Quiet
<1>8. r # << >> => /\ ~ Has(Tail(r), {"Dispatch", "OSCreateThread"})
                   /\ Head(r).op \notin {"Dispatch", "OSCreateThread"}
  BY <1>2, <1>6, <1>7, HasReplace
<1>9. /\ Has(r, {"Callback"}) <=> Has(s, {"Callback"})
      /\ Has(r, {"IdleCallback"}) <=> Has(s, {"IdleCallback"})
      /\ Has(r, {"IdleLoop"}) <=> Has(s, {"IdleLoop"})
      /\ Has(r, {"IdleLoop", "Dispatch"}) <=> Has(s, {"IdleLoop", "Dispatch"})
      /\ Has(r, {"ThreadReturns", "WakeNoSwitch", "LeaveFiber"}) <=>
           Has(s, {"ThreadReturns", "WakeNoSwitch", "LeaveFiber"})
  BY <1>5 DEF Quiet
<1>10. ChainInv(r, disable)
  <2>1. Shaped(r) /\ (state[exec] # "running" => Leaving(r, resched))
    BY <1>1, <1>2 DEF ChainInv
  <2> QED  BY <1>1, <1>8, <1>9, <2>1 DEF ChainInv
<1>11. disable' = disable /\ disable \in Nat
  BY DEF schedVars, IInv, TypeOK
<1>12. UNCHANGED << threadVars, lifeVars, links, resched, running, current, mutexVars,
                    outstanding, firstSeen, exec >>
  BY DEF schedVars
<1>13. timers' \in SUBSET Thread /\ r \in Seq(Frame)
  BY <1>2
<1> QED  BY <1>3, <1>10, <1>11, <1>12, <1>13, ChainStep

\* A chain that is put back below what is put on top of it.
LEMMA PutBack ==
  ASSUME NEW d \in Seq(Frame), NEW e \in Frame, NEW f \in Frame, NEW t \in Seq(Frame)
  PROVE  (d \o << e, f >>) \o t = (d \o << e >>) \o (<< f >> \o t)
<1>1. << e >> \in Seq(Frame) /\ << f >> \in Seq(Frame) /\ << f >> \o t \in Seq(Frame)
      /\ d \o << e >> \in Seq(Frame)
  BY ConcatProperties
<1>2. << e, f >> = << e >> \o << f >>
  <2>1. << e, f >> \in Seq(Frame) /\ Len(<< e, f >>) = 2
        /\ << e, f >>[1] = e /\ << e, f >>[2] = f
    OBVIOUS
  <2>2. Len(<< e >>) = 1 /\ << e >>[1] = e /\ Len(<< f >>) = 1 /\ << f >>[1] = f
    OBVIOUS
  <2>3. /\ << e >> \o << f >> \in Seq(Frame) /\ Len(<< e >> \o << f >>) = 2
        /\ (<< e >> \o << f >>)[1] = e /\ (<< e >> \o << f >>)[2] = f
    BY <1>1, <2>2, ConcatProperties
  <2>4. \A i \in 1 .. 2 : << e, f >>[i] = (<< e >> \o << f >>)[i]
    <3>1. \A i \in 1 .. 2 : i = 1 \/ i = 2
      OBVIOUS
    <3> QED  BY <2>1, <2>3, <3>1
  <2> QED  BY <2>1, <2>3, <2>4, SeqEqual
<1>3. d \o (<< e >> \o << f >>) = (d \o << e >>) \o << f >>
  BY <1>1, ConcatAssociative
<1>4. ((d \o << e >>) \o << f >>) \o t = (d \o << e >>) \o (<< f >> \o t)
  BY <1>1, ConcatAssociative
<1> QED  BY <1>2, <1>3, <1>4

LEMMA IdleTimersStep ==
  ASSUME IInv, IdleTimers
  PROVE  IInv'
<1>1. At({"IdleLoop"})
  BY DEF IdleTimers, Idling
<1>2. /\ stack \in [Thread -> Seq(Frame)] /\ exec \in Thread /\ stack[exec] # << >>
      /\ Head(stack[exec]).op = "IdleLoop" /\ Head(stack[exec]) \in Frame
  BY <1>1, TopFacts
<1> DEFINE f == Call("IdleLoop", Null)
           e == Call("Reconcile", Null)
           s == stack[exec]
<1>3. Head(s) = f
  BY <1>2 DEF Call, Frame, ThreadCall, QueueCall, MutexCall, PlainCall
<1>4. f \in Frame /\ e \in Frame /\ e.op \in Quiet
  BY FrameFacts, FramesFacts DEF Quiet
<1>5. PICK due \in Orderings(IF Deep THEN {} ELSE timers) :
        /\ timers' = timers \ ToSet(due)
        /\ Continue(Each("SleepTimerDue", due) \o << e, f >>)
  BY DEF IdleTimers, Pump
<1>6. due \in Seq(Thread)
  <2>1. (IF Deep THEN {} ELSE timers) \in SUBSET Thread /\ IsFiniteSet(Thread)
    BY ConstantTypes DEF ConstantTypes, IInv, TypeOK
  <2> QED  BY <2>1, OrderingFacts
<1> DEFINE d == Each("SleepTimerDue", due)
           h == d \o << e >>
<1>7. d \in Seq(Frame) /\ \A i \in DOMAIN d : d[i].op = "SleepTimerDue"
  BY <1>6, EachFacts
<1> HIDE DEF d, e, f
<1>8. h \in Seq(Frame) /\ \A i \in DOMAIN h : h[i].op \in Quiet
  <2>1. << e >> \in Seq(Frame) /\ Len(<< e >>) = 1 /\ << e >>[1] = e
    BY <1>4
  <2>2. /\ h \in Seq(Frame) /\ Len(h) = Len(d) + 1 /\ Len(d) \in Nat
        /\ \A i \in 1 .. Len(d) + 1 : h[i] = IF i <= Len(d) THEN d[i] ELSE << e >>[i - Len(d)]
    BY <1>7, <2>1, ConcatProperties
  <2>3. \A i \in 1 .. Len(d) : d[i].op \in Quiet
    BY <1>7 DEF Quiet
  <2>4. DOMAIN h = 1 .. Len(d) + 1
    BY <2>2
  <2>5. \A i \in 1 .. Len(d) + 1 : h[i] = IF i <= Len(d) THEN d[i] ELSE e
    BY <2>1, <2>2
  <2> QED  BY <1>4, <2>2, <2>3, <2>4, <2>5
<1>9. stack' = [stack EXCEPT ![exec] = h \o @]
  <2>1. Tail(s) \in Seq(Frame)
    BY <1>2, HeadTailProperties
  <2>2. s = << f >> \o Tail(s)
    BY <1>2, <1>3, HeadTailConcat
  <2>3. stack' = [stack EXCEPT ![exec] = (d \o << e, f >>) \o Tail(s)]
    BY <1>5 DEF Continue, d
  <2>4. (d \o << e, f >>) \o Tail(s) = h \o (<< f >> \o Tail(s))
    BY <1>4, <1>7, <2>1, PutBack
  <2> QED  BY <2>2, <2>3, <2>4
<1>10. /\ timers' \in SUBSET Thread
       /\ UNCHANGED << threadVars, lifeVars, links, resched, schedVars, mutexVars,
                       outstanding, firstSeen, exec >>
  BY <1>5 DEF IdleTimers, IInv, TypeOK
<1> HIDE DEF h
<1> QED  BY <1>2, <1>8, <1>9, <1>10, QuietAbove

\* One frame on top of a chain.
LEMMA OneAbove ==
  ASSUME NEW t \in Seq(Frame), NEW f \in Frame, NEW r, r = << f >> \o t, Shaped(t),
         \A j \in DOMAIN t : t[j].op \in Barrier =>
           \/ f.op \in Quiet
           \/ f.op \in {"Callback", "IdleCallback"} /\ t[j].op = "IdleLoop"
  PROVE  /\ Shaped(r)
         /\ \A request : f.op \in Quiet \cup {"Callback", "IdleCallback"}
                           /\ Leaving(t, request) => Leaving(r, request)
         /\ \A request : Leaves(f, request) => Leaving(r, request)
<1>1. << f >> \in Seq(Frame) /\ Len(<< f >>) = 1 /\ << f >>[1] = f
  OBVIOUS
<1>2. /\ DOMAIN r = 1 .. 1 + Len(t) /\ DOMAIN t = 1 .. Len(t) /\ Len(t) \in Nat
      /\ r[1] = f /\ \A i \in 2 .. 1 + Len(t) : r[i] = t[i - 1]
  BY <1>1, ConcatProperties
<1>3. \A i \in DOMAIN r : i # 1 => i - 1 \in DOMAIN t /\ r[i] = t[i - 1]
  BY <1>2
<1>4. Shaped(r)
  <2>1. SUFFICES ASSUME NEW i \in DOMAIN r, NEW j \in DOMAIN r,
                        i < j, r[j].op \in Barrier
                 PROVE  \/ r[i].op \in Quiet
                        \/ r[i].op \in {"Callback", "IdleCallback"} /\ r[j].op = "IdleLoop"
    BY DEF Shaped
  <2>2. j - 1 \in DOMAIN t /\ r[j] = t[j - 1]
    BY <1>2, <1>3, <2>1
  <2>3. CASE i = 1
    BY <1>2, <2>1, <2>2, <2>3
  <2>4. CASE i # 1
    <3>1. i - 1 \in DOMAIN t /\ r[i] = t[i - 1] /\ i - 1 < j - 1
      BY <1>2, <1>3, <2>1, <2>4
    <3> QED  BY <2>1, <2>2, <3>1 DEF Shaped
  <2> QED  BY <2>3, <2>4
<1>5. ASSUME NEW request, f.op \in Quiet \cup {"Callback", "IdleCallback"},
             Leaving(t, request)
      PROVE  Leaving(r, request)
  <2>1. PICK i \in DOMAIN t :
          /\ Leaves(t[i], request)
          /\ \A j \in DOMAIN t : j < i => t[j].op \in Quiet \cup {"Callback", "IdleCallback"}
    BY <1>5 DEF Leaving
  <2>2. i + 1 \in DOMAIN r /\ r[i + 1] = t[i]
    BY <1>2
  <2>3. ASSUME NEW j \in DOMAIN r, j < i + 1
        PROVE  r[j].op \in Quiet \cup {"Callback", "IdleCallback"}
    <3>1. CASE j = 1
      BY <1>2, <1>5, <3>1
    <3>2. CASE j # 1
      <4>1. j - 1 \in DOMAIN t /\ r[j] = t[j - 1] /\ j - 1 < i
        BY <1>2, <1>3, <2>3, <3>2
      <4> QED  BY <2>1, <4>1
    <3> QED  BY <3>1, <3>2
  <2> QED  BY <2>1, <2>2, <2>3 DEF Leaving
<1>6. ASSUME NEW request, Leaves(f, request)
      PROVE  Leaving(r, request)
  <2>1. 1 \in DOMAIN r /\ r[1] = f /\ \A j \in DOMAIN r : ~ (j < 1)
    BY <1>2
  <2> QED  BY <1>6, <2>1 DEF Leaving
<1> QED  BY <1>4, <1>5, <1>6

\* What is below the first frame of the executing fiber.
LEMMA BelowFacts ==
  ASSUME IInv, stack[exec] # << >>
  PROVE  /\ Tail(stack[exec]) \in Seq(Frame) /\ Head(stack[exec]) \in Frame
         /\ Shaped(Tail(stack[exec])) /\ ~ Has(Tail(stack[exec]), {"Dispatch", "OSCreateThread"})
         /\ \A ops : Has(stack[exec], ops) <=>
              Head(stack[exec]).op \in ops \/ Has(Tail(stack[exec]), ops)
<1> DEFINE s == stack[exec]
<1>1. s \in Seq(Frame) /\ s # << >> /\ ChainInv(s, disable) /\ << >> \in Seq(Frame)
  BY ChainNow
<1>2. Tail(s) \in Seq(Frame) /\ Head(s) \in Frame
  BY <1>1, HeadTailProperties
<1>3. Shaped(Tail(s)) /\ ~ Has(Tail(s), {"Dispatch", "OSCreateThread"})
  BY <1>1, ShapedBelow DEF ChainInv
<1>4. \A ops : Has(s, ops) <=> Head(s).op \in ops \/ Has(Tail(s), ops)
  BY <1>1, HasReplace
<1> QED  BY <1>2, <1>3, <1>4

LEMMA LeaveIdleLoopStep ==
  ASSUME IInv, LeaveIdleLoop
  PROVE  IInv'
<1>1. At({"IdleLoop"}) /\ links.pending # {}
  BY DEF LeaveIdleLoop
<1>2. stack[exec] # << >> /\ Head(stack[exec]).op = "IdleLoop"
  BY <1>1, TopFacts
<1> DEFINE s == stack[exec]
           t == Tail(s)
           f == Call("Dispatch", Null)
           r == << f >> \o t
<1>3. /\ s \in Seq(Frame) /\ s # << >> /\ Head(s).op = "IdleLoop" /\ ChainInv(s, disable)
      /\ t \in Seq(Frame) /\ Shaped(t) /\ ~ Has(t, {"Dispatch", "OSCreateThread"})
      /\ \A ops : Has(s, ops) <=> Head(s).op \in ops \/ Has(t, ops)
  BY <1>2, ChainNow, BelowFacts
<1>4. f \in Frame /\ f.op = "Dispatch" /\ \A request : Leaves(f, request)
  BY FrameFacts, FramesFacts DEF Leaves
<1>5. /\ stack' = [stack EXCEPT ![exec] = r]
      /\ UNCHANGED << threadVars, lifeVars, links, resched, schedVars, mutexVars, timerVars,
                      exec >>
  BY DEF LeaveIdleLoop, Continue
<1> HIDE DEF f, s
<1>6. ~ Has(t, Barrier)
  <2>1. Head(s).op \notin Quiet \cup {"Callback", "IdleCallback"}
    BY <1>3 DEF Quiet
  <2> QED  BY <1>3, <2>1, ShapedBelow DEF ChainInv
<1> HIDE DEF t, r
<1>7. /\ r \in Seq(Frame) /\ r # << >> /\ Head(r) = f /\ Tail(r) = t
      /\ \A ops : Has(r, ops) <=> f.op \in ops \/ Has(t, ops)
  BY <1>3, <1>4, OnTopFacts DEF r
<1>8. /\ Shaped(r) /\ Leaving(r, resched)
  <2>1. \A j \in DOMAIN t : t[j].op \notin Barrier
    BY <1>6 DEF Has
  <2> QED  BY <1>3, <1>4, <2>1, OneAbove DEF r
<1>9. ~ Has(t, {"Callback"}) /\ ~ Has(t, {"IdleCallback"}) /\ ~ Has(t, {"IdleLoop"})
      /\ ~ Has(r, Barrier)
  BY <1>4, <1>6, <1>7 DEF Has, Barrier
<1>10. Has(s, {"IdleLoop"}) /\ ~ Has(s, {"Callback"})
  BY <1>3, <1>9
<1>11. Has(r, {"IdleLoop", "Dispatch"})
  BY <1>4, <1>7
<1>12. /\ ~ Has(r, {"Callback"}) /\ ~ Has(r, {"IdleCallback"}) /\ ~ Has(r, {"IdleLoop"})
       /\ ~ Has(r, {"ThreadReturns", "WakeNoSwitch", "LeaveFiber"})
  BY <1>3, <1>4, <1>7, <1>9 DEF ChainInv
<1>13. ChainInv(r, disable)
  BY <1>1, <1>3, <1>4, <1>7, <1>8, <1>9, <1>10, <1>11, <1>12 DEF ChainInv
<1>14. disable' = disable /\ disable \in Nat /\ timers' \in SUBSET Thread
  BY <1>5 DEF schedVars, timerVars, IInv, TypeOK
<1> QED  BY <1>5, <1>7, <1>13, <1>14, ChainStep DEF schedVars, timerVars

\* A callback frame is put on the idle loop, or at the bottom of a fiber.
LEMMA PushCallback ==
  ASSUME IInv, NEW f \in Frame,
         \/ f.op = "IdleCallback" /\ Idling
         \/ f.op = "Callback" /\ (InGuestCode \/ Idling),
         disable' = IF f.op = "Callback" THEN disable + 1 ELSE disable,
         stack' = [stack EXCEPT ![exec] = << f >> \o @],
         UNCHANGED << threadVars, lifeVars, links, resched, running, current, mutexVars,
                      timerVars, exec >>
  PROVE  IInv'
<1> DEFINE s == stack[exec]
           r == << f >> \o s
<1>1. s \in Seq(Frame) /\ ChainInv(s, disable)
  BY ChainNow
<1>2. stack' = [stack EXCEPT ![exec] = r]
  OBVIOUS
<1>3. s = << >> \/ Head(s).op = "IdleLoop"
  BY DEF Idling, InGuestCode, At
<1>4. s = << >> => /\ \A ops : ~ Has(s, ops)
                   /\ f.op = "Callback" /\ state[exec] = "running"
                   /\ running = exec /\ current = exec /\ disable = 0
  BY GuestFacts DEF IInv, InGuestCode, Idling, At, Has
<1>5. s # << >> => /\ Has(s, {"IdleLoop"}) /\ state[exec] # "running" /\ running = Null
                   /\ ~ Has(s, {"Callback"}) /\ ~ Has(s, {"IdleCallback"})
                   /\ ~ Has(s, {"Dispatch", "OSCreateThread"})
                   /\ \A j \in DOMAIN s : s[j].op \in Barrier => s[j].op = "IdleLoop"
                   /\ disable = 0 /\ Leaving(s, resched)
  <2>1. SUFFICES ASSUME s # << >>
                 PROVE  /\ Has(s, {"IdleLoop"}) /\ state[exec] # "running" /\ running = Null
                        /\ ~ Has(s, {"Callback"}) /\ ~ Has(s, {"IdleCallback"})
                        /\ ~ Has(s, {"Dispatch", "OSCreateThread"})
                        /\ \A j \in DOMAIN s : s[j].op \in Barrier => s[j].op = "IdleLoop"
                        /\ disable = 0 /\ Leaving(s, resched)
    OBVIOUS
  <2>2. Head(s).op = "IdleLoop"
    BY <1>3, <2>1
  <2>3. /\ Tail(s) \in Seq(Frame) /\ ~ Has(Tail(s), {"Dispatch", "OSCreateThread"})
        /\ \A ops : Has(s, ops) <=> Head(s).op \in ops \/ Has(Tail(s), ops)
    BY <2>1, BelowFacts
  <2> HIDE DEF s
  <2>4. ~ Has(Tail(s), Barrier)
    <3>1. Head(s).op \notin Quiet \cup {"Callback", "IdleCallback"}
      BY <2>2 DEF Quiet
    <3> QED  BY <1>1, <2>1, <3>1, ShapedBelow DEF ChainInv
  <2>5. ~ Has(s, {"Callback"}) /\ ~ Has(s, {"IdleCallback"}) /\ Has(s, {"IdleLoop"})
        /\ ~ Has(s, {"Dispatch", "OSCreateThread"})
    <3>1. ~ Has(Tail(s), {"Callback"}) /\ ~ Has(Tail(s), {"IdleCallback"})
      BY <2>4 DEF Has, Barrier
    <3> QED  BY <2>2, <2>3, <3>1
  <2>6. \A j \in DOMAIN s : s[j].op \in Barrier => s[j].op = "IdleLoop"
    BY <2>5 DEF Has, Barrier
  <2> QED  BY <1>1, <2>5, <2>6 DEF ChainInv
<1> HIDE DEF s, r
<1>6. /\ r \in Seq(Frame) /\ r # << >> /\ Head(r) = f /\ Tail(r) = s
      /\ \A ops : Has(r, ops) <=> f.op \in ops \/ Has(s, ops)
  BY <1>1, OnTopFacts DEF r
<1>7. Shaped(r) /\ (Leaving(s, resched) => Leaving(r, resched))
  <2>1. \A j \in DOMAIN s : s[j].op \in Barrier =>
          \/ f.op \in Quiet
          \/ f.op \in {"Callback", "IdleCallback"} /\ s[j].op = "IdleLoop"
    BY <1>4, <1>5 DEF Has
  <2>2. Shaped(s)
    BY <1>1 DEF ChainInv
  <2> QED  BY <1>1, <2>1, <2>2, OneAbove DEF r
<1>8. ~ Has(s, {"ThreadReturns", "WakeNoSwitch", "LeaveFiber"})
      /\ (~ Has(s, {"IdleLoop", "Dispatch"}) => s = << >>)
  BY <1>1, <1>5 DEF ChainInv, Has
<1>9. /\ f.op \in {"Callback", "IdleCallback"}
      /\ Has(r, {"Callback"}) <=> f.op = "Callback" \/ Has(s, {"Callback"})
      /\ Has(r, {"IdleCallback"}) <=> f.op = "IdleCallback" \/ Has(s, {"IdleCallback"})
      /\ Has(r, {"IdleLoop"}) <=> Has(s, {"IdleLoop"})
      /\ Has(r, {"IdleLoop", "Dispatch"}) <=> Has(s, {"IdleLoop", "Dispatch"})
      /\ ~ Has(r, {"ThreadReturns", "WakeNoSwitch", "LeaveFiber"})
  BY <1>6, <1>8
<1>10. ChainInv(r, disable')
  <2>1. disable' = IF f.op = "Callback" THEN disable + 1 ELSE disable
    OBVIOUS
  <2>2. ~ Has(s, {"Dispatch", "OSCreateThread"})
    BY <1>4, <1>5
  <2>3. CASE s = << >>
    <3>1. /\ ~ Has(s, {"IdleLoop"}) /\ ~ Has(s, {"Callback"}) /\ ~ Has(s, {"IdleCallback"})
          /\ f.op = "Callback" /\ state[exec] = "running"
          /\ running = exec /\ current = exec /\ disable' = 1
      BY <1>4, <2>1, <2>3
    <3>2. Has(r, {"Callback"}) /\ ~ Has(r, {"IdleCallback"}) /\ ~ Has(r, {"IdleLoop"})
      BY <1>9, <3>1
    <3> QED  BY <1>6, <1>7, <1>9, <2>2, <3>1, <3>2 DEF ChainInv
  <2>4. CASE s # << >>
    <3>1. Has(s, {"IdleLoop", "Dispatch"})
      BY <1>8, <2>4
    <3>2. disable' = IF f.op = "Callback" THEN 1 ELSE 0
      BY <1>5, <2>1, <2>4
    <3> QED  BY <1>5, <1>6, <1>7, <1>9, <2>2, <2>4, <3>1, <3>2 DEF ChainInv
  <2> QED  BY <2>3, <2>4
<1>11. disable' \in Nat /\ timers' \in SUBSET Thread
  BY DEF timerVars, IInv, TypeOK
<1> QED  BY <1>2, <1>6, <1>10, <1>11, ChainStep DEF timerVars

LEMMA IdleCallbackStep ==
  ASSUME IInv, IdleCallback
  PROVE  IInv'
<1> DEFINE f == Call("IdleCallback", Null)
<1>1. f \in Frame /\ f.op = "IdleCallback"
  BY FrameFacts, FramesFacts
<1>2. Idling /\ stack' = [stack EXCEPT ![exec] = << f >> \o @]
  BY DEF IdleCallback
<1>3. UNCHANGED << threadVars, lifeVars, links, resched, schedVars, mutexVars, timerVars, exec >>
  BY DEF IdleCallback
<1> HIDE DEF f
<1> QED  BY <1>1, <1>2, <1>3, PushCallback DEF schedVars

LEMMA BeginCallbackStep ==
  ASSUME IInv, BeginCallback
  PROVE  IInv'
<1> DEFINE f == Call("Callback", Null)
<1>1. f \in Frame /\ f.op = "Callback"
  BY FrameFacts, FramesFacts
<1>2. /\ InGuestCode \/ Idling
      /\ disable' = disable + 1 /\ stack' = [stack EXCEPT ![exec] = << f >> \o @]
      /\ UNCHANGED << threadVars, lifeVars, links, resched, running, current, mutexVars,
                      timerVars, exec >>
  BY DEF BeginCallback
<1> HIDE DEF f
<1> QED  BY <1>1, <1>2, PushCallback

\* A callback frame is replaced by at most a Reschedule.
LEMMA PopCallback ==
  ASSUME IInv, At({"Callback", "IdleCallback"}), NEW g \in {<< >>, << Call("Reschedule", Null) >>},
         Continue(g),
         disable' = IF At({"Callback"}) THEN disable - 1 ELSE disable,
         UNCHANGED << threadVars, lifeVars, links, resched, running, current, mutexVars,
                      timerVars, exec >>
  PROVE  IInv'
<1> DEFINE s == stack[exec]
           t == Tail(s)
           r == g \o t
<1>1. /\ s \in Seq(Frame) /\ s # << >> /\ Head(s).op \in {"Callback", "IdleCallback"}
      /\ ChainInv(s, disable) /\ t \in Seq(Frame) /\ Shaped(t)
      /\ ~ Has(t, {"Dispatch", "OSCreateThread"})
      /\ \A ops : Has(s, ops) <=> Head(s).op \in ops \/ Has(t, ops)
  BY ChainNow, TopFacts, BelowFacts
<1>2. stack' = [stack EXCEPT ![exec] = r]
  BY DEF Continue
<1>3. disable' = IF Head(s).op = "Callback" THEN disable - 1 ELSE disable
  BY <1>1 DEF At
<1>4. g \in Seq(Frame) /\ \A i \in DOMAIN g : g[i].op = "Reschedule"
  <2>1. Call("Reschedule", Null) \in Frame /\ Call("Reschedule", Null).op = "Reschedule"
    BY FrameFacts, FramesFacts
  <2>2. CASE g = << >>
    BY <2>2
  <2>3. CASE g = << Call("Reschedule", Null) >>
    BY <2>1, <2>3, FramesFacts
  <2> QED  BY <2>2, <2>3
<1> HIDE DEF s
<1>5. ~ Has(t, {"Callback", "IdleCallback"})
  BY <1>1, ShapedBelow DEF ChainInv, Quiet
<1> HIDE DEF t
<1>6. ~ Has(t, {"Callback"}) /\ ~ Has(t, {"IdleCallback"})
  BY <1>5 DEF Has
<1>7. /\ r \in Seq(Frame)
      /\ \A ops : Has(r, ops) <=> Has(g, ops) \/ Has(t, ops)
      /\ Shaped(r) /\ (Leaving(t, resched) => Leaving(r, resched))
  <2>1. \A i \in DOMAIN g : g[i].op \in Quiet
    BY <1>4 DEF Quiet
  <2> QED  BY <1>1, <1>4, <2>1, AboveFacts
<1> HIDE DEF r
<1>8. /\ Has(s, {"IdleLoop"}) <=> Has(r, {"IdleLoop"})
      /\ Has(s, {"IdleLoop", "Dispatch"}) <=> Has(r, {"IdleLoop", "Dispatch"})
      /\ ~ Has(r, {"Callback"}) /\ ~ Has(r, {"IdleCallback"})
      /\ ~ Has(r, {"Dispatch", "OSCreateThread"})
  <2>1. \A ops : "Reschedule" \notin ops => ~ Has(g, ops)
    BY <1>4 DEF Has
  <2> QED  BY <1>1, <1>6, <1>7, <2>1
<1>9. ~ Has(r, {"ThreadReturns", "WakeNoSwitch", "LeaveFiber"})
  <2>1. ~ Has(g, {"ThreadReturns", "WakeNoSwitch", "LeaveFiber"})
    BY <1>4 DEF Has
  <2>2. ~ Has(t, {"ThreadReturns", "WakeNoSwitch", "LeaveFiber"})
    BY <1>1 DEF ChainInv
  <2> QED  BY <1>7, <2>1, <2>2
<1>10. r # << >> => /\ ~ Has(Tail(r), {"Dispatch", "OSCreateThread"})
                    /\ Head(r).op \notin {"Dispatch", "OSCreateThread"}
  <2>1. << >> \in Seq(Frame)
    OBVIOUS
  <2> QED  BY <1>7, <1>8, <2>1, HasReplace
<1>11. state[exec] # "running" => Leaving(r, resched)
  <2>1. SUFFICES ASSUME state[exec] # "running"
                 PROVE  Leaving(r, resched)
    OBVIOUS
  <2>2. Leaving(s, resched)
    BY <1>1, <2>1 DEF ChainInv
  <2>3. ~ Leaves(Head(s), resched)
    BY <1>1 DEF Leaves
  <2>4. Leaving(t, resched)
    BY <1>1, <2>2, <2>3, LeavingBelow DEF t
  <2> QED  BY <1>7, <2>4
<1>12. disable' = 0
  <2>1. Has(s, {"Callback"}) <=> Head(s).op = "Callback"
    BY <1>1, <1>6
  <2>2. disable = IF Head(s).op = "Callback" THEN 1 ELSE 0
    BY <1>1, <2>1 DEF ChainInv
  <2> QED  BY <1>3, <2>2
<1>13. ChainInv(r, disable')
  BY <1>1, <1>7, <1>8, <1>9, <1>10, <1>11, <1>12 DEF ChainInv
<1>14. timers' \in SUBSET Thread /\ disable' \in Nat
  BY <1>12 DEF timerVars, IInv, TypeOK
<1> QED  BY <1>2, <1>7, <1>13, <1>14, ChainStep DEF timerVars

LEMMA IdleCallbackReturnsStep ==
  ASSUME IInv, IdleCallbackReturns
  PROVE  IInv'
<1>1. At({"Callback", "IdleCallback"}) /\ ~ At({"Callback"})
  BY DEF IdleCallbackReturns, At
<1>2. /\ Continue(<< >>)
      /\ UNCHANGED << threadVars, lifeVars, links, resched, schedVars, mutexVars, timerVars,
                      exec >>
  BY DEF IdleCallbackReturns, Return
<1> QED  BY <1>1, <1>2, PopCallback DEF schedVars

LEMMA EndCallbackStep ==
  ASSUME IInv, EndCallback
  PROVE  IInv'
<1>1. At({"Callback", "IdleCallback"}) /\ At({"Callback"}) /\ disable' = disable - 1
  BY DEF EndCallback, At
<1>2. /\ Continue(<< >>) \/ Continue(<< Call("Reschedule", Null) >>)
      /\ UNCHANGED << threadVars, lifeVars, links, resched, running, current, mutexVars,
                      timerVars, exec >>
  BY DEF EndCallback, Return
<1> QED  BY <1>1, <1>2, PopCallback

-----------------------------------------------------------------------------
(* Guest code.                                                             *)

LEMMA GuestCallStep ==
  ASSUME IInv, Disciplined, GuestCall
  PROVE  IInv'
<1>1. PICK c \in Frame :
        /\ c.op \in IF InGuestCode THEN GuestCalls[exec] ELSE CallbackCalls
        /\ Legal(c)
        /\ stack' = [stack EXCEPT ![exec] = << c >> \o @]
  BY DEF GuestCall
<1>2. /\ InGuestCode \/ InCallback
      /\ UNCHANGED << threadVars, lifeVars, links, resched, schedVars, mutexVars, timerVars,
                      exec >>
  BY DEF GuestCall
<1>3. timers' \in SUBSET Thread /\ disable' = disable /\ disable \in Nat
  BY <1>2 DEF timerVars, schedVars, IInv, TypeOK
<1>4. CASE ~ InGuestCode
  <2>1. At({"Callback", "IdleCallback"})
    BY <1>2, <1>4 DEF InCallback
  <2>2. stack[exec] # << >> /\ Head(stack[exec]).op \notin {"Dispatch", "OSCreateThread"}
    BY <2>1, TopFacts
  <2>3. << c >> \in Seq(Frame) /\ \A i \in DOMAIN << c >> : << c >>[i].op \in Quiet
    <3>1. c.op \in {"OSWakeupThread", "OSResumeThread"}
      BY <1>1, <1>4 DEF Disciplined
    <3> QED  BY <3>1, FramesFacts DEF Quiet
  <2> QED  BY <1>1, <1>2, <1>3, <2>2, <2>3, QuietAbove DEF timerVars
<1>5. CASE InGuestCode
  <2> DEFINE s == stack[exec]
             r == << c >> \o s
  <2>1. s = << >> /\ s \in Seq(Frame) /\ Shaped(s) /\ \A ops : ~ Has(s, ops)
    BY <1>5 DEF InGuestCode, Shaped, Has
  <2>2. /\ state[exec] = "running" /\ running = exec /\ current = exec /\ disable = 0
        /\ exec \in Thread
    BY <1>5, GuestFacts, ChainNow DEF IInv
  <2>3. c.op \in OSFunction \ {"ThreadReturns"}
    BY <1>1, <1>5, <2>2, ConstantTypes DEF ConstantTypes, Disciplined
  <2>4. c.op = "OSCreateThread" => Dead(c.arg)
    BY <1>1 DEF Legal
  <2>5. stack' = [stack EXCEPT ![exec] = r]
    BY <1>1
  <2> HIDE DEF s, r
  <2>6. /\ r \in Seq(Frame) /\ r # << >> /\ Head(r) = c /\ Tail(r) = s
        /\ \A ops : Has(r, ops) <=> c.op \in ops
    BY <2>1, OnTopFacts DEF r
  <2>7. Shaped(r)
    <3>1. \A j \in DOMAIN s : FALSE
      BY <2>1
    <3> QED  BY <2>1, <3>1, OneAbove DEF r
  <2>8. c.op \notin Barrier \cup {"Dispatch", "ThreadReturns", "WakeNoSwitch", "LeaveFiber"}
    BY <2>3 DEF OSFunction, ThreadCall, QueueCall, MutexCall, PlainCall, Barrier
  <2>9. ChainInv(r, disable)
    BY <2>1, <2>2, <2>4, <2>6, <2>7, <2>8 DEF ChainInv, Barrier
  <2> QED  BY <1>2, <1>3, <2>5, <2>6, <2>9, ChainStep DEF timerVars, schedVars
<1> QED  BY <1>4, <1>5

LEMMA StutterStep ==
  ASSUME IInv, UNCHANGED vars
  PROVE  IInv'
<1>1. stack[exec] \in Seq(Frame) /\ ChainInv(stack[exec], disable) /\ disable \in Nat
  BY ChainNow DEF IInv, TypeOK
<1>2. stack' = [stack EXCEPT ![exec] = stack[exec]]
  BY ChainNow DEF vars, fiberVars
<1>3. timers' \in SUBSET Thread /\ disable' = disable
  BY DEF vars, timerVars, schedVars, IInv, TypeOK
<1>4. UNCHANGED << threadVars, lifeVars, links, resched, running, current, mutexVars,
                   outstanding, firstSeen, exec >>
  BY DEF vars, timerVars, schedVars, fiberVars
<1> QED  BY <1>1, <1>2, <1>3, <1>4, ChainStep
===============================================================================
