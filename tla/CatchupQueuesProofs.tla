------------------------ MODULE CatchupQueuesProofs ------------------------
(***************************************************************************)
(* Proofs about CatchupQueues, for any number of jobs, workers and faults: *)
(* what the Redis commands do to a list, the types, that no job is lost,   *)
(* that none is listed twice, and that the queues implement WorkQueue.     *)
(***************************************************************************)
EXTENDS CatchupQueues, FiniteSetTheorems, WellFoundedInduction, TLAPS

(* The Redis commands: which jobs are on a list after them. *)

(* A nonempty set of natural numbers has a least element, and Min is it. *)
LEMMA MinOfNaturals ==
  ASSUME NEW S \in SUBSET Nat, S # {}
  PROVE  Min(S) \in S /\ \A n \in S : Min(S) <= n
<1>1. PICK m \in S : \A n \in S : ~ (<<n, m>> \in OpToRel(<, Nat))
  BY NatLessThanWellFounded, WFMin
<1>2. ASSUME NEW n \in S
      PROVE  m <= n
  <2>1. OpToRel(<, Nat) = {p \in Nat \X Nat : p[1] < p[2]}
    BY DEF OpToRel
  <2>2. n < m => <<n, m>> \in {p \in Nat \X Nat : p[1] < p[2]}
    OBVIOUS
  <2>3. ~ (n < m)
    BY <1>1, <2>1, <2>2
  <2> QED BY <2>3
<1> QED BY <1>2 DEF Min

(* A job is on a list exactly if it is at some position of it. *)
LEMMA OnList ==
  ASSUME NEW s \in Seq(Jobs), NEW j
  PROVE  j \in ToSet(s) <=> \E i \in 1..Len(s) : s[i] = j
BY DEF ToSet

(* Only jobs are on a list of jobs. *)
LEMMA OnlyJobsOnList ==
  ASSUME NEW s \in Seq(Jobs)
  PROVE  ToSet(s) \subseteq Jobs
BY DEF ToSet

(* The empty list, and a list of one job. *)
LEMMA SmallLists ==
  ASSUME NEW j \in Jobs
  PROVE  /\ <<>> \in Seq(Jobs) /\ ToSet(<<>>) = {}
         /\ <<j>> \in Seq(Jobs) /\ ToSet(<<j>>) = {j}
<1>1. <<>> \in Seq(Jobs) /\ <<j>> \in Seq(Jobs)
  OBVIOUS
<1>2. ToSet(<<>>) = {}
  BY DEF ToSet
<1>3. ToSet(<<j>>) = {j}
  <2>1. \A k : k \in ToSet(<<j>>) <=> \E i \in 1..1 : <<j>>[i] = k
    BY DEF ToSet
  <2> QED BY <2>1
<1> QED BY <1>1, <1>2, <1>3

(* Concatenation, position by position. *)
LEMMA ConcatAt ==
  ASSUME NEW s \in Seq(Jobs), NEW t \in Seq(Jobs)
  PROVE  /\ s \o t \in Seq(Jobs) /\ Len(s \o t) = Len(s) + Len(t)
         /\ \A i \in 1..Len(s) : (s \o t)[i] = s[i]
         /\ \A i \in 1..Len(t) : (s \o t)[i + Len(s)] = t[i]
OBVIOUS

(* Concatenation: the jobs of either list. *)
LEMMA ConcatContents ==
  ASSUME NEW s \in Seq(Jobs), NEW t \in Seq(Jobs)
  PROVE  s \o t \in Seq(Jobs) /\ ToSet(s \o t) = ToSet(s) \cup ToSet(t)
<1>1. s \o t \in Seq(Jobs) /\ Len(s \o t) = Len(s) + Len(t)
  OBVIOUS
<1>2. \A i \in 1..(Len(s) + Len(t)) :
        (s \o t)[i] = IF i <= Len(s) THEN s[i] ELSE t[i - Len(s)]
  OBVIOUS
<1>3. ASSUME NEW j, j \in ToSet(s \o t)
      PROVE  j \in ToSet(s) \cup ToSet(t)
  <2>1. PICK i \in 1..(Len(s) + Len(t)) : (s \o t)[i] = j
    BY <1>1, <1>3, OnList
  <2>2. CASE i <= Len(s)
    BY <2>1, <2>2, <1>2, OnList
  <2>3. CASE i > Len(s)
    <3>1. i - Len(s) \in 1..Len(t) /\ t[i - Len(s)] = j
      BY <2>1, <2>3, <1>2
    <3> QED BY <3>1, OnList
  <2> QED BY <2>2, <2>3
<1>4. ASSUME NEW j, j \in ToSet(s)
      PROVE  j \in ToSet(s \o t)
  <2>1. PICK i \in 1..Len(s) : s[i] = j
    BY <1>4, OnList
  <2>2. i \in 1..Len(s \o t) /\ (s \o t)[i] = j
    BY <1>1, <1>2, <2>1
  <2> QED BY <1>1, <2>2, OnList
<1>5. ASSUME NEW j, j \in ToSet(t)
      PROVE  j \in ToSet(s \o t)
  <2>1. PICK i \in 1..Len(t) : t[i] = j
    BY <1>5, OnList
  <2>2. i + Len(s) \in 1..Len(s \o t) /\ (s \o t)[i + Len(s)] = j
    BY <1>1, <1>2, <2>1
  <2> QED BY <1>1, <2>2, OnList
<1> QED BY <1>1, <1>3, <1>4, <1>5

(* One job in front of a list. *)
LEMMA AddOneContents ==
  ASSUME NEW s \in Seq(Jobs), NEW j \in Jobs
  PROVE  <<j>> \o s \in Seq(Jobs) /\ ToSet(<<j>> \o s) = {j} \cup ToSet(s)
<1>1. <<j>> \in Seq(Jobs) /\ ToSet(<<j>>) = {j}
  BY SmallLists
<1> QED BY <1>1, ConcatContents

(* LPUSH adds its job. *)
LEMMA LpushContents ==
  ASSUME NEW s \in Seq(Jobs), NEW j \in Jobs
  PROVE  LPUSH(s, j) \in Seq(Jobs) /\ ToSet(LPUSH(s, j)) = {j} \cup ToSet(s)
BY AddOneContents DEF LPUSH

(* Popping from the left takes the head and leaves the rest. *)
LEMMA PopLeftContents ==
  ASSUME NEW s \in Seq(Jobs), s # <<>>
  PROVE  /\ Head(s) \in Jobs
         /\ Tail(s) \in Seq(Jobs)
         /\ ToSet(s) = {Head(s)} \cup ToSet(Tail(s))
<1>1. Head(s) \in Jobs /\ Tail(s) \in Seq(Jobs) /\ s = <<Head(s)>> \o Tail(s)
  OBVIOUS
<1>2. <<Head(s)>> \in Seq(Jobs) /\ ToSet(<<Head(s)>>) = {Head(s)}
  BY <1>1, SmallLists
<1>3. ToSet(<<Head(s)>> \o Tail(s)) = ToSet(<<Head(s)>>) \cup ToSet(Tail(s))
  BY <1>1, <1>2, ConcatContents
<1> QED BY <1>1, <1>2, <1>3

(* Popping from the right takes the last job and leaves the front. *)
LEMMA PopRightContents ==
  ASSUME NEW s \in Seq(Jobs), s # <<>>
  PROVE  /\ Last(s) \in Jobs
         /\ Front(s) \in Seq(Jobs)
         /\ ToSet(s) = {Last(s)} \cup ToSet(Front(s))
<1>1. Last(s) \in Jobs /\ Front(s) \in Seq(Jobs) /\ s = Front(s) \o <<Last(s)>>
  BY DEF Last, Front
<1>2. <<Last(s)>> \in Seq(Jobs) /\ ToSet(<<Last(s)>>) = {Last(s)}
  BY <1>1, SmallLists
<1>3. ToSet(Front(s) \o <<Last(s)>>) = ToSet(Front(s)) \cup ToSet(<<Last(s)>>)
  BY <1>1, <1>2, ConcatContents
<1> QED BY <1>1, <1>2, <1>3

(* LREM of a job on the list takes one of its entries out of the list. *)
LEMMA LremSplits ==
  ASSUME NEW s \in Seq(Jobs), NEW j \in ToSet(s)
  PROVE  \E left, right \in Seq(Jobs) :
           /\ s = left \o (<<j>> \o right)
           /\ LREM(s, j) = left \o right
<1> DEFINE IsLast(i) == /\ s[i] = j
                        /\ \A k \in DOMAIN s : s[k] = j => k <= i
<1>1. \E i \in DOMAIN s : IsLast(i)
  <2> DEFINE R == {Len(s) - k : k \in {i \in 1..Len(s) : s[i] = j}}
  <2>1. R # {} /\ R \subseteq Nat
    BY OnList
  <2>2. PICK n \in R : \A m \in R : n <= m
    <3> HIDE DEF R
    <3> QED BY <2>1, MinOfNaturals
  <2>3. PICK i \in 1..Len(s) : s[i] = j /\ n = Len(s) - i
    BY <2>2
  <2>4. ASSUME NEW k \in 1..Len(s), s[k] = j
        PROVE  k <= i
    <3>1. Len(s) - k \in R
      BY <2>4
    <3>2. n <= Len(s) - k
      BY <3>1, <2>2
    <3> QED BY <3>2, <2>3
  <2> QED BY <2>3, <2>4
<1> DEFINE i == CHOOSE i \in DOMAIN s : IsLast(i)
<1>2. i \in 1..Len(s) /\ s[i] = j
  BY <1>1
<1>3. LREM(s, j) = RemoveAt(s, i)
  BY DEF LREM
<1> HIDE DEF i
<1> DEFINE left  == SubSeq(s, 1, i - 1)
           right == SubSeq(s, i + 1, Len(s))
<1>4. /\ left \in Seq(Jobs) /\ right \in Seq(Jobs)
      /\ Len(left) = i - 1 /\ Len(right) = Len(s) - i
      /\ \A k \in 1..(i - 1) : left[k] = s[k]
      /\ \A k \in 1..(Len(s) - i) : right[k] = s[k + i]
  BY <1>2
<1>5. RemoveAt(s, i) = left \o right
  BY DEF RemoveAt
<1> HIDE DEF left, right
<1>6. s = left \o (<<j>> \o right)
  <2> DEFINE rest == <<j>> \o right
             t    == left \o rest
  <2>1. /\ rest \in Seq(Jobs) /\ Len(rest) = Len(s) - i + 1 /\ rest[1] = j
        /\ \A k \in 1..(Len(s) - i) : rest[k + 1] = right[k]
    <3>1. j \in Jobs
      BY OnlyJobsOnList
    <3>2. Len(rest) = 1 + Len(right) /\ rest \in Seq(Jobs) /\ rest[1] = j
      <4>1. <<j>> \in Seq(Jobs) /\ Len(<<j>>) = 1 /\ <<j>>[1] = j /\ right \in Seq(Jobs)
        BY <1>4, <3>1
      <4>2. /\ rest \in Seq(Jobs) /\ Len(rest) = Len(<<j>>) + Len(right)
            /\ \A k \in 1..Len(<<j>>) : rest[k] = <<j>>[k]
        BY <4>1, ConcatAt
      <4> HIDE DEF rest
      <4> QED BY <4>1, <4>2
    <3>3. \A k \in 1..Len(right) : rest[k + Len(<<j>>)] = right[k]
      BY <1>4, <3>1, ConcatAt
    <3> QED BY <1>2, <1>4, <3>2, <3>3
  <2> HIDE DEF rest
  <2>2. /\ t \in Seq(Jobs) /\ Len(t) = Len(s)
        /\ \A k \in 1..(i - 1) : t[k] = left[k]
        /\ \A k \in 1..(Len(s) - i + 1) : t[k + (i - 1)] = rest[k]
    <3>1. /\ t \in Seq(Jobs) /\ Len(t) = Len(left) + Len(rest)
          /\ \A k \in 1..Len(left) : t[k] = left[k]
          /\ \A k \in 1..Len(rest) : t[k + Len(left)] = rest[k]
      BY <1>4, <2>1, ConcatAt
    <3> HIDE DEF t
    <3> QED BY <1>2, <1>4, <2>1, <3>1
  <2> HIDE DEF t
  <2>3. ASSUME NEW k \in 1..Len(s), k > i
        PROVE  t[k] = s[k]
    <3>1. PICK m \in 1..(Len(s) - i) : k = m + i
      <4>1. k - i \in 1..(Len(s) - i) /\ k = (k - i) + i
        BY <1>2, <2>3
      <4> QED BY <4>1
    <3>2. m + 1 \in 1..(Len(s) - i + 1) /\ (m + 1) + (i - 1) = k
      BY <1>2, <3>1
    <3>3. t[k] = rest[m + 1]
      BY <2>2, <3>2
    <3> QED BY <1>4, <2>1, <3>1, <3>3
  <2>4. ASSUME NEW k \in 1..Len(s)
        PROVE  t[k] = s[k]
    <3>1. k < i => k \in 1..(i - 1)
      BY <1>2
    <3>2. 1 \in 1..(Len(s) - i + 1) /\ 1 + (i - 1) = i
      BY <1>2
    <3>3. t[i] = s[i]
      BY <1>2, <2>1, <2>2, <3>2
    <3> QED BY <1>2, <1>4, <2>2, <2>3, <3>1, <3>3
  <2>5. t = s
    BY <2>2, <2>4
  <2> QED BY <2>5 DEF t, rest
<1> QED BY <1>3, <1>4, <1>5, <1>6

(* LREM takes away at most its own job. *)
LEMMA LremContents ==
  ASSUME NEW s \in Seq(Jobs), NEW j \in Jobs
  PROVE  /\ LREM(s, j) \in Seq(Jobs)
         /\ ToSet(s) \subseteq {j} \cup ToSet(LREM(s, j))
         /\ j \notin ToSet(s) => LREM(s, j) = s
<1>1. CASE j \notin ToSet(s)
  BY <1>1 DEF LREM
<1>2. CASE j \in ToSet(s)
  <2>1. PICK left, right \in Seq(Jobs) :
          s = left \o (<<j>> \o right) /\ LREM(s, j) = left \o right
    BY <1>2, LremSplits
  <2>2. left \o right \in Seq(Jobs) /\ ToSet(left \o right) = ToSet(left) \cup ToSet(right)
    BY ConcatContents
  <2>3. <<j>> \o right \in Seq(Jobs) /\ ToSet(<<j>> \o right) = {j} \cup ToSet(right)
    BY AddOneContents
  <2>4. ToSet(left \o (<<j>> \o right)) = ToSet(left) \cup ToSet(<<j>> \o right)
    BY <2>3, ConcatContents
  <2> QED BY <1>2, <2>1, <2>2, <2>3, <2>4
<1> QED BY <1>1, <1>2

(* The bulk load holds every job. *)
LEMMA LoadContents ==
  ASSUME NEW load \in SetToSeqs(Jobs)
  PROVE  load \in Seq(Jobs) /\ ToSet(load) = Jobs
<1> DEFINE n == Cardinality(Jobs)
<1>1. n \in Nat /\ IsFiniteSet(1..n) /\ Cardinality(1..n) = n
  BY JobsAssumption, FS_CardinalityType, FS_Interval
<1>2. load \in [1..n -> Jobs] /\ \A i, k \in 1..n : i # k => load[i] # load[k]
  BY DEF SetToSeqs
<1>3. load \in Seq(Jobs) /\ ToSet(load) = {load[i] : i \in 1..n}
  BY <1>1, <1>2 DEF ToSet
<1>4. ToSet(load) \subseteq Jobs
  BY <1>3, <1>2
<1>5. Cardinality(ToSet(load)) = n
  <2>1. load \in Bijection(1..n, ToSet(load))
    BY <1>2, <1>3 DEF Bijection, Injection, Surjection, IsInjective
  <2>2. ExistsBijection(1..n, ToSet(load))
    BY <2>1 DEF ExistsBijection
  <2> QED BY <2>2, <1>1, FS_Bijection
<1> QED BY <1>3, <1>4, <1>5, JobsAssumption, FS_Subset
-----------------------------------------------------------------------------
(* Lists without duplicates. *)

(* A concatenation is free of duplicates if both parts are and share no job. *)
LEMMA ConcatInjective ==
  ASSUME NEW s \in Seq(Jobs), NEW t \in Seq(Jobs)
  PROVE  IsInjective(s \o t) <=> /\ IsInjective(s) /\ IsInjective(t)
                                 /\ ToSet(s) \cap ToSet(t) = {}
<1>1. s \o t \in Seq(Jobs) /\ Len(s \o t) = Len(s) + Len(t)
  BY ConcatAt
<1>2. /\ \A i \in 1..Len(s) : (s \o t)[i] = s[i]
      /\ \A i \in 1..Len(t) : (s \o t)[i + Len(s)] = t[i]
  BY ConcatAt
<1>3. \A i \in 1..(Len(s) + Len(t)) :
        i \in 1..Len(s) \/ \E k \in 1..Len(t) : i = k + Len(s)
  <2>1. \A i \in 1..(Len(s) + Len(t)) :
          i \in 1..Len(s) \/ (i - Len(s) \in 1..Len(t) /\ i = (i - Len(s)) + Len(s))
    OBVIOUS
  <2> QED BY <2>1
<1>4. ASSUME IsInjective(s \o t)
      PROVE  IsInjective(s) /\ IsInjective(t) /\ ToSet(s) \cap ToSet(t) = {}
  <2>1. \A i, k \in 1..(Len(s) + Len(t)) : (s \o t)[i] = (s \o t)[k] => i = k
    BY <1>1, <1>4 DEF IsInjective
  <2>2. IsInjective(s)
    BY <1>2, <2>1 DEF IsInjective
  <2>3. IsInjective(t)
    <3> SUFFICES ASSUME NEW i \in 1..Len(t), NEW k \in 1..Len(t), t[i] = t[k]
                 PROVE  i = k
      BY DEF IsInjective
    <3>1. /\ i + Len(s) \in 1..(Len(s) + Len(t)) /\ k + Len(s) \in 1..(Len(s) + Len(t))
          /\ (s \o t)[i + Len(s)] = (s \o t)[k + Len(s)]
      BY <1>2
    <3>2. i + Len(s) = k + Len(s)
      BY <2>1, <3>1
    <3> QED BY <3>2
  <2>4. ASSUME NEW j \in ToSet(s), j \in ToSet(t)
        PROVE  FALSE
    <3>1. PICK i \in 1..Len(s) : s[i] = j
      BY OnList
    <3>2. PICK k \in 1..Len(t) : t[k] = j
      BY <2>4, OnList
    <3>3. /\ i \in 1..(Len(s) + Len(t)) /\ k + Len(s) \in 1..(Len(s) + Len(t))
          /\ (s \o t)[i] = (s \o t)[k + Len(s)] /\ i # k + Len(s)
      BY <1>2, <3>1, <3>2
    <3> QED BY <2>1, <3>3
  <2> QED BY <2>2, <2>3, <2>4
<1>5. ASSUME IsInjective(s), IsInjective(t), ToSet(s) \cap ToSet(t) = {}
      PROVE  IsInjective(s \o t)
  <2>1. /\ \A i, k \in 1..Len(s) : s[i] = s[k] => i = k
        /\ \A i, k \in 1..Len(t) : t[i] = t[k] => i = k
    BY <1>5 DEF IsInjective
  <2>2. \A i \in 1..Len(s), k \in 1..Len(t) : s[i] # t[k]
    BY <1>5, OnList
  <2>3. ASSUME NEW i \in 1..(Len(s) + Len(t)), NEW k \in 1..(Len(s) + Len(t)),
               (s \o t)[i] = (s \o t)[k]
        PROVE  i = k
    <3>1. CASE i \in 1..Len(s) /\ k \in 1..Len(s)
      BY <1>2, <2>1, <2>3, <3>1
    <3>2. ASSUME NEW m \in 1..Len(t), i = m + Len(s), NEW n \in 1..Len(t), k = n + Len(s)
          PROVE  i = k
      <4>1. t[m] = t[n]
        BY <1>2, <2>3, <3>2
      <4> QED BY <2>1, <3>2, <4>1
    <3>3. ASSUME NEW m \in 1..Len(t), \/ i = m + Len(s) /\ k \in 1..Len(s)
                                      \/ k = m + Len(s) /\ i \in 1..Len(s)
          PROVE  FALSE
      <4>1. \E n \in 1..Len(s) : s[n] = t[m]
        BY <1>2, <2>3, <3>3
      <4> QED BY <2>2, <4>1
    <3> QED BY <1>3, <3>1, <3>2, <3>3
  <2> QED BY <1>1, <2>3 DEF IsInjective
<1> QED BY <1>4, <1>5

(* Short lists have no duplicate. *)
LEMMA SmallInjective ==
  ASSUME NEW j \in Jobs
  PROVE  IsInjective(<<>>) /\ IsInjective(<<j>>)
BY DEF IsInjective

(* What the commands do to a list without duplicates. *)
LEMMA LpushInjective ==
  ASSUME NEW s \in Seq(Jobs), NEW j \in Jobs, IsInjective(s), j \notin ToSet(s)
  PROVE  IsInjective(LPUSH(s, j))
<1>1. <<j>> \in Seq(Jobs) /\ ToSet(<<j>>) = {j} /\ IsInjective(<<j>>)
  BY SmallLists, SmallInjective
<1>2. ToSet(<<j>>) \cap ToSet(s) = {}
  BY <1>1
<1>3. IsInjective(<<j>> \o s)
  BY <1>1, <1>2, ConcatInjective
<1> QED BY <1>3 DEF LPUSH

LEMMA PopInjective ==
  ASSUME NEW s \in Seq(Jobs), s # <<>>, IsInjective(s)
  PROVE  /\ IsInjective(Tail(s)) /\ ToSet(Tail(s)) = ToSet(s) \ {Head(s)}
         /\ IsInjective(Front(s)) /\ ToSet(Front(s)) = ToSet(s) \ {Last(s)}
<1>1. Head(s) \in Jobs /\ Tail(s) \in Seq(Jobs) /\ s = <<Head(s)>> \o Tail(s)
  OBVIOUS
<1>2. <<Head(s)>> \in Seq(Jobs) /\ ToSet(<<Head(s)>>) = {Head(s)}
  BY <1>1, SmallLists
<1>3. IsInjective(Tail(s)) /\ {Head(s)} \cap ToSet(Tail(s)) = {}
  <2>1. IsInjective(<<Head(s)>> \o Tail(s))
    BY <1>1
  <2>2. IsInjective(Tail(s)) /\ ToSet(<<Head(s)>>) \cap ToSet(Tail(s)) = {}
    BY <1>1, <1>2, <2>1, ConcatInjective
  <2> QED BY <1>2, <2>2
<1>4. Last(s) \in Jobs /\ Front(s) \in Seq(Jobs) /\ s = Front(s) \o <<Last(s)>>
  BY DEF Last, Front
<1>5. <<Last(s)>> \in Seq(Jobs) /\ ToSet(<<Last(s)>>) = {Last(s)}
  BY <1>4, SmallLists
<1>6. IsInjective(Front(s)) /\ ToSet(Front(s)) \cap {Last(s)} = {}
  <2>1. IsInjective(Front(s) \o <<Last(s)>>)
    BY <1>4
  <2>2. IsInjective(Front(s)) /\ ToSet(Front(s)) \cap ToSet(<<Last(s)>>) = {}
    BY <1>4, <1>5, <2>1, ConcatInjective
  <2> QED BY <1>5, <2>2
<1> QED BY <1>3, <1>6, PopLeftContents, PopRightContents

LEMMA LremInjective ==
  ASSUME NEW s \in Seq(Jobs), NEW j \in Jobs, IsInjective(s)
  PROVE  IsInjective(LREM(s, j)) /\ ToSet(LREM(s, j)) = ToSet(s) \ {j}
<1>1. CASE j \notin ToSet(s)
  BY <1>1, LremContents
<1>2. CASE j \in ToSet(s)
  <2>1. PICK left, right \in Seq(Jobs) :
          s = left \o (<<j>> \o right) /\ LREM(s, j) = left \o right
    BY <1>2, LremSplits
  <2>2. /\ <<j>> \in Seq(Jobs) /\ ToSet(<<j>>) = {j}
        /\ <<j>> \o right \in Seq(Jobs) /\ ToSet(<<j>> \o right) = {j} \cup ToSet(right)
    BY SmallLists, AddOneContents
  <2>3. /\ IsInjective(left) /\ IsInjective(<<j>> \o right)
        /\ ToSet(left) \cap ({j} \cup ToSet(right)) = {}
    BY <2>1, <2>2, ConcatInjective
  <2>4. IsInjective(right) /\ {j} \cap ToSet(right) = {}
    BY <2>2, <2>3, ConcatInjective
  <2>5. IsInjective(left \o right)
    BY <2>3, <2>4, ConcatInjective
  <2>6. /\ ToSet(s) = ToSet(left) \cup ({j} \cup ToSet(right))
        /\ ToSet(left \o right) = ToSet(left) \cup ToSet(right)
    <3>1. ToSet(left \o (<<j>> \o right)) = ToSet(left) \cup ToSet(<<j>> \o right)
      BY <2>2, ConcatContents
    <3>2. ToSet(left \o right) = ToSet(left) \cup ToSet(right)
      BY ConcatContents
    <3> QED BY <2>1, <2>2, <3>1, <3>2
  <2> QED BY <2>1, <2>3, <2>4, <2>5, <2>6
<1> QED BY <1>1, <1>2

(* The bulk load holds no job twice. *)
LEMMA LoadInjective ==
  ASSUME NEW load \in SetToSeqs(Jobs)
  PROVE  IsInjective(load)
BY DEF SetToSeqs, IsInjective

-----------------------------------------------------------------------------
(* Types. *)

(* The inductive strengthening of the type invariant: while requeue_job runs  *)
(* there is an orphan for it to work on, and at no other time.                *)
Requeuing == {"lrem", "lpush", "hdel"}

OrphansLeft == mpc \in Requeuing <=> mOrphans # {}

TypeInv == QueueTypeOK /\ OrphansLeft

(* The orphan requeue_job works on is a job. *)
LEMMA OrphanIsJob ==
  ASSUME QueueTypeOK, mOrphans # {}
  PROVE  Min(mOrphans) \in mOrphans /\ Orphan \in Jobs
<1>1. mProgress \in Seq(Jobs) /\ mOrphans \subseteq 1..Len(mProgress)
  BY DEF QueueTypeOK, MonitorTypeOK, PassTypeOK
<1>2. Min(mOrphans) \in mOrphans
  BY <1>1, MinOfNaturals
<1>3. Min(mOrphans) \in 1..Len(mProgress)
  BY <1>1, <1>2
<1> QED BY <1>1, <1>2, <1>3 DEF Orphan

(* HSET and HDEL keep the hash a hash, and HDEL adds no owner. *)
LEMMA HashCommands ==
  ASSUME NEW h \in [Jobs -> Workers \cup {Nil}], NEW j \in Jobs, NEW w \in Workers
  PROVE  /\ HSET(h, j, w) \in [Jobs -> Workers \cup {Nil}]
         /\ HDEL(h, j) \in [Jobs -> Workers \cup {Nil}]
         /\ HVALS(h) \subseteq Workers
         /\ HVALS(HSET(h, j, w)) \subseteq HVALS(h) \cup {w}
         /\ HVALS(HDEL(h, j)) \subseteq HVALS(h)
BY DEF HSET, HDEL, HVALS

-----------------------------------------------------------------------------
(* Type correctness. *)

(* The locals of the monitor's pass before its first call. *)
LEMMA PassInitTypes == PassInit => PassTypeOK /\ mOrphans = {}
<1> SUFFICES ASSUME PassInit PROVE PassTypeOK /\ mOrphans = {}
  OBVIOUS
<1>1. mFailed \in BOOLEAN /\ mReread \in BOOLEAN
  BY DEF PassInit
<1>2. mProgress \in Seq(Jobs) /\ mOrphans \subseteq DOMAIN mProgress
  BY DEF PassInit
<1> QED BY <1>1, <1>2 DEF PassInit, PassTypeOK

(* The same after a pass has ended. *)
LEMMA PassResetTypes == PassReset => PassTypeOK' /\ mOrphans' = {}
<1> SUFFICES ASSUME PassReset PROVE PassTypeOK' /\ mOrphans' = {}
  OBVIOUS
<1>1. mFailed' \in BOOLEAN /\ mReread' \in BOOLEAN
  BY DEF PassReset
<1>2. mProgress' \in Seq(Jobs) /\ mOrphans' \subseteq DOMAIN mProgress'
  BY DEF PassReset
<1> QED BY <1>1, <1>2 DEF PassReset, PassTypeOK

(* The status before the first pass. *)
LEMMA InitialStatusType == InitialStatus \in Statuses
BY DEF InitialStatus, Statuses

(* The initial state is well typed. *)
LEMMA InitTypes == QueueInit => TypeInv
<1> SUFFICES ASSUME QueueInit PROVE TypeInv
  OBVIOUS
<1>1. RedisTypeOK
  BY FaultAssumption DEF QueueInit, RedisInit, RedisTypeOK
<1>2. WorkerTypeOK
  BY NilAssumption DEF QueueInit, WorkerInit, WorkerTypeOK, WorkerPCs, Holding
<1>3. PassTypeOK /\ mOrphans = {} /\ mpc = "init" /\ status = InitialStatus
  BY PassInitTypes DEF QueueInit, MonitorInit
<1>4. MonitorTypeOK /\ OrphansLeft
  BY <1>3, InitialStatusType DEF MonitorTypeOK, MonitorPCs, OrphansLeft, Requeuing
<1> QED BY <1>1, <1>2, <1>4 DEF QueueInit, TypeInv, QueueTypeOK

(* The bulk load keeps the types. *)
LEMMA PreloadTypes == TypeInv /\ Preload => TypeInv'
<1> SUFFICES ASSUME TypeInv, Preload PROVE TypeInv'
  OBVIOUS
<1>1. ranges' \in Seq(Jobs)
  <2>1. PICK load \in SetToSeqs(Jobs) : \/ ranges' = ranges \o load
                                        \/ ranges' = ranges \o load \o load
    BY DEF Preload
  <2>2. ranges \in Seq(Jobs) /\ load \in Seq(Jobs)
    BY LoadContents DEF TypeInv, QueueTypeOK, RedisTypeOK
  <2>3. ranges \o load \in Seq(Jobs)
    BY <2>2, ConcatContents
  <2> QED BY <2>1, <2>2, <2>3, ConcatContents
<1>2. faults' \in 0..MaxFaults
  BY FaultAssumption DEF Preload, TypeInv, QueueTypeOK, RedisTypeOK, Fault, NoFault
<1> QED BY <1>1, <1>2
  DEF Preload, TypeInv, QueueTypeOK, RedisTypeOK, WorkerTypeOK, MonitorTypeOK, PassTypeOK,
      OrphansLeft, workerVars, monitorVars, passVars

(* The claim script keeps the types of Redis. *)
LEMMA EvalClaimTypes ==
  ASSUME RedisTypeOK, NEW w \in Workers, EvalClaim(w)
  PROVE  /\ Head(ranges) \in Jobs
         /\ ranges' \in Seq(Jobs) /\ inProgress' \in Seq(Jobs)
         /\ jobOwners' \in [Jobs -> Workers \cup {Nil}]
BY PopLeftContents, LpushContents, HashCommands DEF RedisTypeOK, EvalClaim

(* The result transaction keeps the types of Redis. *)
LEMMA ResultTypes ==
  ASSUME RedisTypeOK, NEW w \in Workers, wjob[w] \in Jobs, ResultTransaction(w)
  PROVE  /\ inProgress' \in Seq(Jobs)
         /\ jobOwners' \in [Jobs -> Workers \cup {Nil}]
         /\ succeeded' \subseteq Jobs /\ failed' \subseteq Jobs
BY LremContents, HashCommands DEF RedisTypeOK, ResultTransaction

(* A step of a worker keeps the types. *)
LEMMA WorkerTypes == TypeInv /\ WorkerNext => TypeInv'
<1> SUFFICES ASSUME TypeInv, WorkerNext PROVE TypeInv'
  OBVIOUS
<1>1. MonitorTypeOK' /\ OrphansLeft' /\ preloaded' \in BOOLEAN
  BY DEF WorkerNext, monitorVars, passVars, TypeInv, QueueTypeOK, RedisTypeOK, WorkerTypeOK, MonitorTypeOK, PassTypeOK,
      OrphansLeft, Requeuing
<1>2. PICK w \in Workers : WorkerStep(w) \/ WorkerFault(w)
  BY DEF WorkerNext
<1>3. RedisTypeOK /\ WorkerTypeOK
  BY DEF TypeInv, QueueTypeOK
<1> SUFFICES RedisTypeOK' /\ WorkerTypeOK'
  BY <1>1 DEF TypeInv, QueueTypeOK
<1> USE <1>3, NilAssumption, FaultAssumption
    DEF RedisTypeOK, WorkerTypeOK, WorkerPCs, Holding, Goto, Forget, Fault, NoFault,
        redisVars, workerVars
<1>4. CASE CheckRetiring(w)
  BY <1>4 DEF CheckRetiring
<1>5. CASE ClaimJob(w)
  BY EvalClaimTypes, <1>5 DEF ClaimJob, EvalClaim
<1>6. CASE ClaimNothing(w)
  BY <1>6 DEF ClaimNothing
<1>7. CASE ClaimError(w)
  BY EvalClaimTypes, <1>7 DEF ClaimError, EvalClaim
<1>8. CASE Catchup(w)
  BY <1>8 DEF Catchup
<1>9. CASE CommitResult(w)
  BY ResultTypes, <1>9 DEF CommitResult, ResultTransaction
<1>10. CASE CommitReplyLost(w)
  BY ResultTypes, <1>10 DEF CommitReplyLost, ResultTransaction
<1>11. CASE RestartContainer(w)
  BY <1>11 DEF RestartContainer
<1>12. CASE EvictPod(w)
  BY <1>12 DEF EvictPod, RemovePod
<1> QED BY <1>2, <1>4, <1>5, <1>6, <1>7, <1>8, <1>9, <1>10, <1>11, <1>12
  DEF WorkerStep, WorkerFault

(* A step of the monitor keeps the types. *)
LEMMA MonitorTypes == TypeInv /\ MonitorNext => TypeInv'
<1> SUFFICES ASSUME TypeInv, MonitorNext PROVE TypeInv'
  OBVIOUS
<1>1. WorkerTypeOK' /\ preloaded' \in BOOLEAN
  BY DEF MonitorNext, workerVars, TypeInv, QueueTypeOK, WorkerTypeOK
<1>2. RedisTypeOK /\ MonitorTypeOK /\ OrphansLeft
  BY DEF TypeInv, QueueTypeOK
<1>3. mOrphans # {} => Min(mOrphans) \in mOrphans /\ Orphan \in Jobs
  BY OrphanIsJob DEF TypeInv
<1> SUFFICES RedisTypeOK' /\ MonitorTypeOK' /\ OrphansLeft'
  BY <1>1 DEF TypeInv, QueueTypeOK
<1> USE <1>2, FaultAssumption
    DEF RedisTypeOK, MonitorTypeOK, PassTypeOK, OrphansLeft, MonitorPCs, Requeuing, Fault, NoFault,
        redisVars, passVars
<1>4. CASE MonitorStart
  BY <1>4 DEF MonitorStart
<1>5. CASE ReadRemain
  BY <1>5 DEF ReadRemain
<1>6. CASE ReadFailed
  BY <1>6 DEF ReadFailed
<1>7. CASE ReadProgress
  BY <1>7 DEF ReadProgress
<1>8. CASE ReadOwners
  BY <1>8 DEF ReadOwners, HVALS
<1>9. CASE RequeueLrem
  BY <1>3, LremContents, <1>9 DEF RequeueLrem
<1>10. CASE RequeueLpush
  BY <1>3, LpushContents, <1>10 DEF RequeueLpush
<1>11. CASE RequeueHdel
  BY <1>3, HashCommands, WorkersAssumption, <1>11 DEF RequeueHdel
<1>12. CASE RereadProgress
  BY <1>12 DEF RereadProgress
<1>13. CASE RereadRemain
  BY <1>13 DEF RereadRemain
<1>14. CASE \E w \in Workers : PingWorker(w)
  BY <1>14 DEF PingWorker
<1>15. CASE MarkSurplus
  BY <1>15 DEF MarkSurplus, Marks, Candidates, Retirable, Active
<1>16. CASE \E w \in Workers : ConfirmPing(w)
  BY <1>16 DEF ConfirmPing
<1>17. CASE RetryMove
  BY PopRightContents, LpushContents, <1>17 DEF RetryMove
<1>18. CASE RetryDone
  BY <1>18 DEF RetryDone
<1>19. CASE \E j \in Jobs : DropOwner(j)
  BY HashCommands, WorkersAssumption, <1>19 DEF DropOwner
<1>20. CASE Publish
  BY <1>20, FS_CardinalityType, FS_Subset, WorkersAssumption, PassResetTypes
     DEF Publish, EndPass, Statuses
<1>21. CASE Wake
  BY <1>21 DEF Wake
<1>22. CASE MonitorError
  BY PassResetTypes, <1>22 DEF MonitorError, EndPass
<1>23. CASE LremResent
  <2>1. inProgress' \in Seq(Jobs)
    BY <1>3, <1>23, LremContents DEF LremResent
  <2> QED BY <1>23, <2>1 DEF LremResent
<1>24. CASE LpushResent
  <2>1. ranges' \in Seq(Jobs)
    BY <1>3, <1>24, LpushContents DEF LpushResent
  <2> QED BY <1>24, <2>1 DEF LpushResent
<1>25. CASE LpushRaises
  BY PassResetTypes, <1>25 DEF LpushRaises, EndPass
<1>26. CASE MonitorRestart
  BY PassResetTypes, InitialStatusType, <1>26 DEF MonitorRestart
<1> QED BY <1>4, <1>5, <1>6, <1>7, <1>8, <1>9, <1>10, <1>11, <1>12, <1>13,
       <1>14, <1>15, <1>16, <1>17, <1>18, <1>19, <1>20, <1>21, <1>22, <1>23,
       <1>24, <1>25, <1>26
  DEF MonitorNext, MonitorStep, MonitorFault

(* Every step keeps the types, and requeue_job never runs without an orphan. *)
LEMMA TypeStep == TypeInv /\ [QueueNext]_queueVars => TypeInv'
<1>1. TypeInv /\ UNCHANGED queueVars => TypeInv'
  BY DEF queueVars, redisVars, workerVars, monitorVars, passVars, TypeInv, QueueTypeOK,
         RedisTypeOK, WorkerTypeOK, MonitorTypeOK, PassTypeOK, OrphansLeft
<1> QED BY <1>1, PreloadTypes, WorkerTypes, MonitorTypes DEF QueueNext

(* Every reachable state of the queues is well typed: the type invariant the  *)
(* runs check.                                                                *)
THEOREM QueueTypesHold == QueueSpec => []QueueTypeOK
<1>1. TypeInv => QueueTypeOK
  BY DEF TypeInv
<1> QED BY <1>1, InitTypes, TypeStep, PTL DEF QueueSpec

-----------------------------------------------------------------------------
(* No job is lost. *)

(* Only jobs are accounted for, and what requeue_job holds is its orphan. *)
LEMMA AccountedTypes ==
  TypeInv => /\ Accounted \subseteq Jobs
             /\ ToSet(InHand) = IF mpc = "lpush" THEN {Orphan} ELSE {}
<1> SUFFICES ASSUME TypeInv
             PROVE  /\ Accounted \subseteq Jobs
                    /\ ToSet(InHand) = IF mpc = "lpush" THEN {Orphan} ELSE {}
  OBVIOUS
<1>1. CASE mpc = "lpush"
  <2>1. Orphan \in Jobs
    BY <1>1, OrphanIsJob DEF TypeInv, OrphansLeft, Requeuing
  <2>2. ToSet(InHand) = {Orphan}
    BY <1>1, <2>1, SmallLists DEF InHand
  <2> QED BY <1>1, <2>1, <2>2, OnlyJobsOnList
           DEF TypeInv, QueueTypeOK, RedisTypeOK, Accounted, Done
<1>2. CASE mpc # "lpush"
  <2>1. ToSet(InHand) = {}
    BY <1>2, SmallLists, JobsAssumption DEF InHand
  <2> QED BY <1>2, <2>1, OnlyJobsOnList
           DEF TypeInv, QueueTypeOK, RedisTypeOK, Accounted, Done
<1> QED BY <1>1, <1>2

(* The claim script moves a job from one list to the other, it drops none. *)
LEMMA EvalClaimLosesNothing ==
  ASSUME RedisTypeOK, NEW w \in Workers, EvalClaim(w)
  PROVE  /\ ToSet(ranges) \cup ToSet(inProgress)
              \subseteq ToSet(ranges') \cup ToSet(inProgress')
         /\ Done' = Done
BY PopLeftContents, LpushContents DEF RedisTypeOK, EvalClaim, Done

(* Neither does the result transaction, which commits the job it removes. *)
LEMMA ResultLosesNothing ==
  ASSUME RedisTypeOK, NEW w \in Workers, wjob[w] \in Jobs, ResultTransaction(w)
  PROVE  /\ ranges' = ranges
         /\ ToSet(inProgress) \cup Done \subseteq ToSet(inProgress') \cup Done'
         /\ Done \subseteq Done'
<1>1. ToSet(inProgress) \subseteq {wjob[w]} \cup ToSet(inProgress')
  BY LremContents DEF RedisTypeOK, ResultTransaction
<1>2. {wjob[w]} \cup Done \subseteq Done'
  BY DEF ResultTransaction, Done
<1> QED BY <1>1, <1>2 DEF ResultTransaction

(* A worker's step moves jobs only forward. *)
LEMMA WorkerLosesNothing ==
  ASSUME TypeInv, WorkerNext
  PROVE  Accounted \subseteq Accounted' /\ Done \subseteq Done'
<1>1. InHand' = InHand
  BY DEF WorkerNext, InHand, Orphan, monitorVars, passVars
<1>2. PICK w \in Workers : WorkerStep(w) \/ WorkerFault(w)
  BY DEF WorkerNext
<1>3. RedisTypeOK /\ WorkerTypeOK
  BY DEF TypeInv, QueueTypeOK
<1>4. CASE UNCHANGED redisVars
  BY <1>1, <1>4 DEF redisVars, Accounted, Done
<1>5. CASE EvalClaim(w)
  BY <1>1, <1>3, <1>5, EvalClaimLosesNothing DEF Accounted
<1>6. CASE wpc[w] = "commit" /\ ResultTransaction(w)
  <2>1. wjob[w] \in Jobs
    BY <1>3, <1>6 DEF WorkerTypeOK, Holding
  <2> QED BY <1>1, <1>3, <1>6, <2>1, ResultLosesNothing DEF Accounted
<1> QED BY <1>2, <1>4, <1>5, <1>6
  DEF WorkerStep, WorkerFault, CheckRetiring, ClaimJob, ClaimNothing, ClaimError,
      Catchup, CommitResult, CommitReplyLost, RestartContainer, EvictPod

\* Something strikes between the LREM and the LPUSH of requeue_job, or makes the
\* client send one of them again.
TornRequeue ==
  \/ LremResent \/ LpushResent \/ LpushRaises
  \/ mpc = "lpush" /\ MonitorRestart

(* Neither does the monitor's, unless something strikes inside requeue_job. *)
LEMMA MonitorLosesNothing ==
  ASSUME TypeInv, TypeInv', MonitorNext, ~TornRequeue
  PROVE  Accounted \subseteq Accounted'
<1>1. RedisTypeOK /\ MonitorTypeOK /\ OrphansLeft
  BY DEF TypeInv, QueueTypeOK
<1>2. mpc \in Requeuing => Orphan \in Jobs
  BY OrphanIsJob DEF TypeInv, OrphansLeft
<1>3. /\ ToSet(InHand) = IF mpc = "lpush" THEN {Orphan} ELSE {}
      /\ ToSet(InHand') = IF mpc' = "lpush" THEN {Orphan'} ELSE {}
  <2>1. (Accounted \subseteq Jobs /\ ToSet(InHand) = IF mpc = "lpush" THEN {Orphan} ELSE {})'
    BY AccountedTypes, PTL
  <2> QED BY <2>1, AccountedTypes
<1>4. CASE RequeueLrem
  <2>1. Orphan \in Jobs /\ Orphan' = Orphan
    BY <1>2, <1>4 DEF Requeuing, RequeueLrem, Orphan, passVars
  <2>2. /\ inProgress' = LREM(inProgress, Orphan)
        /\ mpc' = IF Orphan \in ToSet(inProgress) THEN "lpush" ELSE "hdel"
        /\ ranges' = ranges /\ Done' = Done /\ mpc = "lrem"
    BY <1>4 DEF RequeueLrem, Done
  <2>3. ToSet(inProgress) \subseteq ToSet(inProgress') \cup ToSet(InHand')
    BY <1>1, <1>3, <2>1, <2>2, LremContents DEF RedisTypeOK
  <2> QED BY <1>3, <2>2, <2>3 DEF Accounted
<1>5. CASE RequeueLpush
  <2>1. ToSet(ranges') = {Orphan} \cup ToSet(ranges)
    BY <1>1, <1>2, <1>5, LpushContents DEF Requeuing, RequeueLpush, RedisTypeOK
  <2> QED BY <1>3, <1>5, <2>1 DEF RequeueLpush, Accounted, Done
<1>6. CASE RetryMove
  <2>1. /\ Last(inProgress) \in Jobs
        /\ ToSet(inProgress) = {Last(inProgress)} \cup ToSet(inProgress')
    BY <1>1, <1>6, PopRightContents DEF RetryMove, RedisTypeOK
  <2>2. ToSet(ranges') = {Last(inProgress)} \cup ToSet(ranges)
    BY <1>1, <1>6, <2>1, LpushContents DEF RetryMove, RedisTypeOK
  <2> QED BY <1>3, <1>6, <2>1, <2>2 DEF RetryMove, Accounted, Done
<1>7. CASE mpc # "lpush" /\ UNCHANGED <<ranges, inProgress, succeeded, failed>>
  BY <1>3, <1>7 DEF Accounted, Done
<1> QED BY <1>4, <1>5, <1>6, <1>7
  DEF MonitorNext, MonitorStep, MonitorFault, MonitorStart, ReadRemain, ReadFailed,
      ReadProgress, ReadOwners, RequeueHdel, RereadProgress, RereadRemain, PingWorker,
      MarkSurplus, ConfirmPing, RetryDone, DropOwner, Publish, Wake, MonitorError,
      MonitorRestart, TornRequeue, redisVars

(* Every loaded job is waiting, in progress, in the monitor's hand or         *)
(* committed.                                                                 *)
JobsKept == preloaded => Jobs = Accounted

(* Every step that does not tear requeue_job apart keeps it: workers and      *)
(* monitor by the lemmas above, and the bulk load because it pushes every job. *)
LEMMA KeptStep ==
  ASSUME TypeInv, JobsKept, [QueueNext]_queueVars, ~TornRequeue
  PROVE  JobsKept'
<1>1. TypeInv'
  BY TypeStep
<1>2. (Accounted \subseteq Jobs)'
  BY <1>1, AccountedTypes, PTL
<1> SUFFICES ASSUME preloaded'
             PROVE  Jobs \subseteq Accounted'
  BY <1>2 DEF JobsKept
<1>3. CASE Preload
  <2>1. PICK load \in SetToSeqs(Jobs) : \/ ranges' = ranges \o load
                                        \/ ranges' = ranges \o load \o load
    BY <1>3 DEF Preload
  <2>2. ranges \in Seq(Jobs) /\ load \in Seq(Jobs) /\ ToSet(load) = Jobs
    BY LoadContents DEF TypeInv, QueueTypeOK, RedisTypeOK
  <2>3. ranges \o load \in Seq(Jobs) /\ Jobs \subseteq ToSet(ranges \o load)
    BY <2>2, ConcatContents
  <2>4. Jobs \subseteq ToSet(ranges \o load \o load)
    <3>1. \A once \in Seq(Jobs) : ToSet(once \o load) = ToSet(once) \cup ToSet(load)
      BY <2>2, ConcatContents
    <3> QED BY <2>2, <2>3, <3>1
  <2> QED BY <2>1, <2>3, <2>4 DEF Accounted
<1>4. CASE WorkerNext
  BY <1>4, WorkerLosesNothing DEF JobsKept, WorkerNext
<1>5. CASE MonitorNext
  BY <1>1, <1>5, MonitorLosesNothing DEF JobsKept, MonitorNext
<1>6. CASE UNCHANGED queueVars
  BY <1>6 DEF queueVars, redisVars, workerVars, monitorVars, passVars,
              JobsKept, Accounted, Done, InHand, Orphan
<1> QED BY <1>3, <1>4, <1>5, <1>6 DEF QueueNext

(* requeue_job is torn apart only by a fault of its own kind. *)
LEMMA TornIsFault == TornRequeue => "requeueError" \in FaultKinds
BY DEF TornRequeue, LremResent, LpushResent, LpushRaises, MonitorRestart, Fault

(* No step takes a job out of Done. *)
LEMMA DoneGrows ==
  ASSUME TypeInv, [QueueNext]_queueVars
  PROVE  Done \subseteq Done'
<1>1. CASE Preload \/ UNCHANGED queueVars
  BY <1>1 DEF Preload, queueVars, redisVars, Done
<1>2. CASE MonitorNext
  BY <1>2 DEF MonitorNext, MonitorStep, MonitorFault, MonitorStart, ReadRemain, ReadFailed,
      ReadProgress, ReadOwners, RequeueLrem, RequeueLpush, RequeueHdel, RereadProgress,
      RereadRemain, PingWorker, MarkSurplus, ConfirmPing, RetryMove, RetryDone, DropOwner,
      Publish, Wake, MonitorError, LremResent, LpushResent, LpushRaises, MonitorRestart,
      redisVars, Done
<1> QED BY <1>1, <1>2, WorkerLosesNothing DEF QueueNext

JobInv == TypeInv /\ ("requeueError" \notin FaultKinds => JobsKept)

(* No claim, commit, requeue, retry, crash or resent command loses a job:     *)
(* NoJobLost, for any number of jobs, workers and faults.                     *)
THEOREM NoJobIsLost == QueueSpec => []NoJobLost
<1>1. QueueInit => JobInv
  BY InitTypes DEF QueueInit, JobInv, JobsKept
<1>2. JobInv => NoJobLost
  BY DEF JobInv, JobsKept, NoJobLost
<1>3. JobInv /\ [QueueNext]_queueVars => JobInv'
  BY TypeStep, KeptStep, TornIsFault DEF JobInv
<1> QED BY <1>1, <1>2, <1>3, PTL DEF QueueSpec

-----------------------------------------------------------------------------
(* The order in which a mission starts, and what a pass knows of itself. *)

\* Until the bulk load there is nothing in ranges, and the monitor waits.
LoadedFirst == ranges # <<>> \/ mpc # "init" => preloaded

\* A pass that requeues orphans knows that it will read its counts again.
RereadKnown == mpc \in Requeuing \cup {"reProgress", "reRemain"} => mReread

(* A worker's step leaves the monitor alone and only shortens ranges. *)
LEMMA WorkerShortensRanges ==
  ASSUME TypeInv, WorkerNext
  PROVE  /\ UNCHANGED <<monitorVars, preloaded>>
         /\ Len(ranges') <= Len(ranges)
         /\ ranges' # <<>> => ranges # <<>>
<1>1. PICK w \in Workers : WorkerStep(w) \/ WorkerFault(w)
  BY DEF WorkerNext
<1>2. UNCHANGED ranges \/ EvalClaim(w)
  BY <1>1 DEF WorkerStep, WorkerFault, CheckRetiring, ClaimJob, ClaimNothing, ClaimError,
      Catchup, CommitResult, CommitReplyLost, RestartContainer, EvictPod,
      ResultTransaction, redisVars
<1>3. ranges \in Seq(Jobs)
  BY DEF TypeInv, QueueTypeOK, RedisTypeOK
<1>4. EvalClaim(w) => ranges # <<>> /\ Len(ranges') <= Len(ranges)
  BY <1>3 DEF EvalClaim
<1>5. UNCHANGED ranges => Len(ranges') <= Len(ranges)
  BY <1>3
<1> QED BY <1>2, <1>4, <1>5 DEF WorkerNext

(* LoadedFirst and RereadKnown are kept. *)
LEMMA LoadedStep ==
  ASSUME TypeInv, LoadedFirst, RereadKnown, [QueueNext]_queueVars
  PROVE  LoadedFirst' /\ RereadKnown'
<1>1. CASE Preload \/ UNCHANGED queueVars
  BY <1>1 DEF Preload, queueVars, redisVars, monitorVars, passVars, LoadedFirst, RereadKnown
<1>2. CASE WorkerNext
  BY <1>2, WorkerShortensRanges DEF monitorVars, passVars, LoadedFirst, RereadKnown
<1>3. CASE MonitorNext
  <2>1. LoadedFirst'
    BY <1>3 DEF MonitorNext, MonitorStep, MonitorFault, MonitorStart, ReadRemain, ReadFailed,
      ReadProgress, ReadOwners, RequeueLrem, RequeueLpush, RequeueHdel, RereadProgress,
      RereadRemain, PingWorker, MarkSurplus, ConfirmPing, RetryMove, RetryDone, DropOwner,
      Publish, Wake, MonitorError, LremResent, LpushResent, LpushRaises, MonitorRestart,
      LoadedFirst
  <2>2. RereadKnown'
    BY <1>3 DEF MonitorNext, MonitorStep, MonitorFault, MonitorStart, ReadRemain, ReadFailed,
      ReadProgress, ReadOwners, RequeueLrem, RequeueLpush, RequeueHdel, RereadProgress,
      RereadRemain, PingWorker, MarkSurplus, ConfirmPing, RetryMove, RetryDone, DropOwner,
      Publish, Wake, MonitorError, LremResent, LpushResent, LpushRaises, MonitorRestart,
      EndPass, passVars, RereadKnown, Requeuing
  <2> QED BY <2>1, <2>2
<1> QED BY <1>1, <1>2, <1>3 DEF QueueNext

-----------------------------------------------------------------------------
(* No job is on the lists twice, so what a claim, a commit or a requeue does   *)
(* to a list is what Take, Finish and TakeBack of WorkQueue do to a set.       *)

(* No fault that breaks the queue itself: see NoDuplicateEntry. *)
NoTornCommand == {"requeueError", "preloadReply"} \cap FaultKinds = {}

(* The three places a job may wait or be in share no job and repeat none. *)
EachJobOnce ==
  /\ IsInjective(ranges) /\ IsInjective(inProgress)
  /\ ToSet(ranges) \cap ToSet(inProgress) = {}
  /\ ToSet(InHand) \cap (ToSet(ranges) \cup ToSet(inProgress)) = {}

\* Nothing is in progress before the bulk load.
NoneOutBefore == inProgress # <<>> => preloaded

OnceInv ==
  /\ TypeInv
  /\ LoadedFirst
  /\ RereadKnown
  /\ NoneOutBefore
  /\ EachJobOnce

(* EachJobOnce is NoDuplicateEntry, list by list. *)
LEMMA OnceMeansNoDuplicate ==
  ASSUME TypeInv, EachJobOnce
  PROVE  IsInjective(ranges \o InHand \o inProgress)
<1>1. ranges \in Seq(Jobs) /\ inProgress \in Seq(Jobs)
  BY DEF TypeInv, QueueTypeOK, RedisTypeOK
<1>2. InHand \in Seq(Jobs) /\ IsInjective(InHand)
  <2>1. mpc = "lpush" => Orphan \in Jobs
    BY OrphanIsJob DEF TypeInv, OrphansLeft, Requeuing
  <2> QED BY <2>1, SmallLists, SmallInjective, JobsAssumption DEF InHand
<1>3. ranges \o InHand \in Seq(Jobs) /\ ToSet(ranges \o InHand) = ToSet(ranges) \cup ToSet(InHand)
  BY <1>1, <1>2, ConcatContents
<1>4. IsInjective(ranges \o InHand)
  BY <1>1, <1>2, ConcatInjective DEF EachJobOnce
<1>5. ToSet(ranges \o InHand) \cap ToSet(inProgress) = {}
  BY <1>3 DEF EachJobOnce
<1> QED BY <1>1, <1>3, <1>4, <1>5, ConcatInjective DEF EachJobOnce

-----------------------------------------------------------------------------
(* What each kind of step does to the sets of jobs on the lists. *)

(* The claim script takes one job out of ranges and into in_progress. *)
LEMMA ClaimMoves ==
  ASSUME OnceInv, NEW w \in Workers, EvalClaim(w), InHand' = InHand
  PROVE  /\ Head(ranges) \in ToSet(ranges) /\ Head(ranges) \in Jobs
         /\ ToSet(ranges') = ToSet(ranges) \ {Head(ranges)}
         /\ ToSet(inProgress') = ToSet(inProgress) \cup {Head(ranges)}
         /\ Done' = Done
         /\ EachJobOnce'
<1>1. ranges \in Seq(Jobs) /\ inProgress \in Seq(Jobs) /\ ranges # <<>>
  BY DEF OnceInv, TypeInv, QueueTypeOK, RedisTypeOK, EvalClaim
<1>2. /\ Head(ranges) \in Jobs /\ Head(ranges) \in ToSet(ranges)
      /\ Head(ranges) \notin ToSet(inProgress)
  BY <1>1, PopLeftContents DEF OnceInv, EachJobOnce
<1>3. IsInjective(ranges') /\ ToSet(ranges') = ToSet(ranges) \ {Head(ranges)}
  BY <1>1, PopInjective DEF OnceInv, EachJobOnce, EvalClaim
<1>4. IsInjective(inProgress') /\ ToSet(inProgress') = ToSet(inProgress) \cup {Head(ranges)}
  <2>1. inProgress' = LPUSH(inProgress, Head(ranges)) /\ IsInjective(inProgress)
    BY DEF OnceInv, EachJobOnce, EvalClaim
  <2>2. IsInjective(LPUSH(inProgress, Head(ranges)))
    BY <1>1, <1>2, <2>1, LpushInjective
  <2>3. ToSet(LPUSH(inProgress, Head(ranges))) = {Head(ranges)} \cup ToSet(inProgress)
    BY <1>1, <1>2, LpushContents
  <2> QED BY <2>1, <2>2, <2>3
<1>5. Done' = Done
  BY DEF EvalClaim, Done
<1> QED BY <1>2, <1>3, <1>4, <1>5 DEF OnceInv, EachJobOnce

(* The result transaction takes the worker's job out of in_progress, if it is *)
(* still there, and commits it.                                               *)
LEMMA ResultMoves ==
  ASSUME OnceInv, NEW w \in Workers, wjob[w] \in Jobs, ResultTransaction(w), InHand' = InHand
  PROVE  /\ ranges' = ranges
         /\ ToSet(inProgress') = ToSet(inProgress) \ {wjob[w]}
         /\ Done' = Done \cup {wjob[w]}
         /\ EachJobOnce'
<1>1. inProgress \in Seq(Jobs)
  BY DEF OnceInv, TypeInv, QueueTypeOK, RedisTypeOK
<1>2. IsInjective(inProgress') /\ ToSet(inProgress') = ToSet(inProgress) \ {wjob[w]}
  BY <1>1, LremInjective DEF OnceInv, EachJobOnce, ResultTransaction
<1>3. ranges' = ranges /\ Done' = Done \cup {wjob[w]}
  BY DEF ResultTransaction, Done
<1> QED BY <1>2, <1>3 DEF OnceInv, EachJobOnce

(* The LREM of requeue_job takes its orphan into the monitor's hand. *)
LEMMA LremMoves ==
  ASSUME OnceInv, RequeueLrem
  PROVE  /\ Orphan \in Jobs
         /\ ranges' = ranges /\ Done' = Done /\ ToSet(InHand) = {}
         /\ ToSet(inProgress') = ToSet(inProgress) \ {Orphan}
         /\ ToSet(InHand') = IF Orphan \in ToSet(inProgress) THEN {Orphan} ELSE {}
         /\ EachJobOnce'
<1>1. Orphan \in Jobs /\ Orphan' = Orphan
  BY OrphanIsJob DEF OnceInv, TypeInv, OrphansLeft, Requeuing, RequeueLrem, Orphan, passVars
<1>2. inProgress \in Seq(Jobs)
  BY DEF OnceInv, TypeInv, QueueTypeOK, RedisTypeOK
<1>3. IsInjective(inProgress') /\ ToSet(inProgress') = ToSet(inProgress) \ {Orphan}
  BY <1>1, <1>2, LremInjective DEF OnceInv, EachJobOnce, RequeueLrem
<1>4. ranges' = ranges /\ Done' = Done
  BY DEF RequeueLrem, Done
<1>5. ToSet(InHand) = {}
  BY AccountedTypes DEF OnceInv, RequeueLrem
<1>6. ToSet(InHand') = IF Orphan \in ToSet(inProgress) THEN {Orphan} ELSE {}
  BY <1>1, SmallLists DEF RequeueLrem, InHand
<1>7. Orphan \in ToSet(inProgress) => Orphan \notin ToSet(ranges)
  BY DEF OnceInv, EachJobOnce
<1> QED BY <1>1, <1>3, <1>4, <1>5, <1>6, <1>7 DEF OnceInv, EachJobOnce

(* Its LPUSH puts the orphan from the monitor's hand on ranges. *)
LEMMA LpushMoves ==
  ASSUME OnceInv, RequeueLpush
  PROVE  /\ inProgress' = inProgress /\ Done' = Done /\ ToSet(InHand') = {}
         /\ ToSet(ranges') = ToSet(ranges) \cup ToSet(InHand)
         /\ EachJobOnce'
<1>1. Orphan \in Jobs /\ ToSet(InHand) = {Orphan}
  BY OrphanIsJob, AccountedTypes DEF OnceInv, TypeInv, OrphansLeft, Requeuing, RequeueLpush
<1>2. ranges \in Seq(Jobs) /\ Orphan \notin ToSet(ranges) /\ Orphan \notin ToSet(inProgress)
  BY <1>1 DEF OnceInv, EachJobOnce, TypeInv, QueueTypeOK, RedisTypeOK
<1>3. IsInjective(ranges') /\ ToSet(ranges') = ToSet(ranges) \cup {Orphan}
  BY <1>1, <1>2, LpushInjective, LpushContents DEF OnceInv, EachJobOnce, RequeueLpush
<1>4. inProgress' = inProgress /\ Done' = Done
  BY DEF RequeueLpush, Done
<1>5. ToSet(InHand') = {}
  BY SmallLists, JobsAssumption DEF RequeueLpush, InHand
<1> QED BY <1>1, <1>2, <1>3, <1>4, <1>5 DEF OnceInv, EachJobOnce

(* A move of retry_jobs_in_progress takes the job that has waited longest in  *)
(* in_progress back to ranges.                                                *)
LEMMA RetryMoves ==
  ASSUME OnceInv, RetryMove
  PROVE  /\ Last(inProgress) \in Jobs /\ Last(inProgress) \in ToSet(inProgress)
         /\ ToSet(ranges') = ToSet(ranges) \cup {Last(inProgress)}
         /\ ToSet(inProgress') = ToSet(inProgress) \ {Last(inProgress)}
         /\ Done' = Done /\ ToSet(InHand) = {} /\ ToSet(InHand') = {}
         /\ EachJobOnce'
<1>1. ranges \in Seq(Jobs) /\ inProgress \in Seq(Jobs) /\ inProgress # <<>>
  BY DEF OnceInv, TypeInv, QueueTypeOK, RedisTypeOK, RetryMove
<1>2. /\ Last(inProgress) \in Jobs /\ Last(inProgress) \in ToSet(inProgress)
      /\ Last(inProgress) \notin ToSet(ranges)
  BY <1>1, PopRightContents DEF OnceInv, EachJobOnce
<1>3. /\ IsInjective(inProgress')
      /\ ToSet(inProgress') = ToSet(inProgress) \ {Last(inProgress)}
  BY <1>1, PopInjective DEF OnceInv, EachJobOnce, RetryMove
<1>4. IsInjective(ranges') /\ ToSet(ranges') = ToSet(ranges) \cup {Last(inProgress)}
  <2>1. ranges' = LPUSH(ranges, Last(inProgress)) /\ IsInjective(ranges)
    BY DEF OnceInv, EachJobOnce, RetryMove
  <2>2. IsInjective(LPUSH(ranges, Last(inProgress)))
    BY <1>1, <1>2, <2>1, LpushInjective
  <2>3. ToSet(LPUSH(ranges, Last(inProgress))) = ToSet(ranges) \cup {Last(inProgress)}
    <3>1. Last(inProgress) \in Jobs
      BY <1>2
    <3>2. \A j \in Jobs : ToSet(LPUSH(ranges, j)) = {j} \cup ToSet(ranges)
      BY <1>1, LpushContents
    <3> QED BY <3>1, <3>2
  <2> QED BY <2>1, <2>2, <2>3
<1>5. Done' = Done /\ ToSet(InHand) = {} /\ ToSet(InHand') = {}
  BY SmallLists, JobsAssumption DEF RetryMove, InHand, Done
<1> QED BY <1>2, <1>3, <1>4, <1>5 DEF OnceInv, EachJobOnce

(* The bulk load fills an empty queue with every job. *)
LEMMA PreloadMoves ==
  ASSUME OnceInv, NoTornCommand, Preload
  PROVE  /\ ToSet(ranges') = Jobs /\ inProgress' = inProgress /\ Done' = Done
         /\ ToSet(inProgress) = {} /\ ToSet(InHand') = {}
         /\ EachJobOnce'
<1>1. ~preloaded /\ ranges = <<>> /\ mpc = "init" /\ mpc' = "init"
  BY DEF OnceInv, LoadedFirst, Preload, monitorVars
<1>2. inProgress = <<>> /\ inProgress' = inProgress
  BY <1>1 DEF OnceInv, NoneOutBefore, Preload
<1>3. PICK load \in SetToSeqs(Jobs) : ranges' = ranges \o load
  BY DEF Preload, Fault, NoTornCommand
<1>4. load \in Seq(Jobs) /\ ToSet(load) = Jobs /\ IsInjective(load)
  BY LoadContents, LoadInjective
<1>5. ranges' = load
  BY <1>1, <1>3, <1>4
<1>6. ToSet(inProgress) = {} /\ ToSet(InHand') = {} /\ IsInjective(inProgress)
  BY <1>1, <1>2, SmallLists, SmallInjective, JobsAssumption DEF InHand
<1>7. Done' = Done
  BY DEF Preload, Done
<1> QED BY <1>2, <1>4, <1>5, <1>6, <1>7 DEF EachJobOnce

-----------------------------------------------------------------------------
(* Every step keeps the invariant. *)

(* What a step of a worker does to Redis: nothing, a claim, or a result.      *)
LEMMA WorkerKinds ==
  ASSUME TypeInv, WorkerNext
  PROVE  /\ InHand' = InHand /\ UNCHANGED preloaded
         /\ \E w \in Workers :
              \/ UNCHANGED redisVars
              \/ EvalClaim(w)
              \/ ResultTransaction(w) /\ wjob[w] \in Jobs
<1>1. InHand' = InHand /\ UNCHANGED preloaded
  BY DEF WorkerNext, InHand, Orphan, monitorVars, passVars
<1>2. PICK w \in Workers : WorkerStep(w) \/ WorkerFault(w)
  BY DEF WorkerNext
<1>3. wpc[w] = "commit" => wjob[w] \in Jobs
  BY DEF TypeInv, QueueTypeOK, WorkerTypeOK, Holding
<1> QED BY <1>1, <1>2, <1>3
  DEF WorkerStep, WorkerFault, CheckRetiring, ClaimJob, ClaimNothing, ClaimError,
      Catchup, CommitResult, CommitReplyLost, RestartContainer, EvictPod

(* What a step of the monitor does to the lists and what it has in hand.      *)
LEMMA MonitorKinds ==
  ASSUME TypeInv, NoTornCommand, MonitorNext
  PROVE  /\ UNCHANGED <<workerVars, preloaded>>
         /\ \/ RequeueLrem
            \/ RequeueLpush
            \/ RetryMove
            \/ /\ UNCHANGED <<ranges, inProgress, succeeded, failed>>
               /\ mpc # "lpush" /\ mpc' # "lpush"
<1>1. mOrphans # {} => mpc \in Requeuing
  BY DEF TypeInv, OrphansLeft
<1> QED BY <1>1
  DEF NoTornCommand, MonitorNext, MonitorStep, MonitorFault, MonitorStart, ReadRemain, ReadFailed,
      ReadProgress, ReadOwners, RequeueHdel, RereadProgress, RereadRemain, PingWorker,
      MarkSurplus, ConfirmPing, RetryDone, DropOwner, Publish, Wake, MonitorError, EndPass,
      LremResent, LpushResent, LpushRaises, MonitorRestart, Fault, redisVars

(* EachJobOnce and the facts it rests on are inductive. *)
LEMMA OnceStep ==
  ASSUME OnceInv, NoTornCommand, [QueueNext]_queueVars
  PROVE  OnceInv'
<1>1. TypeInv' /\ LoadedFirst' /\ RereadKnown'
  BY TypeStep, LoadedStep DEF OnceInv
<1> SUFFICES NoneOutBefore' /\ EachJobOnce'
  BY <1>1 DEF OnceInv
<1>2. CASE Preload
  BY <1>2, PreloadMoves DEF NoneOutBefore, Preload
<1>3. CASE WorkerNext
  <2>1. PICK w \in Workers : \/ UNCHANGED redisVars
                             \/ EvalClaim(w)
                             \/ ResultTransaction(w) /\ wjob[w] \in Jobs
    BY <1>3, WorkerKinds DEF OnceInv
  <2>2. InHand' = InHand /\ UNCHANGED preloaded
    BY <1>3, WorkerKinds DEF OnceInv
  <2>3. CASE UNCHANGED redisVars
    BY <2>2, <2>3 DEF OnceInv, NoneOutBefore, EachJobOnce, redisVars
  <2>4. CASE EvalClaim(w)
    <3>1. preloaded
      BY <2>4 DEF OnceInv, LoadedFirst, EvalClaim
    <3> QED BY <2>2, <2>4, <3>1, ClaimMoves DEF NoneOutBefore
  <2>5. CASE ResultTransaction(w) /\ wjob[w] \in Jobs
    <3>1. inProgress' # <<>> => inProgress # <<>>
      BY <2>5, SmallLists, LremContents DEF ResultTransaction, LREM
    <3> QED BY <2>2, <2>5, <3>1, ResultMoves DEF OnceInv, NoneOutBefore
  <2> QED BY <2>1, <2>3, <2>4, <2>5
<1>4. CASE MonitorNext
  <2>1. EachJobOnce'
    <3>1. CASE RequeueLrem
      BY <3>1, LremMoves
    <3>2. CASE RequeueLpush
      BY <3>2, LpushMoves
    <3>3. CASE RetryMove
      BY <3>3, RetryMoves
    <3>4. CASE /\ UNCHANGED <<ranges, inProgress, succeeded, failed>>
               /\ mpc # "lpush" /\ mpc' # "lpush"
      BY <3>4 DEF OnceInv, EachJobOnce, InHand
    <3> QED BY <1>4, <3>1, <3>2, <3>3, <3>4, MonitorKinds DEF OnceInv
  <2>2. NoneOutBefore'
    <3>1. mpc # "init" => preloaded
      BY DEF OnceInv, LoadedFirst
    <3>2. inProgress' # inProgress => mpc # "init"
      BY <1>4, MonitorKinds DEF OnceInv, RequeueLrem, RequeueLpush, RetryMove
    <3> QED BY <1>4, <3>1, <3>2, MonitorKinds DEF OnceInv, NoneOutBefore
  <2> QED BY <2>1, <2>2
<1>5. CASE UNCHANGED queueVars
  BY <1>5 DEF queueVars, redisVars, monitorVars, passVars, OnceInv, NoneOutBefore,
              EachJobOnce, InHand, Orphan
<1> QED BY <1>2, <1>3, <1>4, <1>5 DEF QueueNext

(* It holds before the bulk load. *)
LEMMA OnceInit == QueueInit => OnceInv
<1> SUFFICES ASSUME QueueInit PROVE OnceInv
  OBVIOUS
<1>1. TypeInv
  BY InitTypes
<1>2. ranges = <<>> /\ inProgress = <<>> /\ mpc = "init" /\ InHand = <<>>
  BY DEF QueueInit, RedisInit, MonitorInit, InHand
<1>3. EachJobOnce
  BY <1>2, SmallLists, SmallInjective, JobsAssumption DEF EachJobOnce
<1> QED BY <1>1, <1>2, <1>3 DEF OnceInv, LoadedFirst, RereadKnown, Requeuing, NoneOutBefore

(* Inductive, hence always. *)
LEMMA OnceAlways == NoTornCommand => (QueueSpec => []OnceInv)
<1> SUFFICES ASSUME NoTornCommand PROVE QueueSpec => []OnceInv
  OBVIOUS
<1>1. OnceInv /\ [QueueNext]_queueVars => OnceInv'
  BY OnceStep
<1> QED BY <1>1, OnceInit, PTL DEF QueueSpec

(* No job is on the lists twice: a claim, a requeue or a retry never copies   *)
(* one, for any number of jobs, workers and faults.                           *)
THEOREM NoJobTwice == QueueSpec => []NoDuplicateEntry
<1>1. CASE NoTornCommand
  <2>1. OnceInv => NoDuplicateEntry
    BY OnceMeansNoDuplicate DEF OnceInv, NoDuplicateEntry
  <2> QED BY <1>1, <2>1, OnceAlways, PTL
<1>2. CASE ~NoTornCommand
  <2>1. NoDuplicateEntry
    BY <1>2 DEF NoTornCommand, NoDuplicateEntry
  <2> QED BY <2>1, PTL
<1> QED BY <1>1, <1>2

-----------------------------------------------------------------------------
(* The refinement. *)

(* A step that changes no list, no outcome and no worker's job is a stutter. *)
LEMMA StutterSeen ==
  ASSUME OnceInv, UNCHANGED <<ranges, inProgress, succeeded, failed, wjob, preloaded>>,
         InHand' = InHand
  PROVE  UNCHANGED WQ!wqVars
BY DEF WQ!wqVars, Done

(* A worker's step is a Take, a Finish, a LetGo or a stutter. *)
LEMMA WorkerIsWork ==
  ASSUME OnceInv, WorkerNext
  PROVE  [WQ!WQNext]_(WQ!wqVars)
<1>1. InHand' = InHand /\ UNCHANGED preloaded
  BY WorkerKinds DEF OnceInv
<1>2. PICK w \in Workers : WorkerStep(w) \/ WorkerFault(w)
  BY DEF WorkerNext
<1>3. /\ wjob \in [Workers -> Jobs \cup {Nil}]
      /\ wpc[w] = "claim" => wjob[w] = Nil
      /\ wpc[w] = "commit" => wjob[w] \in Jobs
  BY NilAssumption DEF OnceInv, TypeInv, QueueTypeOK, WorkerTypeOK, Holding
<1>4. ASSUME EvalClaim(w), wpc[w] = "claim",
             wjob' \in {wjob, [wjob EXCEPT ![w] = Head(ranges)]}
      PROVE  WQ!Take(Head(ranges), w) /\ Head(ranges) \in Jobs
  <2>1. /\ Head(ranges) \in ToSet(ranges) /\ Head(ranges) \in Jobs
        /\ ToSet(ranges') = ToSet(ranges) \ {Head(ranges)}
        /\ ToSet(inProgress') = ToSet(inProgress) \cup {Head(ranges)}
        /\ Done' = Done
    BY <1>1, <1>4, ClaimMoves
  <2>2. Head(ranges) \notin ToSet(InHand)
    BY <2>1 DEF OnceInv, EachJobOnce
  <2>3. ToSet(ranges') \cup ToSet(InHand') = (ToSet(ranges) \cup ToSet(InHand)) \ {Head(ranges)}
    BY <1>1, <2>1, <2>2
  <2> QED BY <1>1, <1>3, <1>4, <2>1, <2>3 DEF WQ!Take
<1>5. ASSUME ResultTransaction(w), wpc[w] = "commit",
             wjob' \in {wjob, [wjob EXCEPT ![w] = Nil]}
      PROVE  WQ!Finish(w)
  <2>1. /\ ranges' = ranges
        /\ ToSet(inProgress') = ToSet(inProgress) \ {wjob[w]}
        /\ Done' = Done \cup {wjob[w]}
    BY <1>1, <1>3, <1>5, ResultMoves
  <2>2. wjob[w] # Nil
    BY <1>3, <1>5, NilAssumption
  <2>3. ToSet(ranges') \cup ToSet(InHand') = ToSet(ranges) \cup ToSet(InHand)
    BY <1>1, <2>1
  <2> QED BY <1>1, <1>5, <2>1, <2>2, <2>3 DEF WQ!Finish
<1>6. ASSUME UNCHANGED redisVars, wjob' = [wjob EXCEPT ![w] = Nil]
      PROVE  WQ!LetGo({w})
  <2>1. wjob' = [v \in Workers |-> IF v \in {w} THEN Nil ELSE wjob[v]]
    BY <1>3, <1>6
  <2> QED BY <1>1, <1>6, <2>1 DEF WQ!LetGo, Done, redisVars
<1>7. ASSUME UNCHANGED redisVars, UNCHANGED wjob
      PROVE  UNCHANGED WQ!wqVars
  BY <1>1, <1>7, StutterSeen DEF redisVars
<1>8. CASE ClaimJob(w) \/ ClaimError(w)
  BY <1>4, <1>7, <1>8 DEF ClaimJob, ClaimError, WQ!WQNext
<1>9. CASE CommitResult(w) \/ CommitReplyLost(w)
  BY <1>5, <1>9 DEF CommitResult, CommitReplyLost, Forget, workerVars, WQ!WQNext
<1>10. CASE RestartContainer(w) \/ EvictPod(w)
  <2>1. WQ!LetGo({w}) /\ {w} \in SUBSET Workers
    BY <1>6, <1>10 DEF RestartContainer, EvictPod, RemovePod, Forget
  <2> QED BY <2>1 DEF WQ!WQNext
<1>11. CASE CheckRetiring(w) \/ ClaimNothing(w) \/ Catchup(w)
  BY <1>7, <1>11 DEF CheckRetiring, ClaimNothing, Catchup
<1> QED BY <1>2, <1>8, <1>9, <1>10, <1>11 DEF WorkerStep, WorkerFault

(* A monitor's step is a TakeBack or a stutter: the LREM of a requeue takes   *)
(* the orphan back, its LPUSH changes nothing that the abstract queue sees.   *)
LEMMA MonitorIsWork ==
  ASSUME OnceInv, NoTornCommand, MonitorNext
  PROVE  [WQ!WQNext]_(WQ!wqVars)
<1>1. UNCHANGED <<wjob, preloaded>>
  BY MonitorKinds DEF OnceInv, workerVars
<1>2. CASE RequeueLrem
  <2>1. /\ Orphan \in Jobs
        /\ ranges' = ranges /\ Done' = Done /\ ToSet(InHand) = {}
        /\ ToSet(inProgress') = ToSet(inProgress) \ {Orphan}
        /\ ToSet(InHand') = IF Orphan \in ToSet(inProgress) THEN {Orphan} ELSE {}
    BY <1>2, LremMoves
  <2>2. CASE Orphan \in ToSet(inProgress)
    <3>1. WQ!TakeBack(Orphan)
      BY <1>1, <2>1, <2>2 DEF WQ!TakeBack
    <3> QED BY <2>1, <3>1 DEF WQ!WQNext
  <2>3. CASE Orphan \notin ToSet(inProgress)
    <3>1. ToSet(inProgress') = ToSet(inProgress) /\ ToSet(InHand') = ToSet(InHand)
      BY <2>1, <2>3
    <3> QED BY <1>1, <2>1, <3>1 DEF WQ!wqVars
  <2> QED BY <2>2, <2>3
<1>3. CASE RequeueLpush
  <2>1. /\ inProgress' = inProgress /\ Done' = Done
        /\ ToSet(ranges') \cup ToSet(InHand') = ToSet(ranges) \cup ToSet(InHand)
    BY <1>3, LpushMoves
  <2> QED BY <1>1, <2>1 DEF WQ!wqVars
<1>4. CASE RetryMove
  <2>1. /\ Last(inProgress) \in Jobs /\ Last(inProgress) \in ToSet(inProgress)
        /\ ToSet(ranges') = ToSet(ranges) \cup {Last(inProgress)}
        /\ ToSet(inProgress') = ToSet(inProgress) \ {Last(inProgress)}
        /\ Done' = Done /\ ToSet(InHand) = {} /\ ToSet(InHand') = {}
    BY <1>4, RetryMoves
  <2>2. WQ!TakeBack(Last(inProgress))
    BY <1>1, <2>1 DEF WQ!TakeBack
  <2> QED BY <2>1, <2>2 DEF WQ!WQNext
<1>5. CASE /\ UNCHANGED <<ranges, inProgress, succeeded, failed>>
           /\ mpc # "lpush" /\ mpc' # "lpush"
  BY <1>1, <1>5, StutterSeen DEF InHand
<1> QED BY <1>2, <1>3, <1>4, <1>5, MonitorKinds DEF OnceInv

(* Every step of the queues is a step of the work queue or a stutter. *)
LEMMA StepIsWork ==
  ASSUME OnceInv, NoTornCommand, [QueueNext]_queueVars
  PROVE  [WQ!WQNext]_(WQ!wqVars)
<1>1. CASE Preload
  <2>1. /\ ToSet(ranges') \cup ToSet(InHand') = Jobs /\ Done' = Done
        /\ inProgress' = inProgress
    BY <1>1, PreloadMoves
  <2>2. WQ!Fill
    BY <1>1, <2>1 DEF Preload, workerVars, WQ!Fill
  <2> QED BY <2>2 DEF WQ!WQNext
<1>2. CASE UNCHANGED queueVars
  BY <1>2, StutterSeen DEF queueVars, redisVars, workerVars, monitorVars, passVars, InHand, Orphan
<1> QED BY <1>1, <1>2, WorkerIsWork, MonitorIsWork DEF QueueNext

(* The initial states correspond. *)
LEMMA InitIsWork == QueueInit => WQ!WQInit
<1> SUFFICES ASSUME QueueInit PROVE WQ!WQInit
  OBVIOUS
<1>1. ranges = <<>> /\ inProgress = <<>> /\ InHand = <<>> /\ Done = {} /\ ~preloaded
  BY DEF QueueInit, RedisInit, MonitorInit, InHand, Done
<1>2. ToSet(ranges) = {} /\ ToSet(inProgress) = {} /\ ToSet(InHand) = {}
  BY <1>1, SmallLists, JobsAssumption
<1>3. wjob = [w \in Workers |-> Nil]
  BY DEF QueueInit, WorkerInit
<1> QED BY <1>1, <1>2, <1>3 DEF WQ!WQInit

(* The Redis lists, the worker scripts and the monitor's passes implement the *)
(* work queue, as long as no fault breaks a requeue in two or repeats the     *)
(* bulk load.                                                                 *)
THEOREM QueuesAreAWorkQueue == NoTornCommand => (QueueSpec => ImplementsWorkQueue)
<1> SUFFICES ASSUME NoTornCommand PROVE QueueSpec => ImplementsWorkQueue
  OBVIOUS
<1>1. OnceInv /\ [QueueNext]_queueVars => [WQ!WQNext]_(WQ!wqVars)
  BY StepIsWork
<1> QED BY <1>1, InitIsWork, OnceAlways, PTL DEF QueueSpec, ImplementsWorkQueue, WQ!WQSpec
=============================================================================
