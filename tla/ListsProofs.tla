----------------------------- MODULE ListsProofs -----------------------------
(***************************************************************************)
(* What the loops of Lists compute, for lists of any length.               *)
(*                                                                         *)
(* Induction is over sets: a set of numbers that has 0 and, with every     *)
(* number, the next one has them all, since the least one it lacked would  *)
(* follow one it has.  A recursive function is a CHOOSE; that there is one *)
(* to choose is shown the same way (Iteration).                            *)
(***************************************************************************)
EXTENDS Lists, SequenceTheorems, FiniteSetTheorems, WellFoundedInduction, TLAPS

\* f goes step by step from base, N times.
Iterates(f, N, base, step) == f = [n \in 0 .. N |-> IF n = 0 THEN base ELSE step[n][f[n - 1]]]

\* kept is the function of Kept, once that of Once, and joined that of Joined.
Keeps(kept, N, list, S) ==
    kept = [n \in 0 .. N |-> IF n = 0 THEN <<>>
                            ELSE IF list[n] \in S THEN Append(kept[n - 1], list[n]) ELSE kept[n - 1]]

Sees(once, N, list) ==
    once = [n \in 0 .. N |-> IF n = 0 THEN <<>>
                            ELSE IF list[n] \in Range(once[n - 1]) THEN once[n - 1] ELSE Append(once[n - 1], list[n])]

Followed(s, t) == s \o t

Joins(joined, N, lists) ==
    joined = [n \in 0 .. N |-> IF n = 0 THEN <<>> ELSE Followed(joined[n - 1], lists[n])]

----------------------------------------------------------------------------
(* Induction.                                                              *)

\* A set of numbers that is not empty has a least one.
LEMMA LeastNumber ==
  ASSUME NEW T \in SUBSET Nat, T # {}
  PROVE  \E m \in T : \A n \in T : m <= n
<1>1. \A m \in T : \A n \in T : ~(<<n, m>> \in OpToRel(<, Nat)) => m <= n
  BY DEF OpToRel
<1>2. QED
  BY <1>1, NatLessThanWellFounded, WFMin

\* Induction, for a set of numbers.
LEMMA Induction ==
  ASSUME NEW T \in SUBSET Nat, 0 \in T, \A n \in T : n + 1 \in T
  PROVE  T = Nat
<1>1. SUFFICES ASSUME Nat \ T # {}
               PROVE  FALSE
  OBVIOUS
<1>2. PICK m \in Nat \ T : \A n \in Nat \ T : m <= n
  BY <1>1, LeastNumber
<1>3. m # 0 /\ m - 1 \in Nat /\ m - 1 \notin Nat \ T
  BY <1>2
<1>4. QED
  BY <1>3

\* Step by step from a value of X, each step a function on X: there is a function that goes so.
LEMMA Iteration ==
  ASSUME NEW X, NEW base \in X, NEW N \in Nat, NEW step \in [1 .. N -> [X -> X]]
  PROVE  \E f \in [0 .. N -> X] : Iterates(f, N, base, step)
<1> DEFINE Upto(f, m) == f \in [0 .. m -> X] /\ f[0] = base /\ \A n \in 1 .. m : f[n] = step[n][f[n - 1]]
<1> DEFINE T == {m \in Nat : m <= N => \E f : Upto(f, m)}
<1>1. 0 \in T
  <2>1. Upto([n \in 0 .. 0 |-> base], 0)
    OBVIOUS
  <2>2. QED
    BY <2>1
<1>2. ASSUME NEW m \in T
      PROVE  m + 1 \in T
  <2> SUFFICES ASSUME m + 1 <= N
               PROVE  \E f : Upto(f, m + 1)
    OBVIOUS
  <2>1. PICK f : Upto(f, m)
    OBVIOUS
  <2> DEFINE g == [n \in 0 .. m + 1 |-> IF n = m + 1 THEN step[m + 1][f[m]] ELSE f[n]]
  <2>2. step[m + 1] \in [X -> X] /\ f[m] \in X
    BY <2>1
  <2>3. g \in [0 .. m + 1 -> X]
    BY <2>1, <2>2
  <2>4. g[0] = base /\ \A n \in 1 .. m + 1 : g[n] = step[n][g[n - 1]]
    BY <2>1
  <2>5. QED
    BY <2>3, <2>4
<1>3. T = Nat
  BY <1>1, <1>2, Induction
<1>4. PICK f : Upto(f, N)
  BY <1>3
<1>5. Iterates(f, N, base, step)
  BY <1>4 DEF Iterates
<1>6. QED
  BY <1>4, <1>5

----------------------------------------------------------------------------
(* The two loops.                                                          *)

\* A list extended by an element.
LEMMA AppendOne ==
  ASSUME NEW S, NEW list \in Seq(S), NEW e \in S
  PROVE  /\ Append(list, e) \in Seq(S)
         /\ Range(Append(list, e)) = Range(list) \cup {e}
         /\ IsInjective(list) /\ e \notin Range(list) => IsInjective(Append(list, e))
<1>1. /\ Append(list, e) \in Seq(S)
      /\ Len(Append(list, e)) = Len(list) + 1
      /\ \A i \in 1 .. Len(list) : Append(list, e)[i] = list[i]
      /\ Append(list, e)[Len(list) + 1] = e
  BY AppendProperties
<1>2. /\ DOMAIN list = 1 .. Len(list) /\ Len(list) \in Nat
      /\ DOMAIN Append(list, e) = 1 .. Len(list) + 1
  BY <1>1, LenProperties
<1>3. Range(Append(list, e)) = Range(list) \cup {e}
  BY <1>1, <1>2 DEF Range
<1>4. ASSUME IsInjective(list), e \notin Range(list)
      PROVE  IsInjective(Append(list, e))
  BY <1>1, <1>2, <1>4 DEF IsInjective, Range
<1>5. QED
  BY <1>1, <1>3, <1>4

\* The loop that keeps what is in S exists, ...
LEMMA KeepingExists ==
  ASSUME NEW E, NEW N \in Nat, NEW list \in [1 .. N -> E], NEW S
  PROVE  \E f : Keeps(f, N, list, S)
<1> DEFINE step == [n \in 1 .. N |-> [k \in Seq(E) |-> IF list[n] \in S THEN Append(k, list[n]) ELSE k]]
<1>1. step \in [1 .. N -> [Seq(E) -> Seq(E)]]
  BY AppendProperties
<1>2. <<>> \in Seq(E)
  BY EmptySeq
<1>3. PICK f \in [0 .. N -> Seq(E)] : Iterates(f, N, <<>>, step)
  <2> HIDE DEF step
  <2>1. QED
    BY <1>1, <1>2, Iteration
<1>4. \A n \in 1 .. N : step[n][f[n - 1]] = IF list[n] \in S THEN Append(f[n - 1], list[n]) ELSE f[n - 1]
  OBVIOUS
<1>5. Keeps(f, N, list, S)
  <2> HIDE DEF step
  <2>1. QED
    BY <1>3, <1>4 DEF Iterates, Keeps
<1>6. QED
  BY <1>5

\* ... and after n rounds it has those of the first n that are in S.
LEMMA Keeping ==
  ASSUME NEW E, NEW N \in Nat, NEW list \in [1 .. N -> E], NEW S, NEW kept, Keeps(kept, N, list, S)
  PROVE  kept[N] \in Seq(E) /\ Range(kept[N]) = Range(list) \cap S
<1> DEFINE Good(n) == kept[n] \in Seq(E) /\ Range(kept[n]) = {list[k] : k \in 1 .. n} \cap S
<1> DEFINE T == {n \in Nat : n <= N => Good(n)}
<1>1. Good(0)
  <2>1. kept[0] = <<>> /\ <<>> \in Seq(E)
    BY EmptySeq DEF Keeps
  <2>2. Range(<<>>) = {}
    BY DEF Range
  <2>3. {list[k] : k \in 1 .. 0} = {}
    OBVIOUS
  <2>4. QED
    BY <2>1, <2>2, <2>3
<1>2. ASSUME NEW n \in Nat, n + 1 <= N, Good(n)
      PROVE  Good(n + 1)
  <2>1. kept[n + 1] = IF list[n + 1] \in S THEN Append(kept[n], list[n + 1]) ELSE kept[n]
    <3>1. n + 1 \in 0 .. N /\ n + 1 # 0 /\ (n + 1) - 1 = n
      BY <1>2
    <3>2. \A m \in 0 .. N : m # 0 => kept[m] = IF list[m] \in S THEN Append(kept[m - 1], list[m]) ELSE kept[m - 1]
      BY DEF Keeps
    <3>3. QED
      BY <3>1, <3>2
  <2>2. list[n + 1] \in E
    BY <1>2
  <2>3. {list[k] : k \in 1 .. n + 1} = {list[k] : k \in 1 .. n} \cup {list[n + 1]}
    BY <1>2
  <2>4. CASE list[n + 1] \in S
    <3>1. /\ Append(kept[n], list[n + 1]) \in Seq(E)
          /\ Range(Append(kept[n], list[n + 1])) = Range(kept[n]) \cup {list[n + 1]}
      BY <1>2, <2>2, AppendOne
    <3>2. QED
      BY <1>2, <2>1, <2>3, <2>4, <3>1
  <2>5. CASE list[n + 1] \notin S
    BY <1>2, <2>1, <2>3, <2>5
  <2>6. QED
    BY <2>4, <2>5
<1> HIDE DEF Good
<1>3. 0 \in T /\ \A n \in T : n + 1 \in T
  BY <1>1, <1>2
<1>4. T = Nat
  BY <1>3, Induction
<1>5. Good(N)
  BY <1>4
<1>6. QED
  BY <1>5 DEF Range, Good

\* Kept is a list of those elements of the list that are in S.
LEMMA KeptProperties ==
  ASSUME NEW E, NEW list \in Seq(E), NEW S
  PROVE  /\ Kept(list, S) \in Seq(E)
         /\ Range(Kept(list, S)) = Range(list) \cap S
<1> DEFINE kept == CHOOSE f : Keeps(f, Len(list), list, S)
<1>1. Len(list) \in Nat /\ list \in [1 .. Len(list) -> E]
  BY LenProperties
<1>2. Keeps(kept, Len(list), list, S)
  BY <1>1, KeepingExists
<1>3. Kept(list, S) = kept[Len(list)]
  BY DEF Kept, Keeps
<1>4. QED
  <2> HIDE DEF kept
  <2>1. QED
    BY <1>1, <1>2, <1>3, Keeping

\* The loop that keeps what it has not seen exists, ...
LEMMA SeeingExists ==
  ASSUME NEW E, NEW N \in Nat, NEW list \in [1 .. N -> E]
  PROVE  \E f : Sees(f, N, list)
<1> DEFINE step == [n \in 1 .. N |-> [k \in Seq(E) |-> IF list[n] \in Range(k) THEN k ELSE Append(k, list[n])]]
<1>1. step \in [1 .. N -> [Seq(E) -> Seq(E)]]
  BY AppendProperties
<1>2. <<>> \in Seq(E)
  BY EmptySeq
<1>3. PICK f \in [0 .. N -> Seq(E)] : Iterates(f, N, <<>>, step)
  <2> HIDE DEF step
  <2>1. QED
    BY <1>1, <1>2, Iteration
<1>4. \A n \in 1 .. N : step[n][f[n - 1]] = IF list[n] \in Range(f[n - 1]) THEN f[n - 1] ELSE Append(f[n - 1], list[n])
  OBVIOUS
<1>5. Sees(f, N, list)
  <2> HIDE DEF step
  <2>1. QED
    BY <1>3, <1>4 DEF Iterates, Sees
<1>6. QED
  BY <1>5

\* ... and after n rounds it has the first n, each once.
LEMMA Seeing ==
  ASSUME NEW E, NEW N \in Nat, NEW list \in [1 .. N -> E], NEW once, Sees(once, N, list)
  PROVE  once[N] \in Seq(E) /\ Range(once[N]) = Range(list) /\ IsInjective(once[N])
<1> DEFINE Good(n) == /\ once[n] \in Seq(E)
                      /\ Range(once[n]) = {list[k] : k \in 1 .. n}
                      /\ IsInjective(once[n])
<1> DEFINE T == {n \in Nat : n <= N => Good(n)}
<1>1. Good(0)
  <2>1. once[0] = <<>> /\ <<>> \in Seq(E)
    BY EmptySeq DEF Sees
  <2>2. Range(<<>>) = {} /\ IsInjective(<<>>)
    BY DEF Range, IsInjective
  <2>3. {list[k] : k \in 1 .. 0} = {}
    OBVIOUS
  <2>4. QED
    BY <2>1, <2>2, <2>3
<1>2. ASSUME NEW n \in Nat, n + 1 <= N, Good(n)
      PROVE  Good(n + 1)
  <2>1. once[n + 1] = IF list[n + 1] \in Range(once[n]) THEN once[n] ELSE Append(once[n], list[n + 1])
    <3>1. n + 1 \in 0 .. N /\ n + 1 # 0 /\ (n + 1) - 1 = n
      BY <1>2
    <3>2. \A m \in 0 .. N : m # 0 => once[m] = IF list[m] \in Range(once[m - 1]) THEN once[m - 1]
                                               ELSE Append(once[m - 1], list[m])
      BY DEF Sees
    <3>3. QED
      BY <3>1, <3>2
  <2>2. list[n + 1] \in E
    BY <1>2
  <2>3. {list[k] : k \in 1 .. n + 1} = {list[k] : k \in 1 .. n} \cup {list[n + 1]}
    BY <1>2
  <2>4. CASE list[n + 1] \notin Range(once[n])
    <3>1. /\ Append(once[n], list[n + 1]) \in Seq(E)
          /\ Range(Append(once[n], list[n + 1])) = Range(once[n]) \cup {list[n + 1]}
          /\ IsInjective(Append(once[n], list[n + 1]))
      BY <1>2, <2>2, <2>4, AppendOne
    <3>2. QED
      BY <1>2, <2>1, <2>3, <2>4, <3>1
  <2>5. CASE list[n + 1] \in Range(once[n])
    BY <1>2, <2>1, <2>3, <2>5
  <2>6. QED
    BY <2>4, <2>5
<1> HIDE DEF Good
<1>3. 0 \in T /\ \A n \in T : n + 1 \in T
  BY <1>1, <1>2
<1>4. T = Nat
  BY <1>3, Induction
<1>5. Good(N)
  BY <1>4
<1>6. QED
  BY <1>5 DEF Range, Good

\* Once is a list of the elements of the list, without repeats.
LEMMA OnceProperties ==
  ASSUME NEW E, NEW list \in Seq(E)
  PROVE  /\ Once(list) \in Seq(E)
         /\ Range(Once(list)) = Range(list)
         /\ IsInjective(Once(list))
<1> DEFINE once == CHOOSE f : Sees(f, Len(list), list)
<1>1. Len(list) \in Nat /\ list \in [1 .. Len(list) -> E]
  BY LenProperties
<1>2. Sees(once, Len(list), list)
  BY <1>1, SeeingExists
<1>3. Once(list) = once[Len(list)]
  BY DEF Once, Sees
<1>4. QED
  <2> HIDE DEF once
  <2>1. QED
    BY <1>1, <1>2, <1>3, Seeing

----------------------------------------------------------------------------
(* Joined.                                                                 *)

\* A list after another.
LEMMA FollowedType ==
  ASSUME NEW E, NEW s \in Seq(E), NEW t \in Seq(E)
  PROVE  Followed(s, t) \in Seq(E) /\ Len(Followed(s, t)) = Len(s) + Len(t)
  BY ConcatProperties DEF Followed

LEMMA FollowedAt ==
  ASSUME NEW E, NEW s \in Seq(E), NEW t \in Seq(E)
  PROVE  /\ \A i \in 1 .. Len(s) : Followed(s, t)[i] = s[i]
         /\ \A i \in 1 .. Len(t) : Followed(s, t)[Len(s) + i] = t[i]
<1>1. Len(s) \in Nat /\ Len(t) \in Nat
  BY LenProperties
<1>2. \A i \in 1 .. Len(s) + Len(t) : (s \o t)[i] = IF i <= Len(s) THEN s[i] ELSE t[i - Len(s)]
  BY ConcatProperties
<1>3. ASSUME NEW i \in 1 .. Len(s)
      PROVE  (s \o t)[i] = s[i]
  BY <1>1, <1>2
<1>4. ASSUME NEW i \in 1 .. Len(t)
      PROVE  (s \o t)[Len(s) + i] = t[i]
  <2>1. Len(s) + i \in 1 .. Len(s) + Len(t) /\ ~(Len(s) + i <= Len(s)) /\ (Len(s) + i) - Len(s) = i
    BY <1>1
  <2>2. QED
    BY <1>2, <2>1
<1>5. QED
  BY <1>3, <1>4 DEF Followed

LEMMA FollowedRange ==
  ASSUME NEW E, NEW s \in Seq(E), NEW t \in Seq(E)
  PROVE  Range(Followed(s, t)) = Range(s) \cup Range(t)
  BY RangeConcatenation DEF Followed

LEMMA FollowedEmpty ==
  ASSUME NEW E, NEW s \in Seq(E)
  PROVE  Followed(s, <<>>) = s /\ Followed(<<>>, s) = s
  BY ConcatEmptySeq DEF Followed

\* The first of a list that another follows.
LEMMA FollowedFirst ==
  ASSUME NEW E, NEW s \in Seq(E), NEW t \in Seq(E)
  PROVE  /\ s # <<>> => Followed(s, t) # <<>> /\ Followed(s, t)[1] = s[1]
         /\ s = <<>> => Followed(s, t) = t
<1>1. CASE s # <<>>
  <2>1. Len(s) \in Nat /\ Len(t) \in Nat /\ Len(s) # 0
    BY <1>1, LenProperties, EmptySeq
  <2>2. 1 \in 1 .. Len(s) /\ Len(s) + Len(t) # 0
    BY <2>1
  <2>3. Followed(s, t) # <<>>
    BY <2>2, FollowedType, EmptySeq
  <2>4. QED
    BY <1>1, <2>2, <2>3, FollowedAt
<1>2. QED
  BY <1>1, FollowedEmpty

LEMMA FollowedAssociative ==
  ASSUME NEW E, NEW s \in Seq(E), NEW t \in Seq(E), NEW u \in Seq(E)
  PROVE  Followed(Followed(s, t), u) = Followed(s, Followed(t, u))
  BY ConcatAssociative DEF Followed

\* The start of a list grows by one element.
LEMMA StartGrows ==
  ASSUME NEW E, NEW s \in Seq(E), NEW n \in 1 .. Len(s)
  PROVE  /\ SubSeq(s, 1, n - 1) \in Seq(E) /\ <<s[n]>> \in Seq(E)
         /\ SubSeq(s, 1, n) = Followed(SubSeq(s, 1, n - 1), <<s[n]>>)
<1>1. Len(s) \in Nat /\ s[n] \in E /\ \A i \in 1 .. n - 1 : s[i] \in E
  BY ElementOfSeq, LenProperties
<1>2. SubSeq(s, 1, n - 1) \in Seq(E)
  BY <1>1, SubSeqProperties
<1>3. <<s[n]>> \in Seq(E)
  BY <1>1
<1>4. 1 \in 1 .. Len(s) /\ n \in 1 .. Len(s)
  BY <1>1
<1>5. SubSeq(s, 1, n) = SubSeq(s, 1, n - 1) \o <<s[n]>>
  BY <1>4, SubSeqRecursiveSecond
<1>6. QED
  BY <1>2, <1>3, <1>5 DEF Followed

\* A function on 1 .. N is a list of N elements.
LEMMA ListOf ==
  ASSUME NEW N \in Nat, NEW S, NEW f \in [1 .. N -> S]
  PROVE  f \in Seq(S) /\ Len(f) = N /\ DOMAIN f = 1 .. N
<1>1. f \in Seq(S)
  BY SeqDef
<1>2. Len(f) \in Nat /\ 1 .. Len(f) = 1 .. N
  BY <1>1, LenProperties
<1>3. Len(f) = N
  BY <1>2
<1>4. QED
  BY <1>1, <1>3

\* When every element is in S, Kept keeps the list.
LEMMA KeptAll ==
  ASSUME NEW E, NEW list \in Seq(E), NEW S, Range(list) \subseteq S
  PROVE  Kept(list, S) = list
<1> DEFINE N == Len(list)
<1> DEFINE kept == CHOOSE f : Keeps(f, N, list, S)
<1>1. N \in Nat /\ list \in [1 .. N -> E] /\ \A n \in 1 .. N : list[n] \in S
  BY LenProperties DEF Range
<1>2. Keeps(kept, N, list, S)
  BY <1>1, KeepingExists
<1>3. Kept(list, S) = kept[N]
  BY DEF Kept, Keeps
<1> HIDE DEF kept
<1>4. kept[0] = <<>> /\ \A n \in 1 .. N : kept[n] = Append(kept[n - 1], list[n])
  <2>1. \A n \in 0 .. N : kept[n] = IF n = 0 THEN <<>> ELSE IF list[n] \in S THEN Append(kept[n - 1], list[n]) ELSE kept[n - 1]
    BY <1>2 DEF Keeps
  <2>2. \A n \in 1 .. N : n \in 0 .. N /\ n # 0
    BY <1>1
  <2>3. 0 \in 0 .. N
    BY <1>1
  <2>4. QED
    BY <1>1, <2>1, <2>2, <2>3
<1> DEFINE T == {n \in Nat : n <= N => kept[n] = SubSeq(list, 1, n)}
<1>5. 0 \in T
  <2>1. SubSeq(list, 1, 0) = <<>>
    BY SubSeqEmpty
  <2>2. QED
    BY <1>4, <2>1
<1>6. ASSUME NEW n \in T
      PROVE  n + 1 \in T
  <2> SUFFICES ASSUME n + 1 <= N
               PROVE  kept[n + 1] = SubSeq(list, 1, n + 1)
    OBVIOUS
  <2>1. n \in Nat /\ n + 1 \in 1 .. N /\ (n + 1) - 1 = n
    BY <1>1
  <2>2. kept[n + 1] = Append(SubSeq(list, 1, n), list[n + 1])
    <3>1. n <= N
      BY <1>1, <2>1
    <3>2. kept[n] = SubSeq(list, 1, n)
      BY <3>1
    <3>3. kept[n + 1] = Append(kept[(n + 1) - 1], list[n + 1])
      BY <1>4, <2>1
    <3>4. QED
      BY <2>1, <3>2, <3>3
  <2>3. SubSeq(list, 1, n) \in Seq(E) /\ SubSeq(list, 1, n + 1) = SubSeq(list, 1, n) \o <<list[n + 1]>>
    <3>1. /\ SubSeq(list, 1, (n + 1) - 1) \in Seq(E)
          /\ SubSeq(list, 1, n + 1) = Followed(SubSeq(list, 1, (n + 1) - 1), <<list[n + 1]>>)
      BY <2>1, StartGrows
    <3>2. QED
      BY <2>1, <3>1 DEF Followed
  <2>4. list[n + 1] \in E
    BY <1>1, <2>1
  <2>5. Append(SubSeq(list, 1, n), list[n + 1]) = SubSeq(list, 1, n) \o <<list[n + 1]>>
    BY <2>3, <2>4, AppendIsConcat
  <2>6. QED
    BY <2>2, <2>3, <2>5
<1>7. T = Nat
  BY <1>5, <1>6, Induction
<1>8. kept[N] = SubSeq(list, 1, N)
  BY <1>1, <1>7
<1>9. QED
  BY <1>3, <1>8, SubSeqFull

\* The loop that joins exists, and a function that goes like it is its result.
LEMMA JoiningExists ==
  ASSUME NEW E, NEW N \in Nat, NEW lists, \A k \in 1 .. N : lists[k] \in Seq(E)
  PROVE  \E f : Joins(f, N, lists)
<1> DEFINE step == [n \in 1 .. N |-> [k \in Seq(E) |-> Followed(k, lists[n])]]
<1>1. step \in [1 .. N -> [Seq(E) -> Seq(E)]]
  BY FollowedType
<1>2. <<>> \in Seq(E)
  BY EmptySeq
<1>3. PICK f \in [0 .. N -> Seq(E)] : Iterates(f, N, <<>>, step)
  <2> HIDE DEF step
  <2>1. QED
    BY <1>1, <1>2, Iteration
<1>4. \A n \in 1 .. N : step[n][f[n - 1]] = Followed(f[n - 1], lists[n])
  OBVIOUS
<1>5. Joins(f, N, lists)
  <2> HIDE DEF step
  <2>1. f = [n \in 0 .. N |-> IF n = 0 THEN <<>> ELSE step[n][f[n - 1]]]
    BY <1>3 DEF Iterates
  <2>2. ASSUME NEW n \in 0 .. N
        PROVE  f[n] = IF n = 0 THEN <<>> ELSE Followed(f[n - 1], lists[n])
    <3>1. f[n] = IF n = 0 THEN <<>> ELSE step[n][f[n - 1]]
      BY <2>1
    <3>2. n # 0 => n \in 1 .. N
      OBVIOUS
    <3>3. QED
      BY <1>4, <3>1, <3>2
  <2>3. QED
    BY <1>3, <2>2 DEF Joins
<1>6. QED
  BY <1>5

LEMMA JoinedIs ==
  ASSUME NEW E, NEW lists, Len(lists) \in Nat, \A k \in 1 .. Len(lists) : lists[k] \in Seq(E), NEW g,
         g[0] = <<>>, \A n \in 1 .. Len(lists) : g[n] = Followed(g[n - 1], lists[n])
  PROVE  Joined(lists) = g[Len(lists)]
<1> DEFINE N == Len(lists)
<1> DEFINE joined == CHOOSE f : Joins(f, N, lists)
<1>1. N \in Nat /\ \A k \in 1 .. N : lists[k] \in Seq(E)
  OBVIOUS
<1>2. Joins(joined, N, lists)
  BY <1>1, JoiningExists
<1>3. Joined(lists) = joined[N]
  BY DEF Joined, Joins, Followed
<1> HIDE DEF joined
<1>4. joined[0] = <<>> /\ \A n \in 1 .. N : joined[n] = Followed(joined[n - 1], lists[n])
  BY <1>1, <1>2 DEF Joins
<1> DEFINE T == {n \in Nat : n <= N => joined[n] = g[n]}
<1>5. 0 \in T
  BY <1>4
<1>6. ASSUME NEW n \in T
      PROVE  n + 1 \in T
  <2>1. n + 1 <= N => n + 1 \in 1 .. N /\ (n + 1) - 1 = n /\ n <= N
    BY <1>1
  <2>2. QED
    BY <1>4, <2>1
<1>7. T = Nat
  BY <1>5, <1>6, Induction
<1>8. QED
  BY <1>1, <1>3, <1>7

\* What every start of the join is, the join is.
LEMMA JoinedProperties ==
  ASSUME NEW E, NEW lists, Len(lists) \in Nat, \A k \in 1 .. Len(lists) : lists[k] \in Seq(E)
  PROVE  /\ Joined(lists) \in Seq(E)
         /\ Range(Joined(lists)) = UNION {Range(lists[k]) : k \in 1 .. Len(lists)}
         /\ Len(lists) > 0 /\ lists[1] # <<>> => Joined(lists) # <<>> /\ Joined(lists)[1] = lists[1][1]
<1> DEFINE N == Len(lists)
<1>1. N \in Nat /\ \A k \in 1 .. N : lists[k] \in Seq(E)
  OBVIOUS
<1>2. PICK g : Joins(g, N, lists)
  BY <1>1, JoiningExists
<1>3. g[0] = <<>> /\ \A n \in 1 .. N : g[n] = Followed(g[n - 1], lists[n])
  BY <1>1, <1>2 DEF Joins
<1> DEFINE Good(n) ==
      /\ g[n] \in Seq(E) /\ Range(g[n]) = UNION {Range(lists[k]) : k \in 1 .. n}
      /\ n > 0 /\ lists[1] # <<>> => g[n] # <<>> /\ g[n][1] = lists[1][1]
<1> DEFINE T == {n \in Nat : n <= N => Good(n)}
<1>4. Good(0)
  <2>1. Range(<<>>) = {} /\ <<>> \in Seq(E)
    BY EmptySeq DEF Range
  <2>2. {Range(lists[k]) : k \in 1 .. 0} = {}
    OBVIOUS
  <2>3. QED
    BY <1>3, <2>1, <2>2
<1>5. ASSUME NEW n \in Nat, n + 1 <= N, Good(n)
      PROVE  Good(n + 1)
  <2>1. n + 1 \in 1 .. N /\ (n + 1) - 1 = n
    BY <1>1, <1>5
  <2>2. g[n + 1] = Followed(g[n], lists[n + 1]) /\ lists[n + 1] \in Seq(E) /\ g[n] \in Seq(E)
    BY <1>1, <1>3, <1>5, <2>1
  <2> DEFINE before == g[n]
  <2> DEFINE after == lists[n + 1]
  <2>3. /\ Followed(before, after) \in Seq(E)
        /\ Range(Followed(before, after)) = Range(before) \cup Range(after)
        /\ before # <<>> => Followed(before, after) # <<>> /\ Followed(before, after)[1] = before[1]
        /\ before = <<>> => Followed(before, after) = after
    <3> HIDE DEF before, after
    <3>1. before \in Seq(E) /\ after \in Seq(E)
      BY <2>2 DEF before, after
    <3>2. QED
      BY <3>1, FollowedType, FollowedRange, FollowedFirst
  <2>4. 1 .. n + 1 = (1 .. n) \cup {n + 1}
    BY <1>5
  <2>5. Range(g[n + 1]) = UNION {Range(lists[k]) : k \in 1 .. n + 1}
    BY <1>5, <2>2, <2>3, <2>4
  <2>6. ASSUME lists[1] # <<>>
        PROVE  g[n + 1] # <<>> /\ g[n + 1][1] = lists[1][1]
    <3>1. CASE n = 0
      <4>1. before = <<>> /\ after = lists[1]
        BY <1>3, <3>1
      <4>2. QED
        BY <2>2, <2>3, <2>6, <4>1
    <3>2. CASE n # 0
      <4>1. before # <<>> /\ before[1] = lists[1][1]
        BY <1>5, <2>6, <3>2
      <4>2. QED
        BY <2>2, <2>3, <4>1
    <3>3. QED
      BY <3>1, <3>2
  <2>7. QED
    BY <2>2, <2>3, <2>5, <2>6
<1> HIDE DEF Good
<1>6. 0 \in T /\ \A n \in T : n + 1 \in T
  BY <1>4, <1>5
<1>7. T = Nat
  BY <1>6, Induction
<1>8. Good(N)
  BY <1>1, <1>7
<1>9. Joined(lists) = g[N]
  BY <1>3, JoinedIs
<1>10. QED
  BY <1>1, <1>8, <1>9 DEF Good

\* A list, and then lists of one element each: the elements follow the list.
LEMMA JoinedTail ==
  ASSUME NEW E, NEW first \in Seq(E), NEW rest \in Seq(E), NEW lists,
         Len(lists) = Len(rest) + 1, lists[1] = first, \A k \in 1 .. Len(rest) : lists[k + 1] = <<rest[k]>>
  PROVE  Joined(lists) = Followed(first, rest)
<1> DEFINE N == Len(rest)
<1> DEFINE g == [n \in 0 .. N + 1 |-> IF n = 0 THEN <<>> ELSE Followed(first, SubSeq(rest, 1, n - 1))]
<1>1. N \in Nat /\ Len(lists) = N + 1
  BY LenProperties
<1>2. \A m \in 0 .. N : SubSeq(rest, 1, m) \in Seq(E)
  BY <1>1, SubSeqProperties
<1>3. g[1] = Followed(g[0], lists[1])
  <2>1. SubSeq(rest, 1, 1 - 1) = <<>>
    BY SubSeqEmpty
  <2>2. 1 \in 0 .. N + 1 /\ 0 \in 0 .. N + 1
    BY <1>1
  <2>3. g[1] = Followed(first, SubSeq(rest, 1, 1 - 1)) /\ g[0] = <<>>
    BY <2>2
  <2>4. QED
    BY <2>1, <2>3, FollowedEmpty
<1>4. ASSUME NEW n \in 2 .. N + 1
      PROVE  g[n] = Followed(g[n - 1], lists[n])
  <2>1. /\ n - 1 \in 1 .. N /\ (n - 1) + 1 = n
        /\ n \in 0 .. N + 1 /\ n # 0 /\ n - 1 # 0 /\ n - 1 \in 0 .. N + 1
    BY <1>1
  <2>2. lists[n] = <<rest[n - 1]>>
    BY <2>1
  <2>3. /\ SubSeq(rest, 1, (n - 1) - 1) \in Seq(E) /\ <<rest[n - 1]>> \in Seq(E)
        /\ SubSeq(rest, 1, n - 1) = Followed(SubSeq(rest, 1, (n - 1) - 1), <<rest[n - 1]>>)
    BY <2>1, StartGrows
  <2>4. g[n] = Followed(first, SubSeq(rest, 1, n - 1)) /\ g[n - 1] = Followed(first, SubSeq(rest, 1, (n - 1) - 1))
    BY <2>1
  <2> DEFINE start == SubSeq(rest, 1, (n - 1) - 1)
  <2> DEFINE last == <<rest[n - 1]>>
  <2>5. Followed(Followed(first, start), last) = Followed(first, Followed(start, last))
    <3> HIDE DEF start, last
    <3>1. start \in Seq(E) /\ last \in Seq(E)
      BY <2>3 DEF start, last
    <3>2. QED
      BY <3>1, FollowedAssociative
  <2> HIDE DEF g
  <2>6. QED
    BY <2>2, <2>3, <2>4, <2>5
<1>5. g[0] = <<>> /\ g[N + 1] = Followed(first, SubSeq(rest, 1, N))
  BY <1>1
<1>6. SubSeq(rest, 1, N) = rest
  BY SubSeqFull
<1> HIDE DEF g
<1>7. \A n \in 1 .. Len(lists) : g[n] = Followed(g[n - 1], lists[n])
  BY <1>1, <1>3, <1>4
<1>8. Len(lists) \in Nat /\ \A k \in 1 .. Len(lists) : lists[k] \in Seq(E)
  <2>1. \A k \in 1 .. N : <<rest[k]>> \in Seq(E)
    BY StartGrows
  <2>2. ASSUME NEW k \in 1 .. Len(lists), k # 1
        PROVE  lists[k] \in Seq(E)
    <3>1. k - 1 \in 1 .. N /\ (k - 1) + 1 = k
      BY <1>1, <2>2
    <3>2. QED
      BY <2>1, <3>1
  <2>3. QED
    BY <1>1, <2>2
<1>9. Joined(lists) = g[N + 1]
  BY <1>1, <1>5, <1>7, <1>8, JoinedIs
<1>10. QED
  BY <1>5, <1>6, <1>9

\* Lists of one element each: the list of the elements.
LEMMA JoinedSingletons ==
  ASSUME NEW E, NEW s \in Seq(E), NEW lists,
         Len(lists) = Len(s), \A k \in 1 .. Len(s) : lists[k] = <<s[k]>>
  PROVE  Joined(lists) = s
<1> DEFINE N == Len(s)
<1> DEFINE g == [n \in 0 .. N |-> SubSeq(s, 1, n)]
<1>1. N \in Nat /\ Len(lists) = N
  BY LenProperties
<1>2. ASSUME NEW n \in 1 .. N
      PROVE  g[n] = Followed(g[n - 1], lists[n])
  <2>1. g[n] = SubSeq(s, 1, n) /\ g[n - 1] = SubSeq(s, 1, n - 1)
    BY <1>1
  <2>2. SubSeq(s, 1, n) = Followed(SubSeq(s, 1, n - 1), <<s[n]>>)
    BY StartGrows
  <2> HIDE DEF g
  <2>3. QED
    BY <2>1, <2>2
<1>3. g[0] = <<>> /\ g[N] = s
  <2>1. SubSeq(s, 1, 0) = <<>>
    BY SubSeqEmpty
  <2>2. SubSeq(s, 1, N) = s
    BY SubSeqFull
  <2>3. QED
    BY <1>1, <2>1, <2>2
<1> HIDE DEF g
<1>4. \A k \in 1 .. N : lists[k] \in Seq(E)
  BY StartGrows
<1>5. Joined(lists) = g[N]
  BY <1>1, <1>2, <1>3, <1>4, JoinedIs
<1>6. QED
  BY <1>3, <1>5

----------------------------------------------------------------------------
(* Lists by an order.                                                      *)

\* The pairs of before order S: every two elements, one way only.
Orders(before, S) ==
    /\ \A a \in S : <<a, a>> \notin before
    /\ \A a, b \in S : a = b \/ <<a, b>> \in before \/ <<b, a>> \in before
    /\ \A a, b, c \in S : <<a, b>> \in before /\ <<b, c>> \in before => <<a, c>> \in before

\* The elements of S up to r, and how many they are.
UpTo(r, S, before) == {o \in S : o = r \/ <<o, r>> \in before}

Place(r, S, before) == Cardinality(UpTo(r, S, before))

\* list has S in the order.
Sorted(list, S, before) ==
    /\ list \in [1 .. Cardinality(S) -> S]
    /\ \A i, j \in 1 .. Cardinality(S) : i < j => <<list[i], list[j]>> \in before

\* A place is a number from 1 to that of the elements, ...
LEMMA PlaceBounds ==
  ASSUME NEW S, IsFiniteSet(S), NEW before, NEW r \in S
  PROVE  Place(r, S, before) \in 1 .. Cardinality(S)
<1> DEFINE U == UpTo(r, S, before)
<1>1. U \in SUBSET S /\ r \in U
  BY DEF UpTo
<1>2. IsFiniteSet(U) /\ Cardinality(U) <= Cardinality(S)
  BY <1>1, FS_Subset
<1>3. Cardinality(U) \in Nat /\ Cardinality(S) \in Nat
  BY <1>2, FS_CardinalityType
<1>4. Cardinality(U) # 0
  BY <1>1, <1>2, FS_EmptySet
<1>5. QED
  BY <1>2, <1>3, <1>4 DEF Place

\* ... and what comes before has a smaller one.
LEMMA PlaceGrows ==
  ASSUME NEW S, IsFiniteSet(S), NEW before, Orders(before, S), NEW a \in S, NEW b \in S, <<a, b>> \in before
  PROVE  Place(a, S, before) < Place(b, S, before)
<1> DEFINE A == UpTo(a, S, before)
<1> DEFINE B == UpTo(b, S, before)
<1>1. A \in SUBSET B
  BY DEF UpTo, Orders
<1>2. b \in B /\ b \notin A
  BY DEF UpTo, Orders
<1>3. IsFiniteSet(B)
  <2>1. B \in SUBSET S
    BY DEF UpTo
  <2>2. QED
    BY <2>1, FS_Subset
<1>4. IsFiniteSet(A) /\ Cardinality(A) <= Cardinality(B) /\ Cardinality(A) # Cardinality(B)
  <2> HIDE DEF A, B
  <2>1. QED
    BY <1>1, <1>2, <1>3, FS_Subset
<1>5. Cardinality(A) \in Nat /\ Cardinality(B) \in Nat
  BY <1>3, <1>4, FS_CardinalityType
<1>6. QED
  BY <1>4, <1>5 DEF Place

\* There is a list of a finite set in order: by places.
LEMMA SortedExists ==
  ASSUME NEW S, IsFiniteSet(S), NEW before, Orders(before, S)
  PROVE  \E list : Sorted(list, S, before)
<1> DEFINE n == Cardinality(S)
<1> DEFINE place == [r \in S |-> Place(r, S, before)]
<1>1. n \in Nat
  BY FS_CardinalityType
<1>2. place \in [S -> 1 .. n]
  BY PlaceBounds
<1>3. \A a, b \in S : <<a, b>> \in before => place[a] < place[b]
  BY PlaceGrows
<1>4. \A a \in S : place[a] \in Int
  BY <1>1, <1>2
<1> HIDE DEF place
<1>5. place \in Injection(S, 1 .. n)
  <2>1. ASSUME NEW a \in S, NEW b \in S, a # b
        PROVE  place[a] # place[b]
    <3>1. <<a, b>> \in before \/ <<b, a>> \in before
      BY <2>1 DEF Orders
    <3>2. QED
      BY <3>1, <1>3, <1>4
  <2>2. QED
    BY <1>2, <2>1 DEF Injection, IsInjective
<1>6. IsFiniteSet(1 .. n) /\ Cardinality(1 .. n) = n
  BY <1>1, FS_Interval
<1>7. place \in Surjection(S, 1 .. n)
  BY <1>5, <1>6, FS_Injection
<1>8. \A k \in 1 .. n : \E r \in S : place[r] = k
  BY <1>7 DEF Surjection
<1> DEFINE list == [k \in 1 .. n |-> CHOOSE r \in S : place[r] = k]
<1>9. \A k \in 1 .. n : list[k] \in S /\ place[list[k]] = k
  BY <1>8
<1> HIDE DEF n
<1>10. list \in [1 .. n -> S]
  BY <1>9
<1> HIDE DEF list
<1>11. ASSUME NEW i \in 1 .. n, NEW j \in 1 .. n, i < j
       PROVE  <<list[i], list[j]>> \in before
  <2>1. /\ list[i] \in S /\ list[j] \in S
        /\ place[list[i]] = i /\ place[list[j]] = j
    BY <1>9
  <2>2. list[i] # list[j]
    BY <1>1, <1>11, <2>1
  <2>3. <<list[j], list[i]>> \notin before
    <3>1. <<list[j], list[i]>> \in before => j < i
      BY <2>1, <1>3
    <3>2. QED
      BY <1>1, <1>11, <3>1
  <2>4. QED
    BY <2>1, <2>2, <2>3 DEF Orders
<1>12. QED
  BY <1>10, <1>11 DEF Sorted, n

\* In a list of S in order every element of S is at its place.
LEMMA SortedProperties ==
  ASSUME NEW S, IsFiniteSet(S), NEW before, Orders(before, S), NEW list, Sorted(list, S, before)
  PROVE  /\ \A r \in S : \E k \in 1 .. Cardinality(S) : list[k] = r
         /\ \A k \in 1 .. Cardinality(S) : Place(list[k], S, before) = k
<1> DEFINE n == Cardinality(S)
<1>1. n \in Nat
  BY FS_CardinalityType
<1>2. list \in [1 .. n -> S] /\ \A i, j \in 1 .. n : i < j => <<list[i], list[j]>> \in before
  BY DEF Sorted
<1>3. IsFiniteSet(1 .. n) /\ Cardinality(1 .. n) = n
  BY <1>1, FS_Interval
<1> HIDE DEF n
<1>4. \A i, j \in 1 .. n : i # j => list[i] # list[j]
  <2>1. ASSUME NEW i \in 1 .. n, NEW j \in 1 .. n, i < j
        PROVE  list[i] # list[j]
    <3>1. <<list[i], list[j]>> \in before /\ list[i] \in S
      BY <1>2, <2>1
    <3>2. QED
      BY <3>1 DEF Orders
  <2>2. QED
    BY <1>1, <2>1
<1>5. list \in Injection(1 .. n, S)
  BY <1>2, <1>4 DEF Injection, IsInjective
<1>6. list \in Surjection(1 .. n, S)
  BY <1>3, <1>5, FS_Injection DEF n
<1>7. \A r \in S : \E k \in 1 .. n : list[k] = r
  BY <1>6 DEF Surjection
<1>8. ASSUME NEW k \in 1 .. n
      PROVE  Place(list[k], S, before) = k
  <2> DEFINE U == UpTo(list[k], S, before)
  <2> DEFINE f == [i \in 1 .. k |-> list[i]]
  <2>1. k \in Nat /\ 1 .. k \subseteq 1 .. n
    BY <1>1
  <2>2. \A i \in 1 .. k : list[i] \in U
    BY <1>1, <1>2, <2>1 DEF UpTo
  <2>3. ASSUME NEW o \in U
        PROVE  \E i \in 1 .. k : list[i] = o
    <3>1. PICK i \in 1 .. n : list[i] = o
      BY <1>7 DEF UpTo
    <3>2. ~(k < i)
      <4>1. SUFFICES ASSUME k < i
                     PROVE  FALSE
        OBVIOUS
      <4>2. <<list[k], list[i]>> \in before /\ list[k] \in S /\ list[i] \in S /\ list[k] # list[i]
        BY <1>2, <1>4, <1>1, <4>1
      <4>3. <<list[i], list[k]>> \in before
        BY <4>2, <3>1 DEF UpTo
      <4>4. QED
        BY <4>2, <4>3 DEF Orders
    <3>3. QED
      BY <3>1, <3>2, <1>1
  <2>4. f \in Bijection(1 .. k, U)
    <3> HIDE DEF U
    <3>1. f \in [1 .. k -> U]
      BY <2>2
    <3>2. f \in Injection(1 .. k, U)
      BY <3>1, <2>1, <1>4 DEF Injection, IsInjective
    <3>3. f \in Surjection(1 .. k, U)
      BY <3>1, <2>3 DEF Surjection
    <3>4. QED
      BY <3>2, <3>3 DEF Bijection
  <2>5. Cardinality(U) = k
    <3> HIDE DEF U, f
    <3>1. QED
      BY <2>1, <2>4, FS_CountingElements DEF ExistsBijection
  <2>6. QED
    BY <2>5 DEF Place
<1>9. QED
  BY <1>7, <1>8 DEF n

\* InOrder is such a list.
LEMMA InOrderProperties ==
  ASSUME NEW S, IsFiniteSet(S), NEW before, Orders(before, S)
  PROVE  /\ Sorted(InOrder(S, before), S, before)
         /\ \A r \in S : \E k \in 1 .. Cardinality(S) : InOrder(S, before)[k] = r
         /\ \A k \in 1 .. Cardinality(S) : Place(InOrder(S, before)[k], S, before) = k
<1>1. PICK list : Sorted(list, S, before)
  BY SortedExists
<1>2. Sorted(InOrder(S, before), S, before)
  BY <1>1 DEF Sorted, InOrder
<1>3. QED
  BY <1>2, SortedProperties
===============================================================================
