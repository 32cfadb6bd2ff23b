-------------------------- MODULE AgentTurnProofs ---------------------------
(***************************************************************************)
(* The agent run behind one user turn, for every step limit, context size, *)
(* number of attempts and of tool calls: what the provider is sent, what   *)
(* is executed, what stays in the history, and that the run keeps the      *)
(* contract of a turn.                                                     *)
(*                                                                         *)
(* The nodes filter and read histories with FlattenSeq. What such a view   *)
(* of a history is follows by induction on the history, here from the      *)
(* least element of a set of naturals.                                     *)
(*                                                                         *)
(* The answers and requests of the providers (ProviderStreams) follow at   *)
(* the end: the readers by an invariant of what they hold, the requests by *)
(* the same views, of a conversation instead of a history.                 *)
(***************************************************************************)
EXTENDS AgentTurn, ProviderStreams, SequenceTheorems, WellFoundedInduction, TLAPS

-----------------------------------------------------------------------------
(* Sequences                                                               *)

\* A set of naturals has a least element: what the inductions here rest on.
LEMMA LeastNumber ==
    ASSUME NEW T, T \subseteq Nat, T # {}
    PROVE  \E n \in T : \A m \in T : n <= m
  <1>1. \A m, n \in Nat : m < n => <<m, n>> \in OpToRel(<, Nat)
    BY DEF OpToRel
  <1>2. \A R : IsWellFoundedOn(R, Nat) =>
           \E n \in T : \A m \in T : <<m, n>> \notin R
    BY WFMin
  <1>3. IsWellFoundedOn(OpToRel(<, Nat), Nat)
    BY NatLessThanWellFounded
  <1>4. PICK n \in T : \A m \in T : <<m, n>> \notin OpToRel(<, Nat)
    BY <1>2, <1>3
  <1>5. \A m \in T : ~(m < n)
    BY <1>1, <1>4
  <1>6. \A m \in T : n <= m
    BY <1>5
  <1> QED BY <1>6

\* f[i] is what FlattenSeq has made of the first i sequences.
Flattens(f, n, ss) ==
    f = [i \in 1..n |-> IF i = 1 THEN ss[i] ELSE f[i-1] \o ss[i]]

LEMMA FlattensExists ==
    ASSUME NEW ss, NEW n \in Nat
    PROVE  \E f : Flattens(f, n, ss)
  <1> SUFFICES ASSUME ~ \E f : Flattens(f, n, ss) PROVE FALSE
    OBVIOUS
  <1> DEFINE T == {m \in Nat : ~ \E f : Flattens(f, m, ss)}
  <1>1. PICK m \in T : \A k \in T : m <= k
    BY LeastNumber
  <1>2. m # 0
    <2>1. Flattens([i \in 1..0 |-> 0], 0, ss)
      BY DEF Flattens
    <2> QED BY <2>1
  <1>3. m - 1 \in Nat /\ m - 1 \notin T
    BY <1>1, <1>2
  <1>4. PICK f : Flattens(f, m - 1, ss)
    BY <1>3
  <1> DEFINE g == [i \in 1..m |-> IF i < m THEN f[i] ELSE
                       IF i = 1 THEN ss[i] ELSE f[i-1] \o ss[i]]
  <1>5. \A i \in 1..m : g[i] = IF i = 1 THEN ss[i] ELSE g[i-1] \o ss[i]
    <2> TAKE i \in 1..m
    <2>1. CASE i = m
      BY <2>1, <1>1
    <2>2. CASE i # m
      <3>1. i \in 1..(m-1) /\ (i # 1 => i-1 \in 1..(m-1))
        BY <2>2, <1>1
      <3>2. f[i] = IF i = 1 THEN ss[i] ELSE f[i-1] \o ss[i]
        BY <1>4, <3>1 DEF Flattens
      <3> QED BY <2>2, <3>1, <3>2, <1>1
    <2> QED BY <2>1, <2>2
  <1>6. Flattens(g, m, ss)
    <2>1. g = [i \in 1..m |-> g[i]]
      OBVIOUS
    <2> HIDE DEF g
    <2> QED BY <1>5, <2>1 DEF Flattens
  <1> QED BY <1>1, <1>6

LEMMA FlattensType ==
    ASSUME NEW S, NEW ss \in Seq(Seq(S)), NEW f, Flattens(f, Len(ss), ss),
           NEW j \in 1..Len(ss)
    PROVE  f[j] \in Seq(S)
  <1> SUFFICES ASSUME f[j] \notin Seq(S) PROVE FALSE
    OBVIOUS
  <1> DEFINE T == {i \in 1..Len(ss) : f[i] \notin Seq(S)}
  <1>a. T # {} /\ T \subseteq Nat
    <2>1. j \in T
      OBVIOUS
    <2>2. 1..Len(ss) \subseteq Nat
      OBVIOUS
    <2> QED BY <2>1, <2>2
  <1>1. PICK m \in T : \A i \in T : m <= i
    <2> HIDE DEF T
    <2> QED BY <1>a, LeastNumber
  <1>2. m \in 1..Len(ss) /\ (m # 1 => m - 1 \in 1..Len(ss) /\ m - 1 \notin T)
    BY <1>1
  <1>3. f[m] = IF m = 1 THEN ss[m] ELSE f[m-1] \o ss[m]
    BY <1>2 DEF Flattens
  <1>4. ss[m] \in Seq(S)
    BY <1>2
  <1>5. m # 1 => f[m-1] \in Seq(S)
    BY <1>2
  <1> HIDE DEF T
  <1>6. f[m] \in Seq(S)
    BY <1>3, <1>4, <1>5, ConcatProperties
  <1> QED BY <1>1, <1>6 DEF T

LEMMA FlattenIs ==
    ASSUME NEW S, NEW ss \in Seq(Seq(S)), ss # <<>>
    PROVE  \E f : Flattens(f, Len(ss), ss) /\ FlattenSeq(ss) = f[Len(ss)]
  <1> DEFINE f == CHOOSE f : Flattens(f, Len(ss), ss)
  <1>1. Len(ss) \in Nat /\ Len(ss) # 0
    BY EmptySeq
  <1>2. Flattens(f, Len(ss), ss)
    BY <1>1, FlattensExists
  <1>3. FlattenSeq(ss) = f[Len(ss)]
    BY <1>1 DEF FlattenSeq, Flattens
  <1> QED BY <1>2, <1>3

\* Flattening one more sequence appends it.
LEMMA FlattenAppend ==
    ASSUME NEW S, NEW ss \in Seq(Seq(S)), NEW s \in Seq(S)
    PROVE  /\ FlattenSeq(ss) \in Seq(S)
           /\ FlattenSeq(Append(ss, s)) = FlattenSeq(ss) \o s
  <1> DEFINE r == Append(ss, s)
  <1>1. /\ r \in Seq(Seq(S))
        /\ Len(r) = Len(ss) + 1 /\ Len(ss) \in Nat
        /\ \A i \in 1..Len(ss) : r[i] = ss[i]
        /\ r[Len(ss) + 1] = s
        /\ r # <<>>
    BY AppendProperties
  <1> HIDE DEF r
  <1>2. PICK g : Flattens(g, Len(r), r) /\ FlattenSeq(r) = g[Len(r)]
    BY <1>1, FlattenIs
  <1>3. g[Len(r)] = IF Len(r) = 1 THEN s ELSE g[Len(ss)] \o s
    <2>1. Len(r) \in 1..Len(r) /\ Len(r) - 1 = Len(ss)
      BY <1>1
    <2>2. g[Len(r)] = IF Len(r) = 1 THEN r[Len(r)]
                                    ELSE g[Len(r)-1] \o r[Len(r)]
      BY <1>2, <2>1 DEF Flattens
    <2> QED BY <1>1, <2>1, <2>2
  <1>4. CASE ss = <<>>
    <2>1. FlattenSeq(ss) = <<>>
      BY <1>4 DEF FlattenSeq
    <2>2. Len(r) = 1 /\ <<>> \o s = s
      BY <1>1, <1>4
    <2>3. FlattenSeq(r) = FlattenSeq(ss) \o s
      BY <1>2, <1>3, <2>1, <2>2
    <2>4. FlattenSeq(ss) \in Seq(S)
      BY <2>1
    <2> QED BY <2>3, <2>4 DEF r
  <1>5. CASE ss # <<>>
    <2>1. Len(ss) \in 1..Len(ss)
      BY <1>1, <1>5, EmptySeq
    <2>2. PICK f : Flattens(f, Len(ss), ss) /\ FlattenSeq(ss) = f[Len(ss)]
      BY <1>5, FlattenIs
    <2>3. g[Len(ss)] = f[Len(ss)]
      <3>1. \A i \in 1..Len(ss) :
               f[i] = IF i = 1 THEN ss[i] ELSE f[i-1] \o ss[i]
        BY <2>2 DEF Flattens
      <3>2. \A i \in 1..Len(ss) :
               g[i] = IF i = 1 THEN ss[i] ELSE g[i-1] \o ss[i]
        <4> TAKE i \in 1..Len(ss)
        <4>1. i \in 1..Len(r) /\ r[i] = ss[i]
          BY <1>1
        <4> QED BY <1>2, <4>1 DEF Flattens
      <3> SUFFICES ASSUME g[Len(ss)] # f[Len(ss)] PROVE FALSE
        OBVIOUS
      <3> DEFINE T == {i \in 1..Len(ss) : g[i] # f[i]}
      <3>3. T # {} /\ T \subseteq Nat
        <4>1. Len(ss) \in T
          BY <2>1
        <4>2. 1..Len(ss) \subseteq Nat
          BY <1>1
        <4> QED BY <4>1, <4>2
      <3>4. PICK m \in T : \A i \in T : m <= i
        <4> HIDE DEF T
        <4> QED BY <3>3, LeastNumber
      <3>5. /\ m \in 1..Len(ss)
            /\ m # 1 => m - 1 \in 1..Len(ss) /\ m - 1 \notin T
        BY <3>4
      <3> QED BY <3>1, <3>2, <3>4, <3>5
    <2>4. f[Len(ss)] \in Seq(S)
      BY <2>1, <2>2, FlattensType
    <2> QED BY <1>1, <1>2, <1>3, <2>1, <2>2, <2>3, <2>4 DEF r
  <1> QED BY <1>4, <1>5

\* Whatever holds of the empty sequence and is kept by Append holds of all.
LEMMA SeqInduction ==
    ASSUME NEW M, NEW T, <<>> \in T,
           \A h \in Seq(M), m \in M : h \in T => Append(h, m) \in T
    PROVE  \A h \in Seq(M) : h \in T
  <1> SUFFICES ASSUME NEW h \in Seq(M), h \notin T PROVE FALSE
    OBVIOUS
  <1> DEFINE L == {n \in Nat : \E g \in Seq(M) : g \notin T /\ Len(g) = n}
  <1>1. L # {} /\ L \subseteq Nat
    <2>1. Len(h) \in L
      OBVIOUS
    <2> QED BY <2>1
  <1>2. PICK n \in L : \A m \in L : n <= m
    <2> HIDE DEF L
    <2> QED BY <1>1, LeastNumber
  <1>3. PICK g \in Seq(M) : g \notin T /\ Len(g) = n
    BY <1>2
  <1>4. g # <<>>
    BY <1>3
  <1> DEFINE f == SubSeq(g, 1, n - 1)
  <1>5. /\ f \in Seq(M) /\ Len(f) = Len(g) - 1
        /\ g[Len(g)] \in M /\ g = Append(f, g[Len(g)])
    <2>1. Len(g) = n /\ n \in Nat /\ n >= 1
      BY <1>1, <1>3, <1>4
    <2>2. /\ f \in Seq(M) /\ Len(f) = Len(g) - 1
          /\ \A i \in 1..Len(f) : f[i] = g[i]
      <3>1. 1 \in Int /\ n - 1 \in Int /\ (n - 1) - 1 + 1 = n - 1
        BY <2>1
      <3>2. \A i \in 1..(n - 1) : g[i] \in M
        BY <2>1
      <3>3. /\ f \in Seq(M)
            /\ Len(f) = IF 1 <= n - 1 THEN (n - 1) - 1 + 1 ELSE 0
            /\ \A i \in 1..((n - 1) - 1 + 1) : f[i] = g[1 + i - 1]
        BY <3>1, <3>2, SubSeqProperties
      <3> HIDE DEF f
      <3>4. Len(f) = n - 1
        BY <2>1, <3>3
      <3>5. \A i \in 1..Len(f) : f[i] = g[i]
        BY <2>1, <3>3, <3>4
      <3> QED BY <2>1, <3>3, <3>4, <3>5
    <2>3. g[Len(g)] \in M
      BY <2>1
    <2>4. Append(f, g[Len(g)]) = g
      <3> DEFINE a == Append(f, g[Len(g)])
      <3>1. /\ a \in Seq(M) /\ Len(a) = Len(g)
            /\ \A i \in 1..Len(f) : a[i] = f[i]
            /\ a[Len(f) + 1] = g[Len(g)]
        BY <2>1, <2>2, <2>3, AppendProperties
      <3>2. \A i \in 1..Len(g) : a[i] = g[i]
        BY <2>1, <2>2, <3>1
      <3> HIDE DEF a
      <3>3. a = g
        BY <3>1, <3>2, SeqEqual
      <3> QED BY <3>3 DEF a
    <2> QED BY <2>2, <2>3, <2>4
  <1>6. f \notin T
    BY <1>3, <1>5
  <1>7. Len(f) \in L /\ Len(f) < n
    <2>1. Len(f) \in Nat /\ Len(g) \in Nat
      BY <1>5
    <2>2. Len(f) \in L
      BY <1>5, <1>6, <2>1
    <2>3. Len(f) < Len(g)
      BY <1>5, <2>1
    <2> QED BY <1>3, <2>2, <2>3
  <1> QED BY <1>2, <1>7

\* What is read of a sequence when g says what to read of each element.
View(g, h) == FlattenSeq([i \in DOMAIN h |-> g[h[i]]])

LEMMA EmptyView == \A g : View(g, <<>>) = <<>>
  BY DEF View, FlattenSeq

LEMMA ViewAppend ==
    ASSUME NEW M, NEW S, NEW g \in [M -> Seq(S)]
    PROVE  \A h \in Seq(M), m \in M :
             View(g, Append(h, m)) = View(g, h) \o g[m]
  <1> TAKE h \in Seq(M), m \in M
  <1> DEFINE ss == [i \in DOMAIN h |-> g[h[i]]]
             tt == [i \in DOMAIN Append(h, m) |-> g[Append(h, m)[i]]]
  <1>1. /\ DOMAIN h = 1..Len(h) /\ Len(h) \in Nat
        /\ DOMAIN Append(h, m) = 1..(Len(h) + 1)
        /\ \A i \in 1..Len(h) : Append(h, m)[i] = h[i]
        /\ Append(h, m)[Len(h) + 1] = m
    BY AppendProperties
  <1>2. ss \in Seq(Seq(S)) /\ Len(ss) = Len(h)
    <2>1. \A i \in 1..Len(h) : g[h[i]] \in Seq(S)
      OBVIOUS
    <2>2. ss = [i \in 1..Len(h) |-> g[h[i]]]
      BY <1>1
    <2> QED BY <1>1, <2>1, <2>2
  <1>3. tt = Append(ss, g[m])
    <2>1. /\ Append(ss, g[m]) \in Seq(Seq(S))
          /\ Len(Append(ss, g[m])) = Len(h) + 1
          /\ \A i \in 1..Len(h) : Append(ss, g[m])[i] = ss[i]
          /\ Append(ss, g[m])[Len(h) + 1] = g[m]
      BY <1>2, AppendProperties
    <2>2. \A i \in 1..(Len(h) + 1) : tt[i] = Append(ss, g[m])[i]
      <3> TAKE i \in 1..(Len(h) + 1)
      <3>1. i \in 1..Len(h) \/ i = Len(h) + 1
        BY <1>1
      <3>2. CASE i \in 1..Len(h)
        BY <1>1, <2>1, <3>2
      <3>3. CASE i = Len(h) + 1
        BY <1>1, <2>1, <3>3
      <3> QED BY <3>1, <3>2, <3>3
    <2>3. tt = [i \in 1..(Len(h) + 1) |-> tt[i]]
      BY <1>1
    <2>4. Append(ss, g[m]) = [i \in 1..(Len(h) + 1) |-> Append(ss, g[m])[i]]
      BY <2>1
    <2> HIDE DEF tt, ss
    <2> QED BY <2>2, <2>3, <2>4
  <1>4. View(g, h) = FlattenSeq(ss) /\ View(g, Append(h, m)) = FlattenSeq(tt)
    BY DEF View
  <1> HIDE DEF ss, tt
  <1> QED BY <1>2, <1>3, <1>4, FlattenAppend

LEMMA ViewType ==
    ASSUME NEW M, NEW S, NEW g \in [M -> Seq(S)], NEW h \in Seq(M)
    PROVE  View(g, h) \in Seq(S)
  <1> DEFINE ss == [i \in DOMAIN h |-> g[h[i]]]
  <1>1. \A i \in 1..Len(h) : g[h[i]] \in Seq(S)
    OBVIOUS
  <1>2. ss = [i \in 1..Len(h) |-> g[h[i]]] /\ Len(h) \in Nat
    OBVIOUS
  <1>3. ss \in Seq(Seq(S))
    BY <1>1, <1>2
  <1>4. <<>> \in Seq(S)
    OBVIOUS
  <1>5. View(g, h) = FlattenSeq(ss)
    BY DEF View
  <1> HIDE DEF ss
  <1> QED BY <1>3, <1>4, <1>5, FlattenAppend

\* What is read of two sequences one after the other.
LEMMA ViewConcat ==
    ASSUME NEW M, NEW S, NEW g \in [M -> Seq(S)]
    PROVE  \A h, k \in Seq(M) : View(g, h \o k) = View(g, h) \o View(g, k)
  <1> TAKE h, k \in Seq(M)
  <1> DEFINE T == {l \in Seq(M) : View(g, h \o l) = View(g, h) \o View(g, l)}
  <1>0. View(g, h) \in Seq(S)
    BY ViewType
  <1>1. <<>> \in T
    <2>1. h \o <<>> = h /\ <<>> \in Seq(M) /\ View(g, h) \o <<>> = View(g, h)
      BY <1>0
    <2> QED BY <2>1, EmptyView
  <1>2. ASSUME NEW l \in Seq(M), NEW m \in M, l \in T
        PROVE  Append(l, m) \in T
    <2>1. Append(l, m) \in Seq(M) /\ h \o l \in Seq(M) /\ g[m] \in Seq(S)
      OBVIOUS
    <2>2. View(g, Append(h \o l, m)) = View(g, h \o l) \o g[m]
      BY <2>1, ViewAppend
    <2>3. View(g, Append(l, m)) = View(g, l) \o g[m]
      BY ViewAppend
    <2>4. h \o Append(l, m) = Append(h \o l, m)
      OBVIOUS
    <2>5. View(g, l) \in Seq(S)
      BY ViewType
    <2>6. (View(g, h) \o View(g, l)) \o g[m]
              = View(g, h) \o (View(g, l) \o g[m])
      <3>1. PICK a \in Seq(S), b \in Seq(S), c \in Seq(S) :
              a = View(g, h) /\ b = View(g, l) /\ c = g[m]
        BY <1>0, <2>1, <2>5
      <3>2. (a \o b) \o c = a \o (b \o c)
        BY <3>1, ConcatAssociative
      <3> QED BY <3>1, <3>2
    <2>7. View(g, h \o l) = View(g, h) \o View(g, l)
      BY <1>2
    <2> HIDE DEF T
    <2>8. View(g, h \o Append(l, m)) = View(g, h) \o View(g, Append(l, m))
      BY <2>2, <2>3, <2>4, <2>6, <2>7
    <2> QED BY <2>1, <2>8 DEF T
  <1> HIDE DEF T
  <1>3. k \in T
    BY <1>1, <1>2, SeqInduction
  <1> QED BY <1>3 DEF T

LEMMA ViewOfSingle ==
    ASSUME NEW M, NEW S, NEW g \in [M -> Seq(S)], NEW m \in M
    PROVE  View(g, <<m>>) = g[m]
  <1>1. <<>> \in Seq(M) /\ Append(<<>>, m) = <<m>> /\ <<>> \o g[m] = g[m]
    OBVIOUS
  <1>2. View(g, Append(<<>>, m)) = View(g, <<>>) \o g[m]
    BY <1>1, ViewAppend
  <1> QED BY <1>1, <1>2, EmptyView

\* Each element says one thing.
LEMMA ViewOfSingles ==
    ASSUME NEW M, NEW S, NEW g \in [M -> Seq(S)]
    PROVE  \A h \in Seq(M) : \A t \in Seq(S) :
             Len(t) = Len(h) /\ (\A i \in 1..Len(h) : g[h[i]] = <<t[i]>>)
                => View(g, h) = t
  <1> DEFINE Says(h, t) ==
               Len(t) = Len(h) /\ (\A i \in 1..Len(h) : g[h[i]] = <<t[i]>>)
             T == {h \in Seq(M) : \A t \in Seq(S) : Says(h, t)
                 => View(g, h) = t}
  <1>1. <<>> \in T
    <2>1. ASSUME NEW t \in Seq(S), Len(t) = Len(<<>>) PROVE t = View(g, <<>>)
      <3>1. t = <<>>
        BY <2>1
      <3> QED BY <3>1, EmptyView
    <2>2. <<>> \in Seq(M)
      OBVIOUS
    <2> QED BY <2>1, <2>2
  <1>2. ASSUME NEW l \in Seq(M), NEW m \in M, l \in T
        PROVE  Append(l, m) \in T
    <2> DEFINE h == Append(l, m)
    <2>1. /\ h \in Seq(M) /\ Len(h) = Len(l) + 1 /\ Len(l) \in Nat
          /\ h[Len(l) + 1] = m
          /\ \A i \in 1..Len(l) : h[i] = l[i]
      OBVIOUS
    <2>2. ASSUME NEW t \in Seq(S), Says(h, t) PROVE View(g, h) = t
      <3> DEFINE n == Len(l)
                 s == [i \in 1..n |-> t[i]]
      <3>1. /\ Len(t) = n + 1 /\ n \in Nat
            /\ \A i \in 1..(n + 1) : t[i] \in S
            /\ \A i \in 1..(n + 1) : g[h[i]] = <<t[i]>>
        BY <2>1, <2>2
      <3>2. s \in Seq(S) /\ Len(s) = n /\ \A i \in 1..n : s[i] = t[i]
        BY <3>1
      <3>3. t[n + 1] \in S /\ g[m] = <<t[n + 1]>>
        <4> HIDE DEF h, s
        <4>1. n + 1 \in 1..(n + 1)
          BY <3>1
        <4>2. g[h[n + 1]] = <<t[n + 1]>> /\ t[n + 1] \in S
          BY ONLY <3>1, <4>1
        <4> QED BY <2>1, <4>2
      <3> HIDE DEF s
      <3>4. s \o <<t[n + 1]>> = t
        <4> HIDE DEF n
        <4>1. PICK x \in S : x = t[n + 1]
          BY <3>3
        <4>2. /\ Append(s, x) \in Seq(S) /\ Len(Append(s, x)) = n + 1
              /\ \A i \in 1..n : Append(s, x)[i] = s[i]
              /\ Append(s, x)[n + 1] = x
              /\ s \o <<x>> = Append(s, x)
          BY <3>2, <4>1, AppendProperties
        <4>3. \A i \in 1..Len(t) : Append(s, x)[i] = t[i]
          <5> TAKE i \in 1..Len(t)
          <5>1. i \in 1..n \/ i = n + 1
            BY <3>1
          <5> QED BY <3>2, <4>1, <4>2, <5>1
        <4>4. Append(s, x) = t
          BY <3>1, <4>2, <4>3, SeqEqual
        <4> QED BY <4>1, <4>2, <4>4
      <3>5. Says(l, s)
        <4> HIDE DEF h
        <4>1. ASSUME NEW i \in 1..n PROVE g[l[i]] = <<s[i]>>
          <5>1. i \in 1..(n + 1)
            BY <3>1
          <5> QED BY <2>1, <3>1, <3>2, <5>1
        <4> QED BY <3>2, <4>1
      <3>6. View(g, l) = s
        <4> HIDE DEF Says
        <4> QED BY <1>2, <3>2, <3>5
      <3>7. View(g, h) = View(g, l) \o g[m]
        BY ViewAppend
      <3> QED BY <3>3, <3>4, <3>6, <3>7
    <2> HIDE DEF Says, h
    <2>3. h \in T
      BY <2>1, <2>2
    <2> QED BY <2>3 DEF h
  <1> HIDE DEF T
  <1>3. \A h \in Seq(M) : h \in T
    BY <1>1, <1>2, SeqInduction
  <1> QED BY <1>3 DEF T

\* A view of elements that say nothing is empty.
LEMMA ViewOfNothing ==
    ASSUME NEW M, NEW S, NEW g \in [M -> Seq(S)], NEW h \in Seq(M),
           \A i \in 1..Len(h) : g[h[i]] = <<>>
    PROVE  View(g, h) = <<>>
  <1> DEFINE T == {l \in Seq(M) :
                    (\A i \in 1..Len(l) : g[l[i]] = <<>>) => View(g, l) = <<>>}
  <1>1. <<>> \in T
    <2>1. <<>> \in Seq(M)
      OBVIOUS
    <2> QED BY <2>1, EmptyView
  <1>2. ASSUME NEW l \in Seq(M), NEW m \in M, l \in T
        PROVE  Append(l, m) \in T
    <2>0. Append(l, m) \in Seq(M)
      OBVIOUS
    <2> SUFFICES ASSUME \A i \in 1..Len(Append(l, m)) :
                            g[Append(l, m)[i]] = <<>>
                 PROVE  View(g, Append(l, m)) = <<>>
      BY <2>0
    <2>1. /\ Len(Append(l, m)) = Len(l) + 1 /\ Len(l) \in Nat
          /\ Append(l, m)[Len(l) + 1] = m
          /\ \A i \in 1..Len(l) : Append(l, m)[i] = l[i]
      OBVIOUS
    <2>2. g[m] = <<>>
      BY <2>1
    <2>3. \A i \in 1..Len(l) : g[l[i]] = <<>>
      BY <2>1
    <2>4. View(g, l) = <<>>
      BY <1>2, <2>3
    <2>5. View(g, Append(l, m)) = View(g, l) \o g[m]
      BY ViewAppend
    <2>6. <<>> \o <<>> = <<>>
      OBVIOUS
    <2> QED BY <2>2, <2>4, <2>5, <2>6
  <1> HIDE DEF T
  <1>3. h \in T
    BY <1>1, <1>2, SeqInduction
  <1> QED BY <1>3 DEF T

\* Nor do they add anything to what is read of what stands before them.
LEMMA ViewOfMore ==
    ASSUME NEW M, NEW S, NEW g \in [M -> Seq(S)],
           NEW h \in Seq(M), NEW k \in Seq(M),
           \A i \in 1..Len(k) : g[k[i]] = <<>>
    PROVE  View(g, h \o k) = View(g, h)
  <1> DEFINE T == {l \in Seq(M) : (\A i \in 1..Len(l) : g[l[i]] = <<>>)
                                    => View(g, h \o l) = View(g, h)}
  <1>0. View(g, h) \in Seq(S)
    BY ViewType
  <1>1. <<>> \in T
    <2>1. h \o <<>> = h /\ <<>> \in Seq(M)
      OBVIOUS
    <2> QED BY <2>1
  <1>2. ASSUME NEW l \in Seq(M), NEW m \in M, l \in T
        PROVE  Append(l, m) \in T
    <2>0. Append(l, m) \in Seq(M) /\ h \o l \in Seq(M)
      OBVIOUS
    <2> SUFFICES ASSUME \A i \in 1..Len(Append(l, m)) :
                            g[Append(l, m)[i]] = <<>>
                 PROVE  View(g, h \o Append(l, m)) = View(g, h)
      BY <2>0
    <2>1. /\ Len(Append(l, m)) = Len(l) + 1 /\ Len(l) \in Nat
          /\ Append(l, m)[Len(l) + 1] = m
          /\ \A i \in 1..Len(l) : Append(l, m)[i] = l[i]
      OBVIOUS
    <2>2. g[m] = <<>>
      BY <2>1
    <2>3. \A i \in 1..Len(l) : g[l[i]] = <<>>
      BY <2>1
    <2>4. View(g, h \o l) = View(g, h)
      BY <1>2, <2>3
    <2>5. View(g, Append(h \o l, m)) = View(g, h \o l) \o g[m]
      BY <2>0, ViewAppend
    <2>6. h \o Append(l, m) = Append(h \o l, m)
      OBVIOUS
    <2>7. View(g, h) \o <<>> = View(g, h)
      BY <1>0
    <2> QED BY <2>2, <2>4, <2>5, <2>6, <2>7
  <1> HIDE DEF T
  <1>3. k \in T
    BY <1>1, <1>2, SeqInduction
  <1> QED BY <1>3 DEF T

\* All elements but one say nothing; that one is the view.
OnlySays(g, h, p) == \A i \in 1..Len(h) : i # p => g[h[i]] = <<>>

LEMMA ViewOfOne ==
    ASSUME NEW M, NEW S, NEW g \in [M -> Seq(S)], NEW h \in Seq(M),
           NEW p \in 1..Len(h), OnlySays(g, h, p)
    PROVE  View(g, h) = g[h[p]]
  <1> DEFINE T == {l \in Seq(M) : \A q \in 1..Len(l) :
                    (\A i \in 1..Len(l) : i # q => g[l[i]] = <<>>)
                      => View(g, l) = g[l[q]]}
  <1>1. <<>> \in T
    OBVIOUS
  <1>2. ASSUME NEW l \in Seq(M), NEW m \in M, l \in T
        PROVE  Append(l, m) \in T
    <2>0. Append(l, m) \in Seq(M)
      OBVIOUS
    <2> SUFFICES ASSUME NEW q \in 1..Len(Append(l, m)),
                        \A i \in 1..Len(Append(l, m)) :
                            i # q => g[Append(l, m)[i]] = <<>>
                 PROVE  View(g, Append(l, m)) = g[Append(l, m)[q]]
      BY <2>0
    <2>1. /\ Len(Append(l, m)) = Len(l) + 1 /\ Len(l) \in Nat
          /\ Append(l, m)[Len(l) + 1] = m
          /\ \A i \in 1..Len(l) : Append(l, m)[i] = l[i]
      OBVIOUS
    <2>a. /\ \A i \in 1..Len(l) : i \in 1..Len(Append(l, m)) /\ i # Len(l) + 1
          /\ q \in 1..Len(l) \/ q = Len(l) + 1
      <3>1. PICK n \in Nat : n = Len(l)
        BY <2>1
      <3>2. q \in 1..(n + 1)
        BY <2>1, <3>1
      <3>3. /\ \A i \in 1..n : i \in 1..(n + 1) /\ i # n + 1
            /\ q \in 1..n \/ q = n + 1
        BY <3>2
      <3> QED BY <2>1, <3>1, <3>3
    <2>2. View(g, Append(l, m)) = View(g, l) \o g[m]
      BY ViewAppend
    <2>3. CASE q = Len(l) + 1
      <3>1. ASSUME NEW i \in 1..Len(l) PROVE g[l[i]] = <<>>
        <4>1. i \in 1..Len(Append(l, m)) /\ i # q
          BY <2>3, <2>a
        <4>2. Append(l, m)[i] = l[i]
          BY <2>1
        <4> QED BY <4>1, <4>2
      <3>2. View(g, l) = <<>>
        BY <3>1, ViewOfNothing
      <3>3. <<>> \o g[m] = g[m]
        OBVIOUS
      <3> QED BY <2>1, <2>2, <2>3, <3>2, <3>3
    <2>4. CASE q \in 1..Len(l)
      <3>1. g[m] = <<>>
        BY <2>1, <2>4
      <3>2. \A i \in 1..Len(l) : i # q => g[l[i]] = <<>>
        BY <2>1
      <3>3. View(g, l) = g[l[q]]
        BY <1>2, <2>4, <3>2
      <3>4. g[l[q]] \o <<>> = g[l[q]]
        BY <2>4
      <3> QED BY <2>1, <2>2, <2>4, <3>1, <3>3, <3>4
    <2> QED BY <2>a, <2>3, <2>4
  <1> HIDE DEF T
  <1>3. h \in T
    BY <1>1, <1>2, SeqInduction
  <1> QED BY <1>3 DEF T, OnlySays

\* f keeps an element or drops it.
Filters(f, M) ==
    f \in [M -> Seq(M)] /\ \A m \in M : f[m] = <<m>> \/ f[m] = <<>>

LEMMA FilterAppend ==
    ASSUME NEW M, NEW f, Filters(f, M), NEW h \in Seq(M), NEW m \in M
    PROVE  /\ View(f, h) \in Seq(M)
           /\ f[m] = <<>> => View(f, Append(h, m)) = View(f, h)
           /\ f[m] # <<>> => View(f, Append(h, m)) = Append(View(f, h), m)
  <1>1. f \in [M -> Seq(M)] /\ (f[m] = <<m>> \/ f[m] = <<>>)
    BY DEF Filters
  <1>2. View(f, h) \in Seq(M)
    BY <1>1, ViewType
  <1>3. View(f, Append(h, m)) = View(f, h) \o f[m]
    BY <1>1, ViewAppend
  <1>4. /\ View(f, h) \o <<>> = View(f, h)
        /\ View(f, h) \o <<m>> = Append(View(f, h), m)
    BY <1>2
  <1> QED BY <1>1, <1>2, <1>3, <1>4

\* What g does not read may be dropped before.
LEMMA ViewThrough ==
    ASSUME NEW M, NEW S, NEW f, Filters(f, M), NEW g \in [M -> Seq(S)],
           \A m \in M : f[m] = <<>> => g[m] = <<>>,
           NEW h \in Seq(M)
    PROVE  View(g, View(f, h)) = View(g, h)
  <1> DEFINE T == {l \in Seq(M) : View(g, View(f, l)) = View(g, l)}
  <1>1. <<>> \in T
    <2>1. <<>> \in Seq(M)
      OBVIOUS
    <2> QED BY <2>1, EmptyView
  <1>2. ASSUME NEW l \in Seq(M), NEW m \in M, l \in T
        PROVE  Append(l, m) \in T
    <2>0. Append(l, m) \in Seq(M)
      OBVIOUS
    <2>1. View(g, Append(l, m)) = View(g, l) \o g[m]
      BY ViewAppend
    <2>2. View(g, View(f, l)) = View(g, l)
      BY <1>2
    <2>3. View(f, l) \in Seq(M)
      BY FilterAppend
    <2>4. CASE f[m] = <<>>
      <3>1. View(f, Append(l, m)) = View(f, l)
        BY <2>4, FilterAppend
      <3>2. View(g, l) \in Seq(S)
        BY ViewType
      <3>3. View(g, l) \o g[m] = View(g, l)
        BY <2>4, <3>2
      <3> QED BY <2>0, <2>1, <2>2, <3>1, <3>3
    <2>5. CASE f[m] # <<>>
      <3>1. View(f, Append(l, m)) = Append(View(f, l), m)
        BY <2>5, FilterAppend
      <3>2. View(g, Append(View(f, l), m)) = View(g, View(f, l)) \o g[m]
        BY <2>3, ViewAppend
      <3> QED BY <2>0, <2>1, <2>2, <3>1, <3>2
    <2> QED BY <2>4, <2>5
  <1> HIDE DEF T
  <1>3. h \in T
    BY <1>1, <1>2, SeqInduction
  <1> QED BY <1>3 DEF T

\* r[p] of the first p elements of h are kept, s has them in their order, and
\* neighbours stay neighbours if nothing between them is dropped.
Kept(f, h, p) == f[h[p]] # <<>>

Ranks(f, h, s, r) ==
    /\ r \in [0..Len(h) -> Nat] /\ r[0] = 0 /\ r[Len(h)] = Len(s)
    /\ \A p \in 1..Len(h) : Kept(f, h, p) =>
          r[p] \in 1..Len(s) /\ s[r[p]] = h[p]
    /\ \A j \in 1..Len(s) : \E p \in 1..Len(h) : Kept(f, h, p) /\ r[p] = j
    /\ \A p, q \in 0..Len(h) : q < p =>
          r[q] <= r[p] /\ (Kept(f, h, p) => r[q] < r[p])
    /\ \A p, q \in 0..Len(h) : q < p /\ (\A x \in (q+1)..p : Kept(f, h, x)) =>
          r[p] = r[q] + (p - q)

LEMMA RanksAppend ==
    ASSUME NEW M, NEW f, Filters(f, M), NEW h \in Seq(M), NEW m \in M,
           NEW s \in Seq(M), NEW r, Ranks(f, h, s, r),
           NEW t \in Seq(M),
           f[m] = <<>> => t = s,
           f[m] # <<>> => t = Append(s, m)
    PROVE  \E q : Ranks(f, Append(h, m), t, q)
  <1> DEFINE n == Len(h) + 1
             g == Append(h, m)
             w == [p \in 0..n |-> IF p = n THEN Len(t) ELSE r[p]]
  <1>1. /\ n \in Nat /\ Len(g) = n /\ g[n] = m /\ Len(h) = n - 1
        /\ \A p \in 1..Len(h) : g[p] = h[p]
    OBVIOUS
  <1>2. /\ Len(s) \in Nat /\ Len(t) \in Nat
        /\ (f[m] = <<>> => Len(t) = Len(s))
        /\ (f[m] # <<>> => Len(t) = Len(s) + 1 /\ t[Len(t)] = m)
        /\ \A j \in 1..Len(s) : t[j] = s[j]
    OBVIOUS
  <1>3. /\ r \in [0..Len(h) -> Nat] /\ r[0] = 0 /\ r[Len(h)] = Len(s)
        /\ \A p \in 0..Len(h) : r[p] \in Nat /\ r[p] <= Len(s)
    <2>1. r \in [0..Len(h) -> Nat] /\ r[0] = 0 /\ r[Len(h)] = Len(s)
      BY DEF Ranks
    <2>2. ASSUME NEW p \in 0..Len(h) PROVE r[p] \in Nat /\ r[p] <= Len(s)
      <3>1. Len(h) \in 0..Len(h) /\ (p = Len(h) \/ p < Len(h))
        <4>1. Len(h) \in Nat
          OBVIOUS
        <4>2. p \in Nat /\ p <= Len(h)
          BY <4>1
        <4> QED BY <4>1, <4>2
      <3>2. r[p] \in Nat
        BY <2>1
      <3>3. p < Len(h) => r[p] <= r[Len(h)]
        BY <3>1 DEF Ranks
      <3> QED BY <1>2, <2>1, <3>1, <3>2, <3>3
    <2> QED BY <2>1, <2>2
  <1>4. /\ DOMAIN w = 0..n /\ w[n] = Len(t)
        /\ \A p \in 0..Len(h) : w[p] = r[p]
    BY <1>1
  <1>5. w \in [0..n -> Nat]
    <2>1. \A p \in 0..n : p = n \/ p \in 0..Len(h)
      BY <1>1
    <2>2. \A p \in 0..n : w[p] \in Nat
      BY <1>2, <1>3, <1>4, <2>1
    <2>3. w = [p \in 0..n |-> w[p]]
      OBVIOUS
    <2> HIDE DEF w, n
    <2> QED BY <2>2, <2>3
  <1>6. \A p \in 1..Len(h) : Kept(f, g, p) <=> Kept(f, h, p)
    BY <1>1 DEF Kept
  <1>7. Kept(f, g, n) <=> f[m] # <<>>
    BY <1>1 DEF Kept
  <1>8. \A p \in 1..n : p = n \/ p \in 1..Len(h)
    BY <1>1
  <1> HIDE DEF g, n, w
  <1>9. \A p \in 1..n : Kept(f, g, p) => w[p] \in 1..Len(t) /\ t[w[p]] = g[p]
    <2> SUFFICES ASSUME NEW p \in 1..n, Kept(f, g, p)
                 PROVE  w[p] \in 1..Len(t) /\ t[w[p]] = g[p]
      OBVIOUS
    <2>1. CASE p = n
      BY <1>1, <1>2, <1>4, <1>7, <2>1
    <2>2. CASE p \in 1..Len(h)
      <3>1. r[p] \in 1..Len(s) /\ s[r[p]] = h[p]
        BY <1>6, <2>2 DEF Ranks
      <3>2. r[p] \in 1..Len(t) /\ t[r[p]] = s[r[p]]
        BY <1>2, <3>1
      <3>3. w[p] = r[p] /\ g[p] = h[p]
        BY <1>1, <1>4, <2>2
      <3> QED BY <3>1, <3>2, <3>3
    <2> QED BY <1>8, <2>1, <2>2
  <1>10. \A j \in 1..Len(t) : \E p \in 1..n : Kept(f, g, p) /\ w[p] = j
    <2> TAKE j \in 1..Len(t)
    <2>1. CASE j \in 1..Len(s)
      <3>1. PICK p \in 1..Len(h) : Kept(f, h, p) /\ r[p] = j
        BY <2>1 DEF Ranks
      <3>2. p \in 1..n /\ p \in 0..Len(h)
        BY <1>1
      <3> QED BY <1>4, <1>6, <3>1, <3>2
    <2>2. CASE j \notin 1..Len(s)
      <3>1. f[m] # <<>> /\ j = Len(t)
        BY <1>2, <2>2
      <3>2. n \in 1..n
        BY <1>1
      <3> QED BY <1>4, <1>7, <3>1, <3>2
    <2> QED BY <2>1, <2>2
  <1>11. \A p, q \in 0..n : q < p =>
            w[q] <= w[p] /\ (Kept(f, g, p) => w[q] < w[p])
    <2> SUFFICES ASSUME NEW p \in 0..n, NEW q \in 0..n, q < p
                 PROVE  w[q] <= w[p] /\ (Kept(f, g, p) => w[q] < w[p])
      OBVIOUS
    <2>1. q \in 0..Len(h) /\ w[q] = r[q] /\ r[q] \in Nat /\ r[q] <= Len(s)
      <3>1. q \in 0..Len(h)
        BY <1>1
      <3> QED BY <1>3, <1>4, <3>1
    <2>2. CASE p = n
      <3>1. Len(s) <= Len(t) /\ (Kept(f, g, n) => Len(s) < Len(t))
        BY <1>2, <1>7
      <3> QED BY <1>2, <1>4, <2>1, <2>2, <3>1
    <2>3. CASE p # n
      <3>1. p \in 1..Len(h) /\ p \in 0..Len(h)
        BY <1>1, <2>3
      <3>2. r[q] <= r[p] /\ (Kept(f, h, p) => r[q] < r[p])
        BY <2>1, <3>1 DEF Ranks
      <3> QED BY <1>4, <1>6, <2>1, <3>1, <3>2
    <2> QED BY <2>2, <2>3
  <1>12. \A p, q \in 0..n :
            q < p /\ (\A x \in (q+1)..p : Kept(f, g, x)) => w[p] = w[q] + (p - q)
    <2> SUFFICES ASSUME NEW p \in 0..n, NEW q \in 0..n, q < p,
                        \A x \in (q+1)..p : Kept(f, g, x)
                 PROVE  w[p] = w[q] + (p - q)
      OBVIOUS
    <2>1. q \in 0..Len(h) /\ w[q] = r[q] /\ r[q] \in Nat
      <3>1. q \in 0..Len(h)
        BY <1>1
      <3> QED BY <1>3, <1>4, <3>1
    <2>2. CASE p = n
      <3>1. Kept(f, g, n)
        <4>1. n \in (q+1)..p
          BY <1>1, <2>1, <2>2
        <4> QED BY <4>1
      <3>2. w[p] = Len(s) + 1
        BY <1>2, <1>4, <1>7, <2>2, <3>1
      <3>3. r[Len(h)] = r[q] + (Len(h) - q)
        <4>1. CASE q = Len(h)
          BY <1>1, <1>3, <2>1, <4>1
        <4>2. CASE q # Len(h)
          <5>1. q < Len(h) /\ Len(h) \in 0..Len(h)
            BY <1>1, <2>1, <4>2
          <5>2. \A x \in (q+1)..Len(h) : x \in (q+1)..p /\ x \in 1..Len(h)
            BY <1>1, <2>1, <2>2
          <5>3. \A x \in (q+1)..Len(h) : Kept(f, h, x)
            BY <1>6, <5>2
          <5> QED BY <2>1, <5>1, <5>3 DEF Ranks
        <4> QED BY <4>1, <4>2
      <3> QED BY <1>1, <1>2, <1>3, <2>1, <2>2, <3>2, <3>3
    <2>3. CASE p # n
      <3>1. p \in 0..Len(h)
        BY <1>1, <2>3
      <3>2. \A x \in (q+1)..p : x \in 1..Len(h)
        BY <1>1, <2>1, <3>1
      <3>3. \A x \in (q+1)..p : Kept(f, h, x)
        BY <1>6, <3>2
      <3>4. r[p] = r[q] + (p - q)
        BY <2>1, <3>1, <3>3 DEF Ranks
      <3> QED BY <1>4, <2>1, <3>1, <3>4
    <2> QED BY <2>2, <2>3
  <1>13. Len(g) = n /\ w[0] = 0
    <2>1. 0 \in 0..Len(h)
      BY <1>1
    <2> QED BY <1>1, <1>3, <1>4, <2>1
  <1>14. Ranks(f, g, t, w)
    BY <1>4, <1>5, <1>9, <1>10, <1>11, <1>12, <1>13 DEF Ranks
  <1> QED BY <1>14 DEF g

LEMMA FilterRanks ==
    ASSUME NEW M, NEW f, Filters(f, M), NEW h \in Seq(M)
    PROVE  View(f, h) \in Seq(M) /\ \E r : Ranks(f, h, View(f, h), r)
  <1> DEFINE T == {l \in Seq(M) : View(f, l) \in Seq(M) /\
                                  \E r : Ranks(f, l, View(f, l), r)}
  <1>1. <<>> \in T
    <2>1. Ranks(f, <<>>, <<>>, [p \in {0} |-> 0])
      BY DEF Ranks
    <2>2. <<>> \in Seq(M)
      OBVIOUS
    <2> QED BY <2>1, <2>2, EmptyView
  <1>2. ASSUME NEW l \in Seq(M), NEW m \in M, l \in T
        PROVE  Append(l, m) \in T
    <2>0. Append(l, m) \in Seq(M)
      OBVIOUS
    <2>1. PICK r : Ranks(f, l, View(f, l), r)
      BY <1>2
    <2>2. View(f, l) \in Seq(M)
      BY <1>2
    <2>3. /\ f[m] = <<>> => View(f, Append(l, m)) = View(f, l)
          /\ f[m] # <<>> => View(f, Append(l, m)) = Append(View(f, l), m)
      BY FilterAppend
    <2>4. View(f, Append(l, m)) \in Seq(M)
      BY <2>0, ViewType DEF Filters
    <2>5. \E q : Ranks(f, Append(l, m), View(f, Append(l, m)), q)
      BY <2>1, <2>2, <2>3, <2>4, RanksAppend
    <2> QED BY <2>0, <2>4, <2>5
  <1> HIDE DEF T
  <1>3. h \in T
    BY <1>1, <1>2, SeqInduction
  <1> QED BY <1>3 DEF T

-----------------------------------------------------------------------------
(* Messages and histories                                                  *)

\* Only an assistant's message requests tool calls.
Msg ==
    {m \in [role : {"user", "assistant", "tool"}, turn : 0..MaxTurns,
            size : ContentSizes \cup {1}, marked : BOOLEAN,
            calls : Seq(CallId), call : CallId \cup {<<>>}] :
        m.role # "assistant" => m.calls = <<>>}

LEMMA MsgFields ==
    ASSUME NEW m \in Msg
    PROVE  /\ m.role \in {"user", "assistant", "tool"} /\ m.turn \in 0..MaxTurns
           /\ m.size \in ContentSizes \cup {1} /\ m.calls \in Seq(CallId)
           /\ Len(m.calls) \in Nat /\ DOMAIN m.calls = 1..Len(m.calls)
           /\ m.role # "assistant" => m.calls = <<>>
  <1>1. /\ m.role \in {"user", "assistant", "tool"} /\ m.turn \in 0..MaxTurns
        /\ m.size \in ContentSizes \cup {1} /\ m.calls \in Seq(CallId)
        /\ m.role # "assistant" => m.calls = <<>>
    BY DEF Msg
  <1> QED BY <1>1

LEMMA MessageTypes ==
    ASSUME NEW t \in Turns, NEW marked \in BOOLEAN,
           NEW size \in ContentSizes, NEW calls \in Seq(CallId),
           NEW call \in CallId
    PROVE  /\ Question(t, marked) \in Msg /\ ContextBlock \in Msg
           /\ Answer(t, size, calls) \in Msg /\ ToolResult(t, call) \in Msg
           /\ MemoryDump \in Msg
  <1>1. t \in 0..MaxTurns /\ Dump \in 0..MaxTurns /\ <<>> \in Seq(CallId)
    BY AgentAssumption DEF AgentAssumption, Turns, Dump
  <1>2. TRUE \in BOOLEAN /\ FALSE \in BOOLEAN
    OBVIOUS
  <1>3. Question(t, marked) \in Msg
    BY <1>1 DEF Question, Message, Msg
  <1>4. ContextBlock \in Msg
    BY <1>1, <1>2 DEF ContextBlock, Message, Msg
  <1>5. Answer(t, size, calls) \in Msg
    BY <1>1, <1>2 DEF Answer, Message, Msg
  <1>6. ToolResult(t, call) \in Msg
    BY <1>1, <1>2 DEF ToolResult, Message, Msg
  <1>7. MemoryDump \in Msg
    BY <1>1, <1>2 DEF MemoryDump, Message, Msg
  <1> QED BY <1>3, <1>4, <1>5, <1>6, <1>7

\* stripContextMessages as a filter.
Unmarked ==
    [m \in Msg |-> IF m.role = "user" /\ m.marked THEN <<>> ELSE <<m>>]

LEMMA StripIsFilter ==
    ASSUME NEW h \in Seq(Msg)
    PROVE  /\ Filters(Unmarked, Msg)
           /\ StripContext(h) = View(Unmarked, h)
           /\ StripContext(h) \in Seq(Msg)
           /\ \E r : Ranks(Unmarked, h, StripContext(h), r)
           /\ \A p \in 1..Len(h) :
                Kept(Unmarked, h, p) <=> ~(h[p].role = "user" /\ h[p].marked)
  <1>1. Filters(Unmarked, Msg)
    <2>1. \A m \in Msg : Unmarked[m] = <<m>> \/ Unmarked[m] = <<>>
      BY DEF Unmarked
    <2>2. \A m \in Msg : <<m>> \in Seq(Msg) /\ <<>> \in Seq(Msg)
      OBVIOUS
    <2>3. Unmarked \in [Msg -> Seq(Msg)]
      BY <2>2 DEF Unmarked
    <2> QED BY <2>1, <2>3 DEF Filters
  <1>2. \A i \in DOMAIN h : h[i] \in Msg
    OBVIOUS
  <1>3. StripContext(h) = View(Unmarked, h)
    BY <1>2 DEF StripContext, View, Unmarked
  <1>4. /\ View(Unmarked, h) \in Seq(Msg)
        /\ \E r : Ranks(Unmarked, h, View(Unmarked, h), r)
    BY <1>1, FilterRanks
  <1>5. ASSUME NEW p \in 1..Len(h)
        PROVE  Kept(Unmarked, h, p) <=> ~(h[p].role = "user" /\ h[p].marked)
    <2>1. h[p] \in Msg /\ <<h[p]>> # <<>>
      OBVIOUS
    <2> QED BY <2>1 DEF Kept, Unmarked
  <1> QED BY <1>1, <1>3, <1>4, <1>5

\* A context block is dropped without parting a request from its results.
LEMMA StripPaired ==
    ASSUME NEW h \in Seq(Msg), Paired(h)
    PROVE  Paired(StripContext(h))
  <1> DEFINE s == StripContext(h)
  <1>1. PICK r : Ranks(Unmarked, h, s, r)
    BY StripIsFilter
  <1>2. /\ s \in Seq(Msg) /\ Len(h) \in Nat /\ Len(s) \in Nat
        /\ DOMAIN h = 1..Len(h) /\ DOMAIN s = 1..Len(s)
    BY StripIsFilter
  <1>3. \A p \in 1..Len(h) :
           Kept(Unmarked, h, p) <=> ~(h[p].role = "user" /\ h[p].marked)
    BY StripIsFilter
  <1>4. \A p \in 1..Len(h) : h[p].role # "user" => Kept(Unmarked, h, p)
    BY <1>3
  <1> HIDE DEF s
  <1>5. ASSUME NEW q \in 1..Len(h), NEW k \in DOMAIN h[q].calls
        PROVE  /\ q + k \in 1..Len(h) /\ k \in Nat /\ k >= 1
               /\ Kept(Unmarked, h, q) /\ Kept(Unmarked, h, q + k)
               /\ r[q] \in 1..Len(s) /\ s[r[q]] = h[q]
               /\ r[q + k] = r[q] + k /\ r[q + k] \in 1..Len(s)
               /\ s[r[q + k]] = h[q + k]
    <2>1. h[q] \in Msg
      OBVIOUS
    <2>2. /\ DOMAIN h[q].calls = 1..Len(h[q].calls) /\ Len(h[q].calls) \in Nat
          /\ h[q].role = "assistant"
      <3>1. h[q].calls # <<>>
        OBVIOUS
      <3> QED BY <2>1, <3>1, MsgFields
    <2>3. k \in Nat /\ k >= 1
      BY <2>2
    <2>4. ASSUME NEW x \in (q+1)..(q+k)
          PROVE  x \in 1..Len(h) /\ Kept(Unmarked, h, x)
      <3>1. x - q \in DOMAIN h[q].calls /\ q + (x - q) = x
        BY <1>2, <2>2, <2>3
      <3>2. q + (x - q) \in DOMAIN h /\ h[q + (x - q)].role = "tool"
        BY <1>2, <3>1 DEF Paired
      <3> QED BY <1>2, <1>4, <3>1, <3>2
    <2>5. q + k \in (q+1)..(q+k) /\ q < q + k /\ (q + k) - q = k
      BY <1>2, <2>3
    <2>6. q + k \in 1..Len(h) /\ Kept(Unmarked, h, q + k)
      BY <2>4, <2>5
    <2>7. Kept(Unmarked, h, q)
      BY <1>4, <2>2
    <2>8. q \in 0..Len(h) /\ q + k \in 0..Len(h)
      BY <1>2, <2>6
    <2>9. r[q + k] = r[q] + k
      <3>1. \A x, y \in 0..Len(h) :
               y < x /\ (\A z \in (y+1)..x : Kept(Unmarked, h, z)) =>
                 r[x] = r[y] + (x - y)
        BY <1>1 DEF Ranks
      <3>2. \A z \in (q+1)..(q+k) : Kept(Unmarked, h, z)
        BY <2>4
      <3>3. r[q + k] = r[q] + ((q + k) - q)
        BY <2>5, <2>8, <3>1, <3>2
      <3> QED BY <2>5, <3>3
    <2> QED BY <1>1, <2>3, <2>6, <2>7, <2>9 DEF Ranks
  <1>6. ASSUME NEW i \in DOMAIN s, NEW k \in DOMAIN s[i].calls
        PROVE  /\ i + k \in DOMAIN s /\ s[i + k].role = "tool"
               /\ s[i + k].call = s[i].calls[k]
    <2>1. PICK q \in 1..Len(h) : Kept(Unmarked, h, q) /\ r[q] = i
      BY <1>1, <1>2 DEF Ranks
    <2>2. s[i] = h[q]
      BY <1>1, <2>1 DEF Ranks
    <2>3. k \in DOMAIN h[q].calls
      BY <2>2
    <2>4. h[q + k].role = "tool" /\ h[q + k].call = h[q].calls[k]
      BY <1>2, <2>3 DEF Paired
    <2>5. /\ r[q + k] = r[q] + k /\ r[q + k] \in 1..Len(s)
          /\ s[r[q + k]] = h[q + k]
      BY <1>5, <2>3
    <2> QED BY <1>2, <2>1, <2>2, <2>4, <2>5
  <1>7. ASSUME NEW j \in DOMAIN s, s[j].role = "tool"
        PROVE  \E i \in 1..(j-1) : j - i \in DOMAIN s[i].calls
    <2>1. PICK p \in 1..Len(h) : Kept(Unmarked, h, p) /\ r[p] = j
      BY <1>1, <1>2 DEF Ranks
    <2>2. s[j] = h[p]
      BY <1>1, <2>1 DEF Ranks
    <2>3. PICK q \in 1..(p-1) : p - q \in DOMAIN h[q].calls
      BY <1>2, <1>7, <2>2 DEF Paired
    <2>4. q \in 1..Len(h) /\ q + (p - q) = p
      BY <1>2
    <2>5. /\ p - q \in Nat /\ p - q >= 1
          /\ r[q] \in 1..Len(s) /\ s[r[q]] = h[q] /\ r[p] = r[q] + (p - q)
      BY <1>5, <2>3, <2>4
    <2>6. r[q] \in 1..(j-1) /\ j - r[q] = p - q
      BY <1>2, <2>1, <2>5
    <2> QED BY <2>3, <2>5, <2>6
  <1>8. Paired(s)
    BY <1>6, <1>7 DEF Paired
  <1> QED BY <1>8 DEF s

\* A message without requests and results may follow.
LEMMA PairedAppend ==
    ASSUME NEW h \in Seq(Msg), NEW m \in Msg, Paired(h),
           m.role # "tool", m.calls = <<>>
    PROVE  Paired(Append(h, m))
  <1> DEFINE g == Append(h, m)
  <1>1. /\ Len(h) \in Nat /\ DOMAIN h = 1..Len(h)
        /\ DOMAIN g = 1..(Len(h) + 1) /\ g[Len(h) + 1] = m
        /\ \A i \in 1..Len(h) : g[i] = h[i]
    OBVIOUS
  <1>2. \A i \in 1..(Len(h) + 1) : i \in 1..Len(h) \/ i = Len(h) + 1
    BY <1>1
  <1> HIDE DEF g
  <1>3. ASSUME NEW i \in DOMAIN g, NEW k \in DOMAIN g[i].calls
        PROVE  /\ i + k \in DOMAIN g /\ g[i + k].role = "tool"
               /\ g[i + k].call = g[i].calls[k]
    <2>1. i \in 1..Len(h) /\ g[i] = h[i]
      <3>1. DOMAIN m.calls = {}
        OBVIOUS
      <3> QED BY <1>1, <1>2, <3>1
    <2>2. /\ i + k \in 1..Len(h) /\ h[i + k].role = "tool"
          /\ h[i + k].call = h[i].calls[k]
      BY <1>1, <2>1 DEF Paired
    <2>3. i + k \in DOMAIN g /\ g[i + k] = h[i + k]
      BY <1>1, <2>2
    <2> QED BY <2>1, <2>2, <2>3
  <1>4. ASSUME NEW j \in DOMAIN g, g[j].role = "tool"
        PROVE  \E i \in 1..(j-1) : j - i \in DOMAIN g[i].calls
    <2>1. j \in 1..Len(h) /\ h[j].role = "tool"
      BY <1>1, <1>2, <1>4
    <2>2. PICK i \in 1..(j-1) : j - i \in DOMAIN h[i].calls
      BY <1>1, <2>1 DEF Paired
    <2>3. g[i] = h[i]
      BY <1>1, <2>1, <2>2
    <2> QED BY <2>2, <2>3
  <1>5. Paired(g)
    BY <1>3, <1>4 DEF Paired
  <1> QED BY <1>5 DEF g

\* The results of a request follow it, in its order and complete.
LEMMA PairedResults ==
    ASSUME NEW h \in Seq(Msg), NEW a \in Msg, Paired(h),
           a.role = "assistant", NEW rs \in Seq(Msg),
           Len(rs) = Len(a.calls),
           \A k \in 1..Len(rs) : rs[k].role = "tool" /\ rs[k].call = a.calls[k]
    PROVE  Paired(Append(h, a) \o rs)
  <1> DEFINE e == Append(h, a)
             g == e \o rs
  <1>1. /\ e \in Seq(Msg) /\ Len(e) = Len(h) + 1 /\ e[Len(h) + 1] = a
        /\ \A i \in 1..Len(h) : e[i] = h[i]
        /\ Len(h) \in Nat /\ DOMAIN h = 1..Len(h)
        /\ Len(rs) \in Nat
    OBVIOUS
  <1> HIDE DEF e
  <1>a. PICK l \in Nat : l = Len(h)
    BY <1>1
  <1>b. PICK w \in Nat : w = Len(rs)
    BY <1>1
  <1>c. PICK n \in Nat : n = l + 1
    OBVIOUS
  <1>5. l = Len(h) /\ n = l + 1 /\ w = Len(rs) /\ n = Len(h) + 1
    BY <1>a, <1>b, <1>c
  <1>2. /\ DOMAIN g = 1..(n + w) /\ g[n] = a
        /\ \A i \in 1..Len(h) : g[i] = h[i]
        /\ \A k \in 1..Len(rs) : g[n + k] = rs[k]
    <2>1. /\ g \in Seq(Msg) /\ Len(g) = n + w
          /\ \A i \in 1..(n + w) :
               g[i] = IF i <= n THEN e[i] ELSE rs[i - n]
      <3>1. Len(e) = n /\ Len(rs) = w
        BY <1>1, <1>5
      <3>0. e \in Seq(Msg)
        BY <1>1
      <3>2. /\ e \o rs \in Seq(Msg) /\ Len(e \o rs) = Len(e) + Len(rs)
            /\ \A i \in 1..(Len(e) + Len(rs)) :
                 (e \o rs)[i] = IF i <= Len(e) THEN e[i] ELSE rs[i - Len(e)]
        <4>1. e \o rs \in Seq(Msg)
          BY <3>0
        <4>3. Len(e \o rs) = Len(e) + Len(rs)
          BY <3>0, ConcatProperties
        <4>2. ASSUME NEW i \in 1..(Len(e) + Len(rs))
              PROVE  (e \o rs)[i] = IF i <= Len(e) THEN e[i] ELSE rs[i - Len(e)]
          BY <3>0, ConcatProperties
        <4> QED BY <4>1, <4>2, <4>3
      <3>3. /\ g \in Seq(Msg) /\ Len(g) = Len(e) + Len(rs)
            /\ \A i \in 1..(Len(e) + Len(rs)) :
                 g[i] = IF i <= Len(e) THEN e[i] ELSE rs[i - Len(e)]
        BY <3>2
      <3> HIDE DEF g
      <3> QED BY <3>1, <3>3
    <2> HIDE DEF g
    <2>2. DOMAIN g = 1..(n + w)
      BY <2>1
    <2>0. n = l + 1
      BY <1>5
    <2>3. n \in 1..(n + w) /\ n <= n
      BY <2>0
    <2>4. \A i \in 1..l : i \in 1..(n + w) /\ i <= n
      BY <2>0
    <2>5. \A k \in 1..w :
             n + k \in 1..(n + w) /\ ~(n + k <= n) /\ (n + k) - n = k
      OBVIOUS
    <2>6. g[n] = a
      BY <1>1, <1>5, <2>1, <2>3
    <2>7. \A i \in 1..Len(h) : g[i] = h[i]
      BY <1>1, <1>5, <2>1, <2>4
    <2>8. ASSUME NEW k \in 1..w PROVE g[n + k] = rs[k]
      <3>1. n + k \in 1..(n + w) /\ ~(n + k <= n) /\ (n + k) - n = k
        BY <2>5
      <3>2. g[n + k] = IF n + k <= n THEN e[n + k] ELSE rs[(n + k) - n]
        BY <2>1, <3>1
      <3> QED BY <3>1, <3>2
    <2> QED BY <1>b, <2>2, <2>6, <2>7, <2>8
  <1>3. \A i \in 1..(n + w) :
           i \in 1..Len(h) \/ i = n \/ (i - n \in 1..Len(rs) /\ i = n + (i - n))
    <2>1. \A i \in 1..(n + w) :
             i \in 1..(n - 1) \/ i = n \/ (i - n \in 1..w /\ i = n + (i - n))
      OBVIOUS
    <2>2. n - 1 = Len(h) /\ w = Len(rs)
      BY <1>5
    <2> QED BY <2>1, <2>2
  <1>4. DOMAIN a.calls = 1..Len(rs)
    BY MsgFields
  <1> HIDE DEF g
  <1>6. \A i \in DOMAIN g : g[i].calls # <<>> => i \in 1..n
    <2> SUFFICES ASSUME NEW i \in DOMAIN g, g[i].calls # <<>>, i \notin 1..n
                 PROVE  FALSE
      OBVIOUS
    <2>1. i - n \in 1..Len(rs) /\ g[i] = rs[i - n]
      <3>1. i \notin 1..Len(h) /\ i # n
        BY <1>1, <1>5
      <3>2. i - n \in 1..Len(rs) /\ i = n + (i - n)
        BY <1>2, <1>3, <3>1
      <3> QED BY <1>2, <3>2
    <2>2. rs[i - n] \in Msg /\ rs[i - n].role = "tool"
      BY <2>1
    <2> QED BY <2>1, <2>2, MsgFields
  <1>7. ASSUME NEW i \in DOMAIN g, NEW k \in DOMAIN g[i].calls
        PROVE  /\ i + k \in DOMAIN g /\ g[i + k].role = "tool"
               /\ g[i + k].call = g[i].calls[k]
    <2>1. i \in 1..Len(h) \/ i = n
      <3>1. g[i].calls # <<>>
        OBVIOUS
      <3> QED BY <1>1, <1>5, <1>6, <3>1
    <2>2. CASE i \in 1..Len(h)
      <3>1. k \in DOMAIN h[i].calls
        BY <1>2, <2>2
      <3>2. /\ i + k \in 1..Len(h) /\ h[i + k].role = "tool"
            /\ h[i + k].call = h[i].calls[k]
        BY <1>1, <2>2, <3>1 DEF Paired
      <3>3. i + k \in DOMAIN g
        <4>1. i + k \in 1..(n + w)
          <5>1. i + k \in 1..(n - 1) /\ \A x \in 1..(n - 1) : x \in 1..(n + w)
            <6>1. i + k \in 1..l /\ l = n - 1
              BY <1>5, <3>2
            <6> QED BY <6>1
          <5> QED BY <5>1
        <4> QED BY <1>2, <4>1
      <3> QED BY <1>2, <2>2, <3>2, <3>3
    <2>3. CASE i = n
      <3>1. k \in 1..Len(rs)
        BY <1>2, <1>4, <2>3
      <3>2. n + k \in DOMAIN g
        <4>1. k \in 1..w
          BY <1>b, <3>1
        <4>2. n + k \in 1..(n + w)
          BY <4>1
        <4> QED BY <1>2, <4>2
      <3> QED BY <1>2, <2>3, <3>1, <3>2
    <2> QED BY <2>1, <2>2, <2>3
  <1>8. ASSUME NEW j \in DOMAIN g, g[j].role = "tool"
        PROVE  \E i \in 1..(j-1) : j - i \in DOMAIN g[i].calls
    <2>1. CASE j \in 1..Len(h)
      <3>1. PICK i \in 1..(j-1) : j - i \in DOMAIN h[i].calls
        BY <1>1, <1>2, <1>8, <2>1 DEF Paired
      <3>2. i \in 1..Len(h)
        BY <1>1, <2>1
      <3> QED BY <1>2, <3>1, <3>2
    <2>2. CASE j - n \in 1..Len(rs) /\ j = n + (j - n)
      <3>1. j - n \in DOMAIN g[n].calls
        BY <1>2, <1>4, <2>2
      <3>2. n \in 1..(j-1)
        BY <1>1, <1>5, <2>2
      <3> QED BY <3>1, <3>2
    <2>3. j # n
      BY <1>2, <1>8
    <2> QED BY <1>2, <1>3, <2>1, <2>2, <2>3
  <1>9. Paired(g)
    BY <1>7, <1>8 DEF Paired
  <1> QED BY <1>9 DEF g, e

-----------------------------------------------------------------------------
(* What is read of a history                                               *)

\* FinalAnswers and the calls that turn t requested, as views.
FinalOf ==
    [m \in Msg |-> IF m.role = "assistant" /\ m.calls = <<>>
                   THEN <<m.turn>> ELSE <<>>]

CallsIn(t) ==
    [m \in Msg |-> IF m.role = "assistant" /\ m.turn = t
                   THEN m.calls ELSE <<>>]

CallsOf(h, t) == View(CallsIn(t), h)

LEMMA ViewsOfMessages ==
    /\ FinalOf \in [Msg -> Seq(0..MaxTurns)]
    /\ \A t : CallsIn(t) \in [Msg -> Seq(CallId)]
    /\ \A h \in Seq(Msg) : FinalAnswers(h) = View(FinalOf, h)
  <1>1. FinalOf \in [Msg -> Seq(0..MaxTurns)]
    <2>1. \A m \in Msg : <<m.turn>> \in Seq(0..MaxTurns)
      BY MsgFields
    <2>2. <<>> \in Seq(0..MaxTurns)
      OBVIOUS
    <2> QED BY <2>1, <2>2 DEF FinalOf
  <1>2. ASSUME NEW t PROVE CallsIn(t) \in [Msg -> Seq(CallId)]
    <2>1. \A m \in Msg : m.calls \in Seq(CallId)
      BY MsgFields
    <2>2. <<>> \in Seq(CallId)
      OBVIOUS
    <2> QED BY <2>1, <2>2 DEF CallsIn
  <1>3. ASSUME NEW h \in Seq(Msg) PROVE FinalAnswers(h) = View(FinalOf, h)
    <2>1. \A i \in DOMAIN h : h[i] \in Msg
      OBVIOUS
    <2> QED BY <2>1 DEF FinalAnswers, View, FinalOf
  <1> QED BY <1>1, <1>2, <1>3

LEMMA FinalAnswersAppend ==
    ASSUME NEW h \in Seq(Msg), NEW m \in Msg
    PROVE  /\ FinalAnswers(h) \in Seq(0..MaxTurns)
           /\ m.role = "assistant" /\ m.calls = <<>> =>
                FinalAnswers(Append(h, m)) = Append(FinalAnswers(h), m.turn)
           /\ ~(m.role = "assistant" /\ m.calls = <<>>) =>
                FinalAnswers(Append(h, m)) = FinalAnswers(h)
  <1>0. Append(h, m) \in Seq(Msg)
    OBVIOUS
  <1>1. /\ FinalAnswers(h) = View(FinalOf, h)
        /\ FinalAnswers(Append(h, m)) = View(FinalOf, Append(h, m))
    BY <1>0, ViewsOfMessages
  <1>2. View(FinalOf, h) \in Seq(0..MaxTurns)
    BY ViewsOfMessages, ViewType
  <1>3. View(FinalOf, Append(h, m)) = View(FinalOf, h) \o FinalOf[m]
    BY ViewsOfMessages, ViewAppend
  <1>4. m.turn \in 0..MaxTurns
    BY MsgFields
  <1>5. /\ View(FinalOf, h) \o <<>> = View(FinalOf, h)
        /\ View(FinalOf, h) \o <<m.turn>> = Append(View(FinalOf, h), m.turn)
    BY <1>2, <1>4
  <1>6. FinalOf[m] = IF m.role = "assistant" /\ m.calls = <<>>
                     THEN <<m.turn>> ELSE <<>>
    BY DEF FinalOf
  <1> QED BY <1>1, <1>2, <1>3, <1>5, <1>6

LEMMA CallsOfAppend ==
    ASSUME NEW h \in Seq(Msg), NEW m \in Msg, NEW t
    PROVE  /\ CallsOf(h, t) \in Seq(CallId)
           /\ m.role = "assistant" /\ m.turn = t =>
                CallsOf(Append(h, m), t) = CallsOf(h, t) \o m.calls
           /\ m.role # "assistant" \/ m.turn # t \/ m.calls = <<>> =>
                CallsOf(Append(h, m), t) = CallsOf(h, t)
  <1>1. View(CallsIn(t), h) \in Seq(CallId)
    BY ViewsOfMessages, ViewType
  <1>2. View(CallsIn(t), Append(h, m)) = View(CallsIn(t), h) \o CallsIn(t)[m]
    <2>1. CallsIn(t) \in [Msg -> Seq(CallId)]
      BY ViewsOfMessages
    <2> QED BY <2>1, ViewAppend
  <1>3. View(CallsIn(t), h) \o <<>> = View(CallsIn(t), h)
    BY <1>1
  <1>4. CallsIn(t)[m] = IF m.role = "assistant" /\ m.turn = t
                        THEN m.calls ELSE <<>>
    BY DEF CallsIn
  <1> QED BY <1>1, <1>2, <1>3, <1>4 DEF CallsOf

\* Dropping context blocks and adding tool results changes neither.
LEMMA StripKeepsViews ==
    ASSUME NEW h \in Seq(Msg)
    PROVE  /\ FinalAnswers(StripContext(h)) = FinalAnswers(h)
           /\ \A t : CallsOf(StripContext(h), t) = CallsOf(h, t)
  <1>1. /\ Filters(Unmarked, Msg) /\ StripContext(h) = View(Unmarked, h)
        /\ StripContext(h) \in Seq(Msg)
    BY StripIsFilter
  <1>2. \A m \in Msg : Unmarked[m] = <<>> => FinalOf[m] = <<>>
    <2> TAKE m \in Msg
    <2>1. <<m>> # <<>>
      OBVIOUS
    <2> QED BY <2>1 DEF Unmarked, FinalOf
  <1>3. View(FinalOf, View(Unmarked, h)) = View(FinalOf, h)
    <2>1. FinalOf \in [Msg -> Seq(0..MaxTurns)]
      BY ViewsOfMessages
    <2>2. Filters(Unmarked, Msg)
      BY <1>1
    <2> QED BY <1>2, <2>1, <2>2, ViewThrough
  <1>4. ASSUME NEW t
        PROVE  View(CallsIn(t), View(Unmarked, h)) = View(CallsIn(t), h)
    <2>1. CallsIn(t) \in [Msg -> Seq(CallId)]
      BY ViewsOfMessages
    <2>2. Filters(Unmarked, Msg)
      BY <1>1
    <2>3. \A m \in Msg : Unmarked[m] = <<>> => CallsIn(t)[m] = <<>>
      <3> TAKE m \in Msg
      <3>1. <<m>> # <<>>
        OBVIOUS
      <3> QED BY <3>1 DEF Unmarked, CallsIn
    <2> HIDE DEF CallsIn
    <2> QED BY <2>1, <2>2, <2>3, ViewThrough
  <1> QED BY <1>1, <1>3, <1>4, ViewsOfMessages DEF CallsOf

LEMMA ResultsKeepViews ==
    ASSUME NEW h \in Seq(Msg), NEW rs \in Seq(Msg), NEW t,
           \A k \in 1..Len(rs) : rs[k].role = "tool"
    PROVE  /\ FinalAnswers(h \o rs) = FinalAnswers(h)
           /\ CallsOf(h \o rs, t) = CallsOf(h, t)
  <1>2. \A k \in 1..Len(rs) : FinalOf[rs[k]] = <<>> /\ CallsIn(t)[rs[k]] = <<>>
    BY DEF FinalOf, CallsIn
  <1>3. View(FinalOf, h \o rs) = View(FinalOf, h)
    <2>1. FinalOf \in [Msg -> Seq(0..MaxTurns)]
      BY ViewsOfMessages
    <2> QED BY <1>2, <2>1, ViewOfMore
  <1>4. View(CallsIn(t), h \o rs) = View(CallsIn(t), h)
    <2>1. CallsIn(t) \in [Msg -> Seq(CallId)]
      BY ViewsOfMessages
    <2>2. \A k \in 1..Len(rs) : CallsIn(t)[rs[k]] = <<>>
      BY <1>2
    <2> HIDE DEF CallsIn
    <2> QED BY <2>1, <2>2, ViewOfMore
  <1>5. h \o rs \in Seq(Msg)
    OBVIOUS
  <1> QED BY <1>3, <1>4, <1>5, ViewsOfMessages DEF CallsOf

-----------------------------------------------------------------------------
(* Questions and their answers                                             *)

Plain == Turns \ tagged

\* A marked question is a context block or the text of a tagged turn.
MarksAreBlocks(h) ==
    \A i \in DOMAIN h :
        h[i].role = "user" /\ h[i].marked => h[i].turn \notin Plain

\* Every answer of a plain turn that was not compacted has its question
\* before it.
WithQuestions(h) == Questioned(h, Plain) /\ MarksAreBlocks(h)

Asks(h, t) == \E i \in DOMAIN h : h[i].role = "user" /\ h[i].turn = t

LEMMA StripKeepsQuestions ==
    ASSUME NEW h \in Seq(Msg), WithQuestions(h)
    PROVE  WithQuestions(StripContext(h))
  <1> DEFINE s == StripContext(h)
  <1>1. PICK r : Ranks(Unmarked, h, s, r)
    BY StripIsFilter
  <1>2. /\ s \in Seq(Msg) /\ Len(h) \in Nat /\ Len(s) \in Nat
        /\ DOMAIN h = 1..Len(h) /\ DOMAIN s = 1..Len(s)
    BY StripIsFilter
  <1>3. \A p \in 1..Len(h) :
           Kept(Unmarked, h, p) <=> ~(h[p].role = "user" /\ h[p].marked)
    BY StripIsFilter
  <1> HIDE DEF s
  <1>4. ASSUME NEW j \in DOMAIN s
        PROVE  \E p \in 1..Len(h) : /\ Kept(Unmarked, h, p) /\ r[p] = j
                                    /\ s[j] = h[p]
    BY <1>1, <1>2 DEF Ranks
  <1>5. MarksAreBlocks(s)
    BY <1>2, <1>4 DEF MarksAreBlocks, WithQuestions
  <1>6. ASSUME NEW j \in DOMAIN s, s[j].role = "assistant", s[j].turn \in Plain,
               ~(j = 2 /\ s[1] = MemoryDump)
        PROVE  \E i \in 1..(j-1) : s[i].role = "user" /\ s[i].turn = s[j].turn
    <2>1. PICK p \in 1..Len(h) : /\ Kept(Unmarked, h, p) /\ r[p] = j
                                 /\ s[j] = h[p]
      BY <1>4
    <2>2. ~(p = 2 /\ h[1] = MemoryDump)
      <3> SUFFICES ASSUME p = 2, h[1] = MemoryDump PROVE FALSE
        OBVIOUS
      <3>1. 1 \in 1..Len(h) /\ h[1].role = "assistant"
        BY <1>2 DEF MemoryDump, Message
      <3>2. Kept(Unmarked, h, 1) /\ Kept(Unmarked, h, 2)
        BY <1>3, <2>1, <3>1
      <3>3. /\ 0 \in 0..Len(h) /\ 1 \in 0..Len(h) /\ 2 \in 0..Len(h)
            /\ \A x \in (0+1)..1 : x = 1
            /\ \A x \in (1+1)..2 : x = 2
        BY <1>2, <2>1
      <3>4. r \in [0..Len(h) -> Nat] /\ r[0] = 0
            /\ \A x, y \in 0..Len(h) :
                 y < x /\ (\A z \in (y+1)..x : Kept(Unmarked, h, z)) =>
                   r[x] = r[y] + (x - y)
        BY <1>1 DEF Ranks
      <3>5. r[1] = r[0] + (1 - 0)
        BY <3>2, <3>3, <3>4
      <3>6. r[2] = r[1] + (2 - 1)
        BY <3>2, <3>3, <3>4
      <3>7. r[1] = 1 /\ r[2] = 2
        BY <3>4, <3>5, <3>6
      <3>8. s[r[1]] = h[1]
        BY <1>1, <3>1, <3>2 DEF Ranks
      <3> QED BY <1>6, <2>1, <3>7, <3>8
    <2>3. PICK q \in 1..(p-1) : h[q].role = "user" /\ h[q].turn = h[p].turn
      BY <1>2, <1>6, <2>1, <2>2 DEF WithQuestions, Questioned
    <2>4. q \in 1..Len(h) /\ q \in 0..Len(h) /\ p \in 0..Len(h) /\ q < p
      BY <1>2
    <2>5. Kept(Unmarked, h, q)
      BY <1>2, <1>3, <1>6, <2>1, <2>3, <2>4 DEF WithQuestions, MarksAreBlocks
    <2>6. r[q] \in 1..Len(s) /\ s[r[q]] = h[q]
      BY <1>1, <2>4, <2>5 DEF Ranks
    <2>7. r[q] < r[p]
      BY <1>1, <2>1, <2>4 DEF Ranks
    <2>8. r[q] \in 1..(j-1)
      BY <1>2, <2>1, <2>6, <2>7
    <2> QED BY <2>1, <2>3, <2>6, <2>8
  <1>7. WithQuestions(s)
    BY <1>5, <1>6 DEF WithQuestions, Questioned
  <1> QED BY <1>7 DEF s

LEMMA AppendKeepsQuestions ==
    ASSUME NEW h \in Seq(Msg), NEW m \in Msg, WithQuestions(h),
           m.role = "assistant" /\ m.turn \in Plain => Asks(h, m.turn),
           m.role = "user" /\ m.marked => m.turn \notin Plain
    PROVE  WithQuestions(Append(h, m))
  <1> DEFINE g == Append(h, m)
  <1>1. /\ Len(h) \in Nat /\ DOMAIN h = 1..Len(h)
        /\ DOMAIN g = 1..(Len(h) + 1) /\ g[Len(h) + 1] = m
        /\ \A i \in 1..Len(h) : g[i] = h[i]
    OBVIOUS
  <1>2. \A i \in 1..(Len(h) + 1) : i \in 1..Len(h) \/ i = Len(h) + 1
    BY <1>1
  <1> HIDE DEF g
  <1>3. MarksAreBlocks(g)
    BY <1>1, <1>2 DEF MarksAreBlocks, WithQuestions
  <1>4. ASSUME NEW j \in DOMAIN g, g[j].role = "assistant", g[j].turn \in Plain,
               ~(j = 2 /\ g[1] = MemoryDump)
        PROVE  \E i \in 1..(j-1) : g[i].role = "user" /\ g[i].turn = g[j].turn
    <2>1. CASE j \in 1..Len(h)
      <3>1. ~(j = 2 /\ h[1] = MemoryDump)
        <4>1. j = 2 => 1 \in 1..Len(h)
          BY <1>1, <2>1
        <4> QED BY <1>1, <1>4, <4>1
      <3>2. PICK i \in 1..(j-1) : h[i].role = "user" /\ h[i].turn = h[j].turn
        BY <1>1, <1>4, <2>1, <3>1 DEF WithQuestions, Questioned
      <3>3. i \in 1..Len(h)
        BY <1>1, <2>1
      <3> QED BY <1>1, <2>1, <3>2, <3>3
    <2>2. CASE j = Len(h) + 1
      <3>1. g[j] = m
        BY <1>1, <2>2
      <3>2. PICK i \in 1..Len(h) : h[i].role = "user" /\ h[i].turn = m.turn
        BY <1>1, <1>4, <3>1 DEF Asks
      <3>3. i \in 1..(j-1)
        BY <1>1, <2>2
      <3> QED BY <1>1, <3>1, <3>2, <3>3
    <2> QED BY <1>1, <1>2, <2>1, <2>2
  <1>5. WithQuestions(g)
    BY <1>3, <1>4 DEF WithQuestions, Questioned
  <1> QED BY <1>5 DEF g

LEMMA AppendKeepsAsks ==
    ASSUME NEW h \in Seq(Msg), NEW m \in Msg, NEW t
    PROVE  Asks(h, t) \/ (m.role = "user" /\ m.turn = t) =>
             Asks(Append(h, m), t)
  <1>1. /\ Len(h) \in Nat /\ DOMAIN h = 1..Len(h)
        /\ DOMAIN Append(h, m) = 1..(Len(h) + 1)
        /\ Append(h, m)[Len(h) + 1] = m
        /\ \A i \in 1..Len(h) : Append(h, m)[i] = h[i]
    OBVIOUS
  <1>2. Len(h) + 1 \in DOMAIN Append(h, m)
        /\ \A i \in 1..Len(h) : i \in DOMAIN Append(h, m)
    BY <1>1
  <1> QED BY <1>1, <1>2 DEF Asks

\* Tool results are no answers.
LEMMA ResultsKeepQuestions ==
    ASSUME NEW h \in Seq(Msg), NEW rs \in Seq(Msg), NEW t,
           \A k \in 1..Len(rs) : rs[k].role = "tool"
    PROVE  /\ WithQuestions(h) => WithQuestions(h \o rs)
           /\ Asks(h, t) => Asks(h \o rs, t)
  <1> DEFINE Keep(l) == /\ WithQuestions(h) => WithQuestions(h \o l)
                        /\ Asks(h, t) => Asks(h \o l, t)
             T == {l \in Seq(Msg) :
                     (\A k \in 1..Len(l) : l[k].role = "tool") => Keep(l)}
  <1>1. <<>> \in T
    <2>1. <<>> \in Seq(Msg) /\ h \o <<>> = h
      OBVIOUS
    <2> QED BY <2>1
  <1>2. ASSUME NEW l \in Seq(Msg), NEW m \in Msg, l \in T
        PROVE  Append(l, m) \in T
    <2>0. Append(l, m) \in Seq(Msg) /\ h \o l \in Seq(Msg)
          /\ h \o Append(l, m) = Append(h \o l, m)
      OBVIOUS
    <2> SUFFICES ASSUME \A k \in 1..Len(Append(l, m)) :
                            Append(l, m)[k].role = "tool"
                 PROVE  Keep(Append(l, m))
      BY <2>0
    <2>1. /\ Len(Append(l, m)) = Len(l) + 1 /\ Len(l) \in Nat
          /\ Append(l, m)[Len(l) + 1] = m
          /\ \A i \in 1..Len(l) : Append(l, m)[i] = l[i]
      OBVIOUS
    <2>2. m.role = "tool"
      BY <2>1
    <2>3. \A i \in 1..Len(l) : l[i].role = "tool"
      BY <2>1
    <2>4. Keep(l)
      BY <1>2, <2>3
    <2>5. WithQuestions(h) => WithQuestions(Append(h \o l, m))
      BY <2>0, <2>2, <2>4, AppendKeepsQuestions
    <2>6. Asks(h, t) => Asks(Append(h \o l, m), t)
      BY <2>0, <2>4, AppendKeepsAsks
    <2> QED BY <2>0, <2>5, <2>6
  <1> HIDE DEF T
  <1>3. rs \in T
    BY <1>1, <1>2, SeqInduction
  <1> QED BY <1>3 DEF T

-----------------------------------------------------------------------------
(* The edges followed                                                      *)

Nodes == {"classify", "mcp", "skills", "enrich", "llm", "toolloop", "summarize"}

Frame == [node : Nodes, history : Seq(Msg)]

To(node, h) == [node |-> node, history |-> h]

\* The frames that the edges queue after node produced h.
Queues(node, h) ==
    [e \in Nodes \X Nodes |->
        IF e[1] = node /\ Follows(e, h) THEN <<To(e[2], h)>> ELSE <<>>]

LEMMA QueuesType ==
    ASSUME NEW node \in Nodes, NEW h \in Seq(Msg)
    PROVE  Queues(node, h) \in [Nodes \X Nodes -> Seq(Frame)]
  <1>1. \A e \in Nodes \X Nodes : To(e[2], h) \in Frame
    BY DEF To, Frame
  <1>2. \A e \in Nodes \X Nodes :
           <<To(e[2], h)>> \in Seq(Frame) /\ <<>> \in Seq(Frame)
    BY <1>1
  <1> HIDE DEF Frame, Nodes
  <1> QED BY <1>2 DEF Queues

\* One frame follows each node, none the last.
LEMMA OneFrameFollows ==
    ASSUME NEW h \in Seq(Msg)
    PROVE  /\ NextFrames("classify", h) = <<To("mcp", h)>>
           /\ NextFrames("mcp", h) = <<To("skills", h)>>
           /\ NextFrames("skills", h) = <<To("enrich", h)>>
           /\ NextFrames("enrich", h) = <<To("llm", h)>>
           /\ HasPendingToolCalls(h) =>
                NextFrames("llm", h) = <<To("toolloop", h)>>
           /\ ~HasPendingToolCalls(h) =>
                NextFrames("llm", h) = <<To("summarize", h)>>
           /\ NextFrames("toolloop", h) = <<To("llm", h)>>
           /\ NextFrames("summarize", h) = <<>>
  <1> DEFINE G(node, i) == Queues(node, h)[Edges[i]]
  <1>1. Edges \in Seq(Nodes \X Nodes) /\ Len(Edges) = 7
    BY DEF Edges, Nodes
  <1>2. /\ "classify" \in Nodes /\ "mcp" \in Nodes /\ "skills" \in Nodes
        /\ "enrich" \in Nodes /\ "llm" \in Nodes /\ "toolloop" \in Nodes
        /\ "summarize" \in Nodes
    BY DEF Nodes
  <1>3. ASSUME NEW node \in Nodes
        PROVE  /\ Queues(node, h) \in [Nodes \X Nodes -> Seq(Frame)]
               /\ NextFrames(node, h) = View(Queues(node, h), Edges)
    <2>1. \A i \in DOMAIN Edges : Edges[i] \in Nodes \X Nodes
      <3> DEFINE N == Nodes \X Nodes
      <3>1. Edges \in Seq(N) /\ DOMAIN Edges = 1..Len(Edges)
        BY <1>1
      <3> HIDE DEF N
      <3>2. \A i \in DOMAIN Edges : Edges[i] \in N
        BY <3>1
      <3> QED BY <3>2 DEF N
    <2>2. \A e \in Nodes \X Nodes : Queues(node, h)[e] =
              IF e[1] = node /\ Follows(e, h) THEN <<To(e[2], h)>> ELSE <<>>
      BY DEF Queues
    <2> HIDE DEF Nodes
    <2> QED BY QueuesType, <2>1, <2>2 DEF NextFrames, View, To
  <1>4. ASSUME NEW node \in Nodes
        PROVE  /\ G(node, 1) = IF node = "classify" THEN <<To("mcp", h)>>
                                                    ELSE <<>>
               /\ G(node, 2) = IF node = "mcp" THEN <<To("skills", h)>> ELSE <<>>
               /\ G(node, 3) = IF node = "skills" THEN <<To("enrich", h)>>
                                                  ELSE <<>>
               /\ G(node, 4) = IF node = "enrich" THEN <<To("llm", h)>> ELSE <<>>
               /\ G(node, 5) = IF node = "llm" /\ HasPendingToolCalls(h)
                                 THEN <<To("toolloop", h)>> ELSE <<>>
               /\ G(node, 6) = IF node = "llm" /\ ~HasPendingToolCalls(h)
                                 THEN <<To("summarize", h)>> ELSE <<>>
               /\ G(node, 7) = IF node = "toolloop" THEN <<To("llm", h)>>
                                                    ELSE <<>>
    BY <1>2 DEF Queues, Follows, Edges
  <1>5. 1..7 = {1, 2, 3, 4, 5, 6, 7}
    OBVIOUS
  <1> HIDE DEF Nodes, Frame
  <1>6. ASSUME NEW node \in Nodes, NEW p \in 1..7,
               \A i \in 1..7 : i # p => G(node, i) = <<>>
        PROVE  NextFrames(node, h) = G(node, p)
    <2> DEFINE g == Queues(node, h)
               N == Nodes \X Nodes
    <2>1. /\ g \in [N -> Seq(Frame)] /\ Edges \in Seq(N)
          /\ p \in 1..Len(Edges)
      BY <1>1, <1>3
    <2>2. OnlySays(g, Edges, p)
      BY <1>1, <1>6 DEF OnlySays
    <2> HIDE DEF g, N
    <2>3. View(g, Edges) = g[Edges[p]]
      <3>1. ASSUME NEW e \in Seq(N), NEW q \in 1..Len(e), OnlySays(g, e, q)
            PROVE  View(g, e) = g[e[q]]
        <4>1. g \in [N -> Seq(Frame)]
          BY <2>1
        <4> QED BY <3>1, <4>1, ViewOfOne
      <3> QED BY <2>1, <2>2, <3>1
    <2> QED BY <1>3, <2>3 DEF g
  <1>7. ASSUME NEW node \in Nodes, \A i \in 1..7 : G(node, i) = <<>>
        PROVE  NextFrames(node, h) = <<>>
    <2> DEFINE g == Queues(node, h)
               N == Nodes \X Nodes
    <2>1. g \in [N -> Seq(Frame)] /\ Edges \in Seq(N)
      BY <1>1, <1>3
    <2>2. \A i \in 1..Len(Edges) : g[Edges[i]] = <<>>
      BY <1>1, <1>7
    <2> HIDE DEF g, N
    <2>3. View(g, Edges) = <<>>
      BY <2>1, <2>2, ViewOfNothing
    <2> QED BY <1>3, <2>3 DEF g
  <1> HIDE DEF G
  <1>8. NextFrames("classify", h) = <<To("mcp", h)>>
    <2>1. \A i \in 1..7 : i # 1 => G("classify", i) = <<>>
      BY <1>2, <1>4, <1>5
    <2> QED BY <1>2, <1>4, <1>6, <2>1
  <1>9. NextFrames("mcp", h) = <<To("skills", h)>>
    <2>1. \A i \in 1..7 : i # 2 => G("mcp", i) = <<>>
      BY <1>2, <1>4, <1>5
    <2> QED BY <1>2, <1>4, <1>6, <2>1
  <1>10. NextFrames("skills", h) = <<To("enrich", h)>>
    <2>1. \A i \in 1..7 : i # 3 => G("skills", i) = <<>>
      BY <1>2, <1>4, <1>5
    <2> QED BY <1>2, <1>4, <1>6, <2>1
  <1>11. NextFrames("enrich", h) = <<To("llm", h)>>
    <2>1. \A i \in 1..7 : i # 4 => G("enrich", i) = <<>>
      BY <1>2, <1>4, <1>5
    <2> QED BY <1>2, <1>4, <1>6, <2>1
  <1>12. ASSUME HasPendingToolCalls(h)
        PROVE  NextFrames("llm", h) = <<To("toolloop", h)>>
    <2>1. \A i \in 1..7 : i # 5 => G("llm", i) = <<>>
      BY <1>2, <1>4, <1>5, <1>12
    <2> QED BY <1>2, <1>4, <1>6, <2>1, <1>12
  <1>13. ASSUME ~HasPendingToolCalls(h)
         PROVE  NextFrames("llm", h) = <<To("summarize", h)>>
    <2>1. \A i \in 1..7 : i # 6 => G("llm", i) = <<>>
      BY <1>2, <1>4, <1>5, <1>13
    <2> QED BY <1>2, <1>4, <1>6, <2>1, <1>13
  <1>14. NextFrames("toolloop", h) = <<To("llm", h)>>
    <2>1. \A i \in 1..7 : i # 7 => G("toolloop", i) = <<>>
      BY <1>2, <1>4, <1>5
    <2> QED BY <1>2, <1>4, <1>6, <2>1
  <1>15. NextFrames("summarize", h) = <<>>
    <2>1. \A i \in 1..7 : G("summarize", i) = <<>>
      BY <1>2, <1>4, <1>5
    <2> QED BY <1>2, <1>7, <2>1
  <1> QED BY <1>8, <1>9, <1>10, <1>11, <1>12, <1>13, <1>14, <1>15

-----------------------------------------------------------------------------
(* The invariant of a run                                                  *)

\* What every history of a turn satisfies: requests stand next to their
\* results, later turns have requested nothing, answers have questions.
Sound(h) ==
    /\ h \in Seq(Msg)
    /\ Paired(h)
    /\ \A t \in Turns : t > turn => CallsOf(h, t) = <<>>
    /\ WithQuestions(h)

\* A history the model is asked to continue: it asks this turn's question and
\* has the final answers of the turns before.
Open(h) ==
    /\ Sound(h)
    /\ FinalAnswers(h) = FinalAnswers(history)
    /\ Asks(h, turn)

\* The model continued g with a.
Answered(h, g, a) ==
    /\ Open(g)
    /\ h = Append(g, a)
    /\ a.role = "assistant" /\ a.turn = turn

\* The output of the last node.
Settled(h) ==
    /\ Sound(h)
    /\ FinalAnswers(h) \in {Append(FinalAnswers(history), turn), <<Dump, turn>>}

Preparing == {"classify", "mcp", "skills", "enrich"}

\* What the node of a frame finds, and what has been executed by then: all
\* that the model requested, but for the calls the toolloop still has to run.
Ready(f) ==
    /\ f \in Frame
    /\ f.node \in Preparing => f.history = history /\ ran = <<>>
    /\ f.node = "llm" => Open(f.history) /\ ran = CallsOf(f.history, turn)
    /\ f.node = "toolloop" => \E g \in Seq(Msg), a \in Msg :
         /\ Answered(f.history, g, a) /\ a.calls # <<>>
         /\ Len(results) <= Len(a.calls)
         /\ \A k \in 1..Len(results) : results[k] = ToolResult(turn, a.calls[k])
         /\ ran = CallsOf(g, turn) \o SubSeq(a.calls, 1, Len(results))
    /\ f.node = "summarize" => \E g \in Seq(Msg), a \in Msg :
         /\ Answered(f.history, g, a) /\ a.calls = <<>>
         /\ ran = CallsOf(f.history, turn)

RunTypes ==
    /\ turn \in 0..MaxTurns
    /\ tagged \subseteq 1..turn
    /\ at \in {"idle", "loop", "try", "node"}
    /\ steps \in Nat
    /\ results \in Seq(Msg) /\ lastOut \in Seq(Msg)
    /\ result \in [Turns -> {"none", "answered", "failed", "cancelled"}]

\* A turn that has not ended has no result yet, nor have later ones.
EndsAreAhead ==
    /\ at # "idle" => turn \in Turns /\ result[turn] = "none"
    /\ \A t \in Turns : t > turn => result[t] = "none"

\* The runner holds at most one frame.
OneFrame ==
    /\ at = "idle" => queue = <<>>
    /\ at = "loop" => \/ queue = <<>> /\ Settled(lastOut)
                      \/ \E f \in Frame : queue = <<f>> /\ Ready(f)
    /\ at \in {"try", "node"} => queue = <<>> /\ Ready(running)
    /\ at \in {"idle", "loop", "try"} => results = <<>>

RunInv ==
    /\ RunTypes
    /\ Sound(history)
    /\ at # "idle" => CallsOf(history, turn) = <<>>
    /\ EndsAreAhead
    /\ OneFrame


LEMMA PlainMessage ==
    ASSUME NEW h \in Seq(Msg), NEW m \in Msg, Sound(h),
           m.role # "tool", m.calls = <<>>,
           m.role = "user" /\ m.marked => m.turn \notin Plain,
           m.role = "assistant" /\ m.turn \in Plain => Asks(h, m.turn)
    PROVE  Sound(Append(h, m))
  <1>1. Append(h, m) \in Seq(Msg)
    OBVIOUS
  <1>2. Paired(Append(h, m))
    BY PairedAppend DEF Sound
  <1>3. \A t \in Turns : t > turn => CallsOf(Append(h, m), t) = <<>>
    BY CallsOfAppend DEF Sound
  <1>4. WithQuestions(Append(h, m))
    BY AppendKeepsQuestions DEF Sound
  <1> QED BY <1>1, <1>2, <1>3, <1>4 DEF Sound

LEMMA StripIsSound ==
    ASSUME NEW h \in Seq(Msg), Sound(h)
    PROVE  Sound(StripContext(h))
  <1>1. StripContext(h) \in Seq(Msg)
    BY StripIsFilter
  <1>2. Paired(StripContext(h))
    BY StripPaired DEF Sound
  <1>3. \A t \in Turns : t > turn => CallsOf(StripContext(h), t) = <<>>
    BY StripKeepsViews DEF Sound
  <1>4. WithQuestions(StripContext(h))
    BY StripKeepsQuestions DEF Sound
  <1> QED BY <1>1, <1>2, <1>3, <1>4 DEF Sound

\* enrich asks the question once and has requested nothing.
LEMMA EnrichedIsOpen ==
    ASSUME Sound(history), CallsOf(history, turn) = <<>>, turn \in Turns
    PROVE  /\ Open(Enriched(history))
           /\ CallsOf(Enriched(history), turn) = <<>>
  <1> DEFINE s == StripContext(history)
             q == Question(turn, turn \in tagged)
             b == Append(s, ContextBlock)
             e == Append(b, q)
  <1>1. history \in Seq(Msg)
    BY DEF Sound
  <1>2. s \in Seq(Msg) /\ Sound(s)
    BY <1>1, StripIsFilter, StripIsSound
  <1>3. /\ FinalAnswers(s) = FinalAnswers(history)
        /\ CallsOf(s, turn) = CallsOf(history, turn)
    BY <1>1, StripKeepsViews
  <1>4. ContextBlock \in Msg /\ q \in Msg
    <2>1. <<>> \in Seq(CallId)
      OBVIOUS
    <2>2. turn \in 0..MaxTurns /\ Dump \in 0..MaxTurns
      BY AgentAssumption DEF AgentAssumption, Turns, Dump
    <2>3. ContextBlock \in Msg
      BY <2>1, <2>2 DEF ContextBlock, Message, Msg
    <2>4. q \in Msg
      BY <2>1, <2>2 DEF Question, Message, Msg
    <2> QED BY <2>3, <2>4
  <1>5. /\ ContextBlock.role = "user" /\ ContextBlock.turn = Dump
        /\ ContextBlock.calls = <<>>
        /\ q.role = "user" /\ q.turn = turn /\ q.marked = (turn \in tagged)
        /\ q.calls = <<>>
    BY DEF ContextBlock, Question, Message
  <1>6. Enriched(history) = e
    <2> HIDE DEF s, q
    <2>1. s \o <<ContextBlock, q>> = e
      BY <1>2, <1>4
    <2> QED BY <2>1 DEF Enriched, s, q
  <1> HIDE DEF s, q
  <1>7. b \in Seq(Msg) /\ Sound(b)
    <2>1. Dump \notin Plain
      BY DEF Dump, Plain, Turns
    <2> QED BY <1>2, <1>4, <1>5, <2>1, PlainMessage
  <1>8. /\ FinalAnswers(b) = FinalAnswers(s)
        /\ CallsOf(b, turn) = CallsOf(s, turn)
    BY <1>2, <1>4, <1>5, FinalAnswersAppend, CallsOfAppend
  <1> HIDE DEF b
  <1>9. e \in Seq(Msg) /\ Sound(e)
    <2>1. q.marked => q.turn \notin Plain
      BY <1>5 DEF Plain
    <2> QED BY <1>4, <1>5, <1>7, <2>1, PlainMessage
  <1>10. /\ FinalAnswers(e) = FinalAnswers(b)
         /\ CallsOf(e, turn) = CallsOf(b, turn)
    BY <1>4, <1>5, <1>7, FinalAnswersAppend, CallsOfAppend
  <1>11. Asks(e, turn)
    BY <1>4, <1>5, <1>7, AppendKeepsAsks
  <1> QED BY <1>3, <1>6, <1>8, <1>9, <1>10, <1>11 DEF Open

\* What follows the model's answer goes by its tool calls.
LEMMA LastAnswer ==
    ASSUME NEW g \in Seq(Msg), NEW a \in Msg, a.role = "assistant"
    PROVE  /\ LastToolCalls(Append(g, a)) = a.calls
           /\ HasPendingToolCalls(Append(g, a)) <=> a.calls # <<>>
           /\ Last(Append(g, a)) = a
  <1> DEFINE e == Append(g, a)
             I == {i \in 1..Len(e) : e[i].role = "assistant"}
  <1>1. /\ Len(g) \in Nat /\ Len(e) = Len(g) + 1 /\ e[Len(e)] = a
        /\ e # <<>>
    OBVIOUS
  <1>2. Last(e) = a
    BY <1>1 DEF Last
  <1> HIDE DEF e
  <1>3. /\ Len(e) \in I /\ Len(e) \in Nat /\ Len(e) # 0
        /\ \A i \in I : i \in Nat /\ i <= Len(e)
    BY <1>1
  <1>4. SelectLastInSeq(e, LAMBDA m : m.role = "assistant") = Len(e)
    <2>1. SelectLastInSeq(e, LAMBDA m : m.role = "assistant")
            = IF I # {} THEN Max(I) ELSE 0
      BY DEF SelectLastInSeq
    <2> HIDE DEF I
    <2>2. Max(I) = Len(e)
      BY <1>3 DEF Max
    <2> QED BY <1>3, <2>1, <2>2
  <1>5. LastToolCalls(e) = a.calls
    BY <1>1, <1>3, <1>4 DEF LastToolCalls
  <1>6. HasPendingToolCalls(e) <=> a.calls # <<>>
    BY <1>1, <1>2 DEF HasPendingToolCalls
  <1> QED BY <1>2, <1>5, <1>6 DEF e


\* The toolloop hands back what it was asked for.
LEMMA ResultsAreOpen ==
    ASSUME NEW h, NEW g \in Seq(Msg), NEW a \in Msg, Answered(h, g, a),
           a.calls # <<>>, results \in Seq(Msg), turn \in Turns,
           Len(results) = Len(a.calls),
           \A k \in 1..Len(results) : results[k] = ToolResult(turn, a.calls[k])
    PROVE  /\ Open(h \o results)
           /\ CallsOf(h \o results, turn) = CallsOf(g, turn) \o a.calls
  <1> DEFINE e == Append(g, a)
             r == e \o results
  <1>1. /\ Open(g) /\ h = e /\ a.role = "assistant" /\ a.turn = turn
    BY DEF Answered
  <1>2. Sound(g) /\ Paired(g) /\ FinalAnswers(g) = FinalAnswers(history)
    BY <1>1 DEF Open, Sound
  <1>3. \A k \in 1..Len(results) :
           results[k].role = "tool" /\ results[k].call = a.calls[k]
    <2> TAKE k \in 1..Len(results)
    <2>1. results[k] = ToolResult(turn, a.calls[k])
      OBVIOUS
    <2>2. /\ ToolResult(turn, a.calls[k]).role = "tool"
          /\ ToolResult(turn, a.calls[k]).call = a.calls[k]
      BY DEF ToolResult, Message
    <2> QED BY <2>1, <2>2
  <1>4. e \in Seq(Msg) /\ r \in Seq(Msg)
    OBVIOUS
  <1>5. Paired(r)
    BY <1>1, <1>2, <1>3, PairedResults
  <1>6. /\ FinalAnswers(e) = FinalAnswers(g)
        /\ CallsOf(e, turn) = CallsOf(g, turn) \o a.calls
        /\ \A t \in Turns : t > turn => CallsOf(e, t) = CallsOf(g, t)
    <2>1. FinalAnswers(e) = FinalAnswers(g)
      BY <1>1, FinalAnswersAppend
    <2>2. CallsOf(e, turn) = CallsOf(g, turn) \o a.calls
      BY <1>1, CallsOfAppend
    <2>3. ASSUME NEW t \in Turns, t > turn PROVE CallsOf(e, t) = CallsOf(g, t)
      <3>1. a.turn # t
        BY <1>1, <2>3 DEF Turns
      <3> QED BY <3>1, CallsOfAppend
    <2> QED BY <2>1, <2>2, <2>3
  <1> HIDE DEF e
  <1>7. /\ FinalAnswers(r) = FinalAnswers(e)
        /\ \A t : CallsOf(r, t) = CallsOf(e, t)
    BY <1>3, <1>4, ResultsKeepViews
  <1>8. \A t \in Turns : t > turn => CallsOf(r, t) = <<>>
    BY <1>2, <1>6, <1>7 DEF Sound
  <1>9. WithQuestions(r) /\ Asks(r, turn)
    <2>1. WithQuestions(g) /\ Asks(g, turn)
      BY <1>1, <1>2 DEF Open, Sound
    <2>2. WithQuestions(e) /\ Asks(e, turn)
      BY <1>1, <2>1, AppendKeepsQuestions, AppendKeepsAsks DEF e
    <2> QED BY <1>3, <1>4, <2>2, ResultsKeepQuestions
  <1>10. Open(r)
    BY <1>2, <1>4, <1>5, <1>6, <1>7, <1>8, <1>9 DEF Open, Sound
  <1> QED BY <1>1, <1>6, <1>7, <1>10

\* An answer without tool calls settles the turn, compacted or not.
LEMMA AnswerSettles ==
    ASSUME NEW h, NEW g \in Seq(Msg), NEW a \in Msg, Answered(h, g, a),
           a.calls = <<>>, turn \in Turns
    PROVE  Settled(h) /\ Settled(Compacted(h))
  <1>1. /\ Open(g) /\ h = Append(g, a) /\ a.role = "assistant"
        /\ a.turn = turn
    BY DEF Answered
  <1>2. Sound(g) /\ FinalAnswers(g) = FinalAnswers(history)
        /\ Asks(g, turn)
    BY <1>1 DEF Open
  <1>3. Sound(h)
    BY <1>1, <1>2, PlainMessage
  <1>4. FinalAnswers(h) = Append(FinalAnswers(history), turn)
    BY <1>1, <1>2, FinalAnswersAppend
  <1>5. Settled(h)
    BY <1>3, <1>4 DEF Settled
  <1> DEFINE o == <<>>
             d == Append(o, MemoryDump)
             c == Append(d, a)
  <1>6. Compacted(h) = c
    <2>1. Last(h) = a
      BY <1>1, LastAnswer
    <2> QED BY <2>1 DEF Compacted
  <1>7. MemoryDump \in Msg
    <2>1. <<>> \in Seq(CallId) /\ Dump \in 0..MaxTurns
      BY AgentAssumption DEF AgentAssumption, Dump
    <2> QED BY <2>1 DEF MemoryDump, Message, Msg
  <1>8. /\ MemoryDump.role = "assistant" /\ MemoryDump.calls = <<>>
        /\ MemoryDump.turn = Dump
    BY DEF MemoryDump, Message
  <1>9. o \in Seq(Msg) /\ d \in Seq(Msg) /\ c \in Seq(Msg)
    BY <1>7
  <1>10. Paired(c)
    <2>1. Paired(o)
      BY DEF Paired
    <2> HIDE DEF o
    <2>2. Paired(d)
      BY <1>7, <1>8, <1>9, <2>1, PairedAppend
    <2> HIDE DEF d
    <2> QED BY <1>1, <1>9, <2>2, PairedAppend
  <1>11. FinalAnswers(c) = <<Dump, turn>>
    <2>1. FinalAnswers(o) = <<>>
      <3>1. FinalAnswers(o) = View(FinalOf, o)
        BY <1>9, ViewsOfMessages
      <3> QED BY <3>1, EmptyView
    <2> HIDE DEF o
    <2>2. FinalAnswers(d) = Append(<<>>, Dump)
      BY <1>7, <1>8, <1>9, <2>1, FinalAnswersAppend
    <2> HIDE DEF d
    <2>3. FinalAnswers(c) = Append(Append(<<>>, Dump), turn)
      BY <1>1, <1>9, <2>2, FinalAnswersAppend
    <2>4. Append(<<>>, Dump) = <<Dump>>
      OBVIOUS
    <2>5. <<Dump, turn>> = Append(<<Dump>>, turn)
      BY AgentAssumption DEF AgentAssumption, Dump, Turns
    <2> QED BY <2>3, <2>4, <2>5
  <1>12. ASSUME NEW t \in Turns, t > turn PROVE CallsOf(c, t) = <<>>
    <2>1. CallsOf(o, t) = <<>>
      BY EmptyView DEF CallsOf
    <2> HIDE DEF o
    <2>2. CallsOf(d, t) = CallsOf(o, t)
      BY <1>7, <1>8, <1>9, CallsOfAppend
    <2> HIDE DEF d
    <2>3. CallsOf(c, t) = CallsOf(d, t)
      BY <1>9, CallsOfAppend
    <2> QED BY <2>1, <2>2, <2>3
  <1>13. WithQuestions(c)
    <2>1. /\ DOMAIN c = {1, 2} /\ c[1] = MemoryDump /\ c[2] = a
      OBVIOUS
    <2> HIDE DEF c
    <2>2. Dump \notin Plain
      BY DEF Dump, Plain, Turns
    <2>3. Questioned(c, Plain)
      BY <1>8, <2>1, <2>2 DEF Questioned
    <2>4. MarksAreBlocks(c)
      BY <1>1, <1>8, <2>1 DEF MarksAreBlocks
    <2> QED BY <2>3, <2>4 DEF WithQuestions
  <1>14. Sound(c)
    BY <1>9, <1>10, <1>12, <1>13 DEF Sound
  <1> QED BY <1>5, <1>6, <1>11, <1>14 DEF Settled


-----------------------------------------------------------------------------
(* Every step keeps the invariant                                          *)

LEMMA InitRunInv == Init => RunInv
  <1> SUFFICES ASSUME Init PROVE RunInv
    OBVIOUS
  <1>1. RunTypes
    <2>1. results \in Seq(Msg) /\ lastOut \in Seq(Msg)
      BY DEF Init
    <2>2. result \in [Turns -> {"none", "answered", "failed", "cancelled"}]
      BY DEF Init
    <2>3. turn \in 0..MaxTurns /\ steps \in Nat
      BY AgentAssumption DEF AgentAssumption, Init
    <2>4. tagged \subseteq 1..turn
      BY DEF Init
    <2>5. at \in {"idle", "loop", "try", "node"}
      BY DEF Init
    <2> QED BY <2>1, <2>2, <2>3, <2>4, <2>5 DEF RunTypes
  <1>2. Sound(history)
    <2> DEFINE o == <<>>
    <2>1. o \in Seq(Msg)
      OBVIOUS
    <2>2. Paired(o)
      BY DEF Paired
    <2>3. \A t \in Turns : CallsOf(o, t) = <<>>
      BY EmptyView DEF CallsOf
    <2>4. WithQuestions(o)
      BY DEF WithQuestions, Questioned, MarksAreBlocks
    <2>5. Sound(o)
      BY <2>1, <2>2, <2>3, <2>4 DEF Sound
    <2> QED BY <2>5 DEF Init
  <1>3. EndsAreAhead /\ OneFrame /\ at = "idle"
    BY DEF Init, EndsAreAhead, OneFrame
  <1> QED BY <1>1, <1>2, <1>3 DEF RunInv

LEMMA SoundStays ==
    ASSUME NEW h, Sound(h), turn' = turn, tagged' = tagged
    PROVE  Sound(h)'
  BY DEF Sound, WithQuestions, Questioned, MarksAreBlocks, Plain

LEMMA OpenStays ==
    ASSUME NEW h, Open(h), turn' = turn, tagged' = tagged,
           history' = history
    PROVE  Open(h)'
  <1>1. Sound(h)'
    BY SoundStays DEF Open
  <1>2. Asks(h, turn')
    BY DEF Open
  <1> QED BY <1>1, <1>2 DEF Open

LEMMA ReadyStays ==
    ASSUME NEW f, Ready(f), turn' = turn, tagged' = tagged,
           history' = history, ran' = ran, results' = results
    PROVE  Ready(f)'
  <1>1. f \in Frame
    BY DEF Ready
  <1>2. f.node \in Preparing => f.history = history' /\ ran' = <<>>
    BY DEF Ready
  <1>3. f.node = "llm" =>
          Open(f.history)' /\ ran' = CallsOf(f.history, turn')
    BY OpenStays DEF Ready
  <1>4. ASSUME f.node = "toolloop"
        PROVE  \E g \in Seq(Msg), a \in Msg :
                 /\ Answered(f.history, g, a)' /\ a.calls # <<>>
                 /\ Len(results') <= Len(a.calls)
                 /\ \A k \in 1..Len(results') :
                      results'[k] = ToolResult(turn', a.calls[k])
                 /\ ran' = CallsOf(g, turn') \o SubSeq(a.calls, 1, Len(results'))
    <2>1. PICK g \in Seq(Msg), a \in Msg :
            /\ Answered(f.history, g, a) /\ a.calls # <<>>
            /\ Len(results) <= Len(a.calls)
            /\ \A k \in 1..Len(results) :
                 results[k] = ToolResult(turn, a.calls[k])
            /\ ran = CallsOf(g, turn) \o SubSeq(a.calls, 1, Len(results))
      BY <1>4 DEF Ready
    <2>2. Answered(f.history, g, a)'
      BY <2>1, OpenStays DEF Answered
    <2> QED BY <2>1, <2>2
  <1>5. ASSUME f.node = "summarize"
        PROVE  \E g \in Seq(Msg), a \in Msg :
                 /\ Answered(f.history, g, a)' /\ a.calls = <<>>
                 /\ ran' = CallsOf(f.history, turn')
    <2>1. PICK g \in Seq(Msg), a \in Msg :
            /\ Answered(f.history, g, a) /\ a.calls = <<>>
            /\ ran = CallsOf(f.history, turn)
      BY <1>5 DEF Ready
    <2>2. Answered(f.history, g, a)'
      BY <2>1, OpenStays DEF Answered
    <2> QED BY <2>1, <2>2
  <1> QED BY <1>1, <1>2, <1>3, <1>4, <1>5 DEF Ready

LEMMA StartTurnRunInv ==
    ASSUME RunInv, NEW marked \in BOOLEAN, StartTurn(marked)
    PROVE  RunInv'
  <1> DEFINE f == [node |-> "classify", history |-> history]
  <1>1. /\ at = "idle" /\ turn < MaxTurns
        /\ turn' = turn + 1 /\ at' = "loop"
        /\ tagged' = IF marked THEN tagged \cup {turn + 1} ELSE tagged
        /\ queue' = <<f>> /\ ran' = <<>>
        /\ UNCHANGED <<results, steps, lastOut, history, result>>
    BY DEF StartTurn
  <1>2. /\ turn \in Nat /\ MaxTurns \in Nat /\ turn' \in Turns
        /\ turn' \in 0..MaxTurns
    BY <1>1, AgentAssumption DEF AgentAssumption, RunInv, RunTypes, Turns
  <1>3. RunTypes'
    BY <1>1, <1>2 DEF RunInv, RunTypes
  <1>4. /\ history \in Seq(Msg) /\ Paired(history)
        /\ \A t \in Turns : t > turn => CallsOf(history, t) = <<>>
        /\ WithQuestions(history)
    BY DEF RunInv, Sound
  <1>5. \A t \in Turns : t >= turn' => t > turn
    BY <1>1, <1>2 DEF Turns
  <1>6. Sound(history)' /\ CallsOf(history, turn)' = <<>>
    <2>1. Plain' \subseteq Plain
      BY <1>1 DEF Plain
    <2>2. Questioned(history, Plain')
      BY <1>4, <2>1 DEF WithQuestions, Questioned
    <2>3. MarksAreBlocks(history)'
      BY <1>1, <1>4, <2>1 DEF WithQuestions, MarksAreBlocks
    <2>4. WithQuestions(history)'
      BY <1>1, <2>2, <2>3 DEF WithQuestions
    <2> QED BY <1>1, <1>2, <1>4, <1>5, <2>4 DEF Sound, Turns
  <1>7. EndsAreAhead'
    <2>1. \A t \in Turns : t > turn => result[t] = "none"
      BY DEF RunInv, EndsAreAhead
    <2> QED BY <1>1, <1>2, <1>5, <2>1 DEF EndsAreAhead, Turns
  <1>8. f \in Frame /\ Ready(f)'
    BY <1>1, <1>4 DEF Ready, Frame, Nodes
  <1>9. results' = <<>>
    BY <1>1 DEF RunInv, OneFrame
  <1>10. OneFrame'
    BY <1>1, <1>8, <1>9 DEF OneFrame
  <1> QED BY <1>3, <1>6, <1>7, <1>10 DEF RunInv

Ends == {"answered", "failed", "cancelled"}

LEMMA EndRunInv ==
    ASSUME RunInv, at # "idle", NEW r \in Ends, End(r), Sound(history)'
    PROVE  RunInv'
  <1>1. /\ at' = "idle" /\ result' = [result EXCEPT ![turn] = r]
        /\ queue' = <<>> /\ results' = <<>> /\ steps' = 0 /\ lastOut' = <<>>
        /\ UNCHANGED <<turn, tagged>>
    BY DEF End
  <1>2. /\ RunTypes /\ turn \in Turns
        /\ \A t \in Turns : t > turn => result[t] = "none"
    BY DEF RunInv, EndsAreAhead
  <1>3. result' \in [Turns -> {"none", "answered", "failed", "cancelled"}]
    BY <1>1, <1>2 DEF RunTypes, Ends
  <1>4. RunTypes'
    <2>1. results' \in Seq(Msg) /\ lastOut' \in Seq(Msg)
      BY <1>1
    <2> QED BY <1>1, <1>2, <1>3, <2>1 DEF RunTypes
  <1>5. EndsAreAhead'
    <2>1. \A t \in Turns : t > turn => t # turn
      BY DEF Turns
    <2> QED BY <1>1, <1>2, <2>1 DEF EndsAreAhead, RunTypes
  <1>6. OneFrame'
    BY <1>1 DEF OneFrame
  <1> QED BY <1>1, <1>4, <1>5, <1>6 DEF RunInv


LEMMA AbortRunInv ==
    ASSUME RunInv, Abort
    PROVE  RunInv'
  <1>1. at # "idle" /\ history' = history
    BY DEF Abort
  <1>2. PICK r \in Ends : End(r)
    BY DEF Abort, Ends
  <1>3. turn' = turn /\ tagged' = tagged
    BY <1>2 DEF End
  <1>4. Sound(history)'
    BY <1>1, <1>3 DEF RunInv, Sound, WithQuestions, MarksAreBlocks, Plain
  <1> QED BY <1>1, <1>2, <1>4, EndRunInv

LEMMA FinishRunInv ==
    ASSUME RunInv, Finish
    PROVE  RunInv'
  <1>1. /\ at = "loop" /\ queue = <<>> /\ history' = lastOut
        /\ End("answered")
    BY DEF Finish
  <1>2. Settled(lastOut)
    <2>1. \A f : <<f>> # <<>>
      OBVIOUS
    <2> QED BY <1>1, <2>1 DEF RunInv, OneFrame
  <1>3. turn' = turn /\ tagged' = tagged
    BY <1>1 DEF End
  <1>4. Sound(history)'
    BY <1>1, <1>2, <1>3 DEF Settled, Sound, WithQuestions, MarksAreBlocks, Plain
  <1>5. "answered" \in Ends
    BY DEF Ends
  <1> QED BY <1>1, <1>4, <1>5, EndRunInv

\* A step within a run that leaves turn, history and results of turns alone.
LEMMA WithinRunInv ==
    ASSUME RunInv, at # "idle", at' # "idle", RunTypes', OneFrame',
           UNCHANGED <<turn, tagged, history, result>>
    PROVE  RunInv'
  <1>1. Sound(history)'
    BY DEF RunInv, Sound, WithQuestions, MarksAreBlocks, Plain
  <1>2. CallsOf(history, turn)' = <<>>
    BY DEF RunInv
  <1>3. EndsAreAhead'
    BY DEF RunInv, EndsAreAhead
  <1> QED BY <1>1, <1>2, <1>3 DEF RunInv

LEMMA DequeueRunInv ==
    ASSUME RunInv, Dequeue
    PROVE  RunInv'
  <1>1. /\ at = "loop" /\ queue # <<>> /\ at' = "try"
        /\ running' = Head(queue) /\ queue' = Tail(queue)
        /\ UNCHANGED <<turn, tagged, results, steps, lastOut, ran, history,
                       result>>
    BY DEF Dequeue
  <1>2. PICK f \in Frame : queue = <<f>> /\ Ready(f)
    BY <1>1 DEF RunInv, OneFrame
  <1>3. running' = f /\ queue' = <<>>
    <2>1. \A x : Head(<<x>>) = x /\ Tail(<<x>>) = <<>>
      OBVIOUS
    <2> QED BY <1>1, <1>2, <2>1
  <1>4. Ready(f)'
    BY <1>1, <1>2, ReadyStays
  <1>5. results = <<>>
    BY <1>1 DEF RunInv, OneFrame
  <1>6. OneFrame'
    BY <1>1, <1>3, <1>4, <1>5 DEF OneFrame, Ready
  <1>7. RunTypes'
    BY <1>1 DEF RunInv, RunTypes
  <1> QED BY <1>1, <1>6, <1>7, WithinRunInv

LEMMA TryRunInv ==
    ASSUME RunInv, Try
    PROVE  RunInv'
  <1>1. at = "try" /\ history' = history
    BY DEF Try
  <1>2. CASE End("cancelled")
    <2>1. turn' = turn /\ tagged' = tagged
      BY <1>2 DEF End
    <2>2. Sound(history)'
      BY <1>1, <2>1 DEF RunInv, Sound, WithQuestions, MarksAreBlocks, Plain
    <2>3. "cancelled" \in Ends /\ at # "idle"
      BY <1>1 DEF Ends
    <2> QED BY <1>2, <2>2, <2>3, EndRunInv
  <1>3. CASE /\ at' = "node"
             /\ UNCHANGED <<turn, tagged, queue, running, results, steps,
                            lastOut, ran, result>>
    <2>1. queue = <<>> /\ Ready(running) /\ results = <<>>
      BY <1>1 DEF RunInv, OneFrame
    <2>2. Ready(running)'
      <3>1. PICK f : f = running
        OBVIOUS
      <3>2. Ready(f)'
        BY <1>1, <1>3, <2>1, <3>1, ReadyStays
      <3> QED BY <1>3, <3>1, <3>2 DEF Ready
    <2>3. OneFrame'
      BY <1>3, <2>1, <2>2 DEF OneFrame
    <2>4. RunTypes'
      BY <1>3 DEF RunInv, RunTypes
    <2> QED BY <1>1, <1>3, <2>3, <2>4, WithinRunInv
  <1> QED BY <1>2, <1>3 DEF Try


LEMMA OneFrameStays ==
    ASSUME RunInv, UNCHANGED <<turn, tagged, at, queue, running, results,
                               lastOut, ran, history>>
    PROVE  OneFrame'
  <1>1. CASE at = "loop" /\ queue = <<>>
    <2>1. Settled(lastOut) /\ results = <<>>
      <3>1. \A f : <<f>> # <<>>
        OBVIOUS
      <3> QED BY <1>1, <3>1 DEF RunInv, OneFrame
    <2>2. Settled(lastOut)'
      BY <2>1 DEF Settled, Sound, WithQuestions, MarksAreBlocks, Plain
    <2> QED BY <1>1, <2>1, <2>2 DEF OneFrame
  <1>2. CASE at = "loop" /\ queue # <<>>
    <2>1. PICK f \in Frame : queue = <<f>> /\ Ready(f)
      BY <1>2 DEF RunInv, OneFrame
    <2>2. Ready(f)'
      BY <2>1, ReadyStays
    <2>3. results = <<>>
      BY <1>2 DEF RunInv, OneFrame
    <2> QED BY <1>2, <2>1, <2>2, <2>3 DEF OneFrame
  <1>3. CASE at \in {"try", "node"}
    <2>1. /\ queue = <<>> /\ Ready(running)
          /\ at = "try" => results = <<>>
      BY <1>3 DEF RunInv, OneFrame
    <2>2. Ready(running)'
      <3>1. PICK f : f = running
        OBVIOUS
      <3>2. Ready(f)'
        BY <2>1, <3>1, ReadyStays
      <3> QED BY <3>1, <3>2 DEF Ready
    <2> QED BY <1>3, <2>1, <2>2 DEF OneFrame
  <1>4. CASE at = "idle"
    BY <1>4 DEF RunInv, OneFrame
  <1> QED BY <1>1, <1>2, <1>3, <1>4 DEF RunInv, RunTypes

LEMMA CancelRunInv ==
    ASSUME RunInv, Cancel
    PROVE  RunInv'
  <1>1. /\ at # "idle"
        /\ UNCHANGED <<turn, tagged, at, queue, running, results, steps,
                       lastOut, ran, history, result>>
    BY DEF Cancel
  <1>2. RunTypes'
    BY <1>1 DEF RunInv, RunTypes
  <1>3. OneFrame'
    BY <1>1, OneFrameStays
  <1> QED BY <1>1, <1>2, <1>3, WithinRunInv

LEMMA NodeFailsRunInv ==
    ASSUME RunInv, NodeFails
    PROVE  RunInv'
  <1>1. /\ at = "node" /\ running.node # "toolloop" /\ history' = history
    BY DEF NodeFails, CanFail, In
  <1>2. CASE \E r \in Ends : End(r)
    <2>1. PICK r \in Ends : End(r)
      BY <1>2
    <2>2. turn' = turn /\ tagged' = tagged
      BY <2>1 DEF End
    <2>3. Sound(history)'
      BY <1>1, <2>2 DEF RunInv, Sound, WithQuestions, MarksAreBlocks, Plain
    <2> QED BY <1>1, <2>1, <2>3, EndRunInv
  <1>3. CASE /\ at' = "try" /\ results' = <<>>
             /\ UNCHANGED <<turn, tagged, queue, running, steps, lastOut, ran,
                            result>>
    <2>1. queue = <<>> /\ Ready(running)
      BY <1>1 DEF RunInv, OneFrame
    <2>2. Ready(running)'
      <3>1. PICK f : f = running
        OBVIOUS
      <3>2. /\ f \in Frame
            /\ f.node \in Preparing => f.history = history /\ ran = <<>>
            /\ f.node = "llm" =>
                 Open(f.history) /\ ran = CallsOf(f.history, turn)
            /\ f.node = "summarize" => \E g \in Seq(Msg), a \in Msg :
                 /\ Answered(f.history, g, a) /\ a.calls = <<>>
                 /\ ran = CallsOf(f.history, turn)
        BY <2>1, <3>1 DEF Ready
      <3>3. f.node = "llm" => Open(f.history)'
        BY <1>1, <1>3, <3>2, OpenStays
      <3>4. ASSUME f.node = "summarize"
            PROVE  \E g \in Seq(Msg), a \in Msg :
                     /\ Answered(f.history, g, a)' /\ a.calls = <<>>
                     /\ ran = CallsOf(f.history, turn)
        <4>1. PICK g \in Seq(Msg), a \in Msg :
                /\ Answered(f.history, g, a) /\ a.calls = <<>>
                /\ ran = CallsOf(f.history, turn)
          BY <3>2, <3>4
        <4>2. Answered(f.history, g, a)'
          BY <1>1, <1>3, <4>1, OpenStays DEF Answered
        <4> QED BY <4>1, <4>2
      <3>5. Ready(f)'
        BY <1>1, <1>3, <3>1, <3>2, <3>3, <3>4 DEF Ready
      <3> QED BY <1>3, <3>1, <3>5 DEF Ready
    <2>3. OneFrame'
      BY <1>3, <2>1, <2>2 DEF OneFrame
    <2>4. RunTypes'
      <3>1. results' \in Seq(Msg)
        BY <1>3
      <3> QED BY <1>3, <3>1 DEF RunInv, RunTypes
    <2> QED BY <1>1, <1>3, <2>3, <2>4, WithinRunInv
  <1> QED BY <1>2, <1>3 DEF NodeFails, Ends

\* What the next node finds, or the caller when there is none.
LEMMA ReturnRunInv ==
    ASSUME RunInv, at = "node", NEW out \in Seq(Msg), NodeReturns(out),
           \/ NextFrames(running.node, out) = <<>> /\ Settled(out)'
           \/ \E f \in Frame : /\ NextFrames(running.node, out) = <<f>>
                               /\ Ready(f)'
    PROVE  RunInv'
  <1>1. /\ lastOut' = out /\ steps' = steps + 1 /\ at' = "loop"
        /\ queue' = queue \o NextFrames(running.node, out)
        /\ results' = <<>>
        /\ UNCHANGED <<turn, tagged, history, result>>
    BY DEF NodeReturns
  <1>2. queue = <<>>
    BY DEF RunInv, OneFrame
  <1>3. queue' = NextFrames(running.node, out)
    <2>1. <<>> \o <<>> = <<>> /\ \A f : <<>> \o <<f>> = <<f>>
      OBVIOUS
    <2> QED BY <1>1, <1>2, <2>1
  <1>4. OneFrame'
    <2>1. CASE NextFrames(running.node, out) = <<>> /\ Settled(out)'
      <3>1. Settled(lastOut)'
        BY <1>1, <2>1 DEF Settled, Sound
      <3> QED BY <1>1, <1>3, <2>1, <3>1 DEF OneFrame
    <2>2. CASE \E f \in Frame : /\ NextFrames(running.node, out) = <<f>>
                                /\ Ready(f)'
      BY <1>1, <1>3, <2>2 DEF OneFrame
    <2> QED BY <2>1, <2>2
  <1>5. RunTypes'
    <2>1. results' \in Seq(Msg)
      BY <1>1
    <2> QED BY <1>1, <2>1 DEF RunInv, RunTypes
  <1> QED BY <1>1, <1>4, <1>5, WithinRunInv


LEMMA PrepareRunInv ==
    ASSUME RunInv, Prepare
    PROVE  RunInv'
  <1>1. /\ at = "node" /\ NodeReturns(running.history)
        /\ running.node \in {"classify", "mcp", "skills"}
    BY DEF Prepare, In
  <1>2. PICK h : h = running.history
    OBVIOUS
  <1>3. h = history /\ ran = <<>> /\ h \in Seq(Msg)
    BY <1>1, <1>2 DEF RunInv, OneFrame, Ready, Preparing, Sound
  <1>4. UNCHANGED <<turn, tagged, history, ran>> /\ NodeReturns(h)
    BY <1>1, <1>2 DEF NodeReturns
  <1>5. PICK node \in Preparing : NextFrames(running.node, h) = <<To(node, h)>>
    <2>1. "mcp" \in Preparing /\ "skills" \in Preparing /\ "enrich" \in Preparing
      BY DEF Preparing
    <2> QED BY <1>1, <1>3, <2>1, OneFrameFollows
  <1> DEFINE f == To(node, h)
  <1>6. f \in Frame /\ f.node = node /\ f.history = h
    BY <1>3 DEF To, Frame, Nodes, Preparing
  <1>7. Ready(f)'
    <2> HIDE DEF f
    <2>1. f.history = history' /\ ran' = <<>>
      BY <1>3, <1>4, <1>6
    <2>2. f.node # "llm" /\ f.node # "toolloop" /\ f.node # "summarize"
      BY <1>6 DEF Preparing
    <2> QED BY <1>6, <2>1, <2>2 DEF Ready
  <1> QED BY <1>1, <1>3, <1>4, <1>5, <1>6, <1>7, ReturnRunInv

LEMMA EnrichRunInv ==
    ASSUME RunInv, Enrich
    PROVE  RunInv'
  <1>0. PICK e : e = Enriched(history)
    OBVIOUS
  <1> DEFINE f == To("llm", e)
  <1>1. /\ at = "node" /\ running.node = "enrich"
        /\ NodeReturns(Enriched(running.history))
    BY DEF Enrich, In
  <1>2. running.history = history /\ ran = <<>>
    BY <1>1 DEF RunInv, OneFrame, Ready, Preparing
  <1>3. Open(e) /\ CallsOf(e, turn) = <<>>
    <2>1. /\ Sound(history) /\ CallsOf(history, turn) = <<>> /\ turn \in Turns
      BY <1>1 DEF RunInv, EndsAreAhead, RunTypes
    <2> QED BY <1>0, <2>1, EnrichedIsOpen
  <1>4. e \in Seq(Msg)
    BY <1>3 DEF Open, Sound
  <1>5. UNCHANGED <<turn, tagged, history, ran>>
    BY <1>1 DEF NodeReturns
  <1>6. Open(e)'
    BY <1>3, <1>5, OpenStays
  <1>7. f \in Frame /\ f.node = "llm" /\ f.history = e
    BY <1>4 DEF To, Frame, Nodes
  <1>8. Ready(f)'
    <2> HIDE DEF f
    <2>1. ran' = CallsOf(f.history, turn')
      BY <1>2, <1>3, <1>5, <1>7
    <2> QED BY <1>6, <1>7, <2>1 DEF Ready, Preparing
  <1>9. NextFrames(running.node, e) = <<f>>
    BY <1>1, <1>4, OneFrameFollows
  <1>10. NodeReturns(e)
    BY <1>0, <1>1, <1>2
  <1> QED BY <1>1, <1>4, <1>7, <1>8, <1>9, <1>10, ReturnRunInv

LEMMA CallLLMRunInv ==
    ASSUME RunInv, CallLLM
    PROVE  RunInv'
  <1>1. /\ at = "node" /\ running.node = "llm"
    BY DEF CallLLM, In
  <1>2. PICK size \in ContentSizes, n \in 0..MaxCalls :
          NodeReturns(Append(running.history,
              Answer(turn, size, [k \in 1..n |-> <<turn, steps, k>>])))
    BY DEF CallLLM
  <1>c. PICK calls : calls = [k \in 1..n |-> <<turn, steps, k>>]
    OBVIOUS
  <1>g. PICK g : g = running.history
    OBVIOUS
  <1>a. PICK a : a = Answer(turn, size, calls)
    OBVIOUS
  <1> DEFINE h == Append(g, a)
  <1>3. Open(g) /\ ran = CallsOf(g, turn) /\ g \in Seq(Msg)
    BY <1>1, <1>g DEF RunInv, OneFrame, Ready, Open, Sound
  <1>4. turn \in Turns /\ turn \in 0..MaxTurns /\ steps \in Nat
    BY <1>1 DEF RunInv, EndsAreAhead, RunTypes
  <1>5. calls \in Seq(CallId)
    <2>1. \A k \in 1..n : <<turn, steps, k>> \in CallId
      BY <1>4 DEF CallId
    <2>2. n \in Nat
      BY AgentAssumption DEF AgentAssumption
    <2> HIDE DEF CallId
    <2> QED BY <1>c, <2>1, <2>2
  <1>6. a \in Msg /\ a.role = "assistant" /\ a.turn = turn /\ a.calls = calls
    <2>1. a \in Msg
      BY <1>4, <1>5, <1>a DEF Answer, Message, Msg
    <2> QED BY <1>a, <2>1 DEF Answer, Message
  <1>7. /\ h \in Seq(Msg)
        /\ HasPendingToolCalls(h) <=> calls # <<>>
    BY <1>3, <1>6, LastAnswer
  <1>8. UNCHANGED <<turn, tagged, history, ran>> /\ results' = <<>>
    BY <1>2 DEF NodeReturns
  <1>9. NodeReturns(h)
    BY <1>2, <1>a, <1>c, <1>g
  <1>10. Answered(h, g, a)'
    <2>1. Open(g)'
      BY <1>3, <1>8, OpenStays
    <2> QED BY <1>6, <1>8, <2>1 DEF Answered
  <1>11. CASE calls # <<>>
    <2> DEFINE f == To("toolloop", h)
    <2>1. f \in Frame /\ f.node = "toolloop" /\ f.history = h
      BY <1>7 DEF To, Frame, Nodes
    <2>2. /\ Len(results') = 0 /\ Len(a.calls) \in Nat
          /\ SubSeq(a.calls, 1, 0) = <<>>
      BY <1>5, <1>6, <1>8
    <2>3. ran' = CallsOf(g, turn') \o SubSeq(a.calls, 1, Len(results'))
      <3>1. CallsOf(g, turn) \in Seq(CallId)
        BY <1>3, <1>6, CallsOfAppend
      <3>2. CallsOf(g, turn) \o <<>> = CallsOf(g, turn)
        BY <3>1
      <3> QED BY <1>3, <1>8, <2>2, <3>2
    <2>4. /\ Len(results') <= Len(a.calls)
          /\ \A k \in 1..Len(results') :
               results'[k] = ToolResult(turn', a.calls[k])
      BY <2>2
    <2>5. Ready(f)'
      <3> HIDE DEF f, h
      <3> QED BY <1>3, <1>6, <1>10, <1>11, <2>1, <2>3, <2>4
            DEF Ready, Preparing
    <2>6. NextFrames(running.node, h) = <<f>>
      BY <1>1, <1>7, <1>11, OneFrameFollows
    <2> QED BY <1>1, <1>7, <1>9, <2>1, <2>5, <2>6, ReturnRunInv
  <1>12. CASE calls = <<>>
    <2> DEFINE f == To("summarize", h)
    <2>1. f \in Frame /\ f.node = "summarize" /\ f.history = h
      BY <1>7 DEF To, Frame, Nodes
    <2>2. ran' = CallsOf(h, turn')
      BY <1>3, <1>6, <1>8, <1>12, CallsOfAppend
    <2>3. Ready(f)'
      <3> HIDE DEF f, h
      <3> QED BY <1>3, <1>6, <1>10, <1>12, <2>1, <2>2 DEF Ready, Preparing
    <2>4. NextFrames(running.node, h) = <<f>>
      BY <1>1, <1>7, <1>12, OneFrameFollows
    <2> QED BY <1>1, <1>7, <1>9, <2>1, <2>3, <2>4, ReturnRunInv
  <1> QED BY <1>11, <1>12


\* What a toolloop finds in its frame.
LEMMA ToolLoopFinds ==
    ASSUME RunInv, In("toolloop")
    PROVE  \E g \in Seq(Msg), a \in Msg :
             /\ Answered(running.history, g, a) /\ a.calls # <<>>
             /\ Len(results) <= Len(a.calls)
             /\ \A k \in 1..Len(results) :
                  results[k] = ToolResult(turn, a.calls[k])
             /\ ran = CallsOf(g, turn) \o SubSeq(a.calls, 1, Len(results))
             /\ LastToolCalls(running.history) = a.calls
  <1>1. at = "node" /\ running.node = "toolloop" /\ Ready(running)
    BY DEF In, RunInv, OneFrame
  <1>2. PICK g \in Seq(Msg), a \in Msg :
          /\ Answered(running.history, g, a) /\ a.calls # <<>>
          /\ Len(results) <= Len(a.calls)
          /\ \A k \in 1..Len(results) :
               results[k] = ToolResult(turn, a.calls[k])
          /\ ran = CallsOf(g, turn) \o SubSeq(a.calls, 1, Len(results))
    BY <1>1 DEF Ready
  <1>3. LastToolCalls(running.history) = a.calls
    BY <1>2, LastAnswer DEF Answered
  <1> QED BY <1>2, <1>3

\* A prefix grows by the element after it.
LEMMA PrefixGrows ==
    ASSUME NEW S, NEW s \in Seq(S), NEW c \in Seq(S), NEW n \in Nat,
           n < Len(c)
    PROVE  /\ c[n + 1] \in S
           /\ Append(s \o SubSeq(c, 1, n), c[n + 1]) = s \o SubSeq(c, 1, n + 1)
  <1>1. /\ n + 1 \in 1..Len(c) /\ Len(c) \in Nat
    OBVIOUS
  <1>2. c[n + 1] \in S
    BY <1>1
  <1> DEFINE p == SubSeq(c, 1, n)
             x == c[n + 1]
  <1>3. p \in Seq(S) /\ Len(p) = n /\ \A i \in 1..n : p[i] = c[i]
    BY <1>1
  <1>4. SubSeq(c, 1, n + 1) = Append(p, x)
    <2>1. /\ SubSeq(c, 1, n + 1) \in Seq(S)
          /\ Len(SubSeq(c, 1, n + 1)) = n + 1
          /\ \A i \in 1..(n + 1) : SubSeq(c, 1, n + 1)[i] = c[i]
      BY <1>1
    <2>2. /\ Append(p, x) \in Seq(S) /\ Len(Append(p, x)) = n + 1
          /\ \A i \in 1..n : Append(p, x)[i] = p[i]
          /\ Append(p, x)[n + 1] = x
      <3> HIDE DEF p, x
      <3> QED BY <1>2, <1>3, AppendProperties DEF x
    <2>3. \A i \in 1..(n + 1) : i \in 1..n \/ i = n + 1
      OBVIOUS
    <2>4. \A i \in 1..(n + 1) : SubSeq(c, 1, n + 1)[i] = Append(p, x)[i]
      BY <1>3, <2>1, <2>2, <2>3
    <2> HIDE DEF p, x
    <2> QED BY <2>1, <2>2, <2>4, SeqEqual
  <1>5. Append(s \o p, x) = s \o Append(p, x)
    <2>1. \A u \in Seq(S), v \in Seq(S), y \in S :
             u \o Append(v, y) = Append(u \o v, y)
      OBVIOUS
    <2>2. x \in S
      BY <1>2
    <2> HIDE DEF p, x
    <2> QED BY <1>3, <2>1, <2>2
  <1> QED BY <1>2, <1>4, <1>5

LEMMA RunToolRunInv ==
    ASSUME RunInv, RunTool
    PROVE  RunInv'
  <1>1. /\ at = "node" /\ running.node = "toolloop" /\ In("toolloop")
        /\ UNCHANGED <<turn, tagged, at, queue, running, steps, lastOut,
                       history, result>>
    BY DEF RunTool, In
  <1>2. PICK g \in Seq(Msg), a \in Msg :
          /\ Answered(running.history, g, a) /\ a.calls # <<>>
          /\ Len(results) <= Len(a.calls)
          /\ \A k \in 1..Len(results) :
               results[k] = ToolResult(turn, a.calls[k])
          /\ ran = CallsOf(g, turn) \o SubSeq(a.calls, 1, Len(results))
          /\ LastToolCalls(running.history) = a.calls
    BY <1>1, ToolLoopFinds
  <1>3. PICK call : call = a.calls[Len(results) + 1]
    OBVIOUS
  <1>4. /\ Len(results) # Len(a.calls)
        /\ results' = Append(results, ToolResult(turn, call))
        /\ ran' = Append(ran, call)
    BY <1>2, <1>3 DEF RunTool, ToolsDone
  <1>5. /\ results \in Seq(Msg) /\ turn \in Turns /\ turn \in 0..MaxTurns
        /\ a.calls \in Seq(CallId) /\ CallsOf(g, turn) \in Seq(CallId)
    BY <1>1, <1>2, MsgFields, CallsOfAppend
       DEF RunInv, EndsAreAhead, RunTypes
  <1>6. PICK n \in Nat : n = Len(results)
    BY <1>5
  <1>7. n < Len(a.calls) /\ Len(a.calls) \in Nat /\ n + 1 <= Len(a.calls)
    <2>1. PICK l \in Nat : l = Len(a.calls)
      BY <1>5
    <2>2. n <= l /\ n # l
      BY <1>2, <1>4, <1>6, <2>1
    <2> QED BY <2>1, <2>2
  <1>8. /\ call \in CallId
        /\ ran' = CallsOf(g, turn) \o SubSeq(a.calls, 1, n + 1)
    <2>1. ran = CallsOf(g, turn) \o SubSeq(a.calls, 1, n)
      BY <1>2, <1>6
    <2> HIDE DEF CallId
    <2> QED BY <1>3, <1>4, <1>5, <1>6, <1>7, <2>1, PrefixGrows
  <1>9. ToolResult(turn, call) \in Msg
    <2>1. <<>> \in Seq(CallId)
      OBVIOUS
    <2> HIDE DEF CallId
    <2> QED BY <1>5, <1>8, <2>1 DEF ToolResult, Message, Msg
  <1>10. /\ results' \in Seq(Msg) /\ Len(results') = n + 1
         /\ \A k \in 1..n : results'[k] = results[k]
         /\ results'[n + 1] = ToolResult(turn, call)
    BY <1>4, <1>5, <1>6, <1>9, AppendProperties
  <1>11. \A k \in 1..(n + 1) : results'[k] = ToolResult(turn, a.calls[k])
    <2>1. \A k \in 1..(n + 1) : k \in 1..n \/ k = n + 1
      OBVIOUS
    <2>2. \A k \in 1..n : results[k] = ToolResult(turn, a.calls[k])
      BY <1>2, <1>6
    <2>3. call = a.calls[n + 1]
      BY <1>3, <1>6
    <2> QED BY <1>10, <2>1, <2>2, <2>3
  <1>12. PICK f : f = running
    OBVIOUS
  <1>13. Answered(f.history, g, a)'
    <2>1. Open(g)'
      BY <1>1, <1>2, OpenStays DEF Answered
    <2> QED BY <1>1, <1>2, <1>12, <2>1 DEF Answered
  <1>14. Ready(f)'
    <2>1. f \in Frame /\ f.node = "toolloop"
      BY <1>1, <1>12 DEF RunInv, OneFrame, Ready
    <2>2. /\ Len(results') <= Len(a.calls)
          /\ \A k \in 1..Len(results') :
               results'[k] = ToolResult(turn', a.calls[k])
          /\ ran' = CallsOf(g, turn') \o SubSeq(a.calls, 1, Len(results'))
      BY <1>1, <1>7, <1>8, <1>10, <1>11
    <2> QED BY <1>2, <1>13, <2>1, <2>2 DEF Ready, Preparing
  <1>15. OneFrame'
    <2>1. queue = <<>>
      BY <1>1 DEF RunInv, OneFrame
    <2>2. Ready(running)'
      BY <1>1, <1>12, <1>14 DEF Ready
    <2> QED BY <1>1, <2>1, <2>2 DEF OneFrame
  <1>16. RunTypes'
    BY <1>1, <1>10 DEF RunInv, RunTypes
  <1> QED BY <1>1, <1>15, <1>16, WithinRunInv


LEMMA ReturnResultsRunInv ==
    ASSUME RunInv, ReturnResults
    PROVE  RunInv'
  <1>1. /\ at = "node" /\ running.node = "toolloop" /\ In("toolloop")
        /\ NodeReturns(running.history \o results)
    BY DEF ReturnResults, In
  <1>2. PICK g \in Seq(Msg), a \in Msg :
          /\ Answered(running.history, g, a) /\ a.calls # <<>>
          /\ Len(results) <= Len(a.calls)
          /\ \A k \in 1..Len(results) :
               results[k] = ToolResult(turn, a.calls[k])
          /\ ran = CallsOf(g, turn) \o SubSeq(a.calls, 1, Len(results))
          /\ LastToolCalls(running.history) = a.calls
    BY <1>1, ToolLoopFinds
  <1>3. Len(results) = Len(a.calls)
    BY <1>2 DEF ReturnResults, ToolsDone
  <1>4. PICK o : o = running.history \o results
    OBVIOUS
  <1>5. /\ turn \in Turns /\ results \in Seq(Msg) /\ a.calls \in Seq(CallId)
    BY <1>1, MsgFields DEF RunInv, EndsAreAhead, RunTypes
  <1>6. Open(o) /\ CallsOf(o, turn) = CallsOf(g, turn) \o a.calls
    BY <1>2, <1>3, <1>4, <1>5, ResultsAreOpen
  <1>7. SubSeq(a.calls, 1, Len(results)) = a.calls
    <2>1. PICK c \in Seq(CallId) : c = a.calls
      BY <1>5
    <2> HIDE DEF CallId
    <2>2. SubSeq(c, 1, Len(c)) = c
      OBVIOUS
    <2> QED BY <1>3, <2>1, <2>2
  <1>8. ran = CallsOf(o, turn)
    BY <1>2, <1>6, <1>7
  <1>9. UNCHANGED <<turn, tagged, history, ran>> /\ NodeReturns(o)
    BY <1>1, <1>4 DEF NodeReturns
  <1>10. Open(o)' /\ ran' = CallsOf(o, turn')
    BY <1>6, <1>8, <1>9, OpenStays
  <1> DEFINE f == To("llm", o)
  <1>11. o \in Seq(Msg)
    BY <1>6 DEF Open, Sound
  <1>12. f \in Frame /\ f.node = "llm" /\ f.history = o
    BY <1>11 DEF To, Frame, Nodes
  <1>13. Ready(f)'
    <2> HIDE DEF f
    <2> QED BY <1>10, <1>12 DEF Ready, Preparing
  <1>14. NextFrames(running.node, o) = <<f>>
    BY <1>1, <1>11, OneFrameFollows
  <1> QED BY <1>1, <1>9, <1>11, <1>12, <1>13, <1>14, ReturnRunInv

LEMMA SummarizeRunInv ==
    ASSUME RunInv, Summarize
    PROVE  RunInv'
  <1>1. /\ at = "node" /\ running.node = "summarize" /\ Ready(running)
    BY DEF Summarize, In, RunInv, OneFrame
  <1>2. PICK g \in Seq(Msg), a \in Msg :
          Answered(running.history, g, a) /\ a.calls = <<>>
    BY <1>1 DEF Ready
  <1>3. turn \in Turns
    BY <1>1 DEF RunInv, EndsAreAhead
  <1>4. PICK o : o = IF HistoryIsTooBig(running.history)
                     THEN Compacted(running.history) ELSE running.history
    OBVIOUS
  <1>5. Settled(o)
    <2>1. Settled(running.history) /\ Settled(Compacted(running.history))
      BY <1>2, <1>3, AnswerSettles
    <2> QED BY <1>4, <2>1
  <1>6. NodeReturns(o)
    BY <1>4 DEF Summarize
  <1>7. UNCHANGED <<turn, tagged, history>>
    BY <1>6 DEF NodeReturns
  <1>8. Settled(o)'
    BY <1>5, <1>7, SoundStays DEF Settled
  <1>9. NextFrames(running.node, o) = <<>>
    BY <1>1, <1>5, OneFrameFollows DEF Settled, Sound
  <1>10. o \in Seq(Msg)
    BY <1>5 DEF Settled, Sound
  <1> QED BY <1>1, <1>6, <1>8, <1>9, <1>10, ReturnRunInv

LEMMA StutterRunInv ==
    ASSUME RunInv, UNCHANGED vars
    PROVE  RunInv'
  <1>1. UNCHANGED <<turn, tagged, at, queue, running, results, steps, lastOut,
                    ran, history, result>>
    BY DEF vars
  <1>2. RunTypes'
    BY <1>1 DEF RunInv, RunTypes
  <1>3. Sound(history)' /\ (at # "idle" => CallsOf(history, turn) = <<>>)'
    BY <1>1 DEF RunInv, Sound, WithQuestions, MarksAreBlocks, Plain
  <1>4. EndsAreAhead'
    BY <1>1 DEF RunInv, EndsAreAhead
  <1>5. OneFrame'
    BY <1>1, OneFrameStays
  <1> QED BY <1>2, <1>3, <1>4, <1>5 DEF RunInv

LEMMA NextRunInv ==
    ASSUME RunInv, [Next]_vars
    PROVE  RunInv'
  <1>1. CASE \E marked \in BOOLEAN : StartTurn(marked)
    BY <1>1, StartTurnRunInv
  <1>2. CASE RunnerStep
    BY <1>2, AbortRunInv, DequeueRunInv, TryRunInv, FinishRunInv DEF RunnerStep
  <1>3. CASE NodeStep
    BY <1>3, PrepareRunInv, EnrichRunInv, CallLLMRunInv, RunToolRunInv,
       ReturnResultsRunInv, SummarizeRunInv, NodeFailsRunInv DEF NodeStep
  <1>4. CASE Cancel
    BY <1>4, CancelRunInv
  <1>5. CASE Quiet
    BY <1>5, StutterRunInv DEF Quiet
  <1>6. CASE UNCHANGED vars
    BY <1>6, StutterRunInv
  <1> QED BY <1>1, <1>2, <1>3, <1>4, <1>5, <1>6 DEF Next

\* RunInv holds of every run: one frame, queued or running, carries the turn;
\* it goes to a node that can take the history as it is, and the calls in that
\* history are those executed so far (runner.go:68-114, graph.go).
THEOREM RunInvHolds == Spec => []RunInv
  <1>1. Init => RunInv
    BY InitRunInv
  <1>2. RunInv /\ [Next]_vars => RunInv'
    BY NextRunInv
  <1> QED BY <1>1, <1>2, PTL DEF Spec


-----------------------------------------------------------------------------
(* What it implies                                                         *)

\* A frame for the model, or the last one, has a history in which requests
\* stand next to their results and name all calls executed.
LEMMA WhatIsAsked ==
    ASSUME RunInv, NEW h \in Asked
    PROVE  h \in Seq(Msg) /\ Paired(h) /\ ran = CallsOf(h, turn)
  <1>1. PICK i \in DOMAIN queue :
          queue[i].history = h /\ queue[i].node \in {"llm", "summarize"}
    BY DEF Asked
  <1>2. queue # <<>>
    BY <1>1
  <1>3. PICK f \in Frame : queue = <<f>> /\ Ready(f)
    <2>1. at = "loop"
      BY <1>2 DEF RunInv, OneFrame, RunTypes
    <2> QED BY <1>2, <2>1 DEF RunInv, OneFrame
  <1>4. queue[i] = f
    BY <1>1, <1>3
  <1>5. f.history = h /\ f.node \in {"llm", "summarize"}
    BY <1>1, <1>4
  <1>6. CASE f.node = "llm"
    BY <1>3, <1>5, <1>6 DEF Ready, Open, Sound
  <1>7. CASE f.node = "summarize"
    <2>1. PICK g \in Seq(Msg), a \in Msg :
            Answered(h, g, a) /\ a.calls = <<>> /\ ran = CallsOf(h, turn)
      BY <1>3, <1>5, <1>7 DEF Ready
    <2>2. Paired(g) /\ h = Append(g, a) /\ a.role = "assistant"
      BY <2>1 DEF Answered, Open, Sound
    <2>3. h \in Seq(Msg) /\ Paired(h)
      BY <2>1, <2>2, PairedAppend
    <2> QED BY <2>1, <2>3
  <1> QED BY <1>5, <1>6, <1>7

\* ProviderSeesPairedCalls holds of every run: whatever failed, was cancelled,
\* stripped or compacted before, a history sent untruncated has the results
\* of each message's tool calls right after it (toolloop.go:16-19).
THEOREM ProviderSeesPairs == Spec => []ProviderSeesPairedCalls
  <1>1. RunInv => ProviderSeesPairedCalls
    <2> SUFFICES ASSUME RunInv PROVE ProviderSeesPairedCalls
      OBVIOUS
    <2>1. Paired(history)
      BY DEF RunInv, Sound
    <2>2. \A h \in Asked : Paired(h)
      BY WhatIsAsked
    <2> QED BY <2>1, <2>2 DEF ProviderSeesPairedCalls
  <1> QED BY <1>1, RunInvHolds, PTL

\* CallsRunOnce holds of every run: what was executed in a turn is what the
\* model requested in it, once and in order (toolloop.go:41-48).
THEOREM ToolCallsRunOnce == Spec => []CallsRunOnce
  <1>1. RunInv => CallsRunOnce
    <2> SUFFICES ASSUME RunInv, NEW h \in Asked
                 PROVE  ran = FlattenSeq([i \in DOMAIN h |->
                            IF h[i].role = "assistant" /\ h[i].turn = turn
                            THEN h[i].calls ELSE <<>>])
      BY DEF CallsRunOnce
    <2>1. h \in Seq(Msg) /\ ran = CallsOf(h, turn)
      BY WhatIsAsked
    <2>2. \A i \in DOMAIN h : h[i] \in Msg
      BY <2>1
    <2> QED BY <2>1, <2>2 DEF CallsOf, View, CallsIn
  <1> QED BY <1>1, RunInvHolds, PTL

\* PlainQuestionsStay holds of every run: stripContextMessages, which goes by
\* the marker alone, drops no question without it, and only summarize takes
\* one away together with its answer's past (enrich.go:40-49).
THEOREM QuestionsAreKept == Spec => []PlainQuestionsStay
  <1>1. RunInv => PlainQuestionsStay
    BY DEF RunInv, Sound, WithQuestions, PlainQuestionsStay, Plain
  <1> QED BY <1>1, RunInvHolds, PTL

-----------------------------------------------------------------------------
(* The run keeps the contract of a turn                                    *)

LEMMA EmptyHistoryHasNoAnswers == FinalAnswers(<<>>) = <<>>
  <1> DEFINE o == <<>>
  <1>1. o \in Seq(Msg)
    OBVIOUS
  <1>2. FinalAnswers(o) = View(FinalOf, o)
    <2> HIDE DEF o
    <2> QED BY <1>1, ViewsOfMessages
  <1> QED BY <1>2, EmptyView

\* A turn that fails or is cancelled changes no history.
LEMMA FailIsContractual ==
    ASSUME RunInv, at # "idle", history' = history,
           End("failed") \/ (Cancelled /\ End("cancelled"))
    PROVE  Contract!Next
  <1>1. turn \in Turns /\ result[turn] = "none"
    BY DEF RunInv, EndsAreAhead
  <1>2. Contract!Fail(turn)
    BY <1>1 DEF Contract!Fail, Contract!EndTurn, End, Cancelled
  <1> QED BY <1>1, <1>2 DEF Contract!Next

LEMMA NextIsContractual ==
    ASSUME RunInv, [Next]_vars
    PROVE  Contract!Next \/ UNCHANGED Contract!vars
  <1>1. CASE UNCHANGED <<history, result, stopped>>
    BY <1>1 DEF Contract!vars
  <1>2. CASE \E marked \in BOOLEAN : StartTurn(marked)
    BY <1>1, <1>2 DEF StartTurn
  <1>3. CASE Abort
    BY <1>3, FailIsContractual DEF Abort
  <1>4. CASE Dequeue
    BY <1>1, <1>4 DEF Dequeue
  <1>5. CASE Try
    <2>1. CASE UNCHANGED <<history, result, stopped>>
      BY <1>1, <2>1
    <2>2. CASE Cancelled /\ End("cancelled")
      BY <1>5, <2>2, FailIsContractual DEF Try
    <2> QED BY <1>5, <2>1, <2>2 DEF Try
  <1>6. CASE Finish
    <2>1. /\ at = "loop" /\ queue = <<>> /\ history' = lastOut
          /\ End("answered")
      BY <1>6 DEF Finish
    <2>2. Settled(lastOut)
      <3>1. \A f : <<f>> # <<>>
        OBVIOUS
      <3> QED BY <2>1, <3>1 DEF RunInv, OneFrame
    <2>3. turn \in Turns /\ result[turn] = "none"
      BY <2>1 DEF RunInv, EndsAreAhead
    <2>4. FinalAnswers(history') \in {Append(FinalAnswers(history), turn),
                                      <<Dump, turn>>}
      BY <2>1, <2>2 DEF Settled
    <2>5. /\ result' = [result EXCEPT ![turn] = "answered"]
          /\ UNCHANGED stopped
      BY <2>1 DEF End
    <2>6. Contract!Answer(turn)
      BY <2>3, <2>4, <2>5 DEF Contract!Answer, Contract!EndTurn
    <2> QED BY <2>3, <2>6 DEF Contract!Next
  <1>7. CASE Prepare \/ Enrich \/ CallLLM \/ ReturnResults \/ Summarize
    BY <1>1, <1>7 DEF Prepare, Enrich, CallLLM, ReturnResults, Summarize,
                      NodeReturns
  <1>8. CASE RunTool
    BY <1>1, <1>8 DEF RunTool
  <1>9. CASE NodeFails
    <2>1. CASE UNCHANGED <<history, result, stopped>>
      BY <1>1, <2>1
    <2>2. CASE End("failed") \/ (Cancelled /\ End("cancelled"))
      <3>1. at # "idle" /\ history' = history
        BY <1>9 DEF NodeFails, CanFail, In
      <3> QED BY <2>2, <3>1, FailIsContractual
    <2> QED BY <1>9, <2>1, <2>2 DEF NodeFails
  <1>10. CASE Cancel
    <2>1. /\ turn \in Turns /\ result[turn] = "none"
          /\ stopped' = stopped \cup {turn} /\ UNCHANGED <<history, result>>
      BY <1>10 DEF Cancel, RunInv, EndsAreAhead
    <2>2. Contract!Stop(turn)
      BY <2>1 DEF Contract!Stop
    <2> QED BY <2>1, <2>2 DEF Contract!Next
  <1>11. CASE Quiet \/ UNCHANGED vars
    BY <1>1, <1>11 DEF Quiet, vars
  <1> QED BY <1>2, <1>3, <1>4, <1>5, <1>6, <1>7, <1>8, <1>9, <1>10, <1>11
       DEF Next, RunnerStep, NodeStep

\* The agent run implements TurnContract, a history being read as its final
\* answers and memory dumps: a turn ends at most once, is cancelled only if
\* its ctx is done, and only an answered turn changes the history, which it
\* extends by itself or replaces by a dump (graph.go, runner.go:68-114).
THEOREM RunsKeepTheContract == Spec => ContractSpec
  <1>1. Init => Contract!Init
    BY EmptyHistoryHasNoAnswers DEF Init, Contract!Init
  <1>2. RunInv /\ [Next]_vars => [Contract!Next]_(Contract!vars)
    BY NextIsContractual
  <1> QED BY <1>1, <1>2, RunInvHolds, PTL DEF Spec, ContractSpec, Contract!Spec


-----------------------------------------------------------------------------
(* Types and bounds                                                        *)

\* A node runs only below the step limit and after an attempt was left; the
\* runner holds no frame between nodes.
WithinBounds ==
    /\ steps \in 0..StepLimit /\ attempt \in 0..MaxAttempts
    /\ at \in {"try", "node"} => steps < StepLimit
    /\ at = "try" => attempt < MaxAttempts
    /\ at \in {"idle", "loop"} => running = NoFrame
    /\ stopped \subseteq Turns

LEMMA NextWithinBounds ==
    ASSUME RunInv, WithinBounds, [Next]_vars
    PROVE  WithinBounds'
  <1>0. /\ StepLimit \in Nat \ {0} /\ MaxAttempts \in Nat \ {0}
        /\ steps \in Nat /\ attempt \in Nat
        /\ at \in {"idle", "loop", "try", "node"}
    BY AgentAssumption DEF AgentAssumption, WithinBounds, RunInv, RunTypes
  <1>1. CASE UNCHANGED <<at, running, attempt, steps, stopped>>
    BY <1>1 DEF WithinBounds
  <1>2. CASE \E r : End(r)
    BY <1>0, <1>2 DEF End, WithinBounds
  <1>3. CASE at = "node" /\ \E out : NodeReturns(out)
    BY <1>0, <1>3 DEF NodeReturns, WithinBounds
  <1>4. CASE \E marked \in BOOLEAN : StartTurn(marked)
    BY <1>4 DEF StartTurn, WithinBounds
  <1>5. CASE Abort
    BY <1>2, <1>5 DEF Abort
  <1>6. CASE Dequeue
    BY <1>0, <1>6 DEF Dequeue, WithinLimit, WithinBounds
  <1>7. CASE Try
    <2>1. CASE /\ at = "try" /\ at' = "node" /\ attempt' = NextAttempt
               /\ UNCHANGED <<steps, stopped>>
      BY <1>0, <2>1 DEF NextAttempt, WithinBounds
    <2> QED BY <1>2, <1>7, <2>1 DEF Try
  <1>8. CASE Finish
    BY <1>2, <1>8 DEF Finish
  <1>9. CASE Prepare \/ Enrich \/ CallLLM \/ ReturnResults \/ Summarize
    BY <1>3, <1>9 DEF Prepare, Enrich, CallLLM, ReturnResults, Summarize, In
  <1>10. CASE RunTool
    BY <1>1, <1>10 DEF RunTool
  <1>11. CASE NodeFails
    <2>1. CASE /\ at = "node" /\ attempt < MaxAttempts /\ at' = "try"
               /\ UNCHANGED <<attempt, steps, stopped>>
      BY <1>0, <2>1 DEF WithinBounds
    <2> QED BY <1>2, <1>11, <2>1 DEF NodeFails, CanFail, In
  <1>12. CASE Cancel
    <2>1. turn \in Turns
      BY <1>12 DEF Cancel, RunInv, EndsAreAhead
    <2> QED BY <1>12, <2>1 DEF Cancel, WithinBounds
  <1>13. CASE Quiet \/ UNCHANGED vars
    BY <1>1, <1>13 DEF Quiet, vars
  <1> QED BY <1>4, <1>5, <1>6, <1>7, <1>8, <1>9, <1>10, <1>11, <1>12, <1>13
       DEF Next, RunnerStep, NodeStep

\* What a sequence of messages is made of.
LEMMA MessagesTyped ==
    ASSUME NEW h \in Seq(Msg), NEW m \in ToSet(h)
    PROVE  /\ m.role \in {"user", "assistant", "tool"}
           /\ m.turn \in 0..MaxTurns
           /\ m.size \in ContentSizes \cup {1}
           /\ ToSet(m.calls) \subseteq CallId
  <1>1. m \in Msg
    BY DEF ToSet
  <1>2. m.calls \in Seq(CallId)
    BY <1>1, MsgFields
  <1>3. ToSet(m.calls) \subseteq CallId
    <2> HIDE DEF CallId
    <2> QED BY <1>2 DEF ToSet
  <1> QED BY <1>1, <1>3, MsgFields

LEMMA RunTyped ==
    ASSUME RunInv, WithinBounds, ran \in Seq(CallId)
    PROVE  TypeOK
  <1>1. running.history \in Seq(Msg)
    <2>1. CASE at \in {"try", "node"}
      <3>1. running \in Frame
        BY <2>1 DEF RunInv, OneFrame, Ready
      <3> QED BY <3>1 DEF Frame
    <2>2. CASE at \in {"idle", "loop"}
      <3>1. NoFrame.history = <<>>
        BY DEF NoFrame
      <3>2. <<>> \in Seq(Msg)
        OBVIOUS
      <3> QED BY <2>2, <3>1, <3>2 DEF WithinBounds
    <2> QED BY <2>1, <2>2 DEF RunInv, RunTypes
  <1>2. ASSUME NEW i \in DOMAIN queue PROVE queue[i].history \in Seq(Msg)
    <2>1. queue # <<>>
      BY <1>2
    <2>2. PICK f \in Frame : queue = <<f>>
      <3>1. at = "loop"
        BY <2>1 DEF RunInv, OneFrame, RunTypes
      <3> QED BY <2>1, <3>1 DEF RunInv, OneFrame
    <2>3. queue[i] = f
      BY <2>2
    <2> QED BY <2>2, <2>3 DEF Frame
  <1>3. \A h \in Histories : h \in Seq(Msg)
    BY <1>1, <1>2 DEF Histories, RunInv, RunTypes, Sound
  <1>4. ToSet(ran) \subseteq CallId
    <2> HIDE DEF CallId
    <2> QED BY DEF ToSet
  <1>5. \A h \in Histories : \A m \in ToSet(h) :
          /\ m.role \in {"user", "assistant", "tool"}
          /\ m.turn \in 0..MaxTurns
          /\ m.size \in ContentSizes \cup {1}
          /\ ToSet(m.calls) \subseteq CallId
    BY <1>3, MessagesTyped
  <1>6. /\ turn \in 0..MaxTurns /\ tagged \subseteq 1..turn
        /\ at \in {"idle", "loop", "try", "node"}
        /\ result \in [Turns -> {"none", "answered", "failed", "cancelled"}]
    BY DEF RunInv, RunTypes
  <1>7. attempt \in 0..MaxAttempts /\ steps \in 0..StepLimit
        /\ stopped \subseteq Turns
    BY DEF WithinBounds
  <1> QED BY <1>4, <1>5, <1>6, <1>7 DEF TypeOK

LEMMA RanTyped ==
    ASSUME RunInv, ran \in Seq(CallId), [Next]_vars
    PROVE  ran' \in Seq(CallId)
  <1>1. CASE ran' = ran
    BY <1>1
  <1>2. CASE ran' = <<>>
    BY <1>2
  <1>3. CASE RunTool
    <2>1. In("toolloop")
      BY <1>3 DEF RunTool
    <2>2. PICK g \in Seq(Msg), a \in Msg :
            /\ Len(results) <= Len(a.calls)
            /\ LastToolCalls(running.history) = a.calls
      BY <2>1, ToolLoopFinds
    <2>3. PICK n \in Nat : n = Len(results)
      BY DEF RunInv, RunTypes
    <2>4. PICK c \in Seq(CallId) : c = a.calls
      BY MsgFields
    <2>5. n + 1 \in 1..Len(c)
      <3>1. PICK l \in Nat : l = Len(c)
        BY <2>4
      <3>2. n <= l /\ n # l
        BY <1>3, <2>2, <2>3, <2>4, <3>1 DEF RunTool, ToolsDone
      <3> QED BY <3>1, <3>2
    <2>6. c[n + 1] \in CallId
      <3> HIDE DEF CallId
      <3> QED BY <2>5
    <2>7. ran' = Append(ran, c[n + 1])
      BY <1>3, <2>2, <2>3, <2>4 DEF RunTool
    <2> HIDE DEF CallId
    <2> QED BY <2>6, <2>7
  <1> QED BY <1>1, <1>2, <1>3
       DEF Next, StartTurn, RunnerStep, Abort, Dequeue, Try, Finish, End,
           NodeStep, Prepare, Enrich, CallLLM, ReturnResults, Summarize,
           NodeReturns, NodeFails, Cancel, Quiet, vars

\* TypeOK holds of every run: it completes at most StepLimit nodes and begins
\* at most MaxAttempts attempts at each (runner.go:68-114), and every history
\* it holds is one of well-formed messages.
THEOREM RunsAreTyped == Spec => []TypeOK
  <1> DEFINE I == RunInv /\ WithinBounds /\ ran \in Seq(CallId)
  <1>1. Init => I
    <2> SUFFICES ASSUME Init PROVE I
      OBVIOUS
    <2>1. RunInv
      BY InitRunInv
    <2>2. WithinBounds
      BY AgentAssumption DEF AgentAssumption, Init, WithinBounds
    <2>3. ran \in Seq(CallId)
      BY DEF Init
    <2> QED BY <2>1, <2>2, <2>3
  <1>2. I /\ [Next]_vars => I'
    BY NextRunInv, NextWithinBounds, RanTyped
  <1>3. I => TypeOK
    BY RunTyped
  <1> HIDE DEF I
  <1> QED BY <1>1, <1>2, <1>3, PTL DEF Spec

-----------------------------------------------------------------------------
(* The answers the agent's requests get: ProviderStreams, with its own     *)
(* state, beside the agent.                                                *)

\* The ids a reader may hold, its accumulators, the stop reasons.
Ids == Nat \cup {NoName}
Accs == [id : Ids, args : Seq(Nat)]
Stops == {"none", "end", "tool", "length"}

\* A call the model has begun: its pieces so far, and whether it is whole.
Requested == [args : Nat, closed : BOOLEAN]

\* Types of the answer, of the reader and of the rest.
SentTypes ==
    sent \in [text : Nat, calls : Seq(Requested),
              stop : Stops, failed : BOOLEAN]

ReaderTypes ==
    /\ reader \in [text : Seq(Nat),
                   open : UNION {[D -> Accs] : D \in SUBSET Nat},
                   order : Seq(Nat), calls : Seq(Accs),
                   other : BOOLEAN, finish : {"stop", "tool", "length"},
                   failed : BOOLEAN]

StreamTypes ==
    /\ provider \in {"anthropic", "compat", "codex"}
    /\ phase \in {"idle", "streaming", "ended", "broken"}
    /\ rounds \in Nat
    /\ lost \in BOOLEAN
    /\ SentTypes /\ ReaderTypes

\* What the server of a provider sends and in which order.
SentInOrder ==
    /\ provider = "anthropic" =>
         /\ \A i \in OpenCalls : i = Len(sent.calls)
         /\ sent.stop # "none" => OpenCalls = {}
    /\ provider = "codex" => OpenCalls = {}
    /\ sent.failed => provider = "codex"

\* Call i as it should be read; how many calls have been handed over:
\* all but the one that is open.
Call(i) == [id |-> i, args |-> Pieces(sent.calls[i].args)]

Handed == IF OpenCalls = {} THEN Len(sent.calls) ELSE Len(sent.calls) - 1

\* Nothing was skipped: the reader holds what was sent.
Exact ==
    /\ reader.text = Pieces(sent.text)
    /\ provider # "compat" => reader.calls = [i \in 1..Handed |-> Call(i)]
    /\ provider = "anthropic" =>
         /\ reader.open = [i \in OpenCalls |-> Call(i)]
         /\ reader.finish = ToFinishReason(sent.stop)
    /\ provider = "compat" =>
         /\ reader.open = [i \in 1..Len(sent.calls) |-> Call(i)]
         /\ reader.order = Pieces(Len(sent.calls))
         /\ reader.finish = ToFinishReason(sent.stop)
    /\ reader.failed = sent.failed

\* The pieces s are of the first n, in order.
Increasing(s, n) ==
    /\ \A i \in DOMAIN s : s[i] \in 1..n
    /\ \A i, j \in DOMAIN s : i < j => s[i] < s[j]

\* Whatever was skipped: what the reader holds belongs to calls the model
\* made, its pieces are in order, no call is held or reported twice, and no
\* call of Anthropic's is both open and reported. Only the compatible reader
\* may not know the id (openai_compat.go:350).
Real ==
    /\ \A i \in DOMAIN reader.open :
         /\ i \in 1..Len(sent.calls)
         /\ Increasing(reader.open[i].args, sent.calls[i].args)
         /\ \/ reader.open[i].id = i
            \/ provider = "compat" /\ reader.open[i].id = NoName
    /\ provider = "anthropic" =>
         \A k \in DOMAIN reader.calls :
            reader.calls[k].id \notin DOMAIN reader.open
    /\ \A k \in DOMAIN reader.calls :
         /\ reader.calls[k].id \in 1..Len(sent.calls)
         /\ \E n \in Nat : Increasing(reader.calls[k].args, n)
    /\ \A j, k \in DOMAIN reader.calls :
         reader.calls[j].id = reader.calls[k].id => j = k
    /\ provider = "compat" =>
         /\ \A k \in DOMAIN reader.order :
                reader.order[k] \in DOMAIN reader.open
         /\ \A j, k \in DOMAIN reader.order :
              reader.order[j] = reader.order[k] => j = k

\* Between two answers nothing is left of the last one.
AtRest ==
    phase = "idle" =>
        sent = NothingSent /\ reader = NewReader /\ lost = FALSE

\* The inductive invariant of the readers.
ReadInv == /\ StreamTypes /\ SentInOrder /\ AtRest
           /\ lost = FALSE => Exact
           /\ Real

\* Texts and arguments as sequences of pieces.
LEMMA PiecesAre ==
    ASSUME NEW n \in Nat
    PROVE  /\ Pieces(n) \in Seq(Nat) /\ Len(Pieces(n)) = n
           /\ DOMAIN Pieces(n) = 1..n
           /\ \A i \in 1..n : Pieces(n)[i] = i
           /\ Append(Pieces(n), n + 1) = Pieces(n + 1)
           /\ Pieces(n) \o <<n + 1>> = Pieces(n + 1)
           /\ <<>> \o Pieces(n) = Pieces(n)
           /\ Increasing(Pieces(n), n)
  <1>1. Pieces(n) \in Seq(Nat) /\ Len(Pieces(n)) = n
        /\ DOMAIN Pieces(n) = 1..n
        /\ \A i \in 1..n : Pieces(n)[i] = i
    BY DEF Pieces
  <1>2. Append(Pieces(n), n + 1) = Pieces(n + 1)
    BY DEF Pieces
  <1>3. Pieces(n) \o <<n + 1>> = Pieces(n + 1)
    BY DEF Pieces
  <1>4. <<>> \o Pieces(n) = Pieces(n)
    BY <1>1
  <1>5. Increasing(Pieces(n), n)
    BY <1>1 DEF Increasing
  <1> QED BY <1>1, <1>2, <1>3, <1>4, <1>5

\* No pieces are the empty text.
LEMMA NoPieces == Pieces(0) = <<>>
  BY DEF Pieces

\* One more piece goes to the end.
LEMMA IncreasingAppend ==
    ASSUME NEW s \in Seq(Nat), NEW n \in Nat, Increasing(s, n)
    PROVE  /\ Increasing(Append(s, n + 1), n + 1)
           /\ Increasing(s \o <<n + 1>>, n + 1)
           /\ Increasing(s, n + 1)
           /\ Increasing(<<>> \o <<n + 1>>, n + 1)
  <1>1. /\ Len(Append(s, n + 1)) = Len(s) + 1 /\ Len(s) \in Nat
        /\ Append(s, n + 1)[Len(s) + 1] = n + 1
        /\ \A i \in 1..Len(s) : Append(s, n + 1)[i] = s[i] /\ s[i] \in Nat
        /\ DOMAIN s = 1..Len(s)
        /\ DOMAIN Append(s, n + 1) = 1..(Len(s) + 1)
    OBVIOUS
  <1>2. \A i \in 1..(Len(s) + 1) : i \in 1..Len(s) \/ i = Len(s) + 1
    BY <1>1
  <1>3. Increasing(Append(s, n + 1), n + 1)
    BY <1>1, <1>2 DEF Increasing
  <1>4. s \o <<n + 1>> = Append(s, n + 1)
    OBVIOUS
  <1>5. Increasing(s, n + 1)
    BY <1>1 DEF Increasing
  <1>6. <<>> \o <<n + 1>> = <<n + 1>>
    OBVIOUS
  <1>7. Increasing(<<n + 1>>, n + 1)
    BY DEF Increasing
  <1> QED BY <1>3, <1>4, <1>5, <1>6, <1>7

\* Nothing was sent and nothing was read.
LEMMA InitReadInv ==
    ASSUME StreamsInit, Providers \subseteq {"anthropic", "compat", "codex"}
    PROVE  ReadInv
  <1> USE DEF StreamsInit
  <1>1. StreamTypes
    <2>1. SentTypes
      BY DEF SentTypes, NothingSent, Stops
    <2>2. <<>> \in UNION {[D -> Accs] : D \in SUBSET Nat}
      <3>1. <<>> \in [{} -> Accs]
        OBVIOUS
      <3> QED BY <3>1
    <2>3. ReaderTypes
      <3>1. /\ reader = [text |-> <<>>, open |-> <<>>, order |-> <<>>,
                        calls |-> <<>>, other |-> FALSE, finish |-> "stop",
                        failed |-> FALSE]
            /\ <<>> \in Seq(Nat) /\ <<>> \in Seq(Accs)
        BY DEF NewReader
      <3> QED BY ONLY <2>2, <3>1 DEF ReaderTypes
    <2> QED BY <2>1, <2>3 DEF StreamTypes
  <1>2. /\ sent.calls = <<>>
        /\ OpenCalls = {}
        /\ sent.failed = FALSE
        /\ sent.text = 0
        /\ sent.stop = "none"
    BY DEF NothingSent, OpenCalls
  <1>3. SentInOrder
    BY <1>2 DEF SentInOrder
  <1>4. Exact
    <2>1. \A S : S = {} => [i \in S |-> Call(i)] = <<>>
      OBVIOUS
    <2>2. 1..0 = {} /\ Handed = 0 /\ Len(sent.calls) = 0
      BY <1>2 DEF Handed
    <2>3. /\ reader.text = <<>> /\ reader.open = <<>> /\ reader.order = <<>>
          /\ reader.calls = <<>> /\ reader.finish = "stop"
          /\ reader.failed = FALSE
      BY DEF NewReader
    <2>4. ToFinishReason(sent.stop) = "stop"
      BY <1>2 DEF ToFinishReason
    <2> QED BY <1>2, <2>1, <2>2, <2>3, <2>4, NoPieces DEF Exact
  <1>5. Real
    BY DEF Real, NewReader
  <1> QED BY <1>1, <1>3, <1>4, <1>5 DEF ReadInv, AtRest
\* What an event that changes neither the calls nor what the reader holds of
\* them leaves as it was.
LEMMA CallsStay ==
    ASSUME ReadInv, UNCHANGED <<provider, sent.calls, reader.open, reader.order,
                                reader.calls>>
    PROVE  Real' /\ OpenCalls' = OpenCalls /\ Handed' = Handed
           /\ \A i : Call(i)' = Call(i)
  <1>1. OpenCalls' = OpenCalls /\ \A i : Call(i)' = Call(i)
    BY DEF OpenCalls, Call
  <1>2. Handed' = Handed
    BY <1>1 DEF Handed
  <1>3. Real'
    BY <1>1 DEF ReadInv, Real
  <1> QED BY <1>1, <1>2, <1>3

\* A piece of text joins the text (anthropic.go:343).
LEMMA SendTextReadInv ==
    ASSUME ReadInv, SendText PROVE ReadInv'
  <1>1. /\ StreamTypes /\ SentInOrder
        /\ provider' = provider /\ rounds' = rounds /\ phase' = phase
        /\ phase = "streaming" /\ sent.stop = "none"
        /\ sent' = [sent EXCEPT !.text = @ + 1]
        /\ DeliverItem(OnText(reader, sent.text + 1))
    BY DEF SendText, Sending, ReadInv
  <1>2. /\ SentTypes' /\ sent'.text = sent.text + 1 /\ sent.text \in Nat
        /\ sent'.calls = sent.calls
        /\ sent'.stop = sent.stop /\ sent'.failed = sent.failed
    BY <1>1 DEF StreamTypes, SentTypes
  <1>3. CASE lost' = lost /\ reader' = OnText(reader, sent.text + 1)
    <2>1. /\ reader'.text = Append(reader.text, sent.text + 1)
          /\ reader'.open = reader.open /\ reader'.order = reader.order
          /\ reader'.calls = reader.calls /\ reader'.finish = reader.finish
          /\ reader'.failed = reader.failed
          /\ ReaderTypes'
      <3>1. ReaderTypes /\ reader' = [reader EXCEPT !.text =
                                         Append(@, sent.text + 1)]
        BY <1>1, <1>3 DEF OnText, StreamTypes
      <3>2. Append(reader.text, sent.text + 1) \in Seq(Nat)
        BY <1>2, <3>1 DEF ReaderTypes
      <3> QED BY <3>1, <3>2 DEF ReaderTypes
    <2>2. /\ Real' /\ OpenCalls' = OpenCalls /\ Handed' = Handed
          /\ \A i : Call(i)' = Call(i)
      BY <1>1, <1>2, <2>1, CallsStay
    <2>3. lost = FALSE => Exact'
      <3>1. Append(Pieces(sent.text), sent.text + 1)
                = Pieces(sent.text + 1)
        BY <1>2, PiecesAre
      <3> QED BY <1>1, <1>2, <2>1, <2>2, <3>1 DEF ReadInv, Exact
    <2>4. StreamTypes' /\ SentInOrder' /\ AtRest'
      BY <1>1, <1>2, <1>3, <2>1, <2>2 DEF StreamTypes, SentInOrder, AtRest
    <2> QED BY <1>3, <2>2, <2>3, <2>4 DEF ReadInv
  <1>4. CASE lost' = TRUE /\ reader' \in {reader, OnOtherItem(reader)}
    <2>0. ReaderTypes' /\ UNCHANGED <<reader.open, reader.order, reader.calls>>
      BY <1>1, <1>4 DEF OnOtherItem, StreamTypes, ReaderTypes
    <2>1. Real' /\ OpenCalls' = OpenCalls
      BY <1>1, <1>2, <2>0, CallsStay
    <2>2. StreamTypes' /\ SentInOrder' /\ AtRest'
      BY <1>1, <1>2, <1>4, <2>0, <2>1 DEF StreamTypes, SentInOrder, AtRest
    <2> QED BY <1>4, <2>1, <2>2 DEF ReadInv
  <1> QED BY <1>1, <1>3, <1>4 DEF Deliver, DeliverItem

\* An event that the reader does not handle: what it holds is still of what
\* was sent.
LEMMA SendStopReadInv ==
    ASSUME ReadInv, SendStop PROVE ReadInv'
  <1>1. PICK stop \in {"end", "tool", "length"} :
          /\ sent' = [sent EXCEPT !.stop = stop]
          /\ Deliver(IF provider = "codex" THEN reader
                        ELSE OnStop(reader, stop))
    BY DEF SendStop
  <1>2. /\ StreamTypes /\ SentInOrder
        /\ provider' = provider /\ rounds' = rounds /\ phase' = phase
        /\ phase = "streaming"
        /\ provider = "anthropic" => OpenCalls = {}
    BY DEF SendStop, Sending, ReadInv
  <1>3. /\ SentTypes' /\ sent'.text = sent.text
        /\ sent'.calls = sent.calls
        /\ sent'.stop = stop /\ sent'.failed = sent.failed
    BY <1>1, <1>2 DEF StreamTypes, SentTypes, Stops
  <1>4. CASE lost' = lost /\ reader' = IF provider = "codex" THEN reader
                                       ELSE OnStop(reader, stop)
    <2>1. /\ reader'.text = reader.text
          /\ reader'.open = reader.open /\ reader'.order = reader.order
          /\ reader'.calls = reader.calls
          /\ provider # "codex" => reader'.finish = ToFinishReason(stop)
          /\ reader'.failed = reader.failed
          /\ ReaderTypes'
      BY <1>2, <1>4 DEF OnStop, StreamTypes, ReaderTypes, ToFinishReason
    <2>2. /\ Real' /\ OpenCalls' = OpenCalls /\ Handed' = Handed
          /\ \A i : Call(i)' = Call(i)
      BY <1>2, <1>3, <2>1, CallsStay
    <2>3. lost = FALSE => Exact'
      BY <1>2, <1>3, <2>1, <2>2 DEF ReadInv, Exact
    <2>4. StreamTypes' /\ SentInOrder' /\ AtRest'
      BY <1>2, <1>3, <1>4, <2>1, <2>2 DEF StreamTypes, SentInOrder, AtRest
    <2> QED BY <1>4, <2>2, <2>3, <2>4 DEF ReadInv
  <1>5. CASE lost' = TRUE /\ reader' = reader
    <2>1. Real' /\ OpenCalls' = OpenCalls
      BY <1>2, <1>3, <1>5, CallsStay
    <2>2. StreamTypes' /\ SentInOrder' /\ AtRest'
      BY <1>2, <1>3, <1>5, <2>1
         DEF StreamTypes, ReaderTypes, SentInOrder, AtRest
    <2> QED BY <1>5, <2>1, <2>2 DEF ReadInv
  <1> QED BY <1>1, <1>4, <1>5 DEF Deliver

\* A failed response is remembered (codex/stream.go:100).
LEMMA SendFailedReadInv ==
    ASSUME ReadInv, SendFailed PROVE ReadInv'
  <1>1. /\ StreamTypes /\ SentInOrder
        /\ provider' = provider /\ rounds' = rounds /\ phase' = phase
        /\ phase = "streaming" /\ provider = "codex" /\ sent.stop = "none"
        /\ sent' = [sent EXCEPT !.failed = TRUE]
        /\ Deliver(OnFailed(reader))
    BY DEF SendFailed, Sending, ReadInv
  <1>2. /\ SentTypes' /\ sent'.text = sent.text /\ sent'.calls = sent.calls
        /\ sent'.stop = sent.stop /\ sent'.failed = TRUE
    BY <1>1 DEF StreamTypes, SentTypes
  <1>3. CASE lost' = lost /\ reader' = OnFailed(reader)
    <2>1. /\ reader'.text = reader.text
          /\ reader'.open = reader.open /\ reader'.order = reader.order
          /\ reader'.calls = reader.calls /\ reader'.finish = reader.finish
          /\ reader'.failed = TRUE
          /\ ReaderTypes'
      BY <1>1, <1>3 DEF OnFailed, StreamTypes, ReaderTypes
    <2>2. /\ Real' /\ OpenCalls' = OpenCalls /\ Handed' = Handed
          /\ \A i : Call(i)' = Call(i)
      BY <1>1, <1>2, <2>1, CallsStay
    <2>3. lost = FALSE => Exact'
      BY <1>1, <1>2, <2>1, <2>2 DEF ReadInv, Exact
    <2>4. StreamTypes' /\ SentInOrder' /\ AtRest'
      BY <1>1, <1>2, <1>3, <2>1, <2>2 DEF StreamTypes, SentInOrder, AtRest
    <2> QED BY <1>3, <2>2, <2>3, <2>4 DEF ReadInv
  <1>4. CASE lost' = TRUE /\ reader' = reader
    <2>1. Real' /\ OpenCalls' = OpenCalls
      BY <1>1, <1>2, <1>4, CallsStay
    <2>2. StreamTypes' /\ SentInOrder' /\ AtRest'
      BY <1>1, <1>2, <1>4, <2>1
         DEF StreamTypes, ReaderTypes, SentInOrder, AtRest
    <2> QED BY <1>4, <2>1, <2>2 DEF ReadInv
  <1> QED BY <1>1, <1>3, <1>4 DEF Deliver

\* An item that is neither text nor call only counts as output
\* (codex/stream.go:124).
LEMMA SendOtherItemReadInv ==
    ASSUME ReadInv, SendOtherItem PROVE ReadInv'
  <1>1. /\ StreamTypes /\ SentInOrder
        /\ UNCHANGED <<provider, rounds, phase, sent>>
        /\ phase = "streaming"
        /\ Deliver(OnOtherItem(reader))
    BY DEF SendOtherItem, Sending, ReadInv
  <1>2. /\ ReaderTypes' /\ lost' \in {lost, TRUE}
        /\ UNCHANGED <<reader.open, reader.order, reader.calls, reader.text,
                       reader.finish, reader.failed>>
    BY <1>1 DEF Deliver, OnOtherItem, StreamTypes, ReaderTypes
  <1>3. /\ Real' /\ OpenCalls' = OpenCalls /\ Handed' = Handed
        /\ \A i : Call(i)' = Call(i)
    BY <1>1, <1>2, CallsStay
  <1>4. lost' = FALSE => Exact'
    BY <1>1, <1>2, <1>3 DEF ReadInv, Exact
  <1>5. StreamTypes' /\ SentInOrder' /\ AtRest'
    BY <1>1, <1>2, <1>3 DEF StreamTypes, SentTypes, SentInOrder, AtRest
  <1> QED BY <1>3, <1>4, <1>5 DEF ReadInv

\* Requests, ends of streams and taken answers.
LEMMA AgentReadInv ==
    ASSUME ReadInv, BeginStream \/ EndStream \/ Take \/ UNCHANGED streamsVars,
           Providers \subseteq {"anthropic", "compat", "codex"}
    PROVE  ReadInv'
  <1>1. CASE BeginStream \/ EndStream \/ UNCHANGED streamsVars
    <2>1. /\ UNCHANGED <<provider, sent, reader, lost>> /\ rounds' \in Nat
          /\ phase' \in {"idle", "streaming", "ended", "broken"}
          /\ (phase' # "idle" \/ phase' = phase)
      BY <1>1 DEF BeginStream, EndStream, streamsVars, ReadInv, StreamTypes
    <2>2. Real' /\ OpenCalls' = OpenCalls /\ Handed' = Handed
          /\ \A i : Call(i)' = Call(i)
      BY <2>1, CallsStay
    <2>3. StreamTypes'
      BY <2>1 DEF ReadInv, StreamTypes, SentTypes, ReaderTypes
    <2>4. SentInOrder' /\ AtRest'
      BY <2>1, <2>2 DEF ReadInv, SentInOrder, AtRest
    <2>5. lost' = FALSE => Exact'
      BY <2>1, <2>2 DEF ReadInv, Exact
    <2> QED BY <2>2, <2>3, <2>4, <2>5 DEF ReadInv
  <1>2. CASE Take
    <2>1. /\ sent' = NothingSent /\ reader' = NewReader /\ lost' = FALSE
          /\ phase' = "idle" /\ UNCHANGED <<provider, rounds>>
          /\ StreamTypes
      BY <1>2 DEF Take, ReadInv
    <2>2. SentTypes' /\ ReaderTypes'
      <3>1. <<>> \in UNION {[D -> Accs] : D \in SUBSET Nat}
        <4>1. <<>> \in [{} -> Accs]
          OBVIOUS
        <4> QED BY <4>1
      <3>2. /\ reader' = [text |-> <<>>, open |-> <<>>, order |-> <<>>,
                         calls |-> <<>>, other |-> FALSE, finish |-> "stop",
                         failed |-> FALSE]
            /\ <<>> \in Seq(Nat) /\ <<>> \in Seq(Accs)
        BY <2>1 DEF NewReader
      <3>3. ReaderTypes'
        BY <3>1, <3>2 DEF ReaderTypes
      <3>4. SentTypes'
        BY <2>1 DEF SentTypes, NothingSent, Stops
      <3> QED BY <3>3, <3>4
    <2>3. StreamTypes' /\ AtRest'
      BY <2>1, <2>2 DEF StreamTypes, AtRest
    <2>4. /\ sent'.calls = <<>> /\ OpenCalls' = {} /\ sent'.failed = FALSE
          /\ sent'.text = 0 /\ sent'.stop = "none"
      BY <2>1 DEF NothingSent, OpenCalls
    <2>5. SentInOrder'
      BY <2>4 DEF SentInOrder
    <2>6. Exact'
      <3>1. \A S : S = {} => [i \in S |-> Call(i)'] = <<>>
        OBVIOUS
      <3>2. 1..0 = {} /\ Handed' = 0 /\ Len(sent'.calls) = 0
        BY <2>4 DEF Handed
      <3>3. /\ reader'.text = <<>> /\ reader'.open = <<>>
            /\ reader'.order = <<>> /\ reader'.calls = <<>>
            /\ reader'.finish = "stop" /\ reader'.failed = FALSE
        BY <2>1 DEF NewReader
      <3>4. ToFinishReason(sent'.stop) = "stop"
        BY <2>4 DEF ToFinishReason
      <3> QED BY <2>4, <3>1, <3>2, <3>3, <3>4, NoPieces DEF Exact
    <2>7. Real'
      BY <2>1 DEF Real, NewReader
    <2> QED BY <2>3, <2>5, <2>6, <2>7 DEF ReadInv
  <1> QED BY <1>1, <1>2
\* The accumulators by index.
Opens == UNION {[D -> Accs] : D \in SUBSET Nat}

\* One accumulator is made or replaced, the others stay.
LEMMA PutIs ==
    ASSUME NEW accs \in Opens, NEW i \in Nat, NEW acc \in Accs
    PROVE  /\ Put(accs, i, acc) \in Opens
           /\ DOMAIN Put(accs, i, acc) = DOMAIN accs \cup {i}
           /\ Put(accs, i, acc)[i] = acc
           /\ \A j \in DOMAIN accs : j # i => Put(accs, i, acc)[j] = accs[j]
  <1>1. PICK D \in SUBSET Nat : accs \in [D -> Accs]
    BY DEF Opens
  <1> DEFINE E == D \cup {i}
  <1>2. E \in SUBSET Nat
    OBVIOUS
  <1>3. Put(accs, i, acc) \in [E -> Accs]
    BY <1>1 DEF Put
  <1>4. Put(accs, i, acc) \in Opens
    BY <1>2, <1>3 DEF Opens
  <1> QED BY <1>4 DEF Put

\* The server sends one more call.
LEMMA OneMoreCall ==
    ASSUME StreamTypes, NEW a \in Nat, NEW c \in BOOLEAN,
           NEW n, n = NextCall,
           sent' = [sent EXCEPT !.calls = Append(@, NewCall(a, c))]
    PROVE  /\ SentTypes' /\ Len(sent.calls) \in Nat
           /\ n = Len(sent.calls) + 1 /\ Len(sent'.calls) = n
           /\ DOMAIN sent.calls = 1..Len(sent.calls)
           /\ sent'.calls[n].args = a /\ Call(n)'
                  = [id |-> n, args |-> Pieces(a)]
           /\ \A i \in 1..Len(sent.calls) : /\ sent'.calls[i] = sent.calls[i]
                                            /\ Call(i)' = Call(i)
           /\ OpenCalls \subseteq 1..Len(sent.calls)
           /\ OpenCalls' = IF c THEN OpenCalls ELSE OpenCalls \cup {n}
           /\ sent'.text = sent.text /\ sent'.stop = sent.stop
           /\ sent'.failed = sent.failed
  <1>1. /\ SentTypes /\ sent'.calls = Append(sent.calls, NewCall(a, c))
        /\ sent.calls \in Seq(Requested)
    BY DEF StreamTypes, SentTypes
  <1>2. /\ NewCall(a, c) \in Requested
        /\ NewCall(a, c).args = a /\ NewCall(a, c).closed = c
    BY DEF NewCall, Requested
  <1>3. /\ sent'.calls \in Seq(Requested)
        /\ Len(sent.calls) \in Nat /\ Len(sent'.calls) = n
        /\ n = Len(sent.calls) + 1
        /\ DOMAIN sent.calls = 1..Len(sent.calls)
        /\ DOMAIN sent'.calls = 1..(Len(sent.calls) + 1)
        /\ sent'.calls[n] = NewCall(a, c)
        /\ \A i \in 1..Len(sent.calls) : sent'.calls[i] = sent.calls[i]
    BY <1>1, <1>2 DEF NextCall
  <1>4. SentTypes' /\ sent'.text = sent.text /\ sent'.stop = sent.stop
        /\ sent'.failed = sent.failed
    BY <1>1, <1>3 DEF SentTypes
  <1>5. OpenCalls \subseteq 1..Len(sent.calls)
    BY <1>3 DEF OpenCalls
  <1>6. OpenCalls' = IF c THEN OpenCalls ELSE OpenCalls \cup {n}
    <2>1. \A i : i \in 1..(Len(sent.calls) + 1) <=>
                 i \in 1..Len(sent.calls) \/ i = Len(sent.calls) + 1
      BY <1>3
    <2>2. \A i : i \in OpenCalls'
              <=> i \in DOMAIN sent'.calls /\ ~sent'.calls[i].closed
      BY DEF OpenCalls
    <2>3. \A i : i \in OpenCalls
              <=> i \in DOMAIN sent.calls /\ ~sent.calls[i].closed
      BY DEF OpenCalls
    <2> QED BY <1>2, <1>3, <2>1, <2>2, <2>3
  <1>7. /\ Call(n)' = [id |-> n, args |-> Pieces(a)]
        /\ \A i \in 1..Len(sent.calls) : Call(i)' = Call(i)
    BY <1>2, <1>3 DEF Call
  <1> QED BY <1>2, <1>3, <1>4, <1>5, <1>6, <1>7

\* The server adds a piece to a call or closes it.
LEMMA CallChanges ==
    ASSUME StreamTypes, NEW i \in DOMAIN sent.calls, NEW a \in Nat,
           NEW c \in BOOLEAN,
           sent' = [sent EXCEPT !.calls = [@ EXCEPT ![i] = NewCall(a, c)]]
    PROVE  /\ SentTypes' /\ Len(sent.calls) \in Nat
           /\ Len(sent'.calls) = Len(sent.calls)
           /\ DOMAIN sent.calls = 1..Len(sent.calls)
           /\ sent'.calls[i].args = a /\ Call(i)'
                  = [id |-> i, args |-> Pieces(a)]
           /\ \A j \in 1..Len(sent.calls) : j # i =>
                /\ sent'.calls[j] = sent.calls[j] /\ Call(j)' = Call(j)
           /\ OpenCalls \subseteq 1..Len(sent.calls)
           /\ OpenCalls'
                  = IF c THEN OpenCalls \ {i} ELSE OpenCalls \cup {i}
           /\ sent'.text = sent.text /\ sent'.stop = sent.stop
           /\ sent'.failed = sent.failed
  <1>1. /\ SentTypes /\ sent'.calls
               = [sent.calls EXCEPT ![i] = NewCall(a, c)]
        /\ sent.calls \in Seq(Requested)
    BY DEF StreamTypes, SentTypes
  <1>2. /\ NewCall(a, c) \in Requested
        /\ NewCall(a, c).args = a /\ NewCall(a, c).closed = c
    BY DEF NewCall, Requested
  <1>3. /\ sent'.calls \in Seq(Requested)
        /\ Len(sent.calls) \in Nat /\ Len(sent'.calls) = Len(sent.calls)
        /\ DOMAIN sent.calls = 1..Len(sent.calls)
        /\ DOMAIN sent'.calls = 1..Len(sent.calls)
        /\ sent'.calls[i] = NewCall(a, c)
        /\ \A j \in 1..Len(sent.calls) : j # i => sent'.calls[j] = sent.calls[j]
    BY <1>1, <1>2
  <1>4. SentTypes' /\ sent'.text = sent.text /\ sent'.stop = sent.stop
        /\ sent'.failed = sent.failed
    BY <1>1, <1>3 DEF SentTypes
  <1>5. OpenCalls \subseteq 1..Len(sent.calls)
    BY <1>3 DEF OpenCalls
  <1>6. OpenCalls' = IF c THEN OpenCalls \ {i} ELSE OpenCalls \cup {i}
    <2>2. \A j : j \in OpenCalls'
              <=> j \in DOMAIN sent'.calls /\ ~sent'.calls[j].closed
      BY DEF OpenCalls
    <2>3. \A j : j \in OpenCalls
              <=> j \in DOMAIN sent.calls /\ ~sent.calls[j].closed
      BY DEF OpenCalls
    <2> QED BY <1>2, <1>3, <2>2, <2>3
  <1> QED BY <1>2, <1>3, <1>4, <1>5, <1>6 DEF Call
\* What was real stays so while the server sends more, if the reader holds
\* the same.
LEMMA RealStays ==
    ASSUME ReadInv, SentTypes',
           UNCHANGED <<provider, reader.open, reader.order, reader.calls>>,
           Len(sent'.calls) >= Len(sent.calls),
           \A i \in 1..Len(sent.calls) :
               sent'.calls[i].args >= sent.calls[i].args
    PROVE  Real'
  <1>1. /\ Real
        /\ sent.calls \in Seq(Requested)
        /\ sent'.calls \in Seq(Requested)
    BY DEF ReadInv, StreamTypes, SentTypes
  <1>2. /\ Len(sent.calls) \in Nat /\ Len(sent'.calls) \in Nat
        /\ \A i \in 1..Len(sent.calls) : /\ i \in 1..Len(sent'.calls)
                                         /\ sent.calls[i].args \in Nat
                                         /\ sent'.calls[i].args \in Nat
    <2>1. /\ \A i \in 1..Len(sent.calls) :
               sent.calls[i] \in Requested
          /\ \A i \in 1..Len(sent'.calls) :
               sent'.calls[i] \in Requested
          /\ Len(sent.calls) \in Nat /\ Len(sent'.calls) \in Nat
      BY <1>1
    <2>2. \A i \in 1..Len(sent.calls) : i \in 1..Len(sent'.calls)
      BY <2>1
    <2> QED BY <2>1, <2>2 DEF Requested
  <1>3. \A i \in DOMAIN reader.open :
          /\ i \in 1..Len(sent'.calls)
          /\ Increasing(reader.open[i].args, sent'.calls[i].args)
    <2> SUFFICES ASSUME NEW i \in DOMAIN reader.open
                 PROVE  /\ i \in 1..Len(sent'.calls)
                        /\ Increasing(reader.open[i].args, sent'.calls[i].args)
      OBVIOUS
    <2>1. /\ i \in 1..Len(sent.calls)
          /\ Increasing(reader.open[i].args, sent.calls[i].args)
      BY <1>1 DEF Real
    <2>2. \A s, m, n : m \in Nat /\ n \in Nat /\ m <= n /\ Increasing(s, m)
                         => Increasing(s, n)
      BY DEF Increasing
    <2>3. sent.calls[i].args <= sent'.calls[i].args
      BY <1>2, <2>1
    <2> QED BY <1>2, <2>1, <2>2, <2>3
  <1> QED BY <1>1, <1>2, <1>3 DEF Real

\* The calls the model has begun, by number.
LEMMA SentCalls ==
    ASSUME StreamTypes
    PROVE  /\ Len(sent.calls) \in Nat /\ DOMAIN sent.calls = 1..Len(sent.calls)
           /\ \A i \in 1..Len(sent.calls) :
                /\ sent.calls[i] \in Requested
                /\ sent.calls[i].args \in Nat
                /\ sent.calls[i].args >= sent.calls[i].args
  <1>1. sent.calls \in Seq(Requested)
    BY DEF StreamTypes, SentTypes
  <1>2. /\ Len(sent.calls) \in Nat /\ DOMAIN sent.calls = 1..Len(sent.calls)
        /\ \A i \in 1..Len(sent.calls) :
             sent.calls[i] \in Requested
    BY <1>1
  <1> QED BY <1>2 DEF Requested

\* A tool_use block opens (anthropic.go:335).
LEMMA SendBlockStartReadInv ==
    ASSUME ReadInv, SendBlockStart PROVE ReadInv'
  <1>1. PICK n : n = NextCall
    OBVIOUS
  <1>2. /\ StreamTypes /\ SentInOrder /\ Real
        /\ provider' = provider /\ rounds' = rounds /\ phase' = phase
        /\ phase = "streaming" /\ sent.stop = "none" /\ ~sent.failed
        /\ provider = "anthropic" /\ OpenCalls = {}
        /\ sent' = [sent EXCEPT !.calls = Append(@, NewCall(0, FALSE))]
        /\ Deliver(OnBlockStart(reader, n))
    BY <1>1 DEF SendBlockStart, Sending, ReadInv
  <1>3. /\ SentTypes' /\ Len(sent.calls) \in Nat
        /\ n = Len(sent.calls) + 1 /\ Len(sent'.calls) = n
        /\ sent'.calls[n].args = 0
        /\ Call(n)' = [id |-> n, args |-> <<>>]
        /\ \A i \in 1..Len(sent.calls) : /\ sent'.calls[i] = sent.calls[i]
                                         /\ Call(i)' = Call(i)
        /\ OpenCalls' = {n}
        /\ sent'.text = sent.text /\ sent'.stop = sent.stop
        /\ sent'.failed = sent.failed
    <2>1. 0 \in Nat /\ FALSE \in BOOLEAN /\ {} \cup {n} = {n}
      OBVIOUS
    <2>2. /\ SentTypes' /\ Len(sent.calls) \in Nat
          /\ n = Len(sent.calls) + 1 /\ Len(sent'.calls) = n
          /\ sent'.calls[n].args = 0
          /\ Call(n)' = [id |-> n, args |-> Pieces(0)]
          /\ \A i \in 1..Len(sent.calls) : /\ sent'.calls[i] = sent.calls[i]
                                           /\ Call(i)' = Call(i)
          /\ OpenCalls'
                 = IF FALSE THEN OpenCalls ELSE OpenCalls \cup {n}
          /\ sent'.text = sent.text /\ sent'.stop = sent.stop
          /\ sent'.failed = sent.failed
      BY <1>1, <1>2, <2>1, OneMoreCall
    <2> QED BY <1>2, <2>1, <2>2, NoPieces
  <1>4. SentInOrder'
    BY <1>2, <1>3 DEF SentInOrder
  <1>5. CASE lost' = TRUE /\ reader' = reader
    <2>1. \A i \in 1..Len(sent.calls) :
             sent'.calls[i].args >= sent.calls[i].args
      BY <1>2, <1>3, SentCalls
    <2>2. /\ UNCHANGED <<provider, reader>> /\ SentTypes'
          /\ Len(sent'.calls) >= Len(sent.calls)
      BY <1>2, <1>3, <1>5
    <2>4. Real'
      BY <2>1, <2>2, RealStays
    <2>3. StreamTypes' /\ AtRest'
      BY <1>2, <1>3, <1>5 DEF StreamTypes, ReaderTypes, AtRest
    <2> QED BY <1>4, <1>5, <2>3, <2>4 DEF ReadInv
  <1>6. CASE lost' = lost /\ reader' = OnBlockStart(reader, n)
    <2>1. /\ reader.open \in Opens
          /\ n \in Nat
          /\ [id |-> n, args |-> <<>>] \in Accs
      BY <1>2, <1>3 DEF StreamTypes, ReaderTypes, Opens, Accs, Ids
    <2>2. /\ reader'.open = Put(reader.open, n, [id |-> n, args |-> <<>>])
          /\ reader'.text = reader.text /\ reader'.order = reader.order
          /\ reader'.calls = reader.calls /\ reader'.finish = reader.finish
          /\ reader'.failed = reader.failed
          /\ reader'.open \in Opens /\ ReaderTypes'
      <3>1. Put(reader.open, n, [id |-> n, args |-> <<>>]) \in Opens
        BY <2>1, PutIs
      <3> QED BY <1>2, <1>6, <3>1
              DEF OnBlockStart, StreamTypes, ReaderTypes, Opens
    <2>3. /\ DOMAIN reader'.open = DOMAIN reader.open \cup {n}
          /\ reader'.open[n] = [id |-> n, args |-> <<>>]
          /\ \A j \in DOMAIN reader.open :
               j # n => reader'.open[j] = reader.open[j]
      <3>1. PICK acc \in Accs : acc = [id |-> n, args |-> <<>>]
        BY <2>1
      <3>2. reader'.open = Put(reader.open, n, acc)
        BY <2>2, <3>1
      <3>3. /\ DOMAIN Put(reader.open, n, acc) = DOMAIN reader.open \cup {n}
            /\ Put(reader.open, n, acc)[n] = acc
            /\ \A j \in DOMAIN reader.open :
                 j # n => Put(reader.open, n, acc)[j] = reader.open[j]
        BY <2>1, <3>1, PutIs
      <3> QED BY <3>1, <3>2, <3>3
    <2>4. Increasing(<<>>, 0)
      BY DEF Increasing
    <2>5. \A j \in DOMAIN reader.open : j \in 1..Len(sent.calls)
      BY <1>2 DEF Real
    <2>6. n \notin 1..Len(sent.calls) /\ \A i \in 1..Len(sent.calls) :
              i \in 1..n
      BY <1>3
    <2>7. Real'
      <3>1. \A i \in DOMAIN reader'.open :
              /\ i \in 1..Len(sent'.calls)
              /\ Increasing(reader'.open[i].args, sent'.calls[i].args)
              /\ reader'.open[i].id = i
        <4> TAKE i \in DOMAIN reader'.open
        <4>1. CASE i = n
          BY <1>3, <2>3, <2>4, <2>6, <4>1
        <4>2. CASE i # n
          <5>1. i \in DOMAIN reader.open /\ reader'.open[i] = reader.open[i]
            BY <2>3, <4>2
          <5>2. i \in 1..Len(sent.calls) /\ sent'.calls[i] = sent.calls[i]
            BY <1>3, <2>5, <5>1
          <5> QED BY <1>2, <1>3, <2>6, <5>1, <5>2 DEF Real
        <4> QED BY <4>1, <4>2
      <3>2. \A k \in DOMAIN reader'.calls :
              /\ reader'.calls[k].id \notin DOMAIN reader'.open
              /\ reader'.calls[k].id \in 1..Len(sent'.calls)
        BY <1>2, <1>3, <2>2, <2>3, <2>6 DEF Real
      <3> QED BY <1>2, <2>2, <3>1, <3>2 DEF Real
    <2>8. lost = FALSE => Exact'
      <3> SUFFICES ASSUME lost = FALSE PROVE Exact'
        OBVIOUS
      <3>1. Exact /\ Handed = Len(sent.calls) /\ Handed' = Len(sent.calls)
        <4>1. n - 1 = Len(sent.calls) /\ {n} # {}
          BY <1>3
        <4> QED BY <1>2, <1>3, <4>1 DEF ReadInv, Handed
      <3>2. reader.open = [i \in {} |-> Call(i)] /\ DOMAIN reader.open = {}
        BY <1>2, <3>1 DEF Exact
      <3>3. reader'.open = [i \in {n} |-> Call(i)']
        <4>1. reader'.open = [j \in {n} |-> [id |-> n, args |-> <<>>]]
          BY <2>2, <3>2 DEF Put
        <4> QED BY <1>3, <4>1
      <3>4. reader'.calls = [i \in 1..Handed' |-> Call(i)']
        <4>1. /\ reader'.calls = reader.calls
              /\ reader.calls = [i \in 1..Len(sent.calls) |-> Call(i)]
          BY <1>2, <2>2, <3>1 DEF Exact
        <4> QED BY <1>3, <3>1, <4>1
      <3> QED BY <1>2, <1>3, <2>2, <3>1, <3>3, <3>4 DEF Exact
    <2>9. StreamTypes' /\ AtRest'
      BY <1>2, <1>3, <1>6, <2>2 DEF StreamTypes, AtRest
    <2> QED BY <1>4, <1>6, <2>7, <2>8, <2>9 DEF ReadInv
  <1> QED BY <1>2, <1>5, <1>6 DEF Deliver
\* A call grows by a piece: what of its state this changes.
LEMMA OneMorePiece ==
    ASSUME StreamTypes, NEW i \in DOMAIN sent.calls, NEW a,
           a = sent.calls[i].args,
           sent' = [sent EXCEPT !.calls[i].args = @ + 1]
    PROVE  /\ SentTypes' /\ a \in Nat /\ Len(sent.calls) \in Nat
           /\ Len(sent'.calls) = Len(sent.calls)
           /\ DOMAIN sent.calls = 1..Len(sent.calls)
           /\ sent'.calls[i].args = a + 1
           /\ Call(i)' = [id |-> i, args |-> Pieces(a + 1)]
           /\ \A j \in 1..Len(sent.calls) : j # i =>
                /\ sent'.calls[j] = sent.calls[j] /\ Call(j)' = Call(j)
           /\ \A j \in 1..Len(sent.calls) :
                sent'.calls[j].args >= sent.calls[j].args
           /\ OpenCalls \subseteq 1..Len(sent.calls)
           /\ OpenCalls' = OpenCalls
           /\ sent'.text = sent.text /\ sent'.stop = sent.stop
           /\ sent'.failed = sent.failed
  <1>1. PICK c : c = sent.calls[i].closed
    OBVIOUS
  <1>2. /\ a \in Nat /\ c \in BOOLEAN /\ a + 1 \in Nat
        /\ sent.calls[i] = NewCall(a, c)
    BY <1>1, SentCalls DEF Requested, NewCall
  <1>3. [sent.calls[i] EXCEPT !.args = @ + 1] = NewCall(a + 1, c)
    BY <1>2 DEF NewCall
  <1>4. sent' = [sent EXCEPT !.calls = [@ EXCEPT ![i] = NewCall(a + 1, c)]]
    BY <1>3
  <1>5. /\ SentTypes' /\ Len(sent.calls) \in Nat
        /\ Len(sent'.calls) = Len(sent.calls)
        /\ DOMAIN sent.calls = 1..Len(sent.calls)
        /\ sent'.calls[i].args = a + 1
        /\ Call(i)' = [id |-> i, args |-> Pieces(a + 1)]
        /\ \A j \in 1..Len(sent.calls) : j # i =>
             /\ sent'.calls[j] = sent.calls[j] /\ Call(j)' = Call(j)
        /\ OpenCalls \subseteq 1..Len(sent.calls)
        /\ OpenCalls'
               = IF c THEN OpenCalls \ {i} ELSE OpenCalls \cup {i}
        /\ sent'.text = sent.text /\ sent'.stop = sent.stop
        /\ sent'.failed = sent.failed
    BY <1>2, <1>4, CallChanges
  <1>6. \A j \in 1..Len(sent.calls) :
           sent'.calls[j].args >= sent.calls[j].args
    <2> TAKE j \in 1..Len(sent.calls)
    <2>1. CASE j = i
      <3>1. sent'.calls[j].args = a + 1 /\ sent.calls[j].args = a
        BY <1>5, <2>1
      <3> QED BY <1>2, <3>1
    <2>2. CASE j # i
      BY <1>5, <2>2, SentCalls
    <2> QED BY <2>1, <2>2
  <1>7. OpenCalls' = OpenCalls
    <2>1. i \in OpenCalls <=> ~c
      BY <1>1 DEF OpenCalls
    <2> QED BY <1>2, <1>5, <2>1
  <1> QED BY <1>2, <1>5, <1>6, <1>7

\* A piece of an open block's arguments (anthropic.go:349): the block may not
\* be open at the reader, its start having been skipped.
LEMMA SendInputDeltaReadInv ==
    ASSUME ReadInv, NEW i, SendInputDelta(i) PROVE ReadInv'
  <1>1. PICK a : a = sent.calls[i].args
    OBVIOUS
  <1>2. /\ StreamTypes /\ SentInOrder /\ Real
        /\ provider' = provider /\ rounds' = rounds /\ phase' = phase
        /\ phase = "streaming" /\ sent.stop = "none" /\ ~sent.failed
        /\ provider = "anthropic"
        /\ i \in OpenCalls /\ i \in DOMAIN sent.calls
        /\ sent' = [sent EXCEPT !.calls[i].args = @ + 1]
        /\ Deliver(OnInputDelta(reader, i, a + 1))
    BY <1>1 DEF SendInputDelta, Sending, ReadInv, OpenCalls
  <1>3. /\ SentTypes' /\ a \in Nat /\ Len(sent.calls) \in Nat
        /\ Len(sent'.calls) = Len(sent.calls)
        /\ DOMAIN sent.calls = 1..Len(sent.calls)
        /\ sent'.calls[i].args = a + 1
        /\ Call(i)' = [id |-> i, args |-> Pieces(a + 1)]
        /\ \A j \in 1..Len(sent.calls) : j # i =>
             /\ sent'.calls[j] = sent.calls[j] /\ Call(j)' = Call(j)
        /\ \A j \in 1..Len(sent.calls) :
             sent'.calls[j].args >= sent.calls[j].args
        /\ OpenCalls \subseteq 1..Len(sent.calls)
        /\ OpenCalls' = OpenCalls
        /\ sent'.text = sent.text /\ sent'.stop = sent.stop
        /\ sent'.failed = sent.failed
    BY <1>1, <1>2, OneMorePiece
  <1>4. SentInOrder' /\ OpenCalls = {i} /\ i = Len(sent.calls)
    BY <1>2, <1>3 DEF SentInOrder
  <1>5. CASE \/ lost' = TRUE /\ reader' = reader
             \/ lost' = lost /\ reader' = reader /\ i \notin DOMAIN reader.open
    <2>1. /\ UNCHANGED <<provider, reader>> /\ SentTypes'
          /\ Len(sent'.calls) >= Len(sent.calls)
      BY <1>2, <1>3, <1>5
    <2>2. Real'
      BY <1>3, <2>1, RealStays
    <2>3. StreamTypes' /\ AtRest'
      BY <1>2, <1>3, <1>5 DEF StreamTypes, ReaderTypes, AtRest
    <2>4. lost' = TRUE
      <3>1. lost = FALSE => i \in DOMAIN reader.open
        BY <1>2 DEF ReadInv, Exact
      <3> QED BY <1>2, <1>5, <3>1 DEF StreamTypes
    <2> QED BY <1>4, <2>2, <2>3, <2>4 DEF ReadInv
  <1>6. CASE /\ lost' = lost /\ i \in DOMAIN reader.open
             /\ reader' = [reader EXCEPT !.open[i].args = Append(@, a + 1)]
    <2>1. PICK D \in SUBSET Nat : reader.open \in [D -> Accs]
      BY <1>2 DEF StreamTypes, ReaderTypes
    <2>2. /\ reader.open[i] \in Accs /\ i \in D
          /\ reader.open[i].args \in Seq(Nat)
          /\ Append(reader.open[i].args, a + 1) \in Seq(Nat)
      BY <1>3, <1>6, <2>1 DEF Accs
    <2>3. PICK acc : acc = [reader.open[i] EXCEPT !.args = Append(@, a + 1)]
      OBVIOUS
    <2>4. /\ acc \in Accs /\ acc.id = reader.open[i].id
          /\ acc.args = Append(reader.open[i].args, a + 1)
      BY <2>2, <2>3 DEF Accs
    <2>5. /\ reader'.open = [reader.open EXCEPT ![i] = acc]
          /\ reader'.text = reader.text /\ reader'.order = reader.order
          /\ reader'.calls = reader.calls /\ reader'.finish = reader.finish
          /\ reader'.failed = reader.failed
          /\ ReaderTypes'
      <3>1. ReaderTypes /\ reader' = [reader EXCEPT !.open =
                                         [reader.open EXCEPT ![i] = acc]]
        BY <1>2, <1>6, <2>3 DEF StreamTypes
      <3>2. [reader.open EXCEPT ![i] = acc] \in [D -> Accs]
        BY <2>1, <2>4
      <3>3. [reader.open EXCEPT ![i] = acc]
              \in UNION {[E -> Accs] : E \in SUBSET Nat}
        BY <2>1, <3>2
      <3> QED BY <3>1, <3>3 DEF ReaderTypes
    <2>6. /\ DOMAIN reader'.open = DOMAIN reader.open
          /\ reader'.open[i] = acc
          /\ \A j \in DOMAIN reader.open :
               j # i => reader'.open[j] = reader.open[j]
      BY <1>6, <2>5
    <2>7. Real'
      <3>1. \A j \in DOMAIN reader'.open :
              /\ j \in 1..Len(sent'.calls)
              /\ Increasing(reader'.open[j].args, sent'.calls[j].args)
              /\ reader'.open[j].id = j
        <4> TAKE j \in DOMAIN reader'.open
        <4>1. /\ j \in 1..Len(sent.calls) /\ j \in DOMAIN reader.open
              /\ Increasing(reader.open[j].args, sent.calls[j].args)
              /\ reader.open[j].id = j
          BY <1>2, <2>6 DEF Real
        <4>2. CASE j = i
          <5>1. Increasing(Append(reader.open[i].args, a + 1), a + 1)
            BY <1>1, <1>3, <2>2, <4>1, <4>2, IncreasingAppend
          <5> QED BY <1>3, <2>4, <2>6, <4>1, <4>2, <5>1
        <4>3. CASE j # i
          BY <1>3, <2>6, <4>1, <4>3
        <4> QED BY <4>2, <4>3
      <3> QED BY <1>2, <1>3, <2>5, <2>6, <3>1 DEF Real
    <2>8. lost = FALSE => Exact'
      <3> SUFFICES ASSUME lost = FALSE PROVE Exact'
        OBVIOUS
      <3>1. Exact /\ Handed' = Handed /\ Handed = Len(sent.calls) - 1
        BY <1>3, <1>4 DEF ReadInv, Handed
      <3>2. /\ reader.open = [j \in {i} |-> Call(j)]
            /\ reader.open[i] = [id |-> i, args |-> Pieces(a)]
        BY <1>1, <1>2, <1>4, <3>1 DEF Exact, Call
      <3>3. acc = Call(i)'
        <4>1. acc = [id |-> i, args |-> Append(Pieces(a), a + 1)]
          <5>1. PICK x : x = Pieces(a)
            OBVIOUS
          <5>2. reader.open[i] = [id |-> i, args |-> x]
            BY <3>2, <5>1
          <5>3. PICK y : y = Append(x, a + 1)
            OBVIOUS
          <5>4. acc = [reader.open[i] EXCEPT !.args = y]
            BY <2>3, <5>2, <5>3
          <5>5. acc = [id |-> i, args |-> y]
            BY <5>2, <5>4
          <5> QED BY <5>1, <5>3, <5>5
        <4>2. Append(Pieces(a), a + 1) = Pieces(a + 1)
          BY <1>3, PiecesAre
        <4> QED BY <1>3, <4>1, <4>2
      <3>4. reader'.open = [j \in {i} |-> Call(j)']
        BY <2>5, <3>2, <3>3
      <3>5. reader'.calls = [j \in 1..Handed' |-> Call(j)']
        <4>1. \A j \in 1..Handed : j \in 1..Len(sent.calls) /\ j # i
          BY <1>3, <1>4, <3>1
        <4>2. /\ reader'.calls = reader.calls
              /\ reader.calls = [j \in 1..Handed |-> Call(j)]
          BY <1>2, <2>5, <3>1 DEF Exact
        <4> QED BY <1>3, <3>1, <4>1, <4>2
      <3> QED BY <1>2, <1>3, <1>4, <2>5, <3>1, <3>4, <3>5 DEF Exact
    <2>9. StreamTypes' /\ AtRest'
      BY <1>2, <1>3, <1>6, <2>5 DEF StreamTypes, AtRest
    <2> QED BY <1>4, <1>6, <2>7, <2>8, <2>9 DEF ReadInv
  <1> QED BY <1>2, <1>5, <1>6 DEF Deliver, OnInputDelta
\* A block closes and its call is handed over, if the reader had it open
\* (anthropic.go:354).
LEMMA SendBlockStopReadInv ==
    ASSUME ReadInv, NEW i, SendBlockStop(i) PROVE ReadInv'
  <1>1. PICK a : a = sent.calls[i].args
    OBVIOUS
  <1>2. /\ StreamTypes /\ SentInOrder /\ Real
        /\ provider' = provider /\ rounds' = rounds /\ phase' = phase
        /\ phase = "streaming" /\ sent.stop = "none" /\ ~sent.failed
        /\ provider = "anthropic"
        /\ i \in OpenCalls /\ i \in DOMAIN sent.calls
        /\ sent' = [sent EXCEPT !.calls[i].closed = TRUE]
        /\ Deliver(OnBlockStop(reader, i))
    BY <1>1 DEF SendBlockStop, Sending, ReadInv, OpenCalls
  <1>3. /\ SentTypes' /\ a \in Nat /\ Len(sent.calls) \in Nat
        /\ Len(sent'.calls) = Len(sent.calls)
        /\ DOMAIN sent.calls = 1..Len(sent.calls)
        /\ sent'.calls[i].args = a
        /\ Call(i)' = [id |-> i, args |-> Pieces(a)]
        /\ \A j \in 1..Len(sent.calls) : j # i =>
             /\ sent'.calls[j] = sent.calls[j] /\ Call(j)' = Call(j)
        /\ OpenCalls \subseteq 1..Len(sent.calls)
        /\ OpenCalls' = OpenCalls \ {i}
        /\ sent'.text = sent.text /\ sent'.stop = sent.stop
        /\ sent'.failed = sent.failed
    <2>1. PICK b : b = TRUE
      OBVIOUS
    <2>2. a \in Nat /\ [sent.calls[i] EXCEPT !.closed = b] = NewCall(a, b)
      <3>1. PICK c : c = sent.calls[i].closed
        OBVIOUS
      <3>2. a \in Nat /\ sent.calls[i] = NewCall(a, c)
        BY <1>1, <1>2, <3>1, SentCalls DEF Requested, NewCall
      <3> QED BY <3>2 DEF NewCall
    <2>3. sent' = [sent EXCEPT !.calls = [@ EXCEPT ![i] = NewCall(a, b)]]
      BY <1>2, <2>1, <2>2
    <2>4. b \in BOOLEAN /\ StreamTypes /\ i \in DOMAIN sent.calls /\ a \in Nat
      BY <1>2, <2>1, <2>2
    <2>5. /\ SentTypes' /\ Len(sent.calls) \in Nat
          /\ Len(sent'.calls) = Len(sent.calls)
          /\ DOMAIN sent.calls = 1..Len(sent.calls)
          /\ sent'.calls[i].args = a
          /\ Call(i)' = [id |-> i, args |-> Pieces(a)]
          /\ \A j \in 1..Len(sent.calls) : j # i =>
               /\ sent'.calls[j] = sent.calls[j] /\ Call(j)' = Call(j)
          /\ OpenCalls \subseteq 1..Len(sent.calls)
          /\ OpenCalls'
                 = IF b THEN OpenCalls \ {i} ELSE OpenCalls \cup {i}
          /\ sent'.text = sent.text /\ sent'.stop = sent.stop
          /\ sent'.failed = sent.failed
      BY <2>3, <2>4, CallChanges
    <2> QED BY <2>1, <2>4, <2>5
  <1>4. /\ SentInOrder' /\ OpenCalls = {i} /\ i = Len(sent.calls)
        /\ OpenCalls' = {}
    BY <1>2, <1>3 DEF SentInOrder
  <1>a. \A j \in 1..Len(sent.calls) :
          /\ sent'.calls[j].args = sent.calls[j].args
          /\ sent'.calls[j].args >= sent.calls[j].args
          /\ Call(j)' = Call(j)
    <2>1. Call(i)' = Call(i)
      BY <1>1, <1>3 DEF Call
    <2>2. \A j \in 1..Len(sent.calls) :
             sent'.calls[j].args = sent.calls[j].args
      BY <1>1, <1>3
    <2> QED BY <1>2, <1>3, <2>1, <2>2, SentCalls
  <1>5. CASE \/ lost' = TRUE /\ reader' = reader
             \/ lost' = lost /\ reader' = reader /\ i \notin DOMAIN reader.open
    <2>1. /\ UNCHANGED <<provider, reader>> /\ SentTypes'
          /\ Len(sent'.calls) >= Len(sent.calls)
      BY <1>2, <1>3, <1>5
    <2>2. Real'
      BY <1>a, <2>1, RealStays
    <2>3. StreamTypes' /\ AtRest'
      BY <1>2, <1>3, <1>5 DEF StreamTypes, ReaderTypes, AtRest
    <2>4. lost' = TRUE
      <3>1. lost = FALSE => i \in DOMAIN reader.open
        BY <1>2 DEF ReadInv, Exact
      <3> QED BY <1>2, <1>5, <3>1 DEF StreamTypes
    <2> QED BY <1>4, <2>2, <2>3, <2>4 DEF ReadInv
  <1>6. CASE /\ lost' = lost /\ i \in DOMAIN reader.open
             /\ reader' = [reader EXCEPT
                   !.calls = Append(@, reader.open[i]),
                   !.open = [j \in DOMAIN reader.open \ {i} |-> reader.open[j]]]
    <2>1. PICK D \in SUBSET Nat : reader.open \in [D -> Accs]
      BY <1>2 DEF StreamTypes, ReaderTypes
    <2>2. /\ reader.open[i] \in Accs /\ i \in D
          /\ reader.calls \in Seq(Accs)
          /\ Append(reader.calls, reader.open[i]) \in Seq(Accs)
      <3>1. reader.calls \in Seq(Accs)
        BY <1>2 DEF StreamTypes, ReaderTypes
      <3>2. reader.open[i] \in Accs /\ i \in D
        BY <1>6, <2>1
      <3> QED BY <3>1, <3>2
    <2>3. /\ reader'.open = [j \in DOMAIN reader.open \ {i} |-> reader.open[j]]
          /\ reader'.text = reader.text /\ reader'.order = reader.order
          /\ reader'.calls = Append(reader.calls, reader.open[i])
          /\ reader'.finish = reader.finish
          /\ reader'.failed = reader.failed
          /\ ReaderTypes'
      <3>1. D \ {i} \in SUBSET Nat
        OBVIOUS
      <3>2. [j \in DOMAIN reader.open \ {i} |-> reader.open[j]]
              \in [D \ {i} -> Accs]
        BY <2>1
      <3>3. [j \in DOMAIN reader.open \ {i} |-> reader.open[j]]
              \in UNION {[E -> Accs] : E \in SUBSET Nat}
        BY <3>1, <3>2
      <3> QED BY <1>2, <1>6, <2>2, <3>3 DEF StreamTypes, ReaderTypes
    <2>4. /\ DOMAIN reader'.open = DOMAIN reader.open \ {i}
          /\ \A j \in DOMAIN reader'.open : reader'.open[j] = reader.open[j]
      BY <2>3
    <2>5. /\ DOMAIN reader.calls = 1..Len(reader.calls)
          /\ DOMAIN reader'.calls = 1..(Len(reader.calls) + 1)
          /\ Len(reader.calls) \in Nat
          /\ \A k \in 1..Len(reader.calls) :
               reader'.calls[k] = reader.calls[k]
          /\ reader'.calls[Len(reader.calls) + 1] = reader.open[i]
          /\ \A k \in 1..(Len(reader.calls) + 1) :
               k \in 1..Len(reader.calls) \/ k = Len(reader.calls) + 1
      BY <2>2, <2>3
    <2>6. /\ reader.open[i].id = i
          /\ Increasing(reader.open[i].args, sent.calls[i].args)
          /\ sent.calls[i].args \in Nat
      BY <1>2, <1>3, <1>6, SentCalls DEF Real
    <2>7. Real'
      <3>1. \A j \in DOMAIN reader'.open :
              /\ j \in 1..Len(sent'.calls)
              /\ Increasing(reader'.open[j].args, sent'.calls[j].args)
              /\ reader'.open[j].id = j
        BY <1>2, <1>3, <1>a, <2>4 DEF Real
      <3>2. \A k \in DOMAIN reader'.calls :
              /\ reader'.calls[k].id \notin DOMAIN reader'.open
              /\ reader'.calls[k].id \in 1..Len(sent'.calls)
              /\ \E n \in Nat : Increasing(reader'.calls[k].args, n)
        <4> TAKE k \in DOMAIN reader'.calls
        <4>1. CASE k = Len(reader.calls) + 1
          BY <1>2, <1>3, <2>4, <2>5, <2>6, <4>1
        <4>2. CASE k \in 1..Len(reader.calls)
          <5>1. /\ k \in DOMAIN reader.calls
                /\ reader'.calls[k] = reader.calls[k]
            BY <2>5, <4>2
          <5> QED BY <1>2, <1>3, <2>4, <5>1 DEF Real
        <4> QED BY <2>5, <4>1, <4>2
      <3>3. \A j, k \in DOMAIN reader'.calls :
              reader'.calls[j].id = reader'.calls[k].id => j = k
        BY <1>2, <1>6, <2>5, <2>6 DEF Real
      <3> QED BY <1>2, <2>3, <3>1, <3>2, <3>3 DEF Real
    <2>8. lost = FALSE => Exact'
      <3> SUFFICES ASSUME lost = FALSE PROVE Exact'
        OBVIOUS
      <3>1. /\ Exact /\ Handed = Len(sent.calls) - 1
            /\ Handed' = Len(sent.calls)
        BY <1>3, <1>4 DEF ReadInv, Handed
      <3>2. reader.open = [j \in {i} |-> Call(j)]
        BY <1>2, <1>4, <3>1 DEF Exact
      <3>3. reader'.open = [j \in OpenCalls' |-> Call(j)']
        BY <1>4, <2>3, <3>2
      <3>4. reader'.calls = [j \in 1..Handed' |-> Call(j)']
        <4>1. reader.calls = [j \in 1..(Len(sent.calls) - 1) |-> Call(j)]
          BY <1>2, <3>1 DEF Exact
        <4>2. /\ Len(reader.calls) = Len(sent.calls) - 1
              /\ Len(sent.calls) \in Nat /\ Len(sent.calls) >= 1
          <5>1. Len(sent.calls) \in Nat /\ Len(sent.calls) >= 1
            BY <1>2, <1>3
          <5> QED BY <2>2, <4>1, <5>1
        <4>3. reader.open[i] = Call(i)
          BY <3>2
        <4>4. \A j \in 1..Len(sent.calls) : reader'.calls[j] = Call(j)'
          <5> TAKE j \in 1..Len(sent.calls)
          <5>1. CASE j = Len(sent.calls)
            BY <1>4, <1>a, <2>5, <4>2, <4>3, <5>1
          <5>2. CASE j # Len(sent.calls)
            <6>1. j \in 1..(Len(sent.calls) - 1)
              BY <4>2, <5>2
            <6> QED BY <1>a, <2>5, <4>1, <4>2, <6>1
          <5> QED BY <5>1, <5>2
        <4>5. DOMAIN reader'.calls = 1..Len(sent.calls)
          BY <2>5, <4>2
        <4>6. reader'.calls = [j \in DOMAIN reader'.calls |-> reader'.calls[j]]
          BY <2>2, <2>3
        <4> QED BY <3>1, <4>4, <4>5, <4>6
      <3> QED BY <1>2, <1>3, <1>4, <2>3, <3>1, <3>3, <3>4 DEF Exact
    <2>9. StreamTypes' /\ AtRest'
      BY <1>2, <1>3, <1>6, <2>3 DEF StreamTypes, AtRest
    <2> QED BY <1>4, <1>6, <2>7, <2>8, <2>9 DEF ReadInv
  <1> QED BY <1>2, <1>5, <1>6 DEF Deliver, OnBlockStop
\* A whole call of Codex (codex/stream.go:89).
LEMMA SendCallItemReadInv ==
    ASSUME ReadInv, MaxPieces \in Nat, SendCallItem PROVE ReadInv'
  <1>1. PICK n : n = NextCall
    OBVIOUS
  <1>2. PICK a \in 0..MaxPieces :
          /\ sent' = [sent EXCEPT !.calls = Append(@, NewCall(a, TRUE))]
          /\ DeliverItem(OnCallItem(reader, n, Pieces(a)))
    BY <1>1 DEF SendCallItem
  <1>3. /\ StreamTypes /\ SentInOrder /\ Real /\ a \in Nat
        /\ provider' = provider /\ rounds' = rounds /\ phase' = phase
        /\ phase = "streaming" /\ sent.stop = "none" /\ ~sent.failed
        /\ provider = "codex" /\ OpenCalls = {}
    BY DEF SendCallItem, Sending, ReadInv, SentInOrder
  <1>4. /\ SentTypes' /\ Len(sent.calls) \in Nat
        /\ n = Len(sent.calls) + 1 /\ Len(sent'.calls) = n
        /\ sent'.calls[n].args = a
        /\ Call(n)' = [id |-> n, args |-> Pieces(a)]
        /\ \A i \in 1..Len(sent.calls) : /\ sent'.calls[i] = sent.calls[i]
                                         /\ Call(i)' = Call(i)
        /\ OpenCalls' = {}
        /\ sent'.text = sent.text /\ sent'.stop = sent.stop
        /\ sent'.failed = sent.failed
    <2>1. PICK b \in BOOLEAN : b = TRUE
      OBVIOUS
    <2>2. sent' = [sent EXCEPT !.calls = Append(@, NewCall(a, b))]
      BY <1>2, <2>1
    <2>3. /\ SentTypes' /\ Len(sent.calls) \in Nat
          /\ n = Len(sent.calls) + 1 /\ Len(sent'.calls) = n
          /\ sent'.calls[n].args = a
          /\ Call(n)' = [id |-> n, args |-> Pieces(a)]
          /\ \A i \in 1..Len(sent.calls) : /\ sent'.calls[i] = sent.calls[i]
                                           /\ Call(i)' = Call(i)
          /\ OpenCalls' = IF b THEN OpenCalls ELSE OpenCalls \cup {n}
          /\ sent'.text = sent.text /\ sent'.stop = sent.stop
          /\ sent'.failed = sent.failed
      <3>1. b \in BOOLEAN /\ StreamTypes /\ a \in Nat /\ n = NextCall
        BY <1>1, <1>3, <2>1
      <3> QED BY <2>2, <3>1, OneMoreCall
    <2> QED BY <1>3, <2>1, <2>3
  <1>5. SentInOrder'
    BY <1>3, <1>4 DEF SentInOrder
  <1>6. CASE lost' = TRUE /\ reader' \in {reader, OnOtherItem(reader)}
    <2>0. ReaderTypes' /\ UNCHANGED <<reader.open, reader.order, reader.calls>>
      BY <1>3, <1>6 DEF OnOtherItem, StreamTypes, ReaderTypes
    <2>1. \A i \in 1..Len(sent.calls) :
             sent'.calls[i].args >= sent.calls[i].args
      BY <1>3, <1>4, SentCalls
    <2>2. /\ UNCHANGED <<provider, reader.open, reader.order, reader.calls>>
          /\ SentTypes' /\ Len(sent'.calls) >= Len(sent.calls)
      BY <1>3, <1>4, <2>0
    <2>3. StreamTypes' /\ AtRest'
      BY <1>3, <1>4, <1>6, <2>0 DEF StreamTypes, AtRest
    <2>4. Real'
      BY <2>1, <2>2, RealStays
    <2> QED BY <1>5, <1>6, <2>3, <2>4 DEF ReadInv
  <1>7. CASE lost' = lost /\ reader' = OnCallItem(reader, n, Pieces(a))
    <2>1. PICK acc : acc = [id |-> n, args |-> Pieces(a)]
      OBVIOUS
    <2>2. /\ acc \in Accs /\ acc.id = n /\ acc.args = Pieces(a)
          /\ reader.calls \in Seq(Accs)
          /\ Append(reader.calls, acc) \in Seq(Accs)
      <3>1. acc \in Accs /\ acc.id = n /\ acc.args = Pieces(a)
        <4>1. Pieces(a) \in Seq(Nat)
          BY <1>3, PiecesAre
        <4>2. n \in Ids
          BY <1>4 DEF Ids
        <4> QED BY <2>1, <4>1, <4>2 DEF Accs
      <3>2. reader.calls \in Seq(Accs)
        BY <1>3 DEF StreamTypes, ReaderTypes
      <3> QED BY <3>1, <3>2
    <2>3. /\ reader'.open = reader.open
          /\ reader'.text = reader.text /\ reader'.order = reader.order
          /\ reader'.calls = Append(reader.calls, acc)
          /\ reader'.finish = reader.finish
          /\ reader'.failed = reader.failed
          /\ ReaderTypes'
      BY <1>3, <1>7, <2>1, <2>2 DEF OnCallItem, StreamTypes, ReaderTypes
    <2>5. /\ DOMAIN reader.calls = 1..Len(reader.calls)
          /\ DOMAIN reader'.calls = 1..(Len(reader.calls) + 1)
          /\ Len(reader.calls) \in Nat
          /\ \A k \in 1..Len(reader.calls) :
               reader'.calls[k] = reader.calls[k]
          /\ reader'.calls[Len(reader.calls) + 1] = acc
          /\ \A k \in 1..(Len(reader.calls) + 1) :
               k \in 1..Len(reader.calls) \/ k = Len(reader.calls) + 1
      BY <2>2, <2>3
    <2>6. /\ n \notin 1..Len(sent.calls) /\ n \in 1..n
          /\ \A i \in 1..Len(sent.calls) : i \in 1..n
      BY <1>4
    <2>7. Real'
      <3>1. \A i \in DOMAIN reader'.open :
              /\ i \in 1..Len(sent'.calls)
              /\ Increasing(reader'.open[i].args, sent'.calls[i].args)
              /\ reader'.open[i].id = i
        <4> TAKE i \in DOMAIN reader'.open
        <4>1. /\ i \in 1..Len(sent.calls)
              /\ Increasing(reader.open[i].args, sent.calls[i].args)
              /\ reader.open[i].id = i
          BY <1>3, <2>3 DEF Real
        <4> QED BY <1>4, <2>3, <2>6, <4>1
      <3>2. \A k \in DOMAIN reader'.calls :
              /\ reader'.calls[k].id \in 1..Len(sent'.calls)
              /\ \E m \in Nat : Increasing(reader'.calls[k].args, m)
        <4> TAKE k \in DOMAIN reader'.calls
        <4>1. CASE k = Len(reader.calls) + 1
          <5>1. Increasing(Pieces(a), a)
            BY <1>3, PiecesAre
          <5> QED BY <1>3, <1>4, <2>2, <2>5, <2>6, <4>1, <5>1
        <4>2. CASE k \in 1..Len(reader.calls)
          <5>1. /\ k \in DOMAIN reader.calls
                /\ reader'.calls[k] = reader.calls[k]
            BY <2>5, <4>2
          <5> QED BY <1>3, <1>4, <2>6, <5>1 DEF Real
        <4> QED BY <2>5, <4>1, <4>2
      <3>3. \A j, k \in DOMAIN reader'.calls :
              reader'.calls[j].id = reader'.calls[k].id => j = k
        <4>1. \A k \in 1..Len(reader.calls) : reader.calls[k].id # n
          BY <1>3, <2>5, <2>6 DEF Real
        <4>2. \A j, k \in 1..Len(reader.calls) :
                reader.calls[j].id = reader.calls[k].id => j = k
          BY <1>3, <2>5 DEF Real
        <4> QED BY <2>2, <2>5, <4>1, <4>2
      <3> QED BY <1>3, <2>3, <3>1, <3>2, <3>3 DEF Real
    <2>8. lost = FALSE => Exact'
      <3> SUFFICES ASSUME lost = FALSE PROVE Exact'
        OBVIOUS
      <3>1. /\ Exact /\ Handed = Len(sent.calls) /\ Handed' = n
        BY <1>3, <1>4 DEF ReadInv, Handed
      <3>2. reader'.calls = [j \in 1..Handed' |-> Call(j)']
        <4>1. reader.calls = [j \in 1..Len(sent.calls) |-> Call(j)]
          BY <1>3, <3>1 DEF Exact
        <4>2. Len(reader.calls) = Len(sent.calls)
          BY <1>4, <2>2, <4>1
        <4>3. \A j \in 1..n : reader'.calls[j] = Call(j)'
          <5> TAKE j \in 1..n
          <5>1. CASE j = n
            BY <1>4, <2>1, <2>5, <4>2, <5>1
          <5>2. CASE j # n
            <6>1. j \in 1..Len(sent.calls)
              BY <1>4, <5>2
            <6> QED BY <1>4, <2>5, <4>1, <4>2, <6>1
          <5> QED BY <5>1, <5>2
        <4>4. DOMAIN reader'.calls = 1..n
          BY <1>4, <2>5, <4>2
        <4>5. reader'.calls = [j \in DOMAIN reader'.calls |-> reader'.calls[j]]
          BY <2>2, <2>3
        <4> QED BY <3>1, <4>3, <4>4, <4>5
      <3> QED BY <1>3, <1>4, <2>3, <3>1, <3>2 DEF Exact
    <2>9. StreamTypes' /\ AtRest'
      BY <1>3, <1>4, <1>7, <2>3 DEF StreamTypes, AtRest
    <2> QED BY <1>5, <1>7, <2>7, <2>8, <2>9 DEF ReadInv
  <1> QED BY <1>2, <1>6, <1>7 DEF Deliver, DeliverItem
\* A delta makes or replaces the accumulator of call i.
LEMMA ToolDeltaIs ==
    ASSUME StreamTypes, NEW i \in Nat, NEW acc \in Accs,
           NEW order \in Seq(Nat),
           reader' = [reader EXCEPT !.open = Put(reader.open, i, acc),
                                    !.order = order]
    PROVE  /\ reader'.open = Put(reader.open, i, acc)
           /\ DOMAIN reader'.open = DOMAIN reader.open \cup {i}
           /\ reader'.open[i] = acc
           /\ \A j \in DOMAIN reader.open :
                j # i => reader'.open[j] = reader.open[j]
           /\ reader'.order = order
           /\ reader'.text = reader.text /\ reader'.calls = reader.calls
           /\ reader'.finish = reader.finish
           /\ reader'.failed = reader.failed
           /\ ReaderTypes'
  <1>1. reader.open \in Opens /\ ReaderTypes /\ reader.order \in Seq(Nat)
    BY DEF StreamTypes, ReaderTypes, Opens
  <1>2. /\ Put(reader.open, i, acc) \in Opens
        /\ DOMAIN Put(reader.open, i, acc) = DOMAIN reader.open \cup {i}
        /\ Put(reader.open, i, acc)[i] = acc
        /\ \A j \in DOMAIN reader.open :
             j # i => Put(reader.open, i, acc)[j] = reader.open[j]
    BY <1>1, PutIs
  <1>4. /\ reader'.open = Put(reader.open, i, acc) /\ reader'.order = order
        /\ reader'.text = reader.text /\ reader'.calls = reader.calls
        /\ reader'.finish = reader.finish /\ reader'.failed = reader.failed
    BY <1>1 DEF ReaderTypes
  <1>5. ReaderTypes'
    BY <1>1, <1>2 DEF ReaderTypes, Opens
  <1> QED BY <1>2, <1>4, <1>5

\* What is real stays so with one more delta of call i.
LEMMA ToolDeltaReal ==
    ASSUME ReadInv, provider = "compat", provider' = provider,
           NEW i \in Nat, NEW acc, ReaderTypes',
           reader'.calls = reader.calls,
           DOMAIN reader'.open = DOMAIN reader.open \cup {i},
           reader'.open[i] = acc,
           \A j \in DOMAIN reader.open :
               j # i => reader'.open[j] = reader.open[j],
           reader'.order = IF i \in DOMAIN reader.open THEN reader.order
                           ELSE Append(reader.order, i),
           Len(sent'.calls) >= Len(sent.calls), Len(sent'.calls) \in Nat,
           i \in 1..Len(sent'.calls),
           acc.id = i \/ acc.id = NoName,
           Increasing(acc.args, sent'.calls[i].args),
           \A j \in 1..Len(sent.calls) : j # i =>
               sent'.calls[j] = sent.calls[j]
    PROVE  Real'
  <1>1. Real /\ StreamTypes /\ Len(sent.calls) \in Nat
    BY SentCalls DEF ReadInv
  <1>2. \A j \in 1..Len(sent.calls) : j \in 1..Len(sent'.calls)
    BY <1>1
  <1>3. \A j \in DOMAIN reader'.open :
          /\ j \in 1..Len(sent'.calls)
          /\ Increasing(reader'.open[j].args, sent'.calls[j].args)
          /\ reader'.open[j].id = j \/ reader'.open[j].id = NoName
    <2> TAKE j \in DOMAIN reader'.open
    <2>1. CASE j = i
      BY <2>1
    <2>2. CASE j # i
      <3>1. /\ j \in DOMAIN reader.open /\ reader'.open[j] = reader.open[j]
            /\ j \in 1..Len(sent.calls)
            /\ Increasing(reader.open[j].args, sent.calls[j].args)
            /\ reader.open[j].id = j \/ reader.open[j].id = NoName
        BY <1>1, <2>2 DEF Real
      <3> QED BY <1>2, <2>2, <3>1
    <2> QED BY <2>1, <2>2
  <1>4. \A k \in DOMAIN reader'.calls :
          /\ reader'.calls[k].id \in 1..Len(sent'.calls)
          /\ \E m \in Nat : Increasing(reader'.calls[k].args, m)
    BY <1>1, <1>2 DEF Real
  <1>5. /\ \A k \in DOMAIN reader'.order :
               reader'.order[k] \in DOMAIN reader'.open
        /\ \A j, k \in DOMAIN reader'.order :
             reader'.order[j] = reader'.order[k] => j = k
    <2>1. /\ \A k \in DOMAIN reader.order :
                 reader.order[k] \in DOMAIN reader.open
          /\ \A j, k \in DOMAIN reader.order :
               reader.order[j] = reader.order[k] => j = k
      BY <1>1 DEF Real
    <2>2. CASE i \in DOMAIN reader.open
      BY <2>1, <2>2
    <2>3. CASE i \notin DOMAIN reader.open
      <3>1. reader.order \in Seq(Nat) /\ reader'.order = Append(reader.order, i)
        BY <1>1, <2>3 DEF StreamTypes, ReaderTypes
      <3>2. /\ DOMAIN reader.order = 1..Len(reader.order)
            /\ DOMAIN reader'.order = 1..(Len(reader.order) + 1)
            /\ Len(reader.order) \in Nat
            /\ \A k \in 1..Len(reader.order) :
                 reader'.order[k] = reader.order[k]
            /\ reader'.order[Len(reader.order) + 1] = i
            /\ \A k \in 1..(Len(reader.order) + 1) :
                 k \in 1..Len(reader.order) \/ k = Len(reader.order) + 1
        BY <3>1
      <3> QED BY <2>1, <2>3, <3>2
    <2> QED BY <2>2, <2>3
  <1>6. \A j, k \in DOMAIN reader'.calls :
          reader'.calls[j].id = reader'.calls[k].id => j = k
    BY <1>1 DEF Real
  <1> QED BY <1>3, <1>4, <1>5, <1>6 DEF Real

\* The first delta of a call (openai_compat.go:350).
LEMMA SendFirstToolDeltaReadInv ==
    ASSUME ReadInv, SendFirstToolDelta PROVE ReadInv'
  <1>1. PICK n : n = NextCall
    OBVIOUS
  <1>2. PICK a \in 0..1 :
          /\ sent' = [sent EXCEPT !.calls = Append(@, NewCall(a, FALSE))]
          /\ Deliver(OnToolDelta(reader, n, TRUE, Pieces(a)))
    BY <1>1 DEF SendFirstToolDelta
  <1>3. /\ StreamTypes /\ SentInOrder /\ Real /\ a \in Nat
        /\ provider' = provider /\ rounds' = rounds /\ phase' = phase
        /\ phase = "streaming" /\ sent.stop = "none" /\ ~sent.failed
        /\ provider = "compat"
    BY DEF SendFirstToolDelta, Sending, ReadInv
  <1>4. /\ SentTypes' /\ Len(sent.calls) \in Nat
        /\ n = Len(sent.calls) + 1 /\ Len(sent'.calls) = n
        /\ sent'.calls[n].args = a
        /\ Call(n)' = [id |-> n, args |-> Pieces(a)]
        /\ \A i \in 1..Len(sent.calls) : /\ sent'.calls[i] = sent.calls[i]
                                         /\ Call(i)' = Call(i)
        /\ sent'.text = sent.text /\ sent'.stop = sent.stop
        /\ sent'.failed = sent.failed
    <2>1. PICK b \in BOOLEAN : b = FALSE
      OBVIOUS
    <2>2. sent' = [sent EXCEPT !.calls = Append(@, NewCall(a, b))]
      BY <1>2, <2>1
    <2>3. b \in BOOLEAN /\ StreamTypes /\ a \in Nat /\ n = NextCall
      BY <1>1, <1>3, <2>1
    <2> QED BY <2>2, <2>3, OneMoreCall
  <1>5. SentInOrder'
    BY <1>3, <1>4 DEF SentInOrder
  <1>6. CASE lost' = TRUE /\ reader' = reader
    <2>1. \A i \in 1..Len(sent.calls) :
             sent'.calls[i].args >= sent.calls[i].args
      BY <1>3, <1>4, SentCalls
    <2>2. /\ UNCHANGED <<provider, reader>> /\ SentTypes'
          /\ Len(sent'.calls) >= Len(sent.calls)
      BY <1>3, <1>4, <1>6
    <2>3. StreamTypes' /\ AtRest'
      BY <1>3, <1>4, <1>6 DEF StreamTypes, ReaderTypes, AtRest
    <2>4. Real'
      BY <2>1, <2>2, RealStays
    <2> QED BY <1>5, <1>6, <2>3, <2>4 DEF ReadInv
  <1>7. CASE lost' = lost /\ reader'
                 = OnToolDelta(reader, n, TRUE, Pieces(a))
    <2>1. n \in Nat /\ n \in Ids /\ n \notin DOMAIN reader.open
      BY <1>3, <1>4 DEF Ids, Real
    <2>4. Pieces(a) \in Seq(Nat) /\ <<>> \o Pieces(a) = Pieces(a)
          /\ Increasing(Pieces(a), a)
      BY <1>3, PiecesAre
    <2>5. PICK acc : acc = [id |-> n, args |-> Pieces(a)]
      OBVIOUS
    <2>a. PICK order : order = IF n \in DOMAIN reader.open THEN reader.order
                               ELSE Append(reader.order, n)
      OBVIOUS
    <2>b. acc \in Accs /\ acc.args = Pieces(a) /\ acc.id = n
      BY <2>1, <2>4, <2>5 DEF Accs
    <2>6. /\ reader'.open = Put(reader.open, n, acc)
          /\ DOMAIN reader'.open = DOMAIN reader.open \cup {n}
          /\ reader'.open[n] = acc
          /\ \A j \in DOMAIN reader.open :
               j # n => reader'.open[j] = reader.open[j]
          /\ reader'.order = order
          /\ reader'.text = reader.text /\ reader'.calls = reader.calls
          /\ reader'.finish = reader.finish
          /\ reader'.failed = reader.failed
          /\ ReaderTypes'
      <3>1. reader' = [reader EXCEPT !.open = Put(reader.open, n, acc),
                                     !.order = order]
        BY <1>7, <2>1, <2>4, <2>5, <2>a DEF OnToolDelta
      <3>2. order \in Seq(Nat)
        BY <1>3, <2>1, <2>a DEF StreamTypes, ReaderTypes
      <3>3. acc \in Accs /\ StreamTypes /\ n \in Nat
        BY <1>3, <2>1, <2>b
      <3> QED BY ONLY <3>1, <3>2, <3>3, ToolDeltaIs
    <2>8. /\ Len(sent'.calls) >= Len(sent.calls) /\ Len(sent'.calls) \in Nat
          /\ n \in 1..Len(sent'.calls) /\ provider' = provider
          /\ provider = "compat"
          /\ Increasing(acc.args, sent'.calls[n].args)
          /\ \A j \in 1..Len(sent.calls) : j # n =>
               sent'.calls[j] = sent.calls[j]
      BY <1>3, <1>4, <2>4, <2>b
    <2>9. Real'
      BY <2>1, <2>6, <2>a, <2>b, <2>8, ToolDeltaReal
    <2>10. lost = FALSE => Exact'
      <3> SUFFICES ASSUME lost = FALSE PROVE Exact'
        OBVIOUS
      <3>1. Exact
        BY DEF ReadInv
      <3>2. reader'.open = [j \in 1..n |-> Call(j)']
        <4>1. reader.open = [j \in 1..Len(sent.calls) |-> Call(j)]
          BY <1>3, <3>1 DEF Exact
        <4>2. 1..Len(sent.calls) \cup {n} = 1..n
          BY <1>4
        <4>3. \A j \in 1..n : IF j = n THEN acc = Call(j)'
                              ELSE reader.open[j] = Call(j)'
          <5> TAKE j \in 1..n
          <5>1. j # n => j \in 1..Len(sent.calls)
            BY <1>4
          <5> QED BY <1>4, <2>5, <4>1, <5>1
        <4> QED BY <2>6, <4>1, <4>2, <4>3 DEF Put
      <3>3. reader'.order = Pieces(n)
        <4>1. reader'.order = Append(Pieces(Len(sent.calls)), n)
          BY <1>3, <2>1, <2>6, <2>a, <3>1 DEF Exact
        <4> QED BY <1>4, <4>1, PiecesAre
      <3> QED BY <1>3, <1>4, <2>6, <3>1, <3>2, <3>3 DEF Exact
    <2>11. StreamTypes' /\ AtRest'
      BY <1>3, <1>4, <1>7, <2>6 DEF StreamTypes, AtRest
    <2> QED BY <1>5, <1>7, <2>9, <2>10, <2>11 DEF ReadInv
  <1> QED BY <1>2, <1>6, <1>7 DEF Deliver
\* A later delta: if the first one was skipped, it makes an accumulator
\* without id and name (openai_compat.go:350).
LEMMA SendToolDeltaReadInv ==
    ASSUME ReadInv, NEW i, SendToolDelta(i) PROVE ReadInv'
  <1>1. PICK a : a = sent.calls[i].args
    OBVIOUS
  <1>2. /\ StreamTypes /\ SentInOrder /\ Real
        /\ provider' = provider /\ rounds' = rounds /\ phase' = phase
        /\ phase = "streaming" /\ sent.stop = "none" /\ ~sent.failed
        /\ provider = "compat" /\ i \in DOMAIN sent.calls
        /\ sent' = [sent EXCEPT !.calls[i].args = @ + 1]
        /\ Deliver(OnToolDelta(reader, i, FALSE, <<a + 1>>))
    BY <1>1 DEF SendToolDelta, Sending, ReadInv
  <1>3. /\ SentTypes' /\ a \in Nat /\ Len(sent.calls) \in Nat
        /\ Len(sent'.calls) = Len(sent.calls)
        /\ DOMAIN sent.calls = 1..Len(sent.calls)
        /\ sent'.calls[i].args = a + 1
        /\ Call(i)' = [id |-> i, args |-> Pieces(a + 1)]
        /\ \A j \in 1..Len(sent.calls) : j # i =>
             /\ sent'.calls[j] = sent.calls[j] /\ Call(j)' = Call(j)
        /\ \A j \in 1..Len(sent.calls) :
             sent'.calls[j].args >= sent.calls[j].args
        /\ OpenCalls \subseteq 1..Len(sent.calls)
        /\ OpenCalls' = OpenCalls
        /\ sent'.text = sent.text /\ sent'.stop = sent.stop
        /\ sent'.failed = sent.failed
    BY <1>1, <1>2, OneMorePiece
  <1>4. SentInOrder'
    BY <1>2, <1>3 DEF SentInOrder
  <1>5. CASE lost' = TRUE /\ reader' = reader
    <2>1. /\ UNCHANGED <<provider, reader>> /\ SentTypes'
          /\ Len(sent'.calls) >= Len(sent.calls)
      BY <1>2, <1>3, <1>5
    <2>2. Real'
      BY <1>3, <2>1, RealStays
    <2>3. StreamTypes' /\ AtRest'
      BY <1>2, <1>3, <1>5 DEF StreamTypes, ReaderTypes, AtRest
    <2> QED BY <1>4, <1>5, <2>2, <2>3 DEF ReadInv
  <1>6. CASE lost' = lost /\ reader'
                 = OnToolDelta(reader, i, FALSE, <<a + 1>>)
    <2>1. i \in Nat /\ i \in 1..Len(sent.calls)
      BY <1>2, <1>3
    <2>2. PICK id : id = IF i \in DOMAIN reader.open THEN reader.open[i].id
                         ELSE NoName
      OBVIOUS
    <2>3. PICK args : args = IF i \in DOMAIN reader.open
                             THEN reader.open[i].args ELSE <<>>
      OBVIOUS
    <2>4. /\ id \in Ids /\ args \in Seq(Nat)
          /\ id = i \/ id = NoName
          /\ Increasing(args, a)
      <3>1. CASE i \in DOMAIN reader.open
        <4>1. reader.open[i] \in Accs
          <5>1. reader.open \in UNION {[D -> Accs] : D \in SUBSET Nat}
            BY <1>2 DEF StreamTypes, ReaderTypes
          <5> QED BY <3>1, <5>1
        <4> QED BY <1>1, <1>2, <2>2, <2>3, <3>1, <4>1 DEF Accs, Real
      <3>2. CASE i \notin DOMAIN reader.open
        BY <2>2, <2>3, <3>2 DEF Ids, Increasing
      <3> QED BY <3>1, <3>2
    <2>5. PICK acc : acc = [id |-> id, args |-> args \o <<a + 1>>]
      OBVIOUS
    <2>6. /\ acc \in Accs /\ acc.args = args \o <<a + 1>> /\ acc.id = id
          /\ Increasing(acc.args, a + 1)
      <3>1. args \o <<a + 1>> \in Seq(Nat)
        BY <1>3, <2>4
      <3>2. Increasing(args \o <<a + 1>>, a + 1)
        BY <1>3, <2>4, IncreasingAppend
      <3> QED BY <2>4, <2>5, <3>1, <3>2 DEF Accs
    <2>a. PICK order : order = IF i \in DOMAIN reader.open THEN reader.order
                               ELSE Append(reader.order, i)
      OBVIOUS
    <2>7. /\ reader'.open = Put(reader.open, i, acc)
          /\ DOMAIN reader'.open = DOMAIN reader.open \cup {i}
          /\ reader'.open[i] = acc
          /\ \A j \in DOMAIN reader.open :
               j # i => reader'.open[j] = reader.open[j]
          /\ reader'.order = order
          /\ reader'.text = reader.text /\ reader'.calls = reader.calls
          /\ reader'.finish = reader.finish
          /\ reader'.failed = reader.failed
          /\ ReaderTypes'
      <3>1. reader' = [reader EXCEPT !.open = Put(reader.open, i, acc),
                                     !.order = order]
        <4>1. CASE i \in DOMAIN reader.open
          BY <1>6, <2>2, <2>3, <2>5, <2>a, <4>1 DEF OnToolDelta
        <4>2. CASE i \notin DOMAIN reader.open
          BY <1>6, <2>2, <2>3, <2>5, <2>a, <4>2 DEF OnToolDelta
        <4> QED BY <4>1, <4>2
      <3>2. order \in Seq(Nat)
        BY <1>2, <2>1, <2>a DEF StreamTypes, ReaderTypes
      <3>3. acc \in Accs /\ StreamTypes /\ i \in Nat
        BY <1>2, <2>1, <2>6
      <3> QED BY ONLY <3>1, <3>2, <3>3, ToolDeltaIs
    <2>8. /\ Len(sent'.calls) >= Len(sent.calls) /\ Len(sent'.calls) \in Nat
          /\ i \in 1..Len(sent'.calls) /\ provider' = provider
          /\ provider = "compat"
          /\ Increasing(acc.args, sent'.calls[i].args)
          /\ \A j \in 1..Len(sent.calls) : j # i =>
               sent'.calls[j] = sent.calls[j]
      BY <1>2, <1>3, <2>1, <2>6
    <2>9. Real'
      BY <2>1, <2>4, <2>6, <2>7, <2>a, <2>8, ToolDeltaReal
    <2>10. lost = FALSE => Exact'
      <3> SUFFICES ASSUME lost = FALSE PROVE Exact'
        OBVIOUS
      <3>1. Exact
        BY DEF ReadInv
      <3>2. /\ reader.open = [j \in 1..Len(sent.calls) |-> Call(j)]
            /\ i \in DOMAIN reader.open /\ order = reader.order
        BY <1>2, <2>1, <2>a, <3>1 DEF Exact
      <3>3. acc = Call(i)'
        <4>1. id = i /\ args = Pieces(a)
          BY <1>1, <2>1, <2>2, <2>3, <3>2 DEF Call
        <4>2. args \o <<a + 1>> = Pieces(a + 1)
          BY <1>3, <4>1, PiecesAre
        <4> QED BY <1>3, <2>5, <4>1, <4>2
      <3>4. reader'.open = [j \in 1..Len(sent.calls) |-> Call(j)']
        <4>1. 1..Len(sent.calls) \cup {i} = 1..Len(sent.calls)
          BY <2>1
        <4> QED BY <1>3, <2>7, <3>2, <3>3, <4>1 DEF Put
      <3> QED BY <1>2, <1>3, <2>7, <3>1, <3>2, <3>4 DEF Exact
    <2>11. StreamTypes' /\ AtRest'
      BY <1>2, <1>3, <1>6, <2>7 DEF StreamTypes, AtRest
    <2> QED BY <1>4, <1>6, <2>9, <2>10, <2>11 DEF ReadInv
  <1> QED BY <1>2, <1>5, <1>6 DEF Deliver

\* Every step keeps the invariant.
LEMMA ReadInvariant ==
    ASSUME Providers \subseteq {"anthropic", "compat", "codex"},
           MaxPieces \in Nat
    PROVE  StreamsSpec => []ReadInv
  <1>1. StreamsInit => ReadInv
    BY InitReadInv
  <1>2. ReadInv /\ [StreamsNext]_streamsVars => ReadInv'
    <2> SUFFICES ASSUME ReadInv, [StreamsNext]_streamsVars PROVE ReadInv'
      OBVIOUS
    <2>1. CASE BeginStream \/ EndStream \/ Take \/ UNCHANGED streamsVars
      BY <2>1, AgentReadInv
    <2>2. CASE SendText
      BY <2>2, SendTextReadInv
    <2>3. CASE SendStop
      BY <2>3, SendStopReadInv
    <2>4. CASE SendBlockStart
      BY <2>4, SendBlockStartReadInv
    <2>5. ASSUME NEW i \in 1..MaxToolCalls,
                 \/ SendInputDelta(i) \/ SendBlockStop(i)
                 \/ SendToolDelta(i)
          PROVE  ReadInv'
      <3>1. CASE SendInputDelta(i)
        BY <3>1, SendInputDeltaReadInv
      <3>2. CASE SendBlockStop(i)
        BY <3>2, SendBlockStopReadInv
      <3>3. CASE SendToolDelta(i)
        BY <3>3, SendToolDeltaReadInv
      <3> QED BY <2>5, <3>1, <3>2, <3>3
    <2>6. CASE SendFirstToolDelta
      BY <2>6, SendFirstToolDeltaReadInv
    <2>7. CASE SendCallItem
      BY <2>7, SendCallItemReadInv
    <2>8. CASE SendFailed
      BY <2>8, SendFailedReadInv
    <2>9. CASE SendOtherItem
      BY <2>9, SendOtherItemReadInv
    <2> QED BY <2>1, <2>2, <2>3, <2>4, <2>5, <2>6, <2>7, <2>8, <2>9
            DEF StreamsNext
  <1> QED BY <1>1, <1>2, PTL DEF StreamsSpec

\* What was read without a gap is what was sent.
LEMMA StreamsRead == ReadInv => StreamIsTheResponse /\ CutStreamIsPrefix
  <1> SUFFICES ASSUME ReadInv PROVE StreamIsTheResponse
                   /\ CutStreamIsPrefix
    OBVIOUS
  <1>0. SUFFICES ASSUME phase = "ended", lost = FALSE
                 PROVE  StreamIsTheResponse /\ CutStreamIsPrefix
    BY DEF StreamIsTheResponse, CutStreamIsPrefix, ReadInv, StreamTypes
  <1>1. /\ StreamTypes /\ SentInOrder /\ Exact
        /\ Len(sent.calls) \in Nat /\ DOMAIN sent.calls = 1..Len(sent.calls)
    BY <1>0, SentCalls DEF ReadInv
  <1>2. /\ ReplyCalls(sent) = [i \in 1..Len(sent.calls) |-> Call(i)]
        /\ Len(ReplyCalls(sent)) = Len(sent.calls)
    BY <1>1 DEF ReplyCalls, Call
  <1>3. /\ ToChatResponse(sent).content = Pieces(sent.text)
        /\ ToChatResponse(sent).calls = ReplyCalls(sent)
        /\ ToChatResponse(sent).finish = ToFinishReason(sent.stop)
    BY DEF ToChatResponse
  <1>4. Error.finish = "error" /\ ToFinishReason(sent.stop) # "error"
    BY DEF Error, ToFinishReason
  <1>5. CASE provider = "anthropic"
    <2>1. Result = AnthropicResult(reader)
      BY <1>0, <1>5 DEF Result
    <2>2. /\ Result.content = Pieces(sent.text)
          /\ Result.calls = [i \in 1..Handed |-> Call(i)]
          /\ Result.finish = IF Result.calls # <<>> THEN "tool"
                                ELSE ToFinishReason(sent.stop)
      BY <1>1, <1>5, <2>1 DEF AnthropicResult, Exact
    <2>3. Result # Error
      BY <1>4, <2>2
    <2>4. OpenCalls = {} => Result.calls = ReplyCalls(sent)
      BY <1>2, <2>2 DEF Handed
    <2>5. OpenCalls # {} => Result.calls = Front(ReplyCalls(sent))
      <3> SUFFICES ASSUME OpenCalls # {}
                   PROVE  Result.calls = Front(ReplyCalls(sent))
        OBVIOUS
      <3>1. Len(sent.calls) \in 1..Len(sent.calls)
        BY <1>1, <1>5 DEF SentInOrder, OpenCalls
      <3>2. Handed = Len(sent.calls) - 1
        BY DEF Handed
      <3>3. Front(ReplyCalls(sent))
                = [i \in 1..(Len(sent.calls) - 1) |-> Call(i)]
        BY <1>1, <1>2, <3>1 DEF Front
      <3> QED BY <2>2, <3>2, <3>3
    <2>6. sent.failed = FALSE
      BY <1>1, <1>5 DEF SentInOrder, StreamTypes, SentTypes
    <2>7. StreamIsTheResponse
      BY <1>1, <1>3, <1>5, <2>2, <2>3, <2>4, <2>6
         DEF StreamIsTheResponse, SentInOrder
    <2>8. CutStreamIsPrefix
      BY <1>3, <1>5, <2>2, <2>4, <2>5 DEF CutStreamIsPrefix
    <2> QED BY <2>7, <2>8
  <1>6. CASE provider = "compat"
    <2>1. Result = CompatResult(reader)
      BY <1>0, <1>6 DEF Result
    <2>2. /\ Result.content = Pieces(sent.text)
          /\ Result.calls = ReplyCalls(sent)
          /\ Result.finish = ToFinishReason(sent.stop)
      <3>1. /\ DOMAIN reader.order = 1..Len(sent.calls)
            /\ \A k \in 1..Len(sent.calls) : reader.order[k] = k
        BY <1>1, <1>6, PiecesAre DEF Exact
      <3>2. [k \in DOMAIN reader.order |-> reader.open[reader.order[k]]]
              = [k \in 1..Len(sent.calls) |-> Call(k)]
        BY <1>1, <1>6, <3>1 DEF Exact
      <3> QED BY <1>1, <1>2, <1>6, <2>1, <3>2 DEF CompatResult, Exact
    <2>3. Result # Error
      BY <1>4, <2>2
    <2>4. sent.failed = FALSE
      BY <1>1, <1>6 DEF SentInOrder, StreamTypes, SentTypes
    <2> QED BY <1>3, <1>6, <2>2, <2>3, <2>4
            DEF StreamIsTheResponse, CutStreamIsPrefix
  <1>7. CASE provider = "codex"
    <2>1. Result = CodexResult(reader)
      BY <1>0, <1>7 DEF Result
    <2>2. Handed = Len(sent.calls) /\ OpenCalls = {}
      BY <1>1, <1>7 DEF SentInOrder, Handed
    <2>3. Result # Error => /\ Result.content = Pieces(sent.text)
                                  /\ Result.calls = ReplyCalls(sent)
      BY <1>1, <1>2, <1>7, <2>1, <2>2 DEF CodexResult, Exact
    <2>4. sent.failed => Result = Error
      BY <1>1, <2>1 DEF CodexResult, Exact
    <2> QED BY <1>3, <1>7, <2>2, <2>3, <2>4
            DEF StreamIsTheResponse, CutStreamIsPrefix
  <1> QED BY <1>1, <1>5, <1>6, <1>7 DEF StreamTypes

\* What is reported was asked for.
LEMMA CallsRead == ReadInv => CallsAreReal
  <1> SUFFICES ASSUME ReadInv, phase = "ended" PROVE CallsAreReal
    BY DEF CallsAreReal
  <1>1. /\ StreamTypes /\ Real /\ DOMAIN sent.calls = 1..Len(sent.calls)
    BY SentCalls DEF ReadInv
  <1>2. \A s, n : Increasing(s, n) /\ s \in Seq(Nat) =>
           \A i \in 1..Len(s) - 1 : s[i] < s[i + 1]
    <2> SUFFICES ASSUME NEW s \in Seq(Nat), NEW n, Increasing(s, n),
                        NEW i \in 1..Len(s) - 1
                 PROVE  s[i] < s[i + 1]
      OBVIOUS
    <2>1. i \in DOMAIN s /\ i + 1 \in DOMAIN s /\ i < i + 1
      OBVIOUS
    <2> QED BY <2>1 DEF Increasing
  <1>3. CASE provider = "compat"
    <2>1. Result = CompatResult(reader)
      BY <1>3 DEF Result
    <2>2. Result.calls = [k \in DOMAIN reader.order |->
                               reader.open[reader.order[k]]]
      BY <2>1 DEF CompatResult
    <2>3. \A k \in DOMAIN Result.calls :
            /\ k \in DOMAIN reader.order
            /\ reader.order[k] \in DOMAIN reader.open
            /\ Result.calls[k] = reader.open[reader.order[k]]
      BY <1>1, <1>3, <2>2 DEF Real
    <2>4. \A k \in DOMAIN Result.calls :
            /\ \/ Result.calls[k].id = reader.order[k]
               \/ Result.calls[k].id = NoName
            /\ reader.order[k] \in DOMAIN sent.calls
            /\ Increasing(Result.calls[k].args,
                          sent.calls[reader.order[k]].args)
            /\ Result.calls[k].args \in Seq(Nat)
      <3> TAKE k \in DOMAIN Result.calls
      <3>1. reader.open[reader.order[k]] \in Accs
        BY <1>1, <2>3 DEF StreamTypes, ReaderTypes
      <3> QED BY <1>1, <2>3, <3>1 DEF Real, Accs
    <2>5. \A k \in DOMAIN Result.calls :
            /\ \/ Result.calls[k].id \in DOMAIN sent.calls
               \/ Result.calls[k].id = NoName
            /\ \A i \in 1..Len(Result.calls[k].args) - 1 :
                 Result.calls[k].args[i] < Result.calls[k].args[i + 1]
      BY <1>2, <2>4
    <2>6. \A j, k \in DOMAIN Result.calls :
            Result.calls[j].id = Result.calls[k].id =>
                  j = k \/ Result.calls[j].id = NoName
      BY <1>1, <1>3, <2>3, <2>4 DEF Real
    <2> QED BY <1>3, <2>5, <2>6 DEF CallsAreReal
  <1>4. CASE provider # "compat"
    <2>1. Result.calls = reader.calls \/ Result.calls = <<>>
      BY <1>1, <1>4
         DEF Result, StreamTypes, AnthropicResult, CodexResult,
             Error
    <2>2. CASE Result.calls = reader.calls
      <3>1. \A k \in DOMAIN reader.calls :
              /\ reader.calls[k].id \in DOMAIN sent.calls
              /\ \A i \in 1..Len(reader.calls[k].args) - 1 :
                   reader.calls[k].args[i] < reader.calls[k].args[i + 1]
        <4> TAKE k \in DOMAIN reader.calls
        <4>1. reader.calls[k] \in Accs
          BY <1>1 DEF StreamTypes, ReaderTypes
        <4>2. reader.calls[k].args \in Seq(Nat)
          BY <4>1 DEF Accs
        <4> QED BY <1>1, <1>2, <4>2 DEF Real
      <3> QED BY <1>1, <2>2, <3>1 DEF Real, CallsAreReal
    <2>3. CASE Result.calls = <<>>
      BY <2>3 DEF CallsAreReal
    <2> QED BY <2>1, <2>2, <2>3
  <1> QED BY <1>3, <1>4

-----------------------------------------------------------------------------
(* The requests: what blocks say of the calls and answers of a             *)
(* conversation, message by message, is what the conversation says.        *)

\* Ids as Take makes them: the request and the id the reader found, or none.
GivenIds == Nat \X Nat
CallIds == GivenIds \cup {NoCall}

\* What is said in a conversation: only the assistant calls tools.
Said ==
    {m \in [role : {"user", "assistant", "tool"}, text : BOOLEAN,
            calls : Seq(CallIds), json : BOOLEAN,
            answers : CallIds \cup {NoCall}] :
        m.role # "assistant" => m.calls = <<>>}

\* What is said when nothing was skipped or cut: arguments are JSON and no
\* call and no answer is without its id.
SoundSaid ==
    {m \in Said : /\ m.json /\ m.calls \in Seq(GivenIds)
                  /\ m.role = "tool" => m.answers \in GivenIds}

\* The blocks of the wire and its messages.
Blocks == [type : {"text", "call", "result"}, id : CallIds \cup {NoCall}]
Wires == [role : {"system", "user", "assistant", "tool"}, blocks : Seq(Blocks)]

\* The calls and answers of a message; their ids.
LinksOf == [m \in Said |->
    IF m.role = "assistant" THEN CallBlocks(m)
    ELSE IF m.role = "tool" THEN <<Block("result", m.answers)>> ELSE <<>>]
IdsOf == [m \in Said |->
    m.calls \o IF m.role = "tool" THEN <<m.answers>> ELSE <<>>]

\* Of a message its wire messages, of a wire message its blocks, of a block
\* what it says.
BuildOf(p) == [m \in Said |-> BuildMessage(p, m)]
BlocksOf == [w \in Wires |-> w.blocks]
LinkOf == [b \in Blocks |-> IF b.type = "text" THEN <<>> ELSE <<b>>]

\* Blocks and wire messages have their types and fields.
LEMMA BlocksAre ==
    /\ \A t, i : t \in {"text", "call", "result"} /\ i \in CallIds \cup {NoCall}
          => /\ Block(t, i) \in Blocks
             /\ Block(t, i).type = t /\ Block(t, i).id = i
    /\ TextBlock \in Blocks /\ TextBlock.type = "text"
    /\ LinkOf \in [Blocks -> Seq(Blocks)]
    /\ BlocksOf \in [Wires -> Seq(Blocks)]
    /\ \A r, bs :
           r \in {"system", "user", "assistant", "tool"} /\ bs \in Seq(Blocks)
          => Wire(r, bs) \in Wires /\ Wire(r, bs).blocks = bs
  <1>1. \A t, i :
            t \in {"text", "call", "result"} /\ i \in CallIds \cup {NoCall}
          => /\ Block(t, i) \in Blocks
             /\ Block(t, i).type = t /\ Block(t, i).id = i
    BY DEF Block, Blocks
  <1>2. TextBlock \in Blocks /\ TextBlock.type = "text"
    BY DEF TextBlock, Block, Blocks
  <1>3. LinkOf \in [Blocks -> Seq(Blocks)]
    <2>1. \A b \in Blocks :
              (IF b.type = "text" THEN <<>> ELSE <<b>>) \in Seq(Blocks)
      OBVIOUS
    <2> QED BY <2>1 DEF LinkOf
  <1>4. BlocksOf \in [Wires -> Seq(Blocks)]
    BY DEF BlocksOf, Wires
  <1>5. \A r, bs :
            r \in {"system", "user", "assistant", "tool"} /\ bs \in Seq(Blocks)
          => Wire(r, bs) \in Wires /\ Wire(r, bs).blocks = bs
    BY DEF Wire, Wires
  <1> QED BY <1>1, <1>2, <1>3, <1>4, <1>5

LEMMA LinksConcat ==
    /\ \A a, b \in Seq(Blocks) :
         View(LinkOf, a \o b) = View(LinkOf, a) \o View(LinkOf, b)
    /\ \A a, b \in Seq(Wires) :
         View(BlocksOf, a \o b) = View(BlocksOf, a) \o View(BlocksOf, b)
  <1>0. LinkOf \in [Blocks -> Seq(Blocks)]
    BY BlocksAre
  <1>1. BlocksOf \in [Wires -> Seq(Blocks)]
    BY BlocksAre
  <1>2. \A a, b \in Seq(Blocks) :
          View(LinkOf, a \o b) = View(LinkOf, a) \o View(LinkOf, b)
    BY ONLY <1>0, ViewConcat
  <1>3. \A a, b \in Seq(Wires) :
          View(BlocksOf, a \o b) = View(BlocksOf, a) \o View(BlocksOf, b)
    BY ONLY <1>1, ViewConcat
  <1> QED BY ONLY <1>2, <1>3

\* Blocks that are not text are all said.
LEMMA LinksOfCalls ==
    ASSUME NEW bs \in Seq(Blocks),
           \A i \in 1..Len(bs) : bs[i].type # "text"
    PROVE  View(LinkOf, bs) = bs
  <1>1. LinkOf \in [Blocks -> Seq(Blocks)]
    BY BlocksAre
  <1>2. \A i \in 1..Len(bs) : LinkOf[bs[i]] = <<bs[i]>>
    BY DEF LinkOf
  <1> QED BY <1>1, <1>2, ViewOfSingles

\* Text says nothing of calls.
LEMMA LinksOfText ==
    ASSUME NEW m \in Said
    PROVE  /\ TextBlocks(m) \in Seq(Blocks)
           /\ View(LinkOf, TextBlocks(m)) = <<>>
           /\ <<TextBlock>> \in Seq(Blocks)
           /\ View(LinkOf, <<TextBlock>>) = <<>>
  <1>0. LinkOf \in [Blocks -> Seq(Blocks)]
    BY BlocksAre
  <1>1. TextBlock \in Blocks /\ TextBlock.type = "text"
    BY BlocksAre
  <1>2. View(LinkOf, <<TextBlock>>) = <<>>
    <2>1. View(LinkOf, <<TextBlock>>) = LinkOf[TextBlock]
      BY ONLY <1>0, <1>1, ViewOfSingle
    <2> QED BY <1>1, <2>1 DEF LinkOf
  <1>3. TextBlocks(m) = <<TextBlock>> \/ TextBlocks(m) = <<>>
    BY DEF TextBlocks
  <1>4. <<TextBlock>> \in Seq(Blocks) /\ <<>> \in Seq(Blocks)
    BY <1>1
  <1> QED BY <1>2, <1>3, <1>4, EmptyView

\* A result says which call it answers.
LEMMA LinksOfAnswer ==
    ASSUME NEW i \in CallIds \cup {NoCall}
    PROVE  /\ <<Block("result", i)>> \in Seq(Blocks)
           /\ View(LinkOf, <<Block("result", i)>>)
                  = <<Block("result", i)>>
  <1>0. LinkOf \in [Blocks -> Seq(Blocks)]
    BY BlocksAre
  <1>1. PICK b \in Blocks : b = Block("result", i) /\ b.type # "text"
    BY BlocksAre
  <1>2. View(LinkOf, <<b>>) = LinkOf[b]
    BY ONLY <1>0, <1>1, ViewOfSingle
  <1>3. LinkOf[b] = <<b>>
    BY <1>1 DEF LinkOf
  <1> QED BY <1>1, <1>2, <1>3

\* A message of the assistant: its text, then its calls.
LEMMA LinksOfAssistant ==
    ASSUME NEW m \in Said
    PROVE  /\ CallBlocks(m) \in Seq(Blocks)
           /\ Len(CallBlocks(m)) = Len(m.calls)
           /\ \A i \in 1..Len(m.calls) :
                CallBlocks(m)[i] = Block("call", m.calls[i])
           /\ TextBlocks(m) \o CallBlocks(m) \in Seq(Blocks)
           /\ View(LinkOf, TextBlocks(m) \o CallBlocks(m))
                  = CallBlocks(m)
  <1>1. m.calls \in Seq(CallIds)
    BY DEF Said
  <1>2. PICK ids \in Seq(CallIds) : ids = m.calls
    BY <1>1
  <1>3. /\ DOMAIN ids = 1..Len(ids) /\ Len(ids) \in Nat
        /\ \A i \in 1..Len(ids) : ids[i] \in CallIds
    BY <1>2
  <1>4. \A i \in 1..Len(ids) : /\ Block("call", ids[i]) \in Blocks
                               /\ Block("call", ids[i]).type = "call"
    BY <1>3, BlocksAre
  <1>5. PICK bs : bs = [i \in 1..Len(ids) |-> Block("call", ids[i])]
    OBVIOUS
  <1>6. CallBlocks(m) = bs
    BY <1>2, <1>3, <1>5 DEF CallBlocks
  <1>7. bs \in Seq(Blocks) /\ Len(bs) = Len(ids)
    BY <1>3, <1>4, <1>5
  <1>8. \A i \in 1..Len(ids) : bs[i] = Block("call", ids[i])
    BY <1>5
  <1>9. View(LinkOf, bs) = bs
    <2>1. \A i \in 1..Len(bs) : bs[i].type # "text"
      BY <1>4, <1>7, <1>8
    <2> QED BY <1>7, <2>1, LinksOfCalls
  <1>10. PICK ts \in Seq(Blocks) :
                  ts = TextBlocks(m) /\ View(LinkOf, ts) = <<>>
    BY LinksOfText
  <1>11. View(LinkOf, ts \o bs) = View(LinkOf, ts) \o View(LinkOf, bs)
    BY <1>7, LinksConcat
  <1>12. <<>> \o bs = bs /\ ts \o bs \in Seq(Blocks)
    BY <1>7
  <1> QED BY <1>2, <1>6, <1>7, <1>8, <1>9, <1>10, <1>11, <1>12

\* One message of the wire says what its blocks say.
LEMMA WireSays ==
    ASSUME NEW r \in {"user", "assistant", "tool"}, NEW bs \in Seq(Blocks)
    PROVE  /\ <<Wire(r, bs)>> \in Seq(Wires)
           /\ View(BlocksOf, <<Wire(r, bs)>>) = bs
  <1>1. PICK w \in Wires : w = Wire(r, bs) /\ w.blocks = bs
    BY BlocksAre
  <1>2. BlocksOf \in [Wires -> Seq(Blocks)]
    BY BlocksAre
  <1>3. View(BlocksOf, <<w>>) = BlocksOf[w]
    BY ONLY <1>2, ViewOfSingle
  <1>4. BlocksOf[w] = bs
    BY <1>1 DEF BlocksOf
  <1> QED BY <1>1, <1>3, <1>4

\* Each kind of message, with the blocks it is made of.
LEMMA SaidIs ==
    ASSUME NEW m \in Said
    PROVE  /\ m.role \in {"user", "assistant", "tool"}
           /\ m.calls \in Seq(CallIds) /\ m.answers \in CallIds \cup {NoCall}
           /\ LinksOf[m] \in Seq(Blocks)
           /\ m.role = "assistant" =>
                \A bs : bs = TextBlocks(m) \o CallBlocks(m) =>
                    bs \in Seq(Blocks) /\ View(LinkOf, bs) = LinksOf[m]
           /\ m.role = "tool" =>
                \A bs : bs = <<Block("result", m.answers)>> =>
                    bs \in Seq(Blocks) /\ View(LinkOf, bs) = LinksOf[m]
           /\ m.role = "user" =>
                \A bs : bs \in {TextBlocks(m), <<TextBlock>>} =>
                    bs \in Seq(Blocks) /\ View(LinkOf, bs) = LinksOf[m]
  <1>1. /\ m.role \in {"user", "assistant", "tool"}
        /\ m.calls \in Seq(CallIds) /\ m.answers \in CallIds \cup {NoCall}
    BY DEF Said
  <1>2. /\ m.role = "assistant" => LinksOf[m] = CallBlocks(m)
        /\ m.role = "tool" => LinksOf[m] = <<Block("result", m.answers)>>
        /\ m.role = "user" => LinksOf[m] = <<>>
    BY DEF LinksOf
  <1>3. /\ CallBlocks(m) \in Seq(Blocks)
        /\ TextBlocks(m) \o CallBlocks(m) \in Seq(Blocks)
        /\ View(LinkOf, TextBlocks(m) \o CallBlocks(m)) = CallBlocks(m)
    BY LinksOfAssistant
  <1>4. /\ <<Block("result", m.answers)>> \in Seq(Blocks)
        /\ View(LinkOf, <<Block("result", m.answers)>>)
             = <<Block("result", m.answers)>>
    BY <1>1, LinksOfAnswer
  <1>5. /\ TextBlocks(m) \in Seq(Blocks) /\ View(LinkOf, TextBlocks(m))
               = <<>>
        /\ <<TextBlock>> \in Seq(Blocks) /\ View(LinkOf, <<TextBlock>>)
               = <<>>
    BY LinksOfText
  <1>6. <<>> \in Seq(Blocks)
    OBVIOUS
  <1>7. LinksOf[m] \in Seq(Blocks)
    BY <1>1, <1>2, <1>3, <1>4, <1>6
  <1>8. m.role = "assistant" =>
          \A bs : bs = TextBlocks(m) \o CallBlocks(m) =>
              bs \in Seq(Blocks) /\ View(LinkOf, bs) = LinksOf[m]
    BY ONLY <1>2, <1>3
  <1>9. m.role = "tool" =>
          \A bs : bs = <<Block("result", m.answers)>> =>
              bs \in Seq(Blocks) /\ View(LinkOf, bs) = LinksOf[m]
    BY ONLY <1>2, <1>4
  <1>10. m.role = "user" =>
           \A bs : bs \in {TextBlocks(m), <<TextBlock>>} =>
               bs \in Seq(Blocks) /\ View(LinkOf, bs) = LinksOf[m]
    BY ONLY <1>2, <1>5
  <1> QED BY ONLY <1>1, <1>7, <1>8, <1>9, <1>10

\* An item for each block: the same blocks.
LEMMA ItemsSay ==
    ASSUME NEW bs \in Seq(Blocks)
    PROVE  \A ws : ws = [i \in DOMAIN bs |-> Wire("assistant", <<bs[i]>>)] =>
             ws \in Seq(Wires) /\ View(BlocksOf, ws) = bs
  <1>1. PICK ws : ws = [i \in DOMAIN bs |-> Wire("assistant", <<bs[i]>>)]
    OBVIOUS
  <1>2. /\ DOMAIN bs = 1..Len(bs) /\ Len(bs) \in Nat
        /\ \A i \in 1..Len(bs) : <<bs[i]>> \in Seq(Blocks)
    OBVIOUS
  <1>3. \A i \in 1..Len(bs) : /\ Wire("assistant", <<bs[i]>>) \in Wires
                              /\ Wire("assistant", <<bs[i]>>).blocks
                                     = <<bs[i]>>
    BY <1>2, BlocksAre
  <1>4. ws = [i \in 1..Len(bs) |-> Wire("assistant", <<bs[i]>>)]
    BY <1>1, <1>2
  <1>5. ws \in Seq(Wires) /\ Len(bs) = Len(ws) /\ bs \in Seq(Blocks)
    BY <1>2, <1>3, <1>4
  <1>6. \A i \in 1..Len(ws) : BlocksOf[ws[i]] = <<bs[i]>>
    <2>1. \A i \in 1..Len(bs) : ws[i] \in Wires /\ ws[i].blocks = <<bs[i]>>
      BY <1>3, <1>4
    <2> QED BY <1>5, <2>1 DEF BlocksOf
  <1>7. BlocksOf \in [Wires -> Seq(Blocks)]
    BY BlocksAre
  <1>8. View(BlocksOf, ws) = bs
    <2>1. \A h \in Seq(Wires) : \A t \in Seq(Blocks) :
            Len(t) = Len(h) /\ (\A i \in 1..Len(h) : BlocksOf[h[i]] = <<t[i]>>)
               => View(BlocksOf, h) = t
      BY ONLY <1>7, ViewOfSingles
    <2> QED BY ONLY <1>5, <1>6, <2>1
  <1> QED BY <1>1, <1>5, <1>8

\* What a provider makes of a message says its calls or its answer, and
\* Anthropic's messages have a block (anthropic.go:200).
LEMMA LinksOfMessage ==
    ASSUME NEW m \in Said, NEW p \in {"anthropic", "compat", "codex"}
    PROVE  /\ BuildMessage(p, m) \in Seq(Wires)
           /\ View(LinkOf, View(BlocksOf, BuildMessage(p, m))) = LinksOf[m]
           /\ p = "anthropic" =>
                \A i \in 1..Len(BuildMessage(p, m)) :
                    BuildMessage(p, m)[i].blocks # <<>>
  <1>0. m.role \in {"user", "assistant", "tool"}
    BY SaidIs
  <1>1. PICK ws : ws = BuildMessage(p, m)
    OBVIOUS
  <1> DEFINE Good == /\ ws \in Seq(Wires)
                     /\ View(LinkOf, View(BlocksOf, ws)) = LinksOf[m]
  <1>2. ASSUME NEW r \in {"user", "assistant", "tool"}, NEW bs \in Seq(Blocks),
               View(LinkOf, bs) = LinksOf[m], ws = <<Wire(r, bs)>>
        PROVE  Good /\ (bs # <<>> => \A i \in 1..Len(ws) : ws[i].blocks # <<>>)
    <2>1. /\ <<Wire(r, bs)>> \in Seq(Wires)
          /\ View(BlocksOf, <<Wire(r, bs)>>) = bs
      BY WireSays
    <2>2. Good
      BY <1>2, <2>1
    <2>3. Wire(r, bs).blocks = bs
      BY DEF Wire
    <2>4. \A i \in 1..Len(ws) : ws[i] = Wire(r, bs)
      BY <1>2
    <2> QED BY <2>2, <2>3, <2>4
  <1>3. CASE p = "anthropic"
    <2>1. PICK bs \in Seq(Blocks), r \in {"user", "assistant", "tool"} :
            bs # <<>> /\ View(LinkOf, bs) = LinksOf[m] /\ ws
                = <<Wire(r, bs)>>
      <3>1. CASE m.role = "assistant"
        <4>1. PICK bs : bs = AnthropicAssistantBlocks(m)
          OBVIOUS
        <4>2. ws = <<Wire("assistant", bs)>>
          BY <1>1, <1>3, <3>1, <4>1 DEF BuildMessage, AnthropicMessage
        <4>3. PICK cs : cs = TextBlocks(m) \o CallBlocks(m)
          OBVIOUS
        <4>4. cs \in Seq(Blocks) /\ View(LinkOf, cs) = LinksOf[m]
          BY <3>1, <4>3, SaidIs
        <4>5. bs = IF cs = <<>> THEN <<TextBlock>> ELSE cs
          BY <4>1, <4>3 DEF AnthropicAssistantBlocks
        <4>6. /\ <<TextBlock>> \in Seq(Blocks) /\ <<TextBlock>> # <<>>
              /\ View(LinkOf, <<TextBlock>>) = <<>>
          BY LinksOfText
        <4>7. bs # <<>> /\ bs \in Seq(Blocks) /\ View(LinkOf, bs) = LinksOf[m]
          BY ONLY <4>4, <4>5, <4>6, EmptyView
        <4> QED BY <4>2, <4>7
      <3>2. CASE m.role # "assistant"
        <4>1. PICK bs : bs = AnthropicContentBlocks(m)
          OBVIOUS
        <4>2. ws = <<Wire("user", bs)>>
          BY <1>0, <1>1, <1>3, <3>2, <4>1
             DEF BuildMessage, AnthropicMessage
        <4>3. CASE m.role = "tool"
          <5>1. bs = <<Block("result", m.answers)>>
            BY <4>1, <4>3 DEF AnthropicContentBlocks
          <5>2. bs \in Seq(Blocks) /\ View(LinkOf, bs) = LinksOf[m]
            BY <4>3, <5>1, SaidIs
          <5>3. bs # <<>>
            BY <5>1
          <5> QED BY <4>2, <5>2, <5>3
        <4>4. CASE m.role = "user"
          <5>1. bs = <<TextBlock>>
            BY <4>1, <4>4 DEF AnthropicContentBlocks
          <5>2. bs \in Seq(Blocks) /\ View(LinkOf, bs) = LinksOf[m]
            BY <4>4, <5>1, SaidIs
          <5>3. bs # <<>>
            BY <5>1
          <5> QED BY <4>2, <5>2, <5>3
        <4> QED BY <1>0, <3>2, <4>3, <4>4
      <3> QED BY <3>1, <3>2
    <2>2. Good /\ \A i \in 1..Len(ws) : ws[i].blocks # <<>>
      BY <1>2, <2>1
    <2> QED BY <1>1, <2>2
  <1>4. CASE p # "anthropic" /\ m.role = "tool"
    <2>1. PICK bs : bs = <<Block("result", m.answers)>>
      OBVIOUS
    <2>2. ws = <<Wire("tool", bs)>>
      BY <1>1, <1>4, <2>1 DEF BuildMessage, CompatMessage, CodexItems
    <2>3. bs \in Seq(Blocks) /\ View(LinkOf, bs) = LinksOf[m]
      BY <1>4, <2>1, SaidIs
    <2>4. Good
      BY <1>2, <2>2, <2>3
    <2> QED BY <1>1, <1>4, <2>4
  <1>5. CASE p # "anthropic" /\ m.role = "user"
    <2>1. PICK bs \in {TextBlocks(m), <<TextBlock>>} :
                   ws = <<Wire("user", bs)>>
      BY <1>1, <1>5 DEF BuildMessage, CompatMessage, CodexItems
    <2>2. bs \in Seq(Blocks) /\ View(LinkOf, bs) = LinksOf[m]
      BY <1>5, SaidIs
    <2>3. Good
      BY <1>2, <2>1, <2>2
    <2> QED BY <1>1, <1>5, <2>3
  <1>6. CASE p = "compat" /\ m.role = "assistant"
    <2>1. PICK bs : bs = TextBlocks(m) \o CallBlocks(m)
      OBVIOUS
    <2>2. ws = <<Wire("assistant", bs)>>
      BY <1>1, <1>6, <2>1 DEF BuildMessage, CompatMessage
    <2>3. bs \in Seq(Blocks) /\ View(LinkOf, bs) = LinksOf[m]
      BY <1>6, <2>1, SaidIs
    <2>4. Good
      BY <1>2, <2>2, <2>3
    <2> QED BY <1>1, <1>6, <2>4
  <1>7. CASE p = "codex" /\ m.role = "assistant"
    <2>1. PICK bs : bs = TextBlocks(m) \o CallBlocks(m)
      OBVIOUS
    <2>2. ws = [i \in DOMAIN bs |-> Wire("assistant", <<bs[i]>>)]
      BY <1>1, <1>7, <2>1 DEF BuildMessage, CodexItems
    <2>3. bs \in Seq(Blocks) /\ View(LinkOf, bs) = LinksOf[m]
      BY <1>7, <2>1, SaidIs
    <2>4. ws \in Seq(Wires) /\ View(BlocksOf, ws) = bs
      BY <2>2, <2>3, ItemsSay
    <2> QED BY <1>1, <1>7, <2>3, <2>4
  <1> QED BY <1>0, <1>3, <1>4, <1>5, <1>6, <1>7

\* What the views are made of.
LEMMA LinksType ==
    ASSUME NEW p \in {"anthropic", "compat", "codex"}
    PROVE  /\ LinkOf \in [Blocks -> Seq(Blocks)]
           /\ BlocksOf \in [Wires -> Seq(Blocks)]
           /\ LinksOf \in [Said -> Seq(Blocks)]
           /\ BuildOf(p) \in [Said -> Seq(Wires)]
           /\ \A h \in Seq(Said) : /\ View(LinksOf, h) \in Seq(Blocks)
                                   /\ View(BuildOf(p), h) \in Seq(Wires)
           /\ \A w \in Seq(Wires) : View(BlocksOf, w) \in Seq(Blocks)
  <1>1. /\ LinkOf \in [Blocks -> Seq(Blocks)]
        /\ BlocksOf \in [Wires -> Seq(Blocks)]
    BY BlocksAre
  <1>2. LinksOf \in [Said -> Seq(Blocks)]
    <2>1. \A m \in Said : LinksOf[m] \in Seq(Blocks)
      BY SaidIs
    <2>2. DOMAIN LinksOf = Said /\ LinksOf = [m \in Said |-> LinksOf[m]]
      BY DEF LinksOf
    <2> QED BY ONLY <2>1, <2>2
  <1>3. BuildOf(p) \in [Said -> Seq(Wires)]
    <2>1. \A m \in Said : BuildMessage(p, m) \in Seq(Wires)
      BY LinksOfMessage
    <2> QED BY <2>1 DEF BuildOf
  <1>4. \A h \in Seq(Said) : View(LinksOf, h) \in Seq(Blocks)
    BY ONLY <1>2, ViewType
  <1>5. \A h \in Seq(Said) : View(BuildOf(p), h) \in Seq(Wires)
    BY ONLY <1>3, ViewType
  <1>6. \A w \in Seq(Wires) : View(BlocksOf, w) \in Seq(Blocks)
    BY ONLY <1>1, ViewType
  <1> QED BY ONLY <1>1, <1>2, <1>3, <1>4, <1>5, <1>6

\* What a provider makes of a conversation says its calls and answers.
LEMMA LinksOfHistory ==
    ASSUME NEW p \in {"anthropic", "compat", "codex"}
    PROVE  \A h \in Seq(Said) :
             View(LinkOf, View(BlocksOf, View(BuildOf(p), h)))
                 = View(LinksOf, h)
  <1> DEFINE T == {h \in Seq(Said) :
            View(LinkOf, View(BlocksOf, View(BuildOf(p), h)))
                = View(LinksOf, h)}
  <1>1. <<>> \in T
    BY EmptyView
  <1>2. ASSUME NEW h \in Seq(Said), NEW m \in Said, h \in T
        PROVE  Append(h, m) \in T
    <2>1. PICK ws \in Seq(Wires) : ws = View(BuildOf(p), h)
      BY LinksType
    <2>2. PICK xs \in Seq(Wires) : /\ xs = BuildMessage(p, m)
                                   /\ View(LinkOf, View(BlocksOf, xs))
                                          = LinksOf[m]
      BY LinksOfMessage
    <2>3. View(BuildOf(p), Append(h, m)) = ws \o xs
      <3>1. BuildOf(p) \in [Said -> Seq(Wires)] /\ h \in Seq(Said) /\ m \in Said
        BY LinksType
      <3>2. View(BuildOf(p), Append(h, m))
                = View(BuildOf(p), h) \o BuildOf(p)[m]
        BY ONLY <3>1, ViewAppend
      <3>3. BuildOf(p)[m] = xs
        BY <2>2 DEF BuildOf
      <3> QED BY <2>1, <3>2, <3>3
    <2>4. View(BlocksOf, ws \o xs) = View(BlocksOf, ws) \o View(BlocksOf, xs)
      BY LinksConcat
    <2>5. /\ View(BlocksOf, ws) \in Seq(Blocks)
          /\ View(BlocksOf, xs) \in Seq(Blocks)
      BY LinksType
    <2>6. View(LinkOf, View(BlocksOf, ws) \o View(BlocksOf, xs))
            = View(LinkOf, View(BlocksOf, ws))
                \o View(LinkOf, View(BlocksOf, xs))
      BY <2>5, LinksConcat
    <2>7. View(LinkOf, View(BlocksOf, ws)) = View(LinksOf, h)
      BY <1>2, <2>1
    <2>8. View(LinksOf, Append(h, m)) = View(LinksOf, h) \o LinksOf[m]
      <3>1. LinksOf \in [Said -> Seq(Blocks)] /\ h \in Seq(Said) /\ m \in Said
        BY LinksType
      <3> QED BY ONLY <3>1, ViewAppend
    <2>9. Append(h, m) \in Seq(Said)
      OBVIOUS
    <2> QED BY <2>2, <2>3, <2>4, <2>6, <2>7, <2>8, <2>9
  <1> HIDE DEF T
  <1>3. \A h \in Seq(Said) : h \in T
    BY <1>1, <1>2, SeqInduction
  <1> QED BY <1>3 DEF T

\* The ids of a message are those of its calls or its answer.
LEMMA IdsOfMessage ==
    ASSUME NEW m \in Said
    PROVE  /\ IdsOf[m] \in Seq(CallIds \cup {NoCall})
           /\ Len(IdsOf[m]) = Len(LinksOf[m])
           /\ \A i \in 1..Len(LinksOf[m]) : IdsOf[m][i] = LinksOf[m][i].id
  <1>1. /\ m.role \in {"user", "assistant", "tool"}
        /\ m.calls \in Seq(CallIds) /\ m.answers \in CallIds \cup {NoCall}
        /\ m.role # "assistant" => m.calls = <<>>
    BY DEF Said
  <1>2. CASE m.role = "assistant"
    <2>1. PICK ids \in Seq(CallIds) : ids = m.calls
      BY <1>1
    <2>2. IdsOf[m] = ids \o <<>> /\ LinksOf[m] = CallBlocks(m)
      BY <1>2, <2>1 DEF IdsOf, LinksOf
    <2>3. IdsOf[m] = ids /\ ids \in Seq(CallIds \cup {NoCall})
          /\ \A i \in 1..Len(ids) : ids[i] \in CallIds
      BY <2>1, <2>2
    <2>4. /\ Len(CallBlocks(m)) = Len(ids)
          /\ \A i \in 1..Len(ids) :
                 CallBlocks(m)[i] = Block("call", ids[i])
      BY <2>1, LinksOfAssistant
    <2>5. \A i : Block("call", i).id = i
      BY DEF Block
    <2> QED BY ONLY <2>2, <2>3, <2>4, <2>5
  <1>3. CASE m.role = "tool"
    <2>1. IdsOf[m] = <<m.answers>>
      <3>1. IdsOf[m] = m.calls \o <<m.answers>>
        BY <1>3 DEF IdsOf
      <3>2. <<>> \o <<m.answers>> = <<m.answers>>
        OBVIOUS
      <3> QED BY <1>1, <1>3, <3>1, <3>2
    <2>2. LinksOf[m] = <<Block("result", m.answers)>>
      BY <1>3 DEF LinksOf
    <2>3. Block("result", m.answers).id = m.answers
      BY DEF Block
    <2> QED BY <1>1, <2>1, <2>2, <2>3
  <1>4. CASE m.role = "user"
    <2>1. IdsOf[m] = <<>>
      <3>1. IdsOf[m] = m.calls \o <<>>
        BY <1>4 DEF IdsOf
      <3> QED BY <1>1, <1>4, <3>1
    <2>2. LinksOf[m] = <<>>
      BY <1>4 DEF LinksOf
    <2> QED BY <2>1, <2>2
  <1> QED BY <1>1, <1>2, <1>3, <1>4

\* The ids of a conversation are those of what it says, one by one.
LEMMA IdsOfHistory ==
    \A h \in Seq(Said) :
        /\ Len(View(IdsOf, h)) = Len(View(LinksOf, h))
        /\ View(IdsOf, h) \in Seq(CallIds \cup {NoCall})
        /\ \A i \in 1..Len(View(LinksOf, h)) :
             View(IdsOf, h)[i] = View(LinksOf, h)[i].id
  <1> DEFINE I == CallIds \cup {NoCall}
             Same(a, b) == Len(a) = Len(b) /\ \A i \in 1..Len(b) :
                 a[i] = b[i].id
             T == {h \in Seq(Said) : Same(View(IdsOf, h), View(LinksOf, h))}
  <1>0. /\ IdsOf \in [Said -> Seq(I)]
        /\ LinksOf \in [Said -> Seq(Blocks)]
    <2>1. \A m \in Said : IdsOf[m] \in Seq(I)
      BY IdsOfMessage
    <2>2. IdsOf = [m \in Said |-> IdsOf[m]]
      BY DEF IdsOf
    <2>3. IdsOf \in [Said -> Seq(I)]
      BY ONLY <2>1, <2>2
    <2> QED BY <2>3, LinksType
  <1>1. <<>> \in T
    BY EmptyView
  <1>2. ASSUME NEW h \in Seq(Said), NEW m \in Said, h \in T
        PROVE  Append(h, m) \in T
    <2>1. PICK a \in Seq(I), b \in Seq(Blocks) :
            a = View(IdsOf, h) /\ b = View(LinksOf, h)
      BY <1>0, ViewType
    <2>2. PICK c \in Seq(I), d \in Seq(Blocks) : c = IdsOf[m] /\ d = LinksOf[m]
      BY <1>0
    <2>3. Same(a, b)
      BY <1>2, <2>1
    <2>4. Same(c, d)
      BY <2>2, IdsOfMessage
    <2>5. Same(a \o c, b \o d)
      <3>1. /\ Len(a) \in Nat /\ Len(c) \in Nat
            /\ Len(a \o c) = Len(a) + Len(c)
            /\ \A i \in 1..(Len(a) + Len(c)) :
                 (a \o c)[i] = IF i <= Len(a) THEN a[i] ELSE c[i - Len(a)]
        BY <2>1, <2>2, ConcatProperties
      <3>2. /\ Len(b \o d) = Len(b) + Len(d)
            /\ \A i \in 1..(Len(b) + Len(d)) :
                 (b \o d)[i] = IF i <= Len(b) THEN b[i] ELSE d[i - Len(b)]
        BY <2>1, <2>2, ConcatProperties
      <3>3. Len(a) = Len(b) /\ Len(c) = Len(d)
        BY <2>3, <2>4
      <3>4. ASSUME NEW i \in 1..Len(b \o d)
            PROVE  (a \o c)[i] = (b \o d)[i].id
        <4>0. i \in 1..(Len(a) + Len(c))
          BY <3>2, <3>3
        <4>1. CASE i <= Len(a)
          <5>1. i \in 1..Len(b) /\ (a \o c)[i] = a[i] /\ (b \o d)[i] = b[i]
            BY <3>1, <3>2, <3>3, <4>0, <4>1
          <5> QED BY <2>3, <5>1
        <4>2. CASE ~(i <= Len(a))
          <5>1. PICK j \in 1..Len(d) : j = i - Len(a)
            BY <3>1, <3>3, <4>0, <4>2
          <5>2. (a \o c)[i] = c[j] /\ (b \o d)[i] = d[j]
            BY <3>1, <3>2, <3>3, <4>0, <4>2, <5>1
          <5> QED BY <2>4, <5>1, <5>2
        <4> QED BY <4>1, <4>2
      <3> QED BY <3>1, <3>2, <3>3, <3>4
    <2>6. /\ View(IdsOf, Append(h, m)) = a \o c
          /\ View(LinksOf, Append(h, m)) = b \o d
      <3>1. h \in Seq(Said) /\ m \in Said
        OBVIOUS
      <3>2. View(IdsOf, Append(h, m)) = View(IdsOf, h) \o IdsOf[m]
        BY ONLY <1>0, <3>1, ViewAppend
      <3>3. View(LinksOf, Append(h, m)) = View(LinksOf, h) \o LinksOf[m]
        BY ONLY <1>0, <3>1, ViewAppend
      <3> QED BY <2>1, <2>2, <3>2, <3>3
    <2>7. Append(h, m) \in Seq(Said)
      OBVIOUS
    <2> QED BY <2>5, <2>6, <2>7
  <1> HIDE DEF T
  <1>3. \A h \in Seq(Said) : h \in T
    BY <1>1, <1>2, SeqInduction
  <1>4. \A h \in Seq(Said) : View(IdsOf, h) \in Seq(I)
    BY ONLY <1>0, ViewType
  <1> QED BY <1>3, <1>4 DEF T

\* Each answer stands after its call.
Linked(s) ==
    \A i \in 1..Len(s) : s[i].type = "result" =>
        \E j \in 1..i - 1 : s[j] = Block("call", s[i].id)

\* Three sequences one after the other.
LEMMA ThreeParts ==
    ASSUME NEW S
    PROVE  \A s, c, r \in Seq(S) : \A u : u = (s \o c) \o r =>
             /\ Len(u) = Len(s) + Len(c) + Len(r)
             /\ \A i \in 1..Len(s) : u[i] = s[i]
             /\ \A i \in 1..Len(c) : u[Len(s) + i] = c[i]
             /\ \A i \in 1..Len(r) : u[Len(s) + Len(c) + i] = r[i]
  <1> TAKE s, c, r \in Seq(S)
  <1>0. Len(s) \in Nat /\ Len(c) \in Nat /\ Len(r) \in Nat
    BY LenProperties
  <1>1. PICK n \in Nat, m \in Nat, k \in Nat :
          n = Len(s) /\ m = Len(c) /\ k = Len(r)
    BY <1>0
  <1>2. PICK t : t = s \o c
    OBVIOUS
  <1>3. /\ t \in Seq(S) /\ Len(t) = n + m
        /\ \A i \in 1..(n + m) : t[i] = IF i <= n THEN s[i] ELSE c[i - n]
    BY <1>1, <1>2, ConcatProperties
  <1>4. PICK u : u = t \o r
    OBVIOUS
  <1>5. /\ Len(u) = (n + m) + k
        /\ \A i \in 1..((n + m) + k) :
             u[i] = IF i <= n + m THEN t[i] ELSE r[i - (n + m)]
    <2>1. /\ Len(t \o r) = Len(t) + Len(r)
          /\ \A i \in 1..(Len(t) + Len(r)) :
               (t \o r)[i] = IF i <= Len(t) THEN t[i] ELSE r[i - Len(t)]
      BY <1>3, ConcatProperties
    <2> QED BY ONLY <1>1, <1>3, <1>4, <2>1
  <1>6. \A i \in 1..n : u[i] = s[i]
    <2> TAKE i \in 1..n
    <2>1. i \in 1..(n + m) /\ i \in 1..((n + m) + k) /\ i <= n /\ i <= n + m
      OBVIOUS
    <2> QED BY ONLY <1>3, <1>5, <2>1
  <1>7. \A i \in 1..m : u[n + i] = c[i]
    <2> TAKE i \in 1..m
    <2>1. PICK j : j = n + i
      OBVIOUS
    <2>2. /\ j \in 1..(n + m) /\ j \in 1..((n + m) + k) /\ ~(j <= n)
          /\ j <= n + m /\ j - n = i
      BY <2>1
    <2>3. u[j] = c[j - n]
      BY ONLY <1>3, <1>5, <2>2
    <2> QED BY <2>1, <2>2, <2>3
  <1>8. \A i \in 1..k : u[n + m + i] = r[i]
    <2> TAKE i \in 1..k
    <2>1. PICK j : j = n + m + i
      OBVIOUS
    <2>2. /\ j \in 1..((n + m) + k) /\ ~(j <= n + m) /\ j - (n + m) = i
      BY <2>1
    <2>3. u[j] = r[j - (n + m)]
      BY ONLY <1>5, <2>2
    <2> QED BY <2>1, <2>2, <2>3
  <1> QED BY <1>1, <1>2, <1>4, <1>5, <1>6, <1>7, <1>8

\* Calls and the answers to them join what was said.
LEMMA LinkedGrows ==
    ASSUME NEW s \in Seq(Blocks), NEW c \in Seq(Blocks), NEW r \in Seq(Blocks),
           NEW ids \in Seq(CallIds), Linked(s),
           Len(c) = Len(ids), Len(r) = Len(ids),
           \A i \in 1..Len(ids) : c[i] = Block("call", ids[i]),
           \A i \in 1..Len(ids) : r[i] = Block("result", ids[i])
    PROVE  Linked((s \o c) \o r)
  <1>1. s \in Seq(Blocks) /\ c \in Seq(Blocks) /\ r \in Seq(Blocks)
    OBVIOUS
  <1>2. Len(s) \in Nat /\ Len(ids) \in Nat
    BY LenProperties
  <1>3. PICK n \in Nat, m \in Nat :
          n = Len(s) /\ m = Len(ids) /\ m = Len(c) /\ m = Len(r)
    BY <1>2
  <1>4. PICK u : u = (s \o c) \o r
    OBVIOUS
  <1>5. /\ Len(u) = n + m + m
        /\ \A i \in 1..n : u[i] = s[i]
        /\ \A i \in 1..m : u[n + i] = c[i]
        /\ \A i \in 1..m : u[n + m + i] = r[i]
    <2>1. /\ Len(u) = Len(s) + Len(c) + Len(r)
          /\ \A i \in 1..Len(s) : u[i] = s[i]
          /\ \A i \in 1..Len(c) : u[Len(s) + i] = c[i]
          /\ \A i \in 1..Len(r) : u[Len(s) + Len(c) + i] = r[i]
      BY ONLY <1>1, <1>4, ThreeParts
    <2> QED BY ONLY <1>3, <2>1
  <1>6. \A i \in 1..n : u[i] = s[i]
    BY <1>5
  <1>7. \A i \in 1..m : /\ u[n + i] = Block("call", ids[i])
                        /\ u[n + m + i] = Block("result", ids[i])
    BY <1>3, <1>5
  <1>8. ASSUME NEW i \in 1..Len(u), u[i].type = "result"
        PROVE  \E j \in 1..i - 1 : u[j] = Block("call", u[i].id)
    <2>1. CASE i \in 1..n
      <3>1. PICK j \in 1..i - 1 : s[j] = Block("call", s[i].id)
        BY <1>3, <1>6, <1>8, <2>1 DEF Linked
      <3>2. j \in 1..n
        BY <2>1, <3>1
      <3> QED BY <1>6, <2>1, <3>1, <3>2
    <2>2. CASE i \in (n + 1)..(n + m)
      <3>1. PICK k \in 1..m : i = n + k
        <4>1. i - n \in 1..m /\ i = n + (i - n)
          BY <2>2
        <4> QED BY <4>1
      <3>2. u[i] = Block("call", ids[k])
        BY <1>7, <3>1
      <3>3. u[i].type = "call"
        BY <3>2 DEF Block
      <3> QED BY <1>8, <3>3
    <2>3. CASE i \in (n + m + 1)..(n + m + m)
      <3>1. PICK k \in 1..m : i = n + m + k
        <4>1. i - (n + m) \in 1..m /\ i = n + m + (i - (n + m))
          BY <2>3
        <4> QED BY <4>1
      <3>2. u[i] = Block("result", ids[k])
        BY <1>7, <3>1
      <3>3. u[i].id = ids[k]
        BY <3>2 DEF Block
      <3>4. u[n + k] = Block("call", ids[k]) /\ n + k \in 1..i - 1
        BY <1>7, <3>1
      <3> QED BY <3>3, <3>4
    <2> QED BY <1>5, <2>1, <2>2, <2>3
  <1> QED BY <1>4, <1>8 DEF Linked

\* The conversation as it grows.
SaidInv ==
    /\ conversation \in Seq(Said) /\ Linked(View(LinksOf, conversation))
    /\ ~damaged => conversation \in Seq(SoundSaid)

\* The messages Init and Take make.
LEMMA SaidIsSaid ==
    /\ LET m == ChatMessage("user", TRUE, <<>>, TRUE, NoCall) IN
         m \in Said /\ m \in SoundSaid /\ m.role = "user"
    /\ \A i \in CallIds : LET m == ChatMessage("tool", TRUE, <<>>, TRUE, i) IN
         /\ m \in Said /\ m.role = "tool" /\ m.answers = i
         /\ i \in GivenIds => m \in SoundSaid
    /\ \A t, j \in BOOLEAN : \A c \in Seq(CallIds) :
         LET m == ChatMessage("assistant", t, c, j, NoCall) IN
         /\ m \in Said /\ m.role = "assistant" /\ m.calls = c
         /\ j = TRUE /\ c \in Seq(GivenIds) => m \in SoundSaid
  <1>1. <<>> \in Seq(CallIds) /\ <<>> \in Seq(GivenIds) /\ TRUE \in BOOLEAN
    OBVIOUS
  <1>2. LET m == ChatMessage("user", TRUE, <<>>, TRUE, NoCall) IN
        m \in Said /\ m \in SoundSaid /\ m.role = "user"
    BY <1>1 DEF ChatMessage, Said, SoundSaid
  <1>3. ASSUME NEW i \in CallIds
        PROVE  LET m == ChatMessage("tool", TRUE, <<>>, TRUE, i) IN
               /\ m \in Said /\ m.role = "tool" /\ m.answers = i
               /\ i \in GivenIds => m \in SoundSaid
    BY <1>1 DEF ChatMessage, Said, SoundSaid
  <1>4. ASSUME NEW t \in BOOLEAN, NEW j \in BOOLEAN, NEW c \in Seq(CallIds)
        PROVE  LET m == ChatMessage("assistant", t, c, j, NoCall) IN
               /\ m \in Said /\ m.role = "assistant" /\ m.calls = c
               /\ j = TRUE /\ c \in Seq(GivenIds) => m \in SoundSaid
    BY DEF ChatMessage, Said, SoundSaid
  <1> QED BY <1>2, <1>3, <1>4

\* The first message is the user's.
LEMMA InitSaidInv == ASSUME StreamsInit PROVE SaidInv
  <1>1. PICK m \in Said :
          /\ m = ChatMessage("user", TRUE, <<>>, TRUE, NoCall)
          /\ m.role = "user" /\ m \in SoundSaid
    BY SaidIsSaid
  <1>2. /\ conversation = <<m>> /\ conversation \in Seq(Said)
        /\ conversation \in Seq(SoundSaid)
    <2>1. conversation = <<m>>
      BY <1>1 DEF StreamsInit
    <2>2. m \in Said /\ m \in SoundSaid
      BY <1>1
    <2>3. <<m>> \in Seq(Said) /\ <<m>> \in Seq(SoundSaid)
      BY ONLY <2>2
    <2> QED BY <2>1, <2>3
  <1>3. LinksOf \in [Said -> Seq(Blocks)]
    BY LinksType
  <1>4. View(LinksOf, <<m>>) = LinksOf[m]
    BY ONLY <1>1, <1>3, ViewOfSingle
  <1>5. LinksOf[m] = <<>>
    BY <1>1 DEF LinksOf
  <1> QED BY <1>2, <1>4, <1>5 DEF SaidInv, Linked

\* The ids the reader hands over.
LEMMA ResultCalls ==
    ASSUME ReadInv, phase \in {"ended", "broken"}
    PROVE  Result.calls \in Seq(Accs)
  <1>1. CASE phase = "broken"
    <2>1. Result.calls = <<>>
      BY <1>1 DEF Result, Error
    <2> QED BY <2>1
  <1>2. CASE phase = "ended"
    <2>1. /\ provider \in {"anthropic", "compat", "codex"}
          /\ reader.calls \in Seq(Accs) /\ reader.order \in Seq(Nat)
          /\ reader.open \in UNION {[D -> Accs] : D \in SUBSET Nat}
      BY DEF ReadInv, StreamTypes, ReaderTypes
    <2>2. CASE provider = "compat"
      <3>1. Result.calls = [k \in DOMAIN reader.order |->
                                 reader.open[reader.order[k]]]
        BY <1>2, <2>2 DEF Result, CompatResult
      <3>2. \A k \in DOMAIN reader.order :
              reader.open[reader.order[k]] \in Accs
        BY <2>1, <2>2 DEF ReadInv, Real
      <3>3. /\ DOMAIN reader.order = 1..Len(reader.order)
            /\ Len(reader.order) \in Nat
        BY <2>1
      <3> QED BY ONLY <3>1, <3>2, <3>3
    <2>3. CASE provider # "compat"
      <3>1. Result.calls = reader.calls \/ Result.calls = <<>>
        BY <1>2, <2>1, <2>3
           DEF Result, AnthropicResult, CodexResult, Error
      <3>2. <<>> \in Seq(Accs) /\ reader.calls \in Seq(Accs)
        BY <2>1
      <3> QED BY ONLY <3>1, <3>2
    <2> QED BY <2>2, <2>3
  <1> QED BY <1>1, <1>2

\* What a conversation says, part after part.
LEMMA LinksOfConcat ==
    \A x, y \in Seq(Said) :
        View(LinksOf, x \o y) = View(LinksOf, x) \o View(LinksOf, y)
  <1>1. LinksOf \in [Said -> Seq(Blocks)]
    BY LinksType
  <1> QED BY ONLY <1>1, ViewConcat

\* An answer that is what was meant: its calls have ids and arguments that
\* are all the model had to say.
LEMMA TakenWhole ==
    ASSUME ReadInv, phase \in {"ended", "broken"}, Result # Error, ~Doubtful
    PROVE  /\ MaybeJson(Result.calls) = {TRUE}
           /\ \A k \in DOMAIN Result.calls : IdOfCall(Result.calls[k]) \in GivenIds
  <1>1. /\ phase = "ended" /\ lost = FALSE /\ sent.stop # "length"
        /\ provider = "compat" => sent.stop # "none"
        /\ StreamTypes /\ SentInOrder
    BY DEF Result, Doubtful, ReadInv, StreamTypes
  <1>2. /\ Len(sent.calls) \in Nat /\ DOMAIN sent.calls = 1..Len(sent.calls)
        /\ \A i \in 1..Len(sent.calls) : sent.calls[i] \in Requested
    BY <1>1, SentCalls
  <1>3. /\ ReplyCalls(sent) = [i \in 1..Len(sent.calls) |-> Call(i)]
        /\ Len(ReplyCalls(sent)) = Len(sent.calls)
    BY <1>2 DEF ReplyCalls, Call
  <1>4. IF provider = "compat" THEN Result.calls = ReplyCalls(sent)
        ELSE Result.calls = IF OpenCalls = {} THEN ReplyCalls(sent)
                            ELSE Front(ReplyCalls(sent))
    BY <1>1, StreamsRead DEF CutStreamIsPrefix, ToChatResponse
  <1>5. \A k \in DOMAIN Result.calls :
          /\ k \in 1..Len(sent.calls) /\ Result.calls[k] = Call(k)
          /\ sent.calls[k].closed \/ sent.stop # "none"
    <2>1. CASE provider = "compat"
      BY <1>1, <1>3, <1>4, <2>1
    <2>2. CASE provider # "compat" /\ OpenCalls = {}
      BY <1>2, <1>3, <1>4, <2>2 DEF OpenCalls
    <2>3. CASE provider # "compat" /\ OpenCalls # {}
      <3>1. /\ \A i \in OpenCalls : i = Len(sent.calls)
            /\ Len(sent.calls) \in 1..Len(sent.calls)
        BY <1>1, <1>2, <2>3 DEF SentInOrder, StreamTypes, OpenCalls
      <3>2. Result.calls = [i \in 1..(Len(sent.calls) - 1) |-> Call(i)]
        <4>1. Len(sent.calls) - 1 \in Nat
          BY <3>1
        <4>2. Front(ReplyCalls(sent))
                = [i \in 1..(Len(sent.calls) - 1) |-> Call(i)]
          BY <1>2, <1>3, <3>1, <4>1 DEF Front
        <4> QED BY ONLY <1>4, <2>3, <4>2
      <3>3. \A k \in 1..(Len(sent.calls) - 1) :
              k \in 1..Len(sent.calls) /\ k # Len(sent.calls)
        BY <1>2
      <3> QED BY <1>2, <3>1, <3>2, <3>3 DEF OpenCalls
    <2> QED BY <2>1, <2>2, <2>3
  <1>6. \A k \in DOMAIN Result.calls : WholeArgs(Result.calls[k])
    <2> TAKE k \in DOMAIN Result.calls
    <2>1. Call(k).id = k /\ Call(k).args = Pieces(sent.calls[k].args)
      BY DEF Call
    <2> QED BY ONLY <1>1, <1>2, <1>5, <2>1 DEF WholeArgs
  <1>7. MaybeJson(Result.calls) = {TRUE}
    BY <1>6 DEF MaybeJson
  <1>8. \A k \in DOMAIN Result.calls : IdOfCall(Result.calls[k]) \in GivenIds
    <2> TAKE k \in DOMAIN Result.calls
    <2>1. Result.calls[k].id = k /\ k \in Nat
      <3>1. Call(k).id = k
        BY DEF Call
      <3> QED BY ONLY <1>2, <1>5, <3>1
    <2>2. rounds \in Nat /\ k # NoName
      BY <1>1, <2>1, StreamsAssumption DEF StreamTypes
    <2> QED BY <2>1, <2>2 DEF IdOfCall, GivenIds
  <1> QED BY <1>7, <1>8

\* An answer joins the conversation together with an answer to each of its
\* calls (llm.go:25).
LEMMA TakeSaidInv ==
    ASSUME ReadInv, SaidInv, Take PROVE SaidInv'
  <1>1. PICK ids : ids = [k \in DOMAIN Result.calls |-> IdOfCall(Result.calls[k])]
    OBVIOUS
  <1>2. PICK told : told = [k \in DOMAIN ids |->
                              ChatMessage("tool", TRUE, <<>>, TRUE, ids[k])]
    OBVIOUS
  <1>3. PICK spoke \in BOOLEAN : spoke = (Result.content # <<>>)
    OBVIOUS
  <1>0. PICK json \in MaybeJson(Result.calls) :
          conversation' = IF Result = Error THEN conversation
                          ELSE Append(conversation,
                                      ChatMessage("assistant", spoke, ids,
                                                  json, NoCall)) \o told
    BY <1>1, <1>2, <1>3 DEF Take
  <1>4. PICK a : a = ChatMessage("assistant", spoke, ids, json, NoCall)
    OBVIOUS
  <1>5. /\ conversation' = IF Result = Error THEN conversation
                           ELSE Append(conversation, a) \o told
        /\ json \in BOOLEAN
    BY <1>0, <1>4 DEF MaybeJson
  <1>6. ids \in Seq(CallIds)
    <2>1. Result.calls \in Seq(Accs)
      BY ResultCalls DEF Take
    <2>2. rounds \in Nat
      BY DEF ReadInv, StreamTypes
    <2>3. /\ DOMAIN Result.calls = 1..Len(Result.calls)
          /\ Len(Result.calls) \in Nat
          /\ \A k \in 1..Len(Result.calls) : Result.calls[k] \in Accs
      BY <2>1
    <2>4. \A k \in 1..Len(Result.calls) : IdOfCall(Result.calls[k]) \in CallIds
      BY <2>2, <2>3 DEF IdOfCall, CallIds, GivenIds, Accs, Ids
    <2> QED BY ONLY <1>1, <2>3, <2>4
  <1>7. /\ DOMAIN ids = 1..Len(ids) /\ Len(ids) \in Nat
        /\ \A k \in 1..Len(ids) : ids[k] \in CallIds
    BY <1>6
  <1>8. /\ a \in Said /\ a.role = "assistant" /\ a.calls = ids
        /\ json = TRUE /\ ids \in Seq(GivenIds) => a \in SoundSaid
    <2>1. spoke \in BOOLEAN /\ json \in BOOLEAN
      BY <1>3, <1>5
    <2>2. PICK t \in BOOLEAN, j \in BOOLEAN, c \in Seq(CallIds) :
            t = spoke /\ j = json /\ c = ids
      BY ONLY <1>6, <2>1
    <2>3. PICK m : m = ChatMessage("assistant", t, c, j, NoCall)
      OBVIOUS
    <2>4. /\ m \in Said /\ m.role = "assistant" /\ m.calls = c
          /\ j = TRUE /\ c \in Seq(GivenIds) => m \in SoundSaid
      BY ONLY <2>3, SaidIsSaid
    <2> QED BY ONLY <1>4, <2>2, <2>3, <2>4
  <1>9. \A k \in 1..Len(ids) :
          /\ told[k] \in Said /\ LinksOf[told[k]] = <<Block("result", ids[k])>>
          /\ ids[k] \in GivenIds => told[k] \in SoundSaid
    <2> TAKE k \in 1..Len(ids)
    <2>1. PICK i \in CallIds : i = ids[k]
      BY <1>7
    <2>2. PICK m \in Said : /\ m = ChatMessage("tool", TRUE, <<>>, TRUE, i)
                            /\ m.role = "tool" /\ m.answers = i
                            /\ i \in GivenIds => m \in SoundSaid
      BY <2>1, SaidIsSaid
    <2>3. LinksOf[m] = <<Block("result", i)>>
      BY <2>2 DEF LinksOf
    <2>4. told[k] = m
      BY <1>2, <1>7, <2>1, <2>2
    <2> QED BY <2>1, <2>2, <2>3, <2>4
  <1>10. told \in Seq(Said) /\ Len(told) = Len(ids)
    <2>1. DOMAIN told = 1..Len(ids)
      BY <1>2, <1>7
    <2>2. told = [k \in 1..Len(ids) |-> told[k]]
      BY <1>2, <1>7
    <2>3. \A k \in 1..Len(ids) : told[k] \in Said
      BY <1>9
    <2> QED BY ONLY <1>7, <2>1, <2>2, <2>3
  <1>11. PICK r : r = [k \in 1..Len(ids) |-> Block("result", ids[k])]
    OBVIOUS
  <1>12. /\ r \in Seq(Blocks) /\ Len(r) = Len(ids)
         /\ \A k \in 1..Len(ids) : r[k] = Block("result", ids[k])
    <2>1. \A k \in 1..Len(ids) : Block("result", ids[k]) \in Blocks
      BY <1>7, BlocksAre
    <2> QED BY <1>7, <1>11, <2>1
  <1>13. View(LinksOf, told) = r
    <2>1. LinksOf \in [Said -> Seq(Blocks)]
      BY LinksType
    <2>2. \A k \in 1..Len(told) : LinksOf[told[k]] = <<r[k]>>
      BY ONLY <1>9, <1>10, <1>12
    <2>3. \A h \in Seq(Said) : \A t \in Seq(Blocks) :
            Len(t) = Len(h) /\ (\A i \in 1..Len(h) : LinksOf[h[i]] = <<t[i]>>)
               => View(LinksOf, h) = t
      BY ONLY <2>1, ViewOfSingles
    <2> QED BY ONLY <1>10, <1>12, <2>2, <2>3
  <1>14. CASE Result = Error
    <2>1. conversation' = conversation /\ (~damaged' => ~damaged)
      BY <1>5, <1>14 DEF Take
    <2> QED BY <2>1 DEF SaidInv
  <1>16. ASSUME ~damaged', Result # Error
         PROVE  conversation' \in Seq(SoundSaid)
    <2>1. ~damaged /\ ~Doubtful /\ phase \in {"ended", "broken"}
      BY <1>16 DEF Take
    <2>2. /\ json = TRUE
          /\ \A k \in DOMAIN Result.calls : IdOfCall(Result.calls[k]) \in GivenIds
      BY <1>0, <1>16, <2>1, TakenWhole
    <2>3. \A k \in 1..Len(ids) : ids[k] \in GivenIds
      BY <1>1, <1>7, <2>2
    <2>4. ids \in Seq(GivenIds)
      <3>1. ids = [k \in 1..Len(ids) |-> ids[k]]
        BY <1>6
      <3> QED BY ONLY <1>7, <2>3, <3>1
    <2>5. a \in SoundSaid /\ \A k \in 1..Len(ids) : told[k] \in SoundSaid
      BY <1>8, <1>9, <2>2, <2>3, <2>4
    <2>6. told \in Seq(SoundSaid)
      <3>1. told = [k \in 1..Len(ids) |-> told[k]]
        BY <1>10
      <3> QED BY ONLY <1>7, <2>5, <3>1
    <2>7. PICK h \in Seq(SoundSaid) : h = conversation
      BY <2>1 DEF SaidInv
    <2>8. Append(h, a) \in Seq(SoundSaid)
      BY <2>5, <2>7
    <2>9. Append(h, a) \o told \in Seq(SoundSaid)
      BY <2>6, <2>8
    <2> QED BY <1>5, <1>16, <2>7, <2>9
  <1>15. CASE Result # Error
    <2>1. PICK h \in Seq(Said) : h = conversation /\ Linked(View(LinksOf, h))
      BY DEF SaidInv
    <2>2. conversation' = Append(h, a) \o told
      BY <1>5, <1>15, <2>1
    <2>3. Append(h, a) \in Seq(Said) /\ conversation' \in Seq(Said)
      BY <1>8, <1>10, <2>2
    <2>4. PICK s \in Seq(Blocks), c \in Seq(Blocks) :
            s = View(LinksOf, h) /\ c = CallBlocks(a)
      BY <1>8, LinksType, LinksOfAssistant
    <2>5. /\ Len(c) = Len(ids)
          /\ \A k \in 1..Len(ids) : c[k] = Block("call", ids[k])
      BY <1>8, <2>4, LinksOfAssistant
    <2>6. LinksOf \in [Said -> Seq(Blocks)]
      BY LinksType
    <2>7. View(LinksOf, Append(h, a)) = s \o c
      <3>1. LinksOf[a] = c
        BY <1>8, <2>4 DEF LinksOf
      <3>2. View(LinksOf, Append(h, a)) = View(LinksOf, h) \o LinksOf[a]
        BY ONLY <1>8, <2>1, <2>6, ViewAppend
      <3> QED BY <2>4, <3>1, <3>2
    <2>8. View(LinksOf, Append(h, a) \o told) = (s \o c) \o r
      <3>1. View(LinksOf, Append(h, a) \o told)
              = View(LinksOf, Append(h, a)) \o View(LinksOf, told)
        BY <1>10, <2>3, LinksOfConcat
      <3> QED BY <1>13, <2>7, <3>1
    <2>9. Linked((s \o c) \o r)
      BY <1>6, <1>12, <2>1, <2>4, <2>5, LinkedGrows
    <2>10. View(LinksOf, conversation') = (s \o c) \o r
      BY <2>2, <2>8
    <2>11. PICK g : g = conversation'
      OBVIOUS
    <2> QED BY <1>15, <1>16, <2>3, <2>9, <2>10 DEF SaidInv
  <1> QED BY <1>14, <1>15

\* Only Take changes the conversation.
LEMMA SaidInvariant ==
    ASSUME SaidInv, ReadInv, [StreamsNext]_streamsVars PROVE SaidInv'
  <1>1. CASE Take
    BY <1>1, TakeSaidInv
  <1>2. CASE UNCHANGED <<conversation, damaged>>
    <2>1. conversation' = conversation /\ damaged' = damaged
      BY <1>2
    <2> QED BY <2>1 DEF SaidInv
  <1>3. Take \/ UNCHANGED <<conversation, damaged>>
    BY DEF StreamsNext, streamsVars, BeginStream, EndStream, Sending, SendText,
           SendStop, SendBlockStart,
           SendInputDelta, SendBlockStop, SendToolDelta,
           SendFirstToolDelta, SendCallItem, SendOtherItem, SendFailed
  <1> QED BY <1>1, <1>2, <1>3

\* The request is what the provider makes of each message; the compatible
\* one's begins with the system prompt, which calls nothing.
LEMMA RequestIs ==
    ASSUME NEW h \in Seq(Said), NEW p \in {"anthropic", "compat", "codex"}
    PROVE  /\ BuildRequest(p, h) \in Seq(Wires)
           /\ p # "compat" => BuildRequest(p, h) = View(BuildOf(p), h)
           /\ View(LinkOf, View(BlocksOf, BuildRequest(p, h)))
                  = View(LinksOf, h)
  <1>1. PICK w \in Seq(Wires) : w = View(BuildOf(p), h)
    BY LinksType
  <1>2. FlattenSeq([i \in DOMAIN h |-> BuildMessage(p, h[i])]) = w
    <2>1. \A i \in DOMAIN h : h[i] \in Said
      OBVIOUS
    <2>2. \A i \in DOMAIN h : BuildOf(p)[h[i]] = BuildMessage(p, h[i])
      BY <2>1 DEF BuildOf
    <2>3. [i \in DOMAIN h |-> BuildMessage(p, h[i])]
            = [i \in DOMAIN h |-> BuildOf(p)[h[i]]]
      BY <2>2
    <2> QED BY <1>1, <2>3 DEF View
  <1>3. View(LinkOf, View(BlocksOf, w)) = View(LinksOf, h)
    BY <1>1, LinksOfHistory
  <1>4. CASE p = "compat"
    <2>1. PICK m \in Wires : m = Wire("system", <<TextBlock>>)
                             /\ m.blocks = <<TextBlock>>
      <3>1. PICK bs \in Seq(Blocks) : bs = <<TextBlock>>
        <4>1. TextBlock \in Blocks
          BY BlocksAre
        <4>2. <<TextBlock>> \in Seq(Blocks)
          BY ONLY <4>1
        <4> QED BY ONLY <4>2
      <3>2. PICK m : m = Wire("system", bs)
        OBVIOUS
      <3>3. m \in Wires /\ m.blocks = bs
        BY <3>2 DEF Wire, Wires
      <3> QED BY <3>1, <3>2, <3>3
    <2>2. BuildRequest(p, h) = <<m>> \o w
      BY <1>2, <1>4, <2>1 DEF BuildRequest
    <2>3. <<m>> \in Seq(Wires) /\ <<m>> \o w \in Seq(Wires)
      BY <2>1
    <2>4. View(BlocksOf, <<m>>) = <<TextBlock>>
      <3>1. BlocksOf \in [Wires -> Seq(Blocks)]
        BY LinksType
      <3>2. View(BlocksOf, <<m>>) = BlocksOf[m]
        BY ONLY <2>1, <3>1, ViewOfSingle
      <3> QED BY <2>1, <3>2 DEF BlocksOf
    <2>5. View(BlocksOf, <<m>> \o w) = <<TextBlock>> \o View(BlocksOf, w)
      BY <2>3, <2>4, LinksConcat
    <2>6. PICK b \in Seq(Blocks), c \in Seq(Blocks) :
            /\ b = View(BlocksOf, w) /\ c = <<TextBlock>>
            /\ View(LinkOf, c) = <<>>
      <3>1. View(BlocksOf, w) \in Seq(Blocks)
        BY LinksType
      <3>2. /\ <<TextBlock>> \in Seq(Blocks)
            /\ View(LinkOf, <<TextBlock>>) = <<>>
        <4>1. PICK x \in Blocks : x = TextBlock /\ x.type = "text"
          BY BlocksAre
        <4>2. LinkOf \in [Blocks -> Seq(Blocks)]
          BY LinksType
        <4>3. View(LinkOf, <<x>>) = LinkOf[x]
          BY ONLY <4>1, <4>2, ViewOfSingle
        <4>4. LinkOf[x] = <<>>
          BY <4>1 DEF LinkOf
        <4> QED BY <4>1, <4>3, <4>4
      <3> QED BY <3>1, <3>2
    <2>7. View(LinkOf, c \o b) = View(LinkOf, c) \o View(LinkOf, b)
      BY LinksConcat
    <2>8. View(LinkOf, b) \in Seq(Blocks)
      <3>1. LinkOf \in [Blocks -> Seq(Blocks)]
        BY LinksType
      <3> QED BY ONLY <2>6, <3>1, ViewType
    <2>9. <<>> \o View(LinkOf, b) = View(LinkOf, b)
      BY <2>8
    <2>10. View(LinkOf, c \o b) = View(LinksOf, h)
      BY <1>3, <2>6, <2>7, <2>9
    <2> QED BY <1>4, <2>2, <2>3, <2>5, <2>6, <2>10
  <1>5. CASE p # "compat"
    <2>1. BuildRequest(p, h) = w
      BY <1>2, <1>5 DEF BuildRequest
    <2> QED BY <1>1, <1>3, <1>5, <2>1
  <1> QED BY <1>4, <1>5

\* Anthropic gets no message without a block.
LEMMA NoEmptyMessage ==
    ASSUME NEW h \in Seq(Said)
    PROVE  \A i \in DOMAIN BuildRequest("anthropic", h) :
             BuildRequest("anthropic", h)[i].blocks # <<>>
  <1> DEFINE S == {w \in Wires : w.blocks # <<>>}
  <1>1. BuildOf("anthropic") \in [Said -> Seq(S)]
    <2>1. ASSUME NEW m \in Said PROVE BuildMessage("anthropic", m) \in Seq(S)
      <3>1. PICK ws \in Seq(Wires) :
              /\ ws = BuildMessage("anthropic", m)
              /\ \A i \in 1..Len(ws) : ws[i].blocks # <<>>
        BY LinksOfMessage
      <3>2. \A i \in 1..Len(ws) : ws[i] \in S
        BY <3>1
      <3>3. ws = [i \in 1..Len(ws) |-> ws[i]] /\ Len(ws) \in Nat
        BY <3>1
      <3>4. ws \in Seq(S)
        <4> HIDE DEF S
        <4> QED BY ONLY <3>2, <3>3
      <3> QED BY <3>1, <3>4
    <2> QED BY <2>1 DEF BuildOf
  <1>2. BuildRequest("anthropic", h) = View(BuildOf("anthropic"), h)
    BY RequestIs
  <1>3. View(BuildOf("anthropic"), h) \in Seq(S)
    <2> HIDE DEF S
    <2> QED BY <1>1, ViewType
  <1>4. PICK r : r = BuildRequest("anthropic", h)
    OBVIOUS
  <1>5. r \in Seq(S)
    BY <1>2, <1>3, <1>4
  <1>6. \A i \in DOMAIN r : r[i] \in S
    <2> HIDE DEF S
    <2> QED BY <1>5
  <1> QED BY <1>4, <1>6

\* Where nothing was skipped or cut, every id is one that was given.
LEMMA SoundIds ==
    ASSUME NEW h \in Seq(SoundSaid)
    PROVE  \A i \in DOMAIN View(IdsOf, h) : View(IdsOf, h)[i] \in GivenIds
  <1>1. PICK g : g = [m \in SoundSaid |-> IdsOf[m]]
    OBVIOUS
  <1>2. ASSUME NEW m \in SoundSaid PROVE IdsOf[m] \in Seq(GivenIds)
    <2>1. /\ m \in Said /\ m.calls \in Seq(GivenIds)
          /\ m.role = "tool" => m.answers \in GivenIds
      BY DEF SoundSaid
    <2>2. IdsOf[m] = m.calls \o IF m.role = "tool" THEN <<m.answers>> ELSE <<>>
      BY <2>1 DEF IdsOf
    <2>3. (IF m.role = "tool" THEN <<m.answers>> ELSE <<>>) \in Seq(GivenIds)
      BY <2>1
    <2> QED BY <2>1, <2>2, <2>3
  <1>3. g \in [SoundSaid -> Seq(GivenIds)]
    BY ONLY <1>1, <1>2
  <1>4. [i \in DOMAIN h |-> IdsOf[h[i]]] = [i \in DOMAIN h |-> g[h[i]]]
    <2>1. \A i \in DOMAIN h : h[i] \in SoundSaid
      OBVIOUS
    <2> QED BY ONLY <1>1, <2>1
  <1>5. View(IdsOf, h) = View(g, h)
    BY <1>4 DEF View
  <1>6. View(g, h) \in Seq(GivenIds)
    BY ONLY <1>3, ViewType
  <1>7. PICK v : v = View(g, h)
    OBVIOUS
  <1> QED BY ONLY <1>5, <1>6, <1>7

\* A request made from such a conversation is whole.
LEMMA RequestsWhole ==
    ASSUME SaidInv, Providers \subseteq {"anthropic", "compat", "codex"}
    PROVE  RequestsAreWhole
  <1>1. PICK h \in Seq(Said) : h = conversation /\ Linked(View(LinksOf, h))
    BY DEF SaidInv
  <1>2. ASSUME NEW p \in Providers
        PROVE  LET request == BuildRequest(p, conversation)
                   blocks == FlattenSeq([i \in DOMAIN request |->
                               request[i].blocks])
                   ids == FlattenSeq([i \in DOMAIN conversation |->
                            conversation[i].calls \o
                              IF conversation[i].role = "tool"
                              THEN <<conversation[i].answers>> ELSE <<>>])
                   kept == Links(blocks)
               IN  /\ ~damaged => /\ Encodes(p, conversation)
                                  /\ \A i \in DOMAIN ids : ids[i] # NoCall
                   /\ Encodes(p, conversation) =>
                        /\ [i \in DOMAIN kept |-> kept[i].id] = ids
                        /\ \A i \in DOMAIN kept : kept[i].type = "result" =>
                             \E j \in 1..i - 1 :
                                 kept[j] = Block("call", kept[i].id)
                        /\ p = "anthropic" =>
                             \A i \in DOMAIN request :
                                 request[i].blocks # <<>>
    <2>0. p \in {"anthropic", "compat", "codex"}
      OBVIOUS
    <2>1. PICK request \in Seq(Wires) :
                   request = BuildRequest(p, conversation)
      BY <1>1, <2>0, RequestIs
    <2>2. PICK blocks : blocks =
            FlattenSeq([i \in DOMAIN request |-> request[i].blocks])
      OBVIOUS
    <2>3. PICK ids : ids =
            FlattenSeq([i \in DOMAIN conversation |->
                conversation[i].calls \o
                  IF conversation[i].role = "tool"
                  THEN <<conversation[i].answers>> ELSE <<>>])
      OBVIOUS
    <2>4. blocks = View(BlocksOf, request)
      <3>1. \A i \in DOMAIN request : request[i] \in Wires
        BY <2>1
      <3>2. \A i \in DOMAIN request : BlocksOf[request[i]] = request[i].blocks
        BY <3>1 DEF BlocksOf
      <3>3. [i \in DOMAIN request |-> request[i].blocks]
              = [i \in DOMAIN request |-> BlocksOf[request[i]]]
        BY <3>2
      <3> QED BY <2>2, <3>3 DEF View
    <2>5. blocks \in Seq(Blocks)
      BY <2>0, <2>1, <2>4, LinksType
    <2>6. Links(blocks) = View(LinkOf, blocks)
      <3>1. \A i \in DOMAIN blocks : blocks[i] \in Blocks
        BY <2>5
      <3>2. \A i \in DOMAIN blocks : LinkOf[blocks[i]] =
              IF blocks[i].type = "text" THEN <<>> ELSE <<blocks[i]>>
        BY <3>1 DEF LinkOf
      <3>3. [i \in DOMAIN blocks |->
               IF blocks[i].type = "text" THEN <<>> ELSE <<blocks[i]>>]
              = [i \in DOMAIN blocks |-> LinkOf[blocks[i]]]
        BY <3>2
      <3> QED BY <3>3 DEF View, Links
    <2>7. PICK kept \in Seq(Blocks) :
            kept = Links(blocks) /\ kept = View(LinksOf, h)
      <3>1. View(LinkOf, View(BlocksOf, request)) = View(LinksOf, h)
        BY <1>1, <2>0, <2>1, RequestIs
      <3>2. View(LinksOf, h) \in Seq(Blocks)
        BY <2>0, LinksType
      <3> QED BY <2>4, <2>6, <3>1, <3>2
    <2>8. ids = View(IdsOf, h)
      <3>1. \A i \in DOMAIN h : h[i] \in Said
        BY <1>1
      <3>2. \A i \in DOMAIN h : IdsOf[h[i]] =
              h[i].calls \o
                IF h[i].role = "tool" THEN <<h[i].answers>> ELSE <<>>
        BY <3>1 DEF IdsOf
      <3>3. [i \in DOMAIN h |-> h[i].calls \o
               IF h[i].role = "tool" THEN <<h[i].answers>> ELSE <<>>]
              = [i \in DOMAIN h |-> IdsOf[h[i]]]
        BY <3>2
      <3> QED BY <1>1, <2>3, <3>3 DEF View
    <2>9. [i \in DOMAIN kept |-> kept[i].id] = ids
      <3>1. /\ Len(ids) = Len(kept) /\ ids \in Seq(CallIds \cup {NoCall})
            /\ \A i \in 1..Len(kept) : ids[i] = kept[i].id
        BY <2>7, <2>8, IdsOfHistory
      <3>2. ids = [i \in 1..Len(kept) |-> ids[i]] /\ DOMAIN kept = 1..Len(kept)
        BY <2>7, <3>1
      <3> QED BY ONLY <3>1, <3>2
    <2>10. \A i \in DOMAIN kept : kept[i].type = "result" =>
             \E j \in 1..i - 1 : kept[j] = Block("call", kept[i].id)
      <3>1. DOMAIN kept = 1..Len(kept) /\ Linked(kept)
        BY <1>1, <2>7
      <3> QED BY ONLY <3>1 DEF Linked
    <2>11. p = "anthropic" => \A i \in DOMAIN request : request[i].blocks # <<>>
      BY <1>1, <2>1, NoEmptyMessage
    <2>12. ~damaged => /\ Encodes(p, conversation)
                       /\ \A i \in DOMAIN ids : ids[i] # NoCall
      <3> SUFFICES ASSUME ~damaged
                   PROVE  /\ Encodes(p, conversation)
                          /\ \A i \in DOMAIN ids : ids[i] # NoCall
        OBVIOUS
      <3>1. h \in Seq(SoundSaid)
        BY <1>1 DEF SaidInv
      <3>2. \A i \in DOMAIN h : h[i].json
        BY <3>1 DEF SoundSaid
      <3>3. \A i \in DOMAIN ids : ids[i] \in GivenIds
        BY <2>8, <3>1, SoundIds
      <3>4. NoCall \notin GivenIds
        BY StreamsAssumption DEF GivenIds
      <3> QED BY <1>1, <3>2, <3>3, <3>4 DEF Encodes
    <2> QED BY <2>1, <2>2, <2>3, <2>7, <2>9, <2>10, <2>11, <2>12
  <1> QED BY ONLY <1>2 DEF RequestsAreWhole

\* The readers' and the conversation's invariant.
LEMMA StreamsInv == StreamsSpec => [](ReadInv /\ SaidInv)
  <1>0. /\ Providers \subseteq {"anthropic", "compat", "codex"}
        /\ MaxPieces \in Nat
    BY StreamsAssumption
  <1>1. StreamsSpec => []ReadInv
    BY <1>0, ReadInvariant
  <1>2. StreamsInit => SaidInv
    BY InitSaidInv
  <1>3. SaidInv /\ ReadInv /\ [StreamsNext]_streamsVars => SaidInv'
    BY SaidInvariant
  <1> QED BY <1>1, <1>2, <1>3, PTL DEF StreamsSpec

\* A stream read to its end without a skipped event gives what the reply
\* without streaming would have given, whatever its cut into pieces and the
\* alternation of its calls: readStream and toChatResponse of anthropic.go
\* and openai_compat.go, readCodexStream of codex/stream.go.
THEOREM StreamsAreResponses == StreamsSpec => []StreamIsTheResponse
  BY StreamsInv, StreamsRead, PTL

\* A stream that ends early in good order is an answer with the text sent so
\* far and, but for the compatible reader's last arguments
\* (openai_compat.go:380), only whole calls.
THEOREM CutStreamsArePrefixes == StreamsSpec => []CutStreamIsPrefix
  BY StreamsInv, StreamsRead, PTL

\* Whatever events are skipped, no call is reported that the model did not
\* make, none twice, and no piece out of order (anthropic.go:335-362,
\* openai_compat.go:350-390, codex/stream.go:89).
THEOREM CallsReadAreReal == StreamsSpec => []CallsAreReal
  BY StreamsInv, CallsRead, PTL

\* As long as no answer was cut within a call or lost an event, buildRequest
\* of each provider makes a request in which no call is without its id.
\* Whatever was cut or lost, a request that encodes has each call and each
\* answer of the conversation in their order, each answer after its call, and
\* no message of Anthropic's is without a block (anthropic.go:48-51, 200).
THEOREM RequestsKeepTheConversation == StreamsSpec => []RequestsAreWhole
  <1>1. SaidInv => RequestsAreWhole
    BY RequestsWhole, StreamsAssumption
  <1> QED BY <1>1, StreamsInv, PTL

=============================================================================
