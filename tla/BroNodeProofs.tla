---------------------------- MODULE BroNodeProofs ----------------------------
(***************************************************************************)
(* Proofs about the Bro scripts of a node, for any hosts, connections and  *)
(* messages, and any number of packets and periods.                        *)
(*                                                                         *)
(* The invariant is about the queue of events: in which order those of one *)
(* packet stand in it, what each of them refers to, and that whatever is   *)
(* counted, or on its way to be, has its parent counted or ahead of it.    *)
(* What the logs say of several events (requests and answers, targets and  *)
(* messages) follows from sums over the counts and over the queue that     *)
(* every handler keeps in balance.                                         *)
(*                                                                         *)
(* The anomaly detection learns what it is given at the end of a period:   *)
(* whole trees, whose values repeat or do not, and whose sums and sums of  *)
(* squares the averages are made of.                                       *)
(***************************************************************************)
EXTENDS BroNode, FiniteSetTheorems, SequenceTheorems, WellFoundedInduction, TLAPS

-----------------------------------------------------------------------------
(* Sequences *)

LEMMA FrontOf ==
  ASSUME NEW S, NEW s \in Seq(S), s # << >>
  PROVE  /\ Front(s) \in Seq(S) /\ Len(s) \in Nat \ {0} /\ Len(Front(s)) = Len(s) - 1
         /\ \A i \in 1 .. Len(s) - 1 : Front(s)[i] = s[i]
<1>1. Len(s) \in Nat \ {0} /\ \A i \in 1 .. Len(s) - 1 : s[i] \in S
  BY EmptySeq, ElementOfSeq
<1>2. /\ SubSeq(s, 1, Len(s) - 1) \in Seq(S)
      /\ Len(SubSeq(s, 1, Len(s) - 1)) = IF 1 <= Len(s) - 1 THEN Len(s) - 1 - 1 + 1 ELSE 0
      /\ \A i \in 1 .. Len(s) - 1 - 1 + 1 : SubSeq(s, 1, Len(s) - 1)[i] = s[1 + i - 1]
  BY <1>1, SubSeqProperties
<1> DEFINE f == SubSeq(s, 1, Len(s) - 1)
           n == Len(s)
<1>3. Front(s) = f
  BY DEF Front
<1>4. Len(f) = n - 1 /\ \A i \in 1 .. n - 1 : f[i] = s[i]
  <2> HIDE DEF f, n
  <2>1. Len(f) = IF 1 <= n - 1 THEN n - 1 - 1 + 1 ELSE 0
    BY <1>2 DEF f, n
  <2>2. \A i \in 1 .. n - 1 - 1 + 1 : f[i] = s[1 + i - 1]
    BY <1>2 DEF f, n
  <2>3. n \in Nat \ {0}
    BY <1>1 DEF n
  <2>4. n - 1 - 1 + 1 = n - 1 /\ \A i \in 1 .. n - 1 : 1 + i - 1 = i
    BY <2>3
  <2>5. QED BY <2>1, <2>2, <2>3, <2>4
<1>5. QED BY <1>1, <1>2, <1>3, <1>4

LEMMA FrontOfAppend ==
  ASSUME NEW S, NEW s \in Seq(S), NEW x \in S
  PROVE  Front(Append(s, x)) = s /\ Append(s, x) # << >>
<1>1. /\ Append(s, x) \in Seq(S) /\ Append(s, x) # << >> /\ Len(Append(s, x)) = Len(s) + 1
      /\ \A i \in 1 .. Len(s) : Append(s, x)[i] = s[i]
  BY AppendProperties
<1>2. /\ Front(Append(s, x)) \in Seq(S) /\ Len(Front(Append(s, x))) = Len(s)
      /\ \A i \in 1 .. Len(s) : Front(Append(s, x))[i] = s[i]
  <2>1. PICK t \in Seq(S) : t = Append(s, x)
    BY <1>1
  <2>2. /\ Front(t) \in Seq(S) /\ Len(Front(t)) = Len(t) - 1
        /\ \A i \in 1 .. Len(t) - 1 : Front(t)[i] = t[i]
    BY <1>1, <2>1, FrontOf
  <2>3. Len(s) \in Nat /\ Len(t) - 1 = Len(s)
    BY <1>1, <2>1
  <2>4. QED BY <1>1, <2>1, <2>2, <2>3
<1>3. QED BY <1>1, <1>2, SeqEqual

ProtocolPath(i) == << i.sender, i.receiver, i.protocol >>
UnitPath(i) == << i.sender, i.receiver, i.protocol, i.unit >>

\* The paths of an item, from the root on
LEMMA PathsAre ==
  ASSUME NEW i
  PROVE  /\ Front(<< i.sender >>) = << >>
         /\ Front(<< i.sender, i.receiver >>) = << i.sender >>
         /\ Front(ProtocolPath(i)) = << i.sender, i.receiver >> /\ Len(ProtocolPath(i)) = 3
         /\ Front(UnitPath(i)) = ProtocolPath(i) /\ Len(UnitPath(i)) = 4
         /\ Front(FunctionPath(i)) = UnitPath(i) /\ Len(FunctionPath(i)) = 5
         /\ Front(TargetPath(i)) = FunctionPath(i) /\ Len(TargetPath(i)) = 6
         /\ SubSeq(TargetPath(i), 1, 3) = ProtocolPath(i)
         /\ MessagePaths(i) = {ProtocolPath(i), UnitPath(i), FunctionPath(i)}
         /\ ProtocolPath(i) # << >> /\ UnitPath(i) # << >>
         /\ FunctionPath(i) # << >> /\ TargetPath(i) # << >>
<1> DEFINE fp == FunctionPath(i)
           three == << i.sender, i.receiver, i.protocol >>
           four == << i.sender, i.receiver, i.protocol, i.unit >>
<1>1. PICK S : /\ i.sender \in S /\ i.receiver \in S /\ i.protocol \in S
               /\ i.unit \in S /\ i.func \in S /\ i.target \in S
  <2>1. \E S : S = {i.sender, i.receiver, i.protocol, i.unit, i.func, i.target}
    OBVIOUS
  <2>2. QED BY <2>1
<1>2. /\ << >> \in Seq(S)
      /\ << i.sender >> \in Seq(S) /\ << i.sender, i.receiver >> \in Seq(S)
      /\ three \in Seq(S) /\ four \in Seq(S) /\ fp \in Seq(S)
  BY <1>1 DEF FunctionPath
<1>3. /\ << i.sender >> = Append(<< >>, i.sender)
      /\ << i.sender, i.receiver >> = Append(<< i.sender >>, i.receiver)
      /\ three = Append(<< i.sender, i.receiver >>, i.protocol)
      /\ four = Append(three, i.unit)
      /\ fp = Append(four, i.func)
  BY DEF FunctionPath
<1>4. /\ Len(fp) = 5 /\ SubSeq(fp, 1, 5) = fp
  <2>1. Len(fp) = 5
    BY DEF FunctionPath
  <2>2. QED BY <1>2, <2>1, SubSeqFull
<1>5. \A s \in Seq(S), x \in S : Front(Append(s, x)) = s /\ Append(s, x) # << >>
  BY FrontOfAppend
<1>6. /\ Front(<< i.sender >>) = << >> /\ Front(<< i.sender, i.receiver >>) = << i.sender >>
      /\ Front(three) = << i.sender, i.receiver >> /\ three # << >>
      /\ Front(four) = three /\ four # << >>
      /\ Front(fp) = four /\ fp # << >>
  <2> DEFINE one == << i.sender >>
             two == << i.sender, i.receiver >>
  <2> HIDE DEF one, two, three, four, fp
  <2>1. /\ Front(Append(<< >>, i.sender)) = << >> /\ Front(Append(one, i.receiver)) = one
        /\ Front(Append(two, i.protocol)) = two /\ Append(two, i.protocol) # << >>
        /\ Front(Append(three, i.unit)) = three /\ Append(three, i.unit) # << >>
        /\ Front(Append(four, i.func)) = four /\ Append(four, i.func) # << >>
    BY <1>1, <1>2, <1>5 DEF one, two
  <2>2. /\ one = Append(<< >>, i.sender) /\ two = Append(one, i.receiver)
        /\ three = Append(two, i.protocol)
        /\ four = Append(three, i.unit)
        /\ fp = Append(four, i.func)
    BY <1>3 DEF one, two
  <2>3. QED BY <2>1, <2>2 DEF one, two
<1>7. Len(four) = 4 /\ Len(three) = 3
  OBVIOUS
<1>8. SubSeq(fp, 1, 4) = four /\ SubSeq(four, 1, 3) = three
  BY <1>4, <1>6, <1>7 DEF Front
<1>9. SubSeq(fp, 1, 3) = three
  <2>1. SubSeq(SubSeq(fp, 1, 4), 1, 3) = SubSeq(fp, 1, 3)
    <3>1. 1 \in 1 .. Len(fp) /\ 4 \in 1 .. Len(fp) /\ 1 \in 1 .. 4 - 1 + 1 /\ 3 \in 1 .. 4 - 1 + 1
      BY <1>4
    <3>2. SubSeq(SubSeq(fp, 1, 4), 1, 3) = SubSeq(fp, 1 + 1 - 1, 1 + 3 - 1)
      BY <1>2, <3>1, SubSeqOfSubSeq
    <3>3. QED BY <3>2
  <2>2. QED BY <1>8, <2>1
<1>10. MessagePaths(i) = {three, four, fp}
  <2>1. 3 .. 5 = {3, 4, 5}
    OBVIOUS
  <2>2. MessagePaths(i) = {SubSeq(fp, 1, n) : n \in {3, 4, 5}}
    BY <2>1 DEF MessagePaths
  <2>3. QED BY <1>4, <1>8, <1>9, <2>2
<1>11. /\ Front(TargetPath(i)) = FunctionPath(i) /\ TargetPath(i) # << >>
       /\ TargetPath(i) \in Seq(S) /\ Len(TargetPath(i)) = 6
  <2>1. PICK s \in Seq(S), x \in S : s = fp /\ x = i.target /\ Len(s) = 5
    BY <1>1, <1>2, <1>4
  <2>2. /\ Append(s, x) \in Seq(S) /\ Append(s, x) # << >> /\ Len(Append(s, x)) = Len(s) + 1
        /\ Front(Append(s, x)) = s
    BY FrontOfAppend, AppendProperties
  <2>3. Len(Append(s, x)) = 6
    BY <2>1, <2>2
  <2>4. TargetPath(i) = Append(s, x) /\ FunctionPath(i) = s
    BY <2>1 DEF TargetPath
  <2>5. QED BY <2>2, <2>3, <2>4
<1>12. SubSeq(TargetPath(i), 1, 3) = three
  <2>1. PICK t \in Seq(S) : t = TargetPath(i) /\ Len(t) = 6
    BY <1>11
  <2>2. Front(t) = SubSeq(t, 1, Len(t) - 1) /\ Len(t) - 1 = 5
    BY <2>1 DEF Front
  <2>3. SubSeq(t, 1, 5) = fp
    BY <1>11, <2>1, <2>2
  <2>4. 1 \in 1 .. Len(t) /\ 5 \in 1 .. Len(t) /\ 1 \in 1 .. 5 - 1 + 1 /\ 3 \in 1 .. 5 - 1 + 1
    BY <2>1
  <2>5. SubSeq(SubSeq(t, 1, 5), 1, 3) = SubSeq(t, 1 + 1 - 1, 1 + 3 - 1)
    BY <2>4, SubSeqOfSubSeq
  <2>6. SubSeq(t, 1, 3) = SubSeq(SubSeq(t, 1, 5), 1, 3)
    BY <2>5
  <2>7. QED BY <1>9, <2>1, <2>3, <2>6
<1>13. three = ProtocolPath(i) /\ four = UnitPath(i)
  BY DEF ProtocolPath, UnitPath
<1> HIDE DEF fp, three, four
<1>14. QED BY <1>4, <1>6, <1>7, <1>10, <1>11, <1>12, <1>13 DEF fp

\* Each path but the root has its parent among those of the item, or is one of the
\* packet.
LEMMA PathsOfItem ==
  ASSUME NEW i
  PROVE  /\ Front(<< i.sender >>) = << >>
         /\ Front(<< i.sender, i.receiver >>) = << i.sender >>
         /\ \A p \in MessagePaths(i) :
              /\ p # << >>
              /\ Front(p) \in MessagePaths(i) \cup {<< i.sender, i.receiver >>}
         /\ Front(TargetPath(i)) = FunctionPath(i) /\ TargetPath(i) # << >>
         /\ FunctionPath(i) \in MessagePaths(i)
BY PathsAre

LEMMA LeastNumber ==
  ASSUME NEW S, S # {}, \A i \in S : i \in Nat
  PROVE  \E i \in S : \A j \in S : i <= j
<1> DEFINE Less == {ss \in Nat \X Nat : ss[1] < ss[2]}
<1>1. IsWellFoundedOn(Less, Nat)
  BY NatLessThanWellFounded DEF OpToRel
<1>2. PICK i \in S : \A j \in S : << j, i >> \notin Less
  BY <1>1, WFMin, Zenon
<1>3. \A j \in S : j \in Nat /\ i \in Nat /\ ~(j < i)
  BY <1>2
<1>4. QED BY <1>3

Recursion(V, base, n, step) ==
  \E g \in [0 .. n -> V] : g[0] = base /\ \A i \in 1 .. n : g[i] = step[<< i, g[i - 1] >>]

\* A recursive function of the numbers up to n exists: there is no least k at which it
\* cannot be continued.
LEMMA RecursionExists ==
  ASSUME NEW V, NEW base \in V, NEW n \in Nat, NEW step \in [(1 .. n) \X V -> V]
  PROVE  Recursion(V, base, n, step)
<1> DEFINE Up(k) == \E g \in [0 .. k -> V] :
                      g[0] = base /\ \A i \in 1 .. k : g[i] = step[<< i, g[i - 1] >>]
           bad == {k \in 0 .. n : ~Up(k)}
<1>1. Up(0)
  <2>1. [i \in 0 .. 0 |-> base] \in [0 .. 0 -> V] /\ [i \in 0 .. 0 |-> base][0] = base
    OBVIOUS
  <2>2. 1 .. 0 = {}
    OBVIOUS
  <2>3. QED BY <2>1, <2>2
<1>2. ASSUME NEW k \in 1 .. n, Up(k - 1) PROVE Up(k)
  <2>1. PICK g \in [0 .. k - 1 -> V] :
          g[0] = base /\ \A i \in 1 .. k - 1 : g[i] = step[<< i, g[i - 1] >>]
    BY <1>2
  <2> DEFINE h == [i \in 0 .. k |-> IF i = k THEN step[<< k, g[k - 1] >>] ELSE g[i]]
  <2>2. k \in Nat /\ k # 0 /\ k - 1 \in 0 .. k - 1 /\ g[k - 1] \in V
    OBVIOUS
  <2>3. step[<< k, g[k - 1] >>] \in V
    BY <2>2
  <2>4. h \in [0 .. k -> V]
    BY <2>2, <2>3
  <2>5. h[0] = base /\ h[k] = step[<< k, g[k - 1] >>] /\ \A i \in 0 .. k - 1 : h[i] = g[i]
    BY <2>1, <2>2
  <2> HIDE DEF h
  <2>6. ASSUME NEW i \in 1 .. k PROVE h[i] = step[<< i, h[i - 1] >>]
    <3>1. i - 1 \in 0 .. k - 1 /\ (i = k \/ i \in 1 .. k - 1)
      BY <2>2
    <3>2. h[i - 1] = g[i - 1]
      BY <2>5, <3>1
    <3>3. CASE i = k
      BY <2>5, <3>2, <3>3
    <3>4. CASE i \in 1 .. k - 1
      <4>1. i \in 0 .. k - 1
        BY <3>4
      <4>2. QED BY <2>1, <2>5, <3>2, <3>4, <4>1
    <3>5. QED BY <3>1, <3>3, <3>4
  <2>7. QED BY <2>4, <2>5, <2>6
<1> HIDE DEF Up
<1>3. bad = {}
  <2>1. SUFFICES ASSUME bad # {} PROVE FALSE
    OBVIOUS
  <2>2. PICK k \in bad : \A j \in bad : k <= j
    <3>1. \A num \in bad : num \in Nat
      OBVIOUS
    <3>2. QED BY <2>1, <3>1, LeastNumber
  <2>3. k \in 1 .. n
    BY <1>1
  <2>4. k - 1 \in 0 .. n /\ ~(k <= k - 1)
    BY <2>3
  <2>5. k - 1 \notin bad
    BY <2>2, <2>4
  <2>6. Up(k - 1)
    BY <2>4, <2>5
  <2>7. QED BY <1>2, <2>3, <2>6
<1>4. n \in 0 .. n
  OBVIOUS
<1>5. QED BY <1>3, <1>4 DEF Up, Recursion

\* What the sequences of a set are joined to is in the set, if that is so for two of them.
Joinable(G) == << >> \in G /\ \A a, b \in G : a \o b \in G

LEMMA Flattened ==
  ASSUME NEW G, Joinable(G), NEW seqs \in Seq(G)
  PROVE  FlattenSeq(seqs) \in G
<1>1. PICK n \in Nat : n = Len(seqs)
  OBVIOUS
<1>2. \A i \in 1 .. n : seqs[i] \in G
  BY <1>1
<1>3. CASE n = 0
  <2>1. seqs = << >>
    BY <1>1, <1>3, EmptySeq
  <2>2. QED BY <1>1, <1>3, <2>1 DEF FlattenSeq, Joinable
<1>4. CASE n # 0
  <2> DEFINE Joined(g) == [i \in 1 .. n |-> IF i = 1 THEN seqs[i] ELSE g[i - 1] \o seqs[i]]
             flat == CHOOSE g : g = Joined(g)
             step == [x \in (1 .. n) \X G |-> IF x[1] = 1 THEN seqs[1] ELSE x[2] \o seqs[x[1]]]
  <2>1. FlattenSeq(seqs) = flat[n]
    BY <1>1, <1>4 DEF FlattenSeq
  <2>2. step \in [(1 .. n) \X G -> G]
    BY <1>2, <1>4 DEF Joinable
  <2>3. PICK g \in [0 .. n -> G] :
          g[0] = << >> /\ \A i \in 1 .. n : g[i] = step[<< i, g[i - 1] >>]
    <3>1. PICK e \in G, d \in [(1 .. n) \X G -> G] : e = << >> /\ d = step
      BY <2>2 DEF Joinable
    <3> HIDE DEF step
    <3>2. Recursion(G, e, n, d)
      BY RecursionExists
    <3>3. QED BY <3>1, <3>2 DEF Recursion
  <2>4. \A i \in 1 .. n : g[i] = IF i = 1 THEN seqs[1] ELSE g[i - 1] \o seqs[i]
    <3>1. SUFFICES ASSUME NEW i \in 1 .. n
                   PROVE  g[i] = IF i = 1 THEN seqs[1] ELSE g[i - 1] \o seqs[i]
      OBVIOUS
    <3>2. i - 1 \in 0 .. n
      OBVIOUS
    <3>3. << i, g[i - 1] >> \in (1 .. n) \X G
      BY <3>2
    <3>4. step[<< i, g[i - 1] >>] = IF i = 1 THEN seqs[1] ELSE g[i - 1] \o seqs[i]
      BY <3>3
    <3>5. QED BY <2>3, <3>4
  <2> DEFINE h == [i \in 1 .. n |-> g[i]]
  <2>5. h = Joined(h)
    <3>1. \A i \in 1 .. n : i # 1 => i - 1 \in 1 .. n
      OBVIOUS
    <3>2. \A i \in 1 .. n : h[i] = Joined(h)[i]
      BY <2>4, <3>1
    <3>3. QED BY <3>2
  <2>6. flat = Joined(flat)
    <3> HIDE DEF h, Joined
    <3>1. QED BY <2>5
  <2> DEFINE bad == {i \in 1 .. n : flat[i] \notin G}
  <2>7. \A i \in 1 .. n : flat[i] = IF i = 1 THEN seqs[i] ELSE flat[i - 1] \o seqs[i]
    <3> HIDE DEF flat
    <3>1. QED BY <2>6
  <2> HIDE DEF flat
  <2>8. bad = {}
    <3>1. SUFFICES ASSUME bad # {} PROVE FALSE
      OBVIOUS
    <3>2. PICK i \in bad : \A j \in bad : i <= j
      <4>1. \A num \in bad : num \in Nat
        OBVIOUS
      <4>2. QED BY <3>1, <4>1, LeastNumber
    <3>3. CASE i = 1
      BY <1>2, <2>7, <3>3
    <3>4. CASE i # 1
      <4>1. i - 1 \in 1 .. n /\ ~(i <= i - 1)
        BY <3>4
      <4>2. flat[i - 1] \in G
        BY <3>2, <4>1
      <4>3. flat[i] = flat[i - 1] \o seqs[i]
        BY <2>7, <3>4
      <4>4. QED BY <1>2, <4>2, <4>3 DEF Joinable
    <3>5. QED BY <3>3, <3>4
  <2>9. n \in 1 .. n
    BY <1>4
  <2>10. QED BY <2>1, <2>8, <2>9
<1>5. QED BY <1>3, <1>4

-----------------------------------------------------------------------------
(* Sums *)

Sum(f, S) == MapThenSumSet(LAMBDA x : f[x], S)

\* As many ones as the sum of f over S
Ones(f, S) == UNION {{x} \X (1 .. f[x]) : x \in S}

LEMMA OnesAdd ==
  ASSUME NEW S, IsFiniteSet(S), NEW f, \A x \in S : f[x] \in Nat, NEW c \in S,
         IsFiniteSet(Ones(f, S \ {c}))
  PROVE  /\ IsFiniteSet(Ones(f, S))
         /\ Cardinality(Ones(f, S)) = f[c] + Cardinality(Ones(f, S \ {c}))
<1> DEFINE rest == Ones(f, S \ {c})
           own == {c} \X (1 .. f[c])
<1>1. IsFiniteSet({c}) /\ Cardinality({c}) = 1
  BY FS_Singleton
<1>2. f[c] \in Nat
  OBVIOUS
<1>3. IsFiniteSet(1 .. f[c]) /\ Cardinality(1 .. f[c]) = f[c]
  <2>1. IsFiniteSet(1 .. f[c]) /\ Cardinality(1 .. f[c]) = IF 1 > f[c] THEN 0 ELSE f[c] - 1 + 1
    BY <1>2, FS_Interval
  <2>2. QED BY <1>2, <2>1
<1>4. IsFiniteSet(own) /\ Cardinality(own) = f[c]
  <2>1. IsFiniteSet(own) /\ Cardinality(own) = 1 * f[c]
    BY <1>1, <1>3, FS_Product
  <2>2. QED BY <1>2, <2>1
<1>5. Ones(f, S) = rest \cup own
  BY DEF Ones
<1>6. rest \cap own = {}
  BY DEF Ones
<1>7. Cardinality(rest) \in Nat
  BY FS_CardinalityType
<1> HIDE DEF rest, own
<1>8. IsFiniteSet(rest)
  BY DEF rest
<1>9. /\ IsFiniteSet(rest \cup own)
      /\ Cardinality(rest \cup own) = Cardinality(rest) + Cardinality(own) - Cardinality(rest \cap own)
  BY <1>4, <1>8, FS_Union
<1>10. Cardinality({}) = 0
  BY FS_EmptySet
<1>11. Cardinality(rest \cup own) = f[c] + Cardinality(rest)
  <2>1. Cardinality(rest \cap own) = 0
    BY <1>6, <1>10
  <2>2. Cardinality(rest) \in Nat
    BY <1>7 DEF rest
  <2>3. QED BY <1>2, <1>4, <1>9, <2>1, <2>2
<1>12. QED BY <1>5, <1>9, <1>11 DEF rest

LEMMA OnesFinite ==
  ASSUME NEW S, IsFiniteSet(S), NEW f, \A x \in S : f[x] \in Nat
  PROVE  IsFiniteSet(Ones(f, S))
<1> DEFINE F(n) == \E T \in SUBSET S : Cardinality(T) = n /\ ~IsFiniteSet(Ones(f, T))
           bad == {n \in Nat : F(n)}
<1>1. \A T \in SUBSET S : IsFiniteSet(T) /\ Cardinality(T) \in Nat
  BY FS_Subset, FS_CardinalityType
<1>2. bad = {}
  <2>1. SUFFICES ASSUME bad # {} PROVE FALSE
    OBVIOUS
  <2>2. PICK n \in bad : \A k \in bad : n <= k
    BY <2>1, LeastNumber
  <2>3. PICK T \in SUBSET S : Cardinality(T) = n /\ ~IsFiniteSet(Ones(f, T))
    BY <2>2
  <2>4. CASE T = {}
    <3>1. Ones(f, T) = {}
      BY <2>4 DEF Ones
    <3>2. QED BY <2>3, <3>1, FS_EmptySet
  <2>5. CASE T # {}
    <3>1. PICK c \in T : TRUE
      BY <2>5
    <3>2. IsFiniteSet(T) /\ T \ {c} \in SUBSET S /\ Cardinality(T \ {c}) = n - 1
      <4>1. Cardinality(T \ {c}) = IF c \in T THEN Cardinality(T) - 1 ELSE Cardinality(T)
        BY <1>1, FS_RemoveElement
      <4>2. QED BY <1>1, <2>3, <3>1, <4>1
    <3>3. n - 1 \in Nat /\ ~(n <= n - 1)
      <4>1. Cardinality(T \ {c}) \in Nat
        BY <1>1, <3>2
      <4>2. n \in Nat
        OBVIOUS
      <4>3. QED BY <3>2, <4>1, <4>2
    <3>4. IsFiniteSet(Ones(f, T \ {c}))
      BY <2>2, <3>2, <3>3
    <3>5. \A x \in T : f[x] \in Nat
      OBVIOUS
    <3>6. IsFiniteSet(Ones(f, T))
      BY <3>1, <3>2, <3>4, <3>5, OnesAdd
    <3>7. QED BY <2>3, <3>6
  <2>6. QED BY <2>4, <2>5
<1>3. S \in SUBSET S /\ Cardinality(S) \in Nat
  BY <1>1
<1>4. QED BY <1>2, <1>3

\* The fold over a set adds what it picks to the sum of the others, in the order in
\* which CHOOSE picks the elements.
Picked(s) == CHOOSE x \in s : TRUE

AddsUp(g, f, S) == g = [s \in SUBSET S |-> IF s = {} THEN 0 ELSE f[Picked(s)] + g[s \ {Picked(s)}]]

LEMMA AddsUpToOnes ==
  ASSUME NEW S, IsFiniteSet(S), NEW f, \A x \in S : f[x] \in Nat, NEW g, AddsUp(g, f, S)
  PROVE  g[S] = Cardinality(Ones(f, S))
<1> DEFINE F(n) == \E T \in SUBSET S : Cardinality(T) = n /\ g[T] # Cardinality(Ones(f, T))
           bad == {n \in Nat : F(n)}
<1>1. \A T \in SUBSET S : IsFiniteSet(T) /\ Cardinality(T) \in Nat
  BY FS_Subset, FS_CardinalityType
<1>2. bad = {}
  <2>1. SUFFICES ASSUME bad # {} PROVE FALSE
    OBVIOUS
  <2>2. PICK n \in bad : \A k \in bad : n <= k
    BY <2>1, LeastNumber
  <2>3. PICK T \in SUBSET S : Cardinality(T) = n /\ g[T] # Cardinality(Ones(f, T))
    BY <2>2
  <2>4. g[T] = IF T = {} THEN 0 ELSE f[Picked(T)] + g[T \ {Picked(T)}]
    BY DEF AddsUp
  <2>5. CASE T = {}
    <3>1. Ones(f, T) = {}
      BY <2>5 DEF Ones
    <3>2. QED BY <2>3, <2>4, <2>5, <3>1, FS_EmptySet
  <2>6. CASE T # {}
    <3>1. PICK c \in T : c = Picked(T)
      BY <2>6 DEF Picked
    <3>2. IsFiniteSet(T) /\ T \ {c} \in SUBSET S /\ Cardinality(T \ {c}) = n - 1
      <4>1. Cardinality(T \ {c}) = IF c \in T THEN Cardinality(T) - 1 ELSE Cardinality(T)
        BY <1>1, FS_RemoveElement
      <4>2. QED BY <1>1, <2>3, <3>1, <4>1
    <3>3. n - 1 \in Nat /\ ~(n <= n - 1)
      <4>1. Cardinality(T \ {c}) \in Nat
        BY <1>1, <3>2
      <4>2. n \in Nat
        OBVIOUS
      <4>3. QED BY <3>2, <4>1, <4>2
    <3>4. g[T \ {c}] = Cardinality(Ones(f, T \ {c}))
      BY <2>2, <3>2, <3>3
    <3>5. \A x \in T : f[x] \in Nat
      OBVIOUS
    <3>6. IsFiniteSet(T \ {c}) /\ \A x \in T \ {c} : f[x] \in Nat
      BY <1>1, <3>2, <3>5
    <3>7. IsFiniteSet(Ones(f, T \ {c}))
      BY <3>6, OnesFinite
    <3>8. Cardinality(Ones(f, T)) = f[c] + Cardinality(Ones(f, T \ {c}))
      BY <3>1, <3>2, <3>5, <3>7, OnesAdd
    <3>9. QED BY <2>3, <2>4, <2>6, <3>1, <3>4, <3>8
  <2>7. QED BY <2>5, <2>6
<1>3. S \in SUBSET S /\ Cardinality(S) \in Nat
  BY <1>1
<1>4. QED BY <1>2, <1>3

LEMMA AddsUpExists ==
  ASSUME NEW S, IsFiniteSet(S), NEW f, \A x \in S : f[x] \in Nat
  PROVE  \E g : AddsUp(g, f, S)
<1> DEFINE g == [s \in SUBSET S |-> Cardinality(Ones(f, s))]
<1>1. ASSUME NEW s \in SUBSET S
      PROVE  g[s] = IF s = {} THEN 0 ELSE f[Picked(s)] + g[s \ {Picked(s)}]
  <2>1. IsFiniteSet(s) /\ \A x \in s : f[x] \in Nat
    BY FS_Subset
  <2>2. CASE s = {}
    <3>1. Ones(f, s) = {}
      BY <2>2 DEF Ones
    <3>2. QED BY <2>2, <3>1, FS_EmptySet
  <2>3. CASE s # {}
    <3>1. PICK c \in s : c = Picked(s)
      BY <2>3 DEF Picked
    <3>2. IsFiniteSet(s \ {c}) /\ \A x \in s \ {c} : f[x] \in Nat
      BY <2>1, FS_RemoveElement
    <3>3. IsFiniteSet(Ones(f, s \ {c}))
      BY <3>2, OnesFinite
    <3>4. Cardinality(Ones(f, s)) = f[c] + Cardinality(Ones(f, s \ {c}))
      BY <2>1, <3>1, <3>3, OnesAdd
    <3>5. s \ {c} \in SUBSET S
      OBVIOUS
    <3>6. QED BY <2>3, <3>1, <3>4, <3>5
  <2>4. QED BY <2>2, <2>3
<1>2. AddsUp(g, f, S)
  <2> DEFINE h == [s \in SUBSET S |-> IF s = {} THEN 0 ELSE f[Picked(s)] + g[s \ {Picked(s)}]]
  <2>1. DOMAIN g = SUBSET S /\ DOMAIN h = SUBSET S /\ \A s \in SUBSET S : g[s] = h[s]
    BY <1>1
  <2>2. g = h
    BY <2>1
  <2>3. PICK k : k = g
    OBVIOUS
  <2>4. QED BY <2>2 DEF AddsUp
<1>3. QED BY <1>2

LEMMA SumIsOnes ==
  ASSUME NEW S, IsFiniteSet(S), NEW f, \A x \in S : f[x] \in Nat
  PROVE  Sum(f, S) = Cardinality(Ones(f, S))
<1> DEFINE g == CHOOSE g : AddsUp(g, f, S)
<1>1. Sum(f, S) = g[S]
  BY DEF Sum, AddsUp, Picked, MapThenSumSet, MapThenFoldSet
<1>2. AddsUp(g, f, S)
  BY AddsUpExists
<1> HIDE DEF g
<1>3. QED BY <1>1, <1>2, AddsUpToOnes

LEMMA SumAdd ==
  ASSUME NEW S, IsFiniteSet(S), NEW f, \A x \in S : f[x] \in Nat
  PROVE  /\ Sum(f, S) \in Nat
         /\ \A c \in S : Sum(f, S) = f[c] + Sum(f, S \ {c}) /\ Sum(f, S \ {c}) \in Nat
<1>1. IsFiniteSet(Ones(f, S)) /\ Sum(f, S) = Cardinality(Ones(f, S))
  BY OnesFinite, SumIsOnes
<1>2. ASSUME NEW c \in S
      PROVE  Sum(f, S) = f[c] + Sum(f, S \ {c}) /\ Sum(f, S \ {c}) \in Nat
  <2>1. IsFiniteSet(S \ {c}) /\ \A x \in S \ {c} : f[x] \in Nat
    BY FS_RemoveElement
  <2>2. /\ IsFiniteSet(Ones(f, S \ {c}))
        /\ Sum(f, S \ {c}) = Cardinality(Ones(f, S \ {c}))
    BY <2>1, OnesFinite, SumIsOnes
  <2>3. Cardinality(Ones(f, S)) = f[c] + Cardinality(Ones(f, S \ {c}))
    BY <2>2, OnesAdd
  <2>4. QED BY <1>1, <2>2, <2>3, FS_CardinalityType
<1>3. QED BY <1>1, <1>2, FS_CardinalityType

LEMMA SumSame ==
  ASSUME NEW S, IsFiniteSet(S), NEW f, NEW g, \A x \in S : f[x] \in Nat /\ g[x] = f[x]
  PROVE  Sum(f, S) = Sum(g, S)
<1>1. Ones(f, S) = Ones(g, S)
  BY DEF Ones
<1>2. QED BY <1>1, SumIsOnes

LEMMA SumEmpty == ASSUME NEW f PROVE Sum(f, {}) = 0
<1>1. Ones(f, {}) = {}
  BY DEF Ones
<1>2. QED BY <1>1, SumIsOnes, FS_EmptySet

\* One more at one place, or a new place with one.
LEMMA SumMore ==
  ASSUME NEW S, IsFiniteSet(S), NEW f, \A x \in S : f[x] \in Nat,
         NEW c, NEW g, \A x \in S \ {c} : g[x] = f[x],
         g[c] = (IF c \in S THEN f[c] ELSE 0) + 1
  PROVE  Sum(g, S \cup {c}) = Sum(f, S) + 1
<1>1. g[c] \in Nat
  OBVIOUS
<1>2. \A x \in S \cup {c} : g[x] \in Nat
  BY <1>1
<1>3. IsFiniteSet(S \cup {c}) /\ IsFiniteSet(S \ {c})
  BY FS_AddElement, FS_RemoveElement
<1>4. Sum(g, S \cup {c}) = g[c] + Sum(g, (S \cup {c}) \ {c})
  BY <1>2, <1>3, SumAdd
<1>5. (S \cup {c}) \ {c} = S \ {c}
  OBVIOUS
<1>6. Sum(g, S \ {c}) = Sum(f, S \ {c})
  <2>1. \A x \in S \ {c} : f[x] \in Nat /\ g[x] = f[x]
    OBVIOUS
  <2>2. QED BY <1>3, <2>1, SumSame
<1>7. Sum(f, S) \in Nat
  BY SumAdd
<1>8. CASE c \in S
  <2>1. Sum(f, S) = f[c] + Sum(f, S \ {c}) /\ Sum(f, S \ {c}) \in Nat
    BY <1>8, SumAdd
  <2>2. f[c] \in Nat /\ g[c] = f[c] + 1
    BY <1>8
  <2>3. QED BY <1>4, <1>5, <1>6, <2>1, <2>2
<1>9. CASE c \notin S
  <2>1. S \ {c} = S /\ g[c] = 1
    BY <1>9
  <2>2. QED BY <1>4, <1>5, <1>6, <1>7, <2>1
<1>10. QED BY <1>8, <1>9
-----------------------------------------------------------------------------
(* Types *)

Names == Hosts \cup {"Modbus", "DNP3"} \cup UnitIds \cup Funcs \cup Targets \cup {None}
Counts == UNION {[D -> Nat \ {0}] : D \in SUBSET Seq(Names)}
Tallies == UNION {[D -> Nat] : D \in SUBSET Seq(Names)}

Requests == [requestor : Hosts, responder : Hosts, protocol : {"Modbus", "DNP3"},
             unit : UnitIds \cup {None}, func : Funcs \cup {None}, is_responded : BOOLEAN]

PacketEvents == [type : {"new_packet"}, packet : Packets]
MessageEvents == [type : {"modbus_message", "detail"}, pdu : Modbus]
                 \cup [type : {"header_block", "application_header"}, pdu : Dnp3]
ObjectEventsOf == [type : {"object_header"}, object : ObjectHeader]
                  \cup [type : {"object_prefix"}, target : Targets]
RaisedEvents == [type : {"item_seen"}, item : Item \cup {None}, ref : Nat]
                \cup [type : {"item_gen"}, ref : Nat]
                \cup [type : {"match"}, link : Links, found : SUBSET Identities]
Dissection == MessageEvents \cup ObjectEventsOf
Events == PacketEvents \cup Dissection \cup RaisedEvents

TypeInv ==
  /\ queue \in Seq(Events)
  /\ items \in Seq(Item)
  /\ tgt_table \in [DOMAIN tgt_table -> Targets]
  /\ logged \in Seq(Nat)

\* The tables of the counter and what it publishes
CountsTyped ==
  /\ counts \in Counts /\ responses \in Counts
  /\ req_table \in [DOMAIN req_table -> Requests]
  /\ periods \in Seq([num : Counts, num_res : Tallies])

-----------------------------------------------------------------------------
(* The queue *)

Dissections == {"modbus_message", "detail", "header_block", "application_header",
                "object_header", "object_prefix"}
Messages == {"modbus_message", "application_header"}
Details == {"detail", "object_header", "object_prefix"}
Raised == {"item_seen", "item_gen", "match"}

\* g_info is the item of the packet that the events of the queue are about.
InPacket == queue # << >> /\ queue[1].type # "new_packet"

\* Of the events of a packet, that of the packet comes first, when no other event is
\* left of the packet before.
PacketFirst ==
  \A i \in DOMAIN queue : i # 1 =>
    /\ queue[i].type # "new_packet"
    /\ queue[1].type = "new_packet" => queue[i].type \in Dissections

\* A DNP3 message has its addresses from the event just before.
AddressesFirst ==
  /\ \A i \in DOMAIN queue :
       queue[i].type = "header_block" =>
         i + 1 \in DOMAIN queue /\ queue[i + 1].type = "application_header"
  /\ \A i \in DOMAIN queue :
       queue[i].type = "application_header" =>
         IF i = 1 THEN items[Current].unit # None ELSE queue[i - 1].type = "header_block"

\* The objects of a message come after the message.
MessageFirst ==
  \A i \in DOMAIN queue :
    queue[i].type \in Details =>
      \/ \E j \in 1 .. i - 1 : queue[j].type \in Messages
      \/ InPacket /\ items[Current].protocol # None

\* What the events refer to.
Refers ==
  /\ \A i \in DOMAIN queue :
       /\ queue[i].type = "item_gen" => queue[i].ref \in 1 .. Current
       /\ queue[i].type = "item_seen" => IF queue[i].ref = 0 THEN queue[i].item \in Item
                                                             ELSE queue[i].ref = Current
  /\ InPacket => Current > 0

QueueOK == PacketFirst /\ AddressesFirst /\ MessageFirst /\ Refers

-----------------------------------------------------------------------------
(* Which way a packet goes *)

Origins == [orig : [Links -> Hosts], resp : [Links -> Hosts]]

PacketFuncs(p) == {p.pdus[i].func : i \in DOMAIN p.pdus}

IsOrigin(o) ==
  \A p \in Packets :
    \/ /\ p.src = o.orig[p.link] /\ p.dst = o.resp[p.link]
       /\ PacketFuncs(p) \subseteq Asks
    \/ /\ p.src = o.resp[p.link] /\ p.dst = o.orig[p.link]
       /\ PacketFuncs(p) \cap Asks = {}

Origin == CHOOSE o \in Origins : IsOrigin(o)

Way(link, src, dst, asks) ==
  IF asks THEN src = Origin.orig[link] /\ dst = Origin.resp[link]
          ELSE src = Origin.resp[link] /\ dst = Origin.orig[link]

\* An item of a packet that goes the way "asks".
Fits(i, asks) ==
  /\ Way(i.link, i.sender, i.receiver, asks)
  /\ i.is_response => ~asks
  /\ i.protocol # None /\ ~i.is_response => asks

\* Events whose function is a request exactly if the packet is one.
Directed == {"modbus_message", "detail", "application_header"}

OneWay ==
  /\ queue # << >> =>
     \E asks \in BOOLEAN :
       /\ \A i \in DOMAIN queue :
            queue[i].type \in Directed => (queue[i].pdu.func \in Asks <=> asks)
       /\ ~InPacket => Way(queue[1].packet.link, queue[1].packet.src, queue[1].packet.dst, asks)
       /\ InPacket => Fits(items[Current], asks)
  /\ \A k \in DOMAIN items :
       items[k].protocol # None =>
         Way(items[k].link, items[k].sender, items[k].receiver, ~items[k].is_response)

-----------------------------------------------------------------------------
(* What is counted, or will be *)

ItemPaths(i) == IF i.protocol = None THEN PacketPaths(i)
                ELSE IF i.target = None THEN MessagePaths(i) ELSE {TargetPath(i)}

\* The paths of an event with a record of its own.
Carried(e) == IF e.type = "item_seen" /\ e.ref = 0 THEN ItemPaths(e.item) ELSE {}

\* p is counted when the n-th event is handled.
CountedBefore(p, n) == p \in DOMAIN counts \/ \E i \in 1 .. n - 1 : p \in Carried(queue[i])
Coming(p) == CountedBefore(p, Len(queue) + 1)

Closed ==
  /\ \A p \in DOMAIN counts : p = << >> \/ Coming(Front(p))
  /\ \A i \in DOMAIN queue : \A p \in Carried(queue[i]) : p = << >> \/ Coming(Front(p))
  /\ InPacket =>
       /\ \A p \in PacketPaths(items[Current]) : Coming(p)
       /\ items[Current].protocol # None /\ queue[1].type # "application_header" =>
            Coming(FunctionPath(items[Current]))

-----------------------------------------------------------------------------
(* Who has shown what *)

ShownBefore(h, g, protocol, f, n) ==
  \E u \in UnitIds : CountedBefore(<< h, g, protocol, u, f >>, n) \/ Published(<< h, g, protocol, u, f >>)
Shown(h, g, protocol, f) == ShownBefore(h, g, protocol, f, Len(queue) + 1)

ItemsShow ==
  \A k \in DOMAIN items :
    items[k].func # None =>
      /\ items[k].protocol # None
      /\ Shown(items[k].sender, items[k].receiver, items[k].protocol, items[k].func)

RequestsShow ==
  \A link \in DOMAIN id_req_table :
    LET r == id_req_table[link]
    IN  /\ r.requestor = Origin.orig[link] /\ r.responder = Origin.resp[link]
        /\ Shown(r.requestor, r.responder, r.protocol, r.req_func)

\* A match found when the n-th event is handled.
MatchShows(e, n) ==
  /\ e.link \in DOMAIN id_req_table
  /\ \A i \in e.found :
       /\ ShownBefore(Origin.orig[e.link], Origin.resp[e.link], i.protocol, i.ask, n)
       /\ ShownBefore(Origin.resp[e.link], Origin.orig[e.link], i.protocol, i.answer, n)

MatchesShow == \A n \in DOMAIN queue : queue[n].type = "match" => MatchShows(queue[n], n)

Shows == ItemsShow /\ RequestsShow /\ MatchesShow

-----------------------------------------------------------------------------
(* What is logged, or will be *)

ToLog(k) == (\E i \in DOMAIN logged : logged[i] = k) \/ \E i \in DOMAIN queue : queue[i] = GenRef(k)

AllToLog ==
  /\ wait => Current > 0
  /\ \A k \in DOMAIN items :
       /\ ToLog(k) \/ (k = Current /\ wait) \/ (items[k].is_response /\ items[k].target = None)
       /\ items[k].target # None => ToLog(k)

InOrder ==
  /\ \A i, j \in DOMAIN queue :
       queue[i].type = "item_gen" /\ queue[j].type = "item_gen" /\ i <= j => queue[i].ref <= queue[j].ref
  /\ \A l \in DOMAIN logged : \A i \in DOMAIN queue :
       queue[i].type = "item_gen" => logged[l] <= queue[i].ref
  /\ \A i, j \in DOMAIN logged : i <= j => logged[i] <= logged[j]
  /\ \A i \in DOMAIN logged : logged[i] <= Current

Logs == AllToLog /\ InOrder

IInv == TypeInv /\ QueueOK /\ OneWay /\ Closed /\ Shows /\ IdentitiesEarned /\ Logs
-----------------------------------------------------------------------------
(* Raising events *)

\* t is s without its first event and with those of e behind.
MovedTo(s, e, t) ==
  /\ Len(s) \in Nat \ {0} /\ Len(e) \in Nat /\ Len(t) = Len(s) - 1 + Len(e)
  /\ DOMAIN s = 1 .. Len(s) /\ DOMAIN e = 1 .. Len(e) /\ DOMAIN t = 1 .. Len(t)
  /\ \A i \in DOMAIN s : i # 1 => i - 1 \in DOMAIN t /\ t[i - 1] = s[i]
  /\ \A j \in DOMAIN e : Len(s) - 1 + j \in DOMAIN t /\ t[Len(s) - 1 + j] = e[j]
  /\ \A i \in DOMAIN t : \/ i + 1 \in DOMAIN s /\ t[i] = s[i + 1]
                         \/ \E j \in DOMAIN e : i = Len(s) - 1 + j /\ t[i] = e[j]

LEMMA RaiseMoves ==
  ASSUME NEW S, NEW s \in Seq(S), s # << >>, NEW e \in Seq(S), NEW t, t = Tail(s) \o e
  PROVE  t \in Seq(S) /\ MovedTo(s, e, t) /\ Head(s) = s[1]
<1>1. /\ Tail(s) \in Seq(S) /\ Head(s) = s[1]
      /\ Len(s) \in Nat \ {0} /\ Len(Tail(s)) = Len(s) - 1
      /\ \A i \in 1 .. Len(Tail(s)) : Tail(s)[i] = s[i + 1]
  <2>1. Len(s) \in Nat /\ Len(s) # 0
    BY EmptySeq
  <2>2. QED BY <2>1, HeadTailProperties
<1>2. PICK r \in Seq(S) : r = Tail(s)
  BY <1>1
<1>3. /\ t \in Seq(S) /\ Len(t) = Len(r) + Len(e) /\ Len(e) \in Nat
      /\ \A i \in 1 .. Len(t) : t[i] = IF i <= Len(r) THEN r[i] ELSE e[i - Len(r)]
  <2>1. t = r \o e
    BY <1>2
  <2>2. /\ r \o e \in Seq(S) /\ Len(r \o e) = Len(r) + Len(e)
        /\ \A i \in 1 .. Len(r) + Len(e) :
             (r \o e)[i] = IF i <= Len(r) THEN r[i] ELSE e[i - Len(r)]
    BY ConcatProperties
  <2>3. Len(e) \in Nat
    OBVIOUS
  <2>4. QED BY <2>1, <2>2, <2>3
<1>4. DOMAIN s = 1 .. Len(s) /\ DOMAIN e = 1 .. Len(e) /\ DOMAIN t = 1 .. Len(t)
  BY <1>3
<1>5. Len(t) = Len(s) - 1 + Len(e) /\ Len(r) = Len(s) - 1
  BY <1>1, <1>2, <1>3
<1>6. ASSUME NEW i \in DOMAIN s, i # 1
      PROVE  i - 1 \in DOMAIN t /\ t[i - 1] = s[i]
  <2>1. i \in 1 .. Len(s)
    BY <1>4
  <2>2. i - 1 \in 1 .. Len(r) /\ i - 1 \in 1 .. Len(t) /\ i - 1 <= Len(r) /\ i - 1 + 1 = i
    BY <1>1, <1>3, <1>5, <1>6, <2>1
  <2>3. t[i - 1] = r[i - 1]
    BY <1>3, <2>2
  <2>4. r[i - 1] = s[i - 1 + 1]
    BY <1>1, <1>2, <2>2
  <2>5. QED BY <1>4, <2>2, <2>3, <2>4
<1>7. ASSUME NEW j \in DOMAIN e
      PROVE  Len(s) - 1 + j \in DOMAIN t /\ t[Len(s) - 1 + j] = e[j]
  <2>1. j \in 1 .. Len(e)
    BY <1>4
  <2>2. /\ Len(s) - 1 + j \in 1 .. Len(t) /\ ~(Len(s) - 1 + j <= Len(r))
        /\ Len(s) - 1 + j - Len(r) = j
    BY <1>1, <1>3, <1>5, <2>1
  <2>3. PICK m \in 1 .. Len(t) : m = Len(s) - 1 + j
    BY <2>2
  <2>4. t[m] = e[m - Len(r)] /\ m - Len(r) = j
    BY <1>3, <2>2, <2>3
  <2>5. QED BY <1>4, <2>3, <2>4
<1>8. ASSUME NEW i \in DOMAIN t
      PROVE  \/ i + 1 \in DOMAIN s /\ t[i] = s[i + 1]
             \/ \E j \in DOMAIN e : i = Len(s) - 1 + j /\ t[i] = e[j]
  <2>1. i \in 1 .. Len(t)
    BY <1>4
  <2>2. CASE i <= Len(r)
    <3>1. i \in 1 .. Len(r) /\ i + 1 \in 1 .. Len(s)
      BY <1>1, <1>5, <2>1, <2>2
    <3>2. t[i] = r[i] /\ r[i] = s[i + 1]
      BY <1>1, <1>2, <1>3, <2>1, <2>2, <3>1
    <3>3. QED BY <1>4, <3>1, <3>2
  <2>3. CASE ~(i <= Len(r))
    <3> DEFINE j == i - Len(r)
    <3>1. j \in 1 .. Len(e) /\ i = Len(s) - 1 + j
      BY <1>1, <1>3, <1>5, <2>1, <2>3
    <3>2. t[i] = e[j]
      BY <1>3, <2>1, <2>3
    <3> HIDE DEF j
    <3>3. QED BY <1>4, <3>1, <3>2
  <2>4. QED BY <2>2, <2>3
<1>9. QED BY <1>1, <1>3, <1>4, <1>5, <1>6, <1>7, <1>8 DEF MovedTo

LEMMA EventFields ==
  ASSUME NEW e \in Events
  PROVE  /\ e.type \in Dissections \cup Raised \cup {"new_packet"}
         /\ e.type = "new_packet" => e.packet \in Packets
         /\ e.type \in {"modbus_message", "detail"} => e.pdu \in Modbus
         /\ e.type \in {"header_block", "application_header"} => e.pdu \in Dnp3
         /\ e.type = "object_header" => e.object \in ObjectHeader
         /\ e.type = "object_prefix" => e.target \in Targets
         /\ e.type = "item_seen" => e.item \in Item \cup {None} /\ e.ref \in Nat
         /\ e.type = "item_gen" => e.ref \in Nat /\ e = GenRef(e.ref)
         /\ e.type = "match" => e.link \in Links /\ e.found \subseteq Identities
<1>1. CASE e \in PacketEvents
  BY <1>1 DEF PacketEvents, Dissections, Raised
<1>2. CASE e \in MessageEvents
  BY <1>2 DEF MessageEvents, Dissections, Raised
<1>3. CASE e \in ObjectEventsOf
  BY <1>3 DEF ObjectEventsOf, Dissections, Raised
<1>4. CASE e \in RaisedEvents
  BY <1>4 DEF RaisedEvents, Dissections, Raised, GenRef
<1>5. QED BY <1>1, <1>2, <1>3, <1>4 DEF Events, Dissection

-----------------------------------------------------------------------------
(* What handling an event keeps *)

\* The first event is handled, and raises "events".
Handles(events) ==
  /\ queue # << >> /\ queue' \in Seq(Events) /\ MovedTo(queue, events, queue')
  /\ \A j \in DOMAIN events : events[j].type \in Raised

LEMMA RaiseHandles ==
  ASSUME TypeInv, queue # << >>, NEW events \in Seq(RaisedEvents), Raise(events)
  PROVE  Handles(events) /\ Head(queue) = queue[1] /\ 1 \in DOMAIN queue /\ queue[1] \in Events
<1>1. queue \in Seq(Events)
  BY DEF TypeInv
<1>2. events \in Seq(Events) /\ \A j \in DOMAIN events : events[j] \in RaisedEvents
  <2>1. \A j \in DOMAIN events : events[j] \in RaisedEvents
    OBVIOUS
  <2>2. \A j \in 1 .. Len(events) : events[j] \in Events
    BY <2>1 DEF Events
  <2>3. events = [j \in 1 .. Len(events) |-> events[j]] /\ Len(events) \in Nat
    OBVIOUS
  <2>4. events \in [1 .. Len(events) -> Events]
    BY <2>2, <2>3
  <2>5. QED BY <2>1, <2>3, <2>4
<1>3. \A j \in DOMAIN events : events[j].type \in Raised
  BY <1>2 DEF RaisedEvents, Raised
<1>4. PICK S : S = Events
  OBVIOUS
<1>5. PICK t : t = queue'
  OBVIOUS
<1>6. t \in Seq(S) /\ MovedTo(queue, events, t) /\ Head(queue) = queue[1]
  <2>1. queue \in Seq(S) /\ events \in Seq(S) /\ t = Tail(queue) \o events
    BY <1>1, <1>2, <1>4, <1>5 DEF Raise
  <2>2. QED BY <2>1, RaiseMoves
<1>7. 1 \in DOMAIN queue
  BY <1>6 DEF MovedTo
<1>8. QED BY <1>1, <1>3, <1>4, <1>5, <1>6, <1>7 DEF Handles

LEMMA QueueStep ==
  ASSUME QueueOK, NEW events, Handles(events),
         Current' \in Nat \ {0}, Current \in Nat, Current <= Current',
         queue[1].type = "new_packet" \/ Current' = Current,
         queue[1].type = "header_block" => items'[Current'].unit # None,
         queue[1].type \in Messages => items'[Current'].protocol # None,
         InPacket /\ items[Current].protocol # None => items'[Current'].protocol # None,
         \A j \in DOMAIN events :
           /\ events[j].type = "item_gen" => events[j].ref \in 1 .. Current'
           /\ events[j].type = "item_seen" =>
                IF events[j].ref = 0 THEN events[j].item \in Item ELSE events[j].ref = Current'
  PROVE  QueueOK' /\ \A i \in DOMAIN queue' : queue'[i].type # "new_packet"
<1> DEFINE n == Len(queue)
<1>1. /\ n \in Nat \ {0} /\ Len(events) \in Nat /\ Len(queue') = n - 1 + Len(events)
      /\ DOMAIN queue = 1 .. n /\ DOMAIN events = 1 .. Len(events)
      /\ DOMAIN queue' = 1 .. Len(queue') /\ queue # << >>
  BY DEF Handles, MovedTo
<1>2. \A i \in DOMAIN queue : i # 1 => i - 1 \in DOMAIN queue' /\ queue'[i - 1] = queue[i]
  BY DEF Handles, MovedTo
<1>3. \A i \in DOMAIN queue' : \/ i + 1 \in DOMAIN queue /\ queue'[i] = queue[i + 1]
                               \/ \E j \in DOMAIN events : i = n - 1 + j /\ queue'[i] = events[j]
  BY DEF Handles, MovedTo
<1>4. \A j \in DOMAIN events : events[j].type \in Raised
  BY DEF Handles
<1> HIDE DEF n
<1>5. \A i \in DOMAIN queue' :
        queue'[i].type \notin Raised => i + 1 \in DOMAIN queue /\ queue'[i] = queue[i + 1]
  BY <1>3, <1>4
<1>6. \A i \in DOMAIN queue' : i \in Nat /\ i + 1 # 1 /\ i >= 1
  BY <1>1
<1>7. \A i \in DOMAIN queue' : queue'[i].type # "new_packet"
  <2>1. \A i \in DOMAIN queue : i # 1 => queue[i].type # "new_packet"
    BY DEF QueueOK, PacketFirst
  <2>2. "new_packet" \notin Raised
    BY DEF Raised
  <2>3. QED BY <1>5, <1>6, <2>1, <2>2
<1>8. 1 \in DOMAIN queue
  BY <1>1
<1>9. InPacket' <=> queue' # << >>
  <2>1. queue' # << >> => 1 \in DOMAIN queue'
    <3>1. queue' \in Seq(Events)
      BY DEF Handles
    <3>2. queue' # << >> => Len(queue') # 0
      BY <3>1, EmptySeq
    <3>3. QED BY <1>1, <3>2
  <2>2. QED BY <1>7, <2>1 DEF InPacket
<1>10. PacketFirst'
  <2>1. \A i \in DOMAIN queue' : queue'[1].type # "new_packet"
    <3>1. \A i \in DOMAIN queue' : 1 \in DOMAIN queue'
      BY <1>1
    <3>2. QED BY <1>7, <3>1
  <2>2. QED BY <1>7, <2>1 DEF PacketFirst
<1>11. AddressesFirst'
  <2>1. ASSUME NEW i \in DOMAIN queue', queue'[i].type = "header_block"
        PROVE  i + 1 \in DOMAIN queue' /\ queue'[i + 1].type = "application_header"
    <3>1. i + 1 \in DOMAIN queue /\ queue[i + 1].type = "header_block"
      BY <1>5, <2>1 DEF Raised
    <3>2. i + 1 + 1 \in DOMAIN queue /\ queue[i + 1 + 1].type = "application_header"
      BY <3>1 DEF QueueOK, AddressesFirst
    <3>3. PICK k \in DOMAIN queue : k = i + 1 + 1
      BY <3>2
    <3>4. k # 1 /\ k - 1 = i + 1
      BY <1>6, <3>3
    <3>5. QED BY <1>2, <3>2, <3>3, <3>4
  <2>2. ASSUME NEW i \in DOMAIN queue', queue'[i].type = "application_header"
        PROVE  IF i = 1 THEN items'[Current'].unit # None ELSE queue'[i - 1].type = "header_block"
    <3>1. i + 1 \in DOMAIN queue /\ queue[i + 1].type = "application_header"
      BY <1>5, <2>2 DEF Raised
    <3>2. queue[i + 1 - 1].type = "header_block" /\ i + 1 - 1 = i
      BY <1>6, <3>1 DEF QueueOK, AddressesFirst
    <3>3. CASE i = 1
      BY <3>2, <3>3
    <3>4. CASE i # 1
      <4>1. i \in DOMAIN queue
        BY <1>1, <1>6, <3>1
      <4>2. QED BY <1>2, <3>2, <3>4, <4>1
    <3>5. QED BY <3>3, <3>4
  <2>3. QED BY <2>1, <2>2 DEF AddressesFirst
<1>12. MessageFirst'
  <2>1. SUFFICES ASSUME NEW i \in DOMAIN queue', queue'[i].type \in Details
                 PROVE  \/ \E j \in 1 .. i - 1 : queue'[j].type \in Messages
                        \/ InPacket' /\ items'[Current'].protocol # None
    BY DEF MessageFirst
  <2>2. InPacket'
    <3>1. queue' # << >>
      OBVIOUS
    <3>2. QED BY <1>9, <3>1
  <2>3. i + 1 \in DOMAIN queue /\ queue[i + 1].type \in Details
    BY <1>5, <2>1 DEF Details, Raised
  <2>4. PICK k \in DOMAIN queue : k = i + 1
    BY <2>3
  <2>5. CASE \E j \in 1 .. k - 1 : queue[j].type \in Messages
    <3>1. PICK j \in 1 .. k - 1 : queue[j].type \in Messages
      BY <2>5
    <3>2. CASE j = 1
      BY <2>2, <3>1, <3>2
    <3>3. CASE j # 1
      <4>1. j \in DOMAIN queue /\ j - 1 \in 1 .. i - 1
        BY <1>1, <1>6, <2>4, <3>3
      <4>2. QED BY <1>2, <3>1, <3>3, <4>1
    <3>4. QED BY <3>2, <3>3
  <2>6. CASE InPacket /\ items[Current].protocol # None
    BY <2>2, <2>6
  <2>7. \/ \E j \in 1 .. k - 1 : queue[j].type \in Messages
        \/ InPacket /\ items[Current].protocol # None
    BY <2>3, <2>4 DEF QueueOK, MessageFirst
  <2>8. QED BY <2>5, <2>6, <2>7
<1>13. Refers'
  <2>1. ASSUME NEW i \in DOMAIN queue'
        PROVE  /\ queue'[i].type = "item_gen" => queue'[i].ref \in 1 .. Current'
               /\ queue'[i].type = "item_seen" =>
                    IF queue'[i].ref = 0 THEN queue'[i].item \in Item
                                         ELSE queue'[i].ref = Current'
    <3>1. CASE i + 1 \in DOMAIN queue /\ queue'[i] = queue[i + 1]
      <4>1. /\ queue[i + 1].type = "item_gen" => queue[i + 1].ref \in 1 .. Current
            /\ queue[i + 1].type = "item_seen" =>
                 IF queue[i + 1].ref = 0 THEN queue[i + 1].item \in Item
                                         ELSE queue[i + 1].ref = Current
        BY <3>1 DEF QueueOK, Refers
      <4>2. 1 .. Current \subseteq 1 .. Current'
        OBVIOUS
      <4>3. CASE queue[1].type = "new_packet"
        <5>1. queue[i + 1].type \in Dissections
          BY <1>6, <3>1, <4>3 DEF QueueOK, PacketFirst
        <5>2. QED BY <3>1, <5>1 DEF Dissections
      <4>4. CASE Current' = Current
        BY <3>1, <4>1, <4>2, <4>4
      <4>5. QED BY <4>3, <4>4
    <3>2. CASE \E j \in DOMAIN events : i = n - 1 + j /\ queue'[i] = events[j]
      BY <3>2
    <3>3. QED BY <1>3, <3>1, <3>2
  <2>2. Current' > 0
    OBVIOUS
  <2>3. QED BY <2>1, <2>2 DEF Refers
<1>14. QED BY <1>7, <1>10, <1>11, <1>12, <1>13 DEF QueueOK

\* All items but the current one stay as they are.
ItemsKept ==
  \A k \in DOMAIN items' : k = Current' \/ (k \in DOMAIN items /\ items'[k] = items[k])

LEMMA OneWayStep ==
  ASSUME OneWay, NEW events, Handles(events), ItemsKept, items'[Current'] \in Item,
         \A i \in DOMAIN queue' : queue'[i].type # "new_packet",
         \A asks \in BOOLEAN :
           /\ queue[1].type \in Directed => (queue[1].pdu.func \in Asks <=> asks)
           /\ ~InPacket => Way(queue[1].packet.link, queue[1].packet.src, queue[1].packet.dst, asks)
           /\ InPacket => Fits(items[Current], asks)
           => Fits(items'[Current'], asks)
  PROVE  OneWay'
<1>1. PICK asks \in BOOLEAN :
        /\ \A i \in DOMAIN queue :
             queue[i].type \in Directed => (queue[i].pdu.func \in Asks <=> asks)
        /\ ~InPacket => Way(queue[1].packet.link, queue[1].packet.src, queue[1].packet.dst, asks)
        /\ InPacket => Fits(items[Current], asks)
  BY DEF OneWay, Handles
<1>2. 1 \in DOMAIN queue
  BY DEF Handles, MovedTo
<1>3. Fits(items'[Current'], asks)
  BY <1>1, <1>2
<1>4. \A i \in DOMAIN queue' :
        queue'[i].type \in Directed => (queue'[i].pdu.func \in Asks <=> asks)
  <2>1. Directed \cap Raised = {}
    BY DEF Directed, Raised
  <2>2. \A i \in DOMAIN queue' :
          queue'[i].type \in Directed => i + 1 \in DOMAIN queue /\ queue'[i] = queue[i + 1]
    BY <2>1 DEF Handles, MovedTo
  <2>3. QED BY <1>1, <2>2
<1>5. queue' # << >> => InPacket'
  <2>1. queue' # << >> => 1 \in DOMAIN queue'
    <3>1. queue' \in Seq(Events) /\ DOMAIN queue' = 1 .. Len(queue') /\ Len(queue') \in Nat
      BY DEF Handles, MovedTo
    <3>2. queue' # << >> => Len(queue') # 0
      BY <3>1, EmptySeq
    <3>3. QED BY <3>1, <3>2
  <2>2. QED BY <2>1 DEF InPacket
<1>6. InPacket' => queue' # << >>
  BY DEF InPacket
<1>7. ASSUME NEW k \in DOMAIN items', items'[k].protocol # None
      PROVE  Way(items'[k].link, items'[k].sender, items'[k].receiver, ~items'[k].is_response)
  <2>1. CASE k = Current'
    <3>1. items'[k].is_response \in BOOLEAN
      BY <2>1 DEF Item
    <3>2. ~items'[k].is_response <=> asks
      BY <1>3, <1>7, <2>1, <3>1 DEF Fits
    <3>3. (~items'[k].is_response) = asks
      BY <3>1, <3>2
    <3>4. QED BY <1>3, <2>1, <3>3 DEF Fits
  <2>2. CASE k \in DOMAIN items /\ items'[k] = items[k]
    BY <1>7, <2>2 DEF OneWay
  <2>3. QED BY <2>1, <2>2 DEF ItemsKept
<1>8. QED BY <1>3, <1>4, <1>5, <1>6, <1>7 DEF OneWay

\* What has been counted, or was to be counted with the first event, is counted.
Keeps == DOMAIN counts \cup Carried(queue[1]) \subseteq DOMAIN counts'

LEMMA ComingStep ==
  ASSUME NEW events, Handles(events), Keeps
  PROVE  /\ \A p : \A n \in 2 .. Len(queue) + 1 : CountedBefore(p, n) => CountedBefore(p, n - 1)'
         /\ \A p : \A n \in Nat : n >= Len(queue) /\ Coming(p) => CountedBefore(p, n)'
         /\ \A p : Coming(p) => Coming(p)'
         /\ \A j \in DOMAIN events : \A p \in Carried(events[j]) : Coming(p)'
<1> DEFINE n == Len(queue)
<1>1. /\ n \in Nat \ {0} /\ Len(events) \in Nat /\ Len(queue') = n - 1 + Len(events)
      /\ DOMAIN queue = 1 .. n /\ DOMAIN events = 1 .. Len(events)
      /\ DOMAIN queue' = 1 .. Len(queue')
  BY DEF Handles, MovedTo
<1>2. \A i \in DOMAIN queue : i # 1 => i - 1 \in DOMAIN queue' /\ queue'[i - 1] = queue[i]
  BY DEF Handles, MovedTo
<1>3. \A j \in DOMAIN events : n - 1 + j \in DOMAIN queue' /\ queue'[n - 1 + j] = events[j]
  BY DEF Handles, MovedTo
<1> HIDE DEF n
<1>4. ASSUME NEW p, NEW m \in 2 .. n + 1, CountedBefore(p, m), NEW l \in Nat, l >= m - 1
      PROVE  p \in DOMAIN counts' \/ \E i \in 1 .. l - 1 : p \in Carried(queue'[i])
  <2>1. CASE p \in DOMAIN counts
    BY <2>1 DEF Keeps
  <2>2. CASE \E i \in 1 .. m - 1 : p \in Carried(queue[i])
    <3>1. PICK i \in 1 .. m - 1 : p \in Carried(queue[i])
      BY <2>2
    <3>2. CASE i = 1
      BY <3>1, <3>2 DEF Keeps
    <3>3. CASE i # 1
      <4>1. i \in DOMAIN queue /\ i - 1 \in 1 .. l - 1
        BY <1>1, <1>4, <3>3
      <4>2. QED BY <1>2, <3>1, <3>3, <4>1
    <3>4. QED BY <3>2, <3>3
  <2>3. QED BY <1>4, <2>1, <2>2 DEF CountedBefore
<1>5. ASSUME NEW p, NEW m \in 2 .. n + 1, CountedBefore(p, m)
      PROVE  CountedBefore(p, m - 1)'
  <2>1. m - 1 \in Nat /\ m - 1 >= m - 1
    OBVIOUS
  <2>2. PICK l \in Nat : l = m - 1
    BY <2>1
  <2>3. p \in DOMAIN counts' \/ \E i \in 1 .. l - 1 : p \in Carried(queue'[i])
    BY <1>4, <1>5, <2>1, <2>2
  <2>4. QED BY <2>2, <2>3 DEF CountedBefore
<1>6. ASSUME NEW p, NEW l \in Nat, l >= n, Coming(p)
      PROVE  CountedBefore(p, l)'
  <2>1. PICK m \in 2 .. n + 1 : m = n + 1
    BY <1>1
  <2>2. CountedBefore(p, m) /\ l >= m - 1
    BY <1>1, <1>6, <2>1 DEF Coming, n
  <2>3. p \in DOMAIN counts' \/ \E i \in 1 .. l - 1 : p \in Carried(queue'[i])
    BY <1>4, <2>2
  <2>4. QED BY <2>3 DEF CountedBefore
<1>7. ASSUME NEW p, Coming(p)
      PROVE  Coming(p)'
  <2>1. PICK l \in Nat : l = Len(queue') + 1
    BY <1>1
  <2>2. l >= n
    BY <1>1, <2>1
  <2>3. CountedBefore(p, l)'
    BY <1>6, <1>7, <2>2
  <2>4. QED BY <2>1, <2>3 DEF Coming, CountedBefore
<1>8. ASSUME NEW j \in DOMAIN events, NEW p \in Carried(events[j])
      PROVE  Coming(p)'
  <2>1. PICK i \in DOMAIN queue' : i = n - 1 + j /\ queue'[i] = events[j]
    BY <1>3
  <2>2. i \in 1 .. Len(queue') + 1 - 1
    BY <1>1, <2>1
  <2>3. QED BY <2>1, <2>2 DEF Coming, CountedBefore
<1>9. QED BY <1>5, <1>6, <1>7, <1>8 DEF n

LEMMA ClosedStep ==
  ASSUME Closed, NEW events, Handles(events), Keeps,
         \A p \in DOMAIN counts' :
           p \in DOMAIN counts \cup Carried(queue[1]) \/ p = << >> \/ Coming(Front(p))',
         \A j \in DOMAIN events : \A p \in Carried(events[j]) : p = << >> \/ Coming(Front(p))',
         \A p \in PacketPaths(items'[Current']) : Coming(p)',
         items'[Current'].protocol # None /\ queue'[1].type # "application_header" =>
           Coming(FunctionPath(items[Current]))'
  PROVE  Closed'
<1>1. /\ \A p : Coming(p) => Coming(p)'
      /\ 1 \in DOMAIN queue
      /\ \A i \in DOMAIN queue' : \/ i + 1 \in DOMAIN queue /\ queue'[i] = queue[i + 1]
                                  \/ \E j \in DOMAIN events : queue'[i] = events[j]
  <2>1. \A p : Coming(p) => Coming(p)'
    BY ComingStep
  <2>2. QED BY <2>1 DEF Handles, MovedTo
<1>2. \A p \in DOMAIN counts' : p = << >> \/ Coming(Front(p))'
  BY <1>1 DEF Closed
<1>3. \A i \in DOMAIN queue' : \A p \in Carried(queue'[i]) : p = << >> \/ Coming(Front(p))'
  BY <1>1 DEF Closed
<1>4. QED BY <1>2, <1>3 DEF Closed

LEMMA ShownStep ==
  ASSUME NEW events, Handles(events), Keeps, periods' = periods
  PROVE  /\ \A h, g, protocol, f : Shown(h, g, protocol, f) => Shown(h, g, protocol, f)'
         /\ \A h, g, protocol, f : \A n \in 2 .. Len(queue) + 1 :
              ShownBefore(h, g, protocol, f, n) => ShownBefore(h, g, protocol, f, n - 1)'
         /\ \A h, g, protocol, f : \A n \in Nat :
              n >= Len(queue) /\ Shown(h, g, protocol, f) => ShownBefore(h, g, protocol, f, n)'
         /\ \A h, g, protocol, f : \A u \in UnitIds :
              Coming(<< h, g, protocol, u, f >>)' => Shown(h, g, protocol, f)'
<1>1. \A p : Published(p) => Published(p)'
  BY DEF Published
<1>2. \A h, g, protocol, f : Shown(h, g, protocol, f) => Shown(h, g, protocol, f)'
  <2>1. \A p : Coming(p) => Coming(p)'
    BY ComingStep
  <2>2. QED BY <1>1, <2>1 DEF Shown, ShownBefore, Coming
<1>3. ASSUME NEW h, NEW g, NEW protocol, NEW f, NEW n \in 2 .. Len(queue) + 1,
             ShownBefore(h, g, protocol, f, n)
      PROVE  ShownBefore(h, g, protocol, f, n - 1)'
  <2>1. \A p : CountedBefore(p, n) => CountedBefore(p, n - 1)'
    BY ComingStep
  <2>2. QED BY <1>1, <1>3, <2>1 DEF ShownBefore
<1>4. ASSUME NEW h, NEW g, NEW protocol, NEW f, NEW n \in Nat, n >= Len(queue),
             Shown(h, g, protocol, f)
      PROVE  ShownBefore(h, g, protocol, f, n)'
  <2>1. \A p : Coming(p) => CountedBefore(p, n)'
    BY <1>4, ComingStep
  <2>2. QED BY <1>1, <1>4, <2>1 DEF Shown, ShownBefore, Coming
<1>5. \A h, g, protocol, f : \A u \in UnitIds :
        Coming(<< h, g, protocol, u, f >>)' => Shown(h, g, protocol, f)'
  BY DEF Shown, ShownBefore, Coming
<1>6. QED BY <1>2, <1>3, <1>4, <1>5

LEMMA LogStep ==
  ASSUME TypeInv, QueueOK, InOrder, NEW events, Handles(events),
         Current \in Nat, Current' \in Nat, Current <= Current',
         IF queue[1].type = "item_gen" THEN logged' = Append(logged, queue[1].ref)
                                       ELSE logged' = logged,
         \A j \in DOMAIN events : events[j].type = "item_gen" => events[j].ref = Current
  PROVE  /\ InOrder'
         /\ \A k : ToLog(k) => ToLog(k)'
         /\ \A k : \A j \in DOMAIN events : events[j] = GenRef(k) => ToLog(k)'
<1> DEFINE n == Len(queue)
           m == Len(logged)
           first == queue[1].type = "item_gen"
<1>1. /\ n \in Nat \ {0} /\ DOMAIN queue = 1 .. n /\ DOMAIN queue' = 1 .. Len(queue')
      /\ 1 \in DOMAIN queue
  BY DEF Handles, MovedTo
<1>2. \A i \in DOMAIN queue : i # 1 => i - 1 \in DOMAIN queue' /\ queue'[i - 1] = queue[i]
  BY DEF Handles, MovedTo
<1>3. \A i \in DOMAIN queue' : \/ i + 1 \in DOMAIN queue /\ queue'[i] = queue[i + 1]
                               \/ \E j \in DOMAIN events : i = n - 1 + j /\ queue'[i] = events[j]
  BY DEF Handles, MovedTo
<1>4. \A j \in DOMAIN events : j \in Nat \ {0} /\ n - 1 + j \in DOMAIN queue' /\ queue'[n - 1 + j] = events[j]
  BY DEF Handles, MovedTo
<1> HIDE DEF n
<1>5. /\ m \in Nat /\ DOMAIN logged = 1 .. m
      /\ \A l \in DOMAIN logged : logged[l] \in Nat
  BY DEF TypeInv
<1>6. first => queue[1].ref \in 1 .. Current /\ queue[1] = GenRef(queue[1].ref)
  <2>1. first => queue[1].ref \in 1 .. Current
    BY <1>1 DEF QueueOK, Refers
  <2>2. queue[1] \in Events
    BY <1>1 DEF TypeInv
  <2>3. first => queue[1] = GenRef(queue[1].ref)
    BY <2>2, EventFields
  <2>4. QED BY <2>1, <2>3
<1>7. /\ DOMAIN logged' = IF first THEN 1 .. m + 1 ELSE 1 .. m
      /\ \A l \in 1 .. m : logged'[l] = logged[l]
      /\ first => logged'[m + 1] = queue[1].ref
  <2>1. CASE first
    <3>1. logged \in Seq(Nat) /\ queue[1].ref \in Nat
      BY <1>6, <2>1 DEF TypeInv
    <3>2. PICK x \in Nat : x = queue[1].ref
      BY <3>1
    <3>3. /\ Append(logged, x) \in Seq(Nat) /\ Len(Append(logged, x)) = m + 1
          /\ \A l \in 1 .. m : Append(logged, x)[l] = logged[l]
          /\ Append(logged, x)[m + 1] = x
      BY <3>1, AppendProperties
    <3>4. DOMAIN Append(logged, x) = 1 .. m + 1
      BY <3>3
    <3>5. QED BY <2>1, <3>2, <3>3, <3>4
  <2>2. CASE ~first
    BY <1>5, <2>2
  <2>3. QED BY <2>1, <2>2
<1>8. \A l \in DOMAIN logged' : \/ l \in 1 .. m /\ logged'[l] = logged[l]
                                \/ first /\ l = m + 1 /\ logged'[l] = queue[1].ref
  <2>1. first => \A l \in 1 .. m + 1 : l \in 1 .. m \/ l = m + 1
    BY <1>5
  <2>2. QED BY <1>7, <2>1
<1>9. \A l \in DOMAIN logged' : logged'[l] \in Nat /\ logged'[l] <= Current
  BY <1>5, <1>6, <1>8 DEF InOrder
<1>10. \A i \in DOMAIN queue' : queue'[i].type = "item_gen" =>
         \/ /\ i + 1 \in DOMAIN queue /\ queue'[i] = queue[i + 1]
            /\ queue[i + 1].ref \in 1 .. Current
         \/ n - 1 < i /\ queue'[i].ref = Current
  <2>1. ASSUME NEW i \in DOMAIN queue', queue'[i].type = "item_gen"
        PROVE  \/ /\ i + 1 \in DOMAIN queue /\ queue'[i] = queue[i + 1]
                  /\ queue[i + 1].ref \in 1 .. Current
               \/ n - 1 < i /\ queue'[i].ref = Current
    <3>1. CASE i + 1 \in DOMAIN queue /\ queue'[i] = queue[i + 1]
      BY <2>1, <3>1 DEF QueueOK, Refers
    <3>2. CASE \E j \in DOMAIN events : i = n - 1 + j /\ queue'[i] = events[j]
      BY <1>1, <1>4, <2>1, <3>2
    <3>3. QED BY <1>3, <3>1, <3>2
  <2>2. QED BY <2>1
<1> HIDE DEF m, first
<1>11. ASSUME NEW i \in DOMAIN queue', NEW j \in DOMAIN queue',
              queue'[i].type = "item_gen", queue'[j].type = "item_gen", i <= j
       PROVE  queue'[i].ref <= queue'[j].ref
  <2>1. CASE j + 1 \in DOMAIN queue /\ queue'[j] = queue[j + 1]
    <3>1. i + 1 \in DOMAIN queue /\ ~(n - 1 < i) /\ i + 1 <= j + 1
      BY <1>1, <1>11, <2>1
    <3>2. queue'[i] = queue[i + 1]
      BY <1>10, <1>11, <3>1
    <3>3. QED BY <1>11, <2>1, <3>1, <3>2 DEF InOrder
  <2>2. CASE queue'[j].ref = Current
    BY <1>10, <1>11, <2>2
  <2>3. QED BY <1>10, <1>11, <2>1, <2>2
<1>12. ASSUME NEW l \in DOMAIN logged', NEW i \in DOMAIN queue', queue'[i].type = "item_gen"
       PROVE  logged'[l] <= queue'[i].ref
  <2>1. CASE i + 1 \in DOMAIN queue /\ queue'[i] = queue[i + 1]
    <3>1. CASE l \in 1 .. m /\ logged'[l] = logged[l]
      <4>1. l \in DOMAIN logged
        BY <1>5, <3>1 DEF m
      <4>2. QED BY <1>12, <2>1, <3>1, <4>1 DEF InOrder
    <3>2. CASE first /\ logged'[l] = queue[1].ref
      <4>1. 1 <= i + 1 /\ queue[1].type = "item_gen" /\ queue[i + 1].type = "item_gen"
        BY <1>1, <1>12, <2>1, <3>2 DEF first
      <4>2. queue[1].ref <= queue[i + 1].ref
        BY <1>1, <2>1, <4>1 DEF InOrder
      <4>3. QED BY <2>1, <3>2, <4>2
    <3>3. QED BY <1>8, <3>1, <3>2
  <2>2. CASE queue'[i].ref = Current
    BY <1>9, <2>2
  <2>3. QED BY <1>10, <1>12, <2>1, <2>2
<1>13. ASSUME NEW i \in DOMAIN logged', NEW j \in DOMAIN logged', i <= j
       PROVE  logged'[i] <= logged'[j]
  <2>1. m \in Nat
    BY <1>5 DEF m
  <2>2. CASE j \in 1 .. m /\ logged'[j] = logged[j]
    <3>1. i # m + 1
      BY <1>13, <2>1, <2>2
    <3>2. i \in 1 .. m /\ logged'[i] = logged[i]
      BY <1>8, <3>1
    <3>3. i \in DOMAIN logged /\ j \in DOMAIN logged
      BY <1>5, <2>2, <3>2 DEF m
    <3>4. QED BY <1>13, <2>2, <3>2, <3>3 DEF InOrder
  <2>3. CASE first /\ j = m + 1 /\ logged'[j] = queue[1].ref
    <3>1. CASE i \in 1 .. m /\ logged'[i] = logged[i]
      <4>1. i \in DOMAIN logged /\ queue[1].type = "item_gen"
        BY <1>5, <2>3, <3>1 DEF m, first
      <4>2. logged[i] <= queue[1].ref
        BY <1>1, <4>1 DEF InOrder
      <4>3. QED BY <2>3, <3>1, <4>2
    <3>2. CASE i = m + 1
      <4>1. logged'[i] \in Nat
        BY <1>9
      <4>2. QED BY <2>3, <3>2, <4>1
    <3>3. QED BY <1>8, <3>1, <3>2
  <2>4. QED BY <1>8, <2>2, <2>3
<1>14. \A i \in DOMAIN logged' : logged'[i] <= Current'
  BY <1>9
<1>15. InOrder'
  BY <1>11, <1>12, <1>13, <1>14 DEF InOrder
<1>16. ASSUME NEW k, ToLog(k)
       PROVE  ToLog(k)'
  <2>1. CASE \E i \in DOMAIN logged : logged[i] = k
    <3>1. PICK i \in DOMAIN logged : logged[i] = k
      BY <2>1
    <3>2. i \in DOMAIN logged' /\ logged'[i] = k
      BY <1>5, <1>7, <3>1 DEF m
    <3>3. QED BY <3>2 DEF ToLog
  <2>2. CASE \E i \in DOMAIN queue : queue[i] = GenRef(k)
    <3>1. PICK i \in DOMAIN queue : queue[i] = GenRef(k)
      BY <2>2
    <3>2. CASE i = 1
      <4>1. queue[1].type = "item_gen" /\ queue[1].ref = k
        BY <3>1, <3>2 DEF GenRef
      <4>2. m + 1 \in DOMAIN logged' /\ logged'[m + 1] = k
        BY <1>5, <1>7, <4>1 DEF first, m
      <4>3. QED BY <4>2 DEF ToLog
    <3>3. CASE i # 1
      <4>1. i - 1 \in DOMAIN queue' /\ queue'[i - 1] = GenRef(k)
        BY <1>2, <3>1, <3>3
      <4>2. QED BY <4>1 DEF ToLog, GenRef
    <3>4. QED BY <3>2, <3>3
  <2>3. QED BY <1>16, <2>1, <2>2 DEF ToLog
<1>17. \A k : \A j \in DOMAIN events : events[j] = GenRef(k) => ToLog(k)'
  BY <1>4 DEF ToLog, GenRef
<1>18. QED BY <1>15, <1>16, <1>17

LEMMA MatchStep ==
  ASSUME MatchesShow, NEW events, Handles(events), Keeps, periods' = periods,
         DOMAIN id_req_table \subseteq DOMAIN id_req_table',
         NEW i \in DOMAIN queue', NEW e, e = queue'[i], e.type = "match",
         i + 1 \in DOMAIN queue, e = queue[i + 1]
  PROVE  MatchShows(e, i)'
<1>1. i \in Nat /\ i >= 1 /\ i + 1 <= Len(queue) /\ Len(queue) \in Nat
  BY DEF Handles, MovedTo
<1>2. PICK n \in 2 .. Len(queue) + 1 : n = i + 1
  BY <1>1
<1>3. n - 1 = i /\ n \in DOMAIN queue /\ e = queue[n]
  BY <1>1, <1>2
<1>4. \A h, g, protocol, f :
        ShownBefore(h, g, protocol, f, n) => ShownBefore(h, g, protocol, f, n - 1)'
  BY ShownStep
<1>5. \A h, g, protocol, f :
        ShownBefore(h, g, protocol, f, n) => ShownBefore(h, g, protocol, f, i)'
  <2>1. PICK m : m = n - 1
    OBVIOUS
  <2>2. \A h, g, protocol, f :
          ShownBefore(h, g, protocol, f, n) => ShownBefore(h, g, protocol, f, m)'
    BY <1>4, <2>1 DEF ShownBefore, CountedBefore
  <2>3. QED BY <1>3, <2>1, <2>2
<1>6. MatchShows(e, n)
  BY <1>3 DEF MatchesShow
<1>7. QED BY <1>5, <1>6 DEF MatchShows

LEMMA ShowsStep ==
  ASSUME Shows, NEW events, Handles(events), Keeps, periods' = periods, ItemsKept,
         id_req_table' = id_req_table, \A j \in DOMAIN events : events[j].type # "match",
         items'[Current'].func # None =>
           /\ items'[Current'].protocol # None
           /\ Shown(items[Current].sender, items[Current].receiver, items[Current].protocol,
                    items[Current].func)'
  PROVE  Shows'
<1>1. \A h, g, protocol, f : Shown(h, g, protocol, f) => Shown(h, g, protocol, f)'
  BY ShownStep
<1>2. ItemsShow'
  <2>1. ASSUME NEW k \in DOMAIN items', items'[k].func # None
        PROVE  /\ items'[k].protocol # None
               /\ Shown(items[k].sender, items[k].receiver, items[k].protocol, items[k].func)'
    <3>1. CASE k = Current'
      BY <2>1, <3>1
    <3>2. CASE k \in DOMAIN items /\ items'[k] = items[k]
      <4>1. Shown(items[k].sender, items[k].receiver, items[k].protocol, items[k].func)
        BY <2>1, <3>2 DEF Shows, ItemsShow
      <4>2. PICK i : i = items[k]
        OBVIOUS
      <4>3. Shown(i.sender, i.receiver, i.protocol, i.func)'
        BY <1>1, <4>1, <4>2
      <4>4. i = items'[k]
        BY <3>2, <4>2
      <4>5. QED BY <2>1, <3>2, <4>2, <4>3, <4>4 DEF Shows, ItemsShow
    <3>3. QED BY <3>1, <3>2 DEF ItemsKept
  <2>2. QED BY <2>1 DEF ItemsShow
<1>3. RequestsShow'
  BY <1>1 DEF Shows, RequestsShow
<1>4. MatchesShow'
  <2>1. ASSUME NEW i \in DOMAIN queue', queue'[i].type = "match"
        PROVE  MatchShows(queue[i], i)'
    <3>1. i + 1 \in DOMAIN queue /\ queue'[i] = queue[i + 1]
      BY <2>1 DEF Handles, MovedTo
    <3>2. PICK e : e = queue'[i]
      OBVIOUS
    <3>3. MatchShows(e, i)'
      BY <2>1, <3>1, <3>2, MatchStep DEF Shows
    <3>4. QED BY <3>2, <3>3 DEF MatchShows
  <2>2. QED BY <2>1 DEF MatchesShow
<1>5. QED BY <1>2, <1>3, <1>4 DEF Shows

LEMMA EarnedStep ==
  ASSUME IdentitiesEarned, identity_map' = identity_map,
         \A p \in DOMAIN counts : p \in DOMAIN counts' \/ Published(p)',
         \A p : Published(p) => Published(p)'
  PROVE  IdentitiesEarned'
<1>1. \A h, g, protocol, f : Sent(h, g, protocol, f) => Sent(h, g, protocol, f)'
  BY DEF Sent
<1>2. \A h, identity : Earned(h, identity) => Earned(h, identity)'
  BY <1>1 DEF Earned
<1>3. QED BY <1>2 DEF IdentitiesEarned

-----------------------------------------------------------------------------
(* The current item *)

LEMMA CurrentItem ==
  ASSUME TypeInv
  PROVE  /\ Current \in Nat /\ DOMAIN items = 1 .. Current
         /\ \A k \in 1 .. Current : items[k] \in Item
         /\ Current > 0 => items[Current] \in Item
BY DEF TypeInv, Current

LEMMA CurrentSet ==
  ASSUME TypeInv, Current > 0, NEW i \in Item, items' = [items EXCEPT ![Current] = i]
  PROVE  /\ items' \in Seq(Item) /\ Current' = Current /\ items'[Current'] = i
         /\ DOMAIN items' = 1 .. Current /\ ItemsKept
         /\ \A k \in 1 .. Current : k # Current => items'[k] = items[k]
<1>1. Current \in Nat \ {0} /\ items \in Seq(Item) /\ DOMAIN items = 1 .. Current
  BY DEF TypeInv, Current
<1>2. Len(items) = Current
  BY DEF Current
<1>3. items' \in Seq(Item) /\ Len(items') = Current
  <2>1. PICK n \in 1 .. Len(items) : n = Current
    BY <1>1, <1>2
  <2>2. [items EXCEPT ![n] = i] \in Seq(Item) /\ Len([items EXCEPT ![n] = i]) = Len(items)
    BY <1>1, <2>1, ExceptSeq
  <2>3. QED BY <1>2, <2>1, <2>2
<1>4. Current' = Current
  BY <1>3 DEF Current
<1>5. DOMAIN items' = 1 .. Current /\ \A k \in 1 .. Current : items'[k] = IF k = Current THEN i ELSE items[k]
  BY <1>1
<1>6. QED BY <1>1, <1>3, <1>4, <1>5 DEF ItemsKept

LEMMA CurrentAdded ==
  ASSUME TypeInv, NEW i \in Item, items' = Append(items, i)
  PROVE  /\ items' \in Seq(Item) /\ Current' = Current + 1 /\ items'[Current'] = i
         /\ DOMAIN items' = 1 .. Current + 1 /\ ItemsKept
         /\ \A k \in 1 .. Current : items'[k] = items[k]
<1>1. Current \in Nat /\ items \in Seq(Item) /\ Len(items) = Current /\ DOMAIN items = 1 .. Current
  BY DEF TypeInv, Current
<1>2. /\ items' \in Seq(Item) /\ Len(items') = Current + 1
      /\ \A k \in 1 .. Current : items'[k] = items[k]
      /\ items'[Current + 1] = i
  BY <1>1, AppendProperties
<1>3. Current' = Current + 1
  BY <1>2 DEF Current
<1>4. DOMAIN items' = 1 .. Current + 1
  BY <1>2
<1>5. \A k \in 1 .. Current + 1 : k = Current + 1 \/ k \in 1 .. Current
  BY <1>1
<1>6. QED BY <1>1, <1>2, <1>3, <1>4, <1>5 DEF ItemsKept

LEMMA NoneIsNone ==
  /\ None \notin Hosts /\ None \notin Links /\ None \notin UnitIds /\ None \notin Funcs
  /\ None \notin Targets /\ None # "Modbus" /\ None # "DNP3"
BY StatsAssumption

LEMMA DescribedItem ==
  ASSUME NEW pdu \in Modbus \cup Dnp3, items[Current] \in Item
  PROVE  LET d == Described(pdu)
             i == items[Current]
         IN  /\ d \in Item /\ [d EXCEPT !.target = None] \in Item
             /\ d.link = i.link /\ d.sender = i.sender /\ d.receiver = i.receiver
             /\ d.target = i.target /\ d.protocol = pdu.protocol /\ d.func = pdu.func
             /\ d.is_response = (pdu.func \notin Asks)
             /\ d.unit = IF pdu \in Modbus THEN pdu.unit ELSE i.unit
             /\ d.protocol # None /\ d.func # None
             /\ [d EXCEPT !.target = None].protocol = d.protocol
             /\ [d EXCEPT !.target = None].target = None
             /\ MessagePaths([d EXCEPT !.target = None]) = MessagePaths(d)
<1> DEFINE i == items[Current]
           u == IF pdu \in Modbus THEN pdu.unit ELSE i.unit
           d == [link |-> i.link, sender |-> i.sender, receiver |-> i.receiver,
                 protocol |-> pdu.protocol, unit |-> u, func |-> pdu.func,
                 is_response |-> pdu.func \notin Asks, target |-> i.target]
<1>1. pdu.protocol \in {"Modbus", "DNP3"} /\ pdu.func \in Funcs
      /\ (pdu \in Modbus <=> pdu.protocol = "Modbus")
      /\ (pdu \in Modbus => pdu.unit \in UnitIds)
  BY DEF Modbus, Dnp3, UnitIds
<1>2. i = [link |-> i.link, sender |-> i.sender, receiver |-> i.receiver,
           protocol |-> i.protocol, unit |-> i.unit, func |-> i.func,
           is_response |-> i.is_response, target |-> i.target]
  BY DEF Item
<1>3. Described(pdu) = d
  BY <1>1, <1>2 DEF Described
<1>4. d \in Item
  BY <1>1 DEF Item
<1>5. [d EXCEPT !.target = None] = [link |-> i.link, sender |-> i.sender, receiver |-> i.receiver,
                 protocol |-> pdu.protocol, unit |-> u, func |-> pdu.func,
                 is_response |-> pdu.func \notin Asks, target |-> None]
  OBVIOUS
<1>6. [d EXCEPT !.target = None] \in Item
  BY <1>1, <1>5 DEF Item
<1>7. MessagePaths([d EXCEPT !.target = None]) = MessagePaths(d)
  BY <1>5 DEF MessagePaths, FunctionPath
<1>8. d.protocol # None /\ d.func # None
  BY <1>1, NoneIsNone
<1>9. QED BY <1>3, <1>4, <1>5, <1>6, <1>7, <1>8

LEMMA TargetItem ==
  ASSUME TypeInv, Current > 0, NEW t \in Targets, items' = [items EXCEPT ![Current].target = t]
  PROVE  /\ items' = [items EXCEPT ![Current] = [items[Current] EXCEPT !.target = t]]
         /\ [items[Current] EXCEPT !.target = t] \in Item
<1>1. items[Current] \in Item
  BY CurrentItem
<1>2. [items[Current] EXCEPT !.target = t] \in Item
  BY <1>1 DEF Item
<1>3. QED BY <1>2

-----------------------------------------------------------------------------
(* The collector *)

LEMMA OneRaised ==
  ASSUME NEW e \in RaisedEvents
  PROVE  /\ << e >> \in Seq(RaisedEvents) /\ DOMAIN << e >> = {1} /\ << e >>[1] = e
OBVIOUS

LEMMA TwoRaised ==
  ASSUME NEW e \in RaisedEvents, NEW f \in RaisedEvents
  PROVE  /\ << e, f >> \in Seq(RaisedEvents) /\ DOMAIN << e, f >> = {1, 2}
         /\ << e, f >>[1] = e /\ << e, f >>[2] = f
<1>1. << e, f >> \in Seq(RaisedEvents) /\ Len(<< e, f >>) = 2 /\ << e, f >>[1] = e /\ << e, f >>[2] = f
  OBVIOUS
<1>2. DOMAIN << e, f >> = 1 .. 2 /\ 1 .. 2 = {1, 2}
  BY <1>1
<1>3. QED BY <1>1, <1>2

LEMMA Joined ==
  ASSUME NEW e, NEW f
  PROVE  << e >> \o << f >> = << e, f >> /\ << >> \o << f >> = << f >>
<1>1. PICK S : e \in S /\ f \in S
  <2>1. \E S : S = {e, f}
    OBVIOUS
  <2>2. QED BY <2>1
<1>2. << e >> \in Seq(S) /\ << f >> \in Seq(S) /\ << e, f >> \in Seq(S) /\ << >> \in Seq(S)
  BY <1>1
<1>3. Len(<< e >>) = 1 /\ Len(<< f >>) = 1 /\ Len(<< e, f >>) = 2 /\ Len(<< >>) = 0
  OBVIOUS
<1>4. /\ << e >> \o << f >> \in Seq(S) /\ Len(<< e >> \o << f >>) = 2
      /\ \A i \in 1 .. 2 : (<< e >> \o << f >>)[i] = << e, f >>[i]
  <2>1. PICK a \in Seq(S), b \in Seq(S), c \in Seq(S) : a = << e >> /\ b = << f >> /\ c = << e, f >>
    BY <1>2
  <2>2. /\ a \o b \in Seq(S) /\ Len(a \o b) = Len(a) + Len(b)
        /\ \A i \in 1 .. Len(a) + Len(b) : (a \o b)[i] = IF i <= Len(a) THEN a[i] ELSE b[i - Len(a)]
    BY <2>1, ConcatProperties
  <2>3. Len(a) = 1 /\ Len(b) = 1 /\ a[1] = e /\ b[1] = f /\ c[1] = e /\ c[2] = f
    BY <2>1
  <2>4. 2 - 1 = 1 /\ 1 + 1 = 2 /\ ~(2 <= 1) /\ 1 <= 1 /\ 1 .. 2 = {1, 2} /\ 1 \in 1 .. 2 /\ 2 \in 1 .. 2
    OBVIOUS
  <2>5. (a \o b)[1] = c[1] /\ (a \o b)[2] = c[2]
    BY <2>2, <2>3, <2>4
  <2>6. QED BY <2>1, <2>2, <2>3, <2>4, <2>5
<1>5. QED
  <2>1. << e >> \o << f >> = << e, f >>
    BY <1>2, <1>3, <1>4, SeqEqual
  <2>2. << >> \o << f >> = << f >>
    OBVIOUS
  <2>3. QED BY <2>1, <2>2

LEMMA NoneRaised == << >> \in Seq(RaisedEvents) /\ DOMAIN << >> = {}
OBVIOUS

LEMMA EventsRaised ==
  /\ \A i \in Item : /\ ItemSeen(i) \in RaisedEvents
                     /\ ItemSeen(i).type = "item_seen" /\ ItemSeen(i).item = i
                     /\ ItemSeen(i).ref = 0 /\ Carried(ItemSeen(i)) = ItemPaths(i)
  /\ \A k \in Nat : /\ GenRef(k) \in RaisedEvents
                    /\ GenRef(k).type = "item_gen" /\ GenRef(k).ref = k
                    /\ Carried(GenRef(k)) = {}
  /\ \A k \in Nat \ {0} : /\ SeenRef(k) \in RaisedEvents
                          /\ SeenRef(k).type = "item_seen" /\ SeenRef(k).ref = k
                          /\ Carried(SeenRef(k)) = {}
BY DEF ItemSeen, GenRef, SeenRef, RaisedEvents, Carried

\* An event that is not an item_seen does not count anything.
LEMMA KeepsCounts ==
  ASSUME queue[1].type # "item_seen", counts' = counts
  PROVE  Keeps
BY DEF Keeps, Carried

LEMMA MessageStep ==
  ASSUME IInv, NEW type \in Messages, Message(type), UNCHANGED idVars
  PROVE  IInv'
<1> DEFINE e == queue[1]
           pdu == Head(queue).pdu
           old == items[Current]
           seen == [Described(pdu) EXCEPT !.target = None]
<1>1. /\ TypeInv /\ QueueOK /\ OneWay /\ Closed /\ Shows /\ IdentitiesEarned /\ Logs
      /\ AllToLog /\ InOrder
  BY DEF IInv, Logs
<1>2. queue # << >> /\ Head(queue).type = type
  BY DEF Message, Event
<1>3. Head(queue) = e /\ 1 \in DOMAIN queue /\ e \in Events
  <2>1. queue \in Seq(Events)
    BY <1>1 DEF TypeInv
  <2>2. Len(queue) \in Nat \ {0} /\ DOMAIN queue = 1 .. Len(queue)
    BY <1>2, <2>1, EmptySeq
  <2>3. QED BY <1>2, <2>1, <2>2
<1>4. e.type = type /\ pdu = e.pdu
  BY <1>2, <1>3
<1>5. InPacket /\ Current > 0 /\ Current \in Nat \ {0}
  <2>1. InPacket
    BY <1>2, <1>4 DEF InPacket, Messages
  <2>2. Current > 0
    BY <1>1, <2>1 DEF QueueOK, Refers
  <2>3. QED BY <1>1, <2>1, <2>2, CurrentItem
<1>6. pdu \in Modbus \cup Dnp3 /\ (type = "modbus_message" => pdu \in Modbus)
  BY <1>3, <1>4, EventFields DEF Messages
<1>7. old \in Item
  BY <1>1, <1>5, CurrentItem
<1>8. PICK d : d = Described(pdu)
  OBVIOUS
<1>9. PICK s : s = seen
  OBVIOUS
<1>10. /\ d \in Item /\ s \in Item
       /\ d.link = old.link /\ d.sender = old.sender /\ d.receiver = old.receiver
       /\ d.target = old.target /\ d.func = pdu.func
       /\ d.is_response = (pdu.func \notin Asks)
       /\ d.unit = IF pdu \in Modbus THEN pdu.unit ELSE old.unit
       /\ d.protocol # None /\ s.protocol # None /\ s.target = None
       /\ MessagePaths(s) = MessagePaths(d)
  BY <1>6, <1>7, <1>8, <1>9, DescribedItem
<1>11. d.unit \in UnitIds
  <2>1. CASE pdu \in Modbus
    BY <1>10, <2>1 DEF Modbus, UnitIds
  <2>2. CASE pdu \notin Modbus
    <3>1. e.type = "application_header"
      BY <1>4, <1>6, <2>2 DEF Messages
    <3>2. old.unit # None
      BY <1>1, <1>3, <3>1 DEF QueueOK, AddressesFirst
    <3>3. QED BY <1>7, <1>10, <2>2, <3>2 DEF Item
  <2>3. QED BY <2>1, <2>2
<1>12. items' = [items EXCEPT ![Current] = d] /\ Raise(<< ItemSeen(s) >>)
  BY <1>8, <1>9 DEF Message
<1>13. /\ UNCHANGED << wait, prefixed, tgt_table, req_table, counts, responses, logged, periods >>
       /\ UNCHANGED << id_req_table, identity_map >>
  BY DEF Message, uncounted, idVars
<1>14. PICK events : events = << ItemSeen(s) >>
  OBVIOUS
<1>15. /\ events \in Seq(RaisedEvents) /\ DOMAIN events = {1}
       /\ events[1] = ItemSeen(s) /\ events[1].type = "item_seen" /\ events[1].ref = 0
       /\ events[1].item = s /\ Carried(events[1]) = MessagePaths(d)
  <2>1. /\ ItemSeen(s) \in RaisedEvents /\ ItemSeen(s).type = "item_seen"
        /\ ItemSeen(s).ref = 0 /\ ItemSeen(s).item = s /\ Carried(ItemSeen(s)) = ItemPaths(s)
    BY <1>10, EventsRaised
  <2>2. ItemPaths(s) = MessagePaths(d)
    BY <1>10 DEF ItemPaths
  <2>3. QED BY <1>14, <2>1, <2>2, OneRaised
<1>16. Handles(events)
  BY <1>1, <1>2, <1>12, <1>14, <1>15, RaiseHandles
<1>17. /\ items' \in Seq(Item) /\ Current' = Current /\ items'[Current'] = d
       /\ DOMAIN items' = 1 .. Current /\ ItemsKept
       /\ \A k \in 1 .. Current : k # Current => items'[k] = items[k]
  BY <1>1, <1>5, <1>10, <1>12, CurrentSet
<1> HIDE DEF e, pdu, old, seen
<1>18. TypeInv'
  BY <1>1, <1>13, <1>16, <1>17 DEF TypeInv, Handles
<1>19. QueueOK' /\ \A i \in DOMAIN queue' : queue'[i].type # "new_packet"
  BY <1>1, <1>4, <1>5, <1>10, <1>15, <1>16, <1>17, QueueStep DEF Messages, e
<1>20. OneWay'
  <2>1. ASSUME NEW asks \in BOOLEAN, queue[1].pdu.func \in Asks <=> asks, Fits(old, asks)
        PROVE  Fits(d, asks)
    BY <1>4, <1>10, <2>1 DEF Fits, e
  <2>2. queue[1].type \in Directed
    BY <1>4 DEF Messages, Directed, e
  <2>3. \A asks \in BOOLEAN :
           /\ queue[1].type \in Directed => (queue[1].pdu.func \in Asks <=> asks)
           /\ ~InPacket => Way(queue[1].packet.link, queue[1].packet.src, queue[1].packet.dst, asks)
           /\ InPacket => Fits(items[Current], asks)
           => Fits(items'[Current'], asks)
    BY <1>5, <1>17, <2>1, <2>2 DEF old
  <2>4. QED BY <1>1, <1>10, <1>16, <1>17, <1>19, <2>3, OneWayStep
<1>21. Keeps
  BY <1>4, <1>13, KeepsCounts DEF Messages, e
<1>22. /\ \A p : Coming(p) => Coming(p)'
       /\ \A p \in MessagePaths(d) : Coming(p)'
  BY <1>15, <1>16, <1>21, ComingStep
<1>23. /\ FunctionPath(d) \in MessagePaths(d)
       /\ \A p \in MessagePaths(d) : Front(p) \in MessagePaths(d) \cup {<< d.sender, d.receiver >>}
  BY PathsOfItem
<1>24. PacketPaths(d) = PacketPaths(old) /\ << d.sender, d.receiver >> \in PacketPaths(d)
  BY <1>10 DEF PacketPaths
<1>25. \A p \in PacketPaths(d) : Coming(p)'
  BY <1>1, <1>5, <1>22, <1>24 DEF Closed, old
<1>26. Closed'
  <2>1. \A p \in DOMAIN counts' : p \in DOMAIN counts
    BY <1>13
  <2>2. \A j \in DOMAIN events : \A p \in Carried(events[j]) : p = << >> \/ Coming(Front(p))'
    <3>1. \A q \in MessagePaths(d) \cup {<< d.sender, d.receiver >>} : Coming(q)'
      BY <1>22, <1>24, <1>25
    <3>2. ASSUME NEW p \in MessagePaths(d) PROVE Coming(Front(p))'
      <4>1. PICK q : q = Front(p)
        OBVIOUS
      <4>2. Coming(q)'
        BY <1>23, <3>1, <4>1
      <4>3. QED BY <4>1, <4>2
    <3>3. QED BY <1>15, <3>2
  <2>3. Coming(FunctionPath(items[Current]))'
    <3>1. PICK q : q = FunctionPath(d)
      OBVIOUS
    <3>2. Coming(q)'
      BY <1>22, <1>23, <3>1
    <3>3. QED BY <1>17, <3>1, <3>2
  <2>4. QED BY <1>1, <1>16, <1>17, <1>21, <1>25, <2>1, <2>2, <2>3, ClosedStep
<1>27. Shows'
  <2>1. Coming(<< d.sender, d.receiver, d.protocol, d.unit, d.func >>)'
    <3>1. PICK q : q = FunctionPath(d)
      OBVIOUS
    <3>2. Coming(q)'
      BY <1>22, <1>23, <3>1
    <3>3. QED BY <3>1, <3>2 DEF FunctionPath
  <2>2. Shown(d.sender, d.receiver, d.protocol, d.func)'
    BY <1>11, <1>13, <1>16, <1>21, <2>1, ShownStep
  <2>3. Shown(items[Current].sender, items[Current].receiver, items[Current].protocol,
              items[Current].func)'
    BY <1>17, <2>2
  <2>4. QED BY <1>1, <1>10, <1>13, <1>15, <1>16, <1>17, <1>21, <2>3, ShowsStep
<1>28. IdentitiesEarned'
  BY <1>1, <1>13, EarnedStep DEF Published
<1>29. InOrder' /\ \A k : ToLog(k) => ToLog(k)'
  <2>1. queue[1].type # "item_gen"
    BY <1>4 DEF Messages, e
  <2>2. QED BY <1>1, <1>5, <1>13, <1>15, <1>16, <1>17, <2>1, LogStep
<1>30. AllToLog'
  <2>1. ASSUME NEW k \in DOMAIN items'
        PROVE  /\ ToLog(k)' \/ (k = Current' /\ wait') \/ (items'[k].is_response /\ items'[k].target = None)
               /\ items'[k].target # None => ToLog(k)'
    <3>1. k \in DOMAIN items
      BY <1>1, <1>17, CurrentItem
    <3>2. /\ ToLog(k) \/ (k = Current /\ wait) \/ (items[k].is_response /\ items[k].target = None)
          /\ items[k].target # None => ToLog(k)
      BY <1>1, <3>1 DEF AllToLog
    <3>3. CASE k # Current
      <4>1. items'[k] = items[k]
        BY <1>17, <3>3
      <4>2. QED BY <1>29, <3>2, <3>3, <4>1
    <3>4. CASE k = Current
      <4>1. items'[k] = d /\ d.target = old.target
        BY <1>10, <1>17, <3>4
      <4>2. old.is_response => d.is_response
        <5>1. PICK asks \in BOOLEAN :
                (queue[1].pdu.func \in Asks <=> asks) /\ Fits(items[Current], asks)
          <6>1. queue[1].type \in Directed
            BY <1>4 DEF Messages, Directed, e
          <6>2. QED BY <1>1, <1>2, <1>3, <1>5, <6>1 DEF OneWay
        <5>2. old.is_response => ~asks
          BY <5>1 DEF Fits, old
        <5>3. QED BY <1>4, <1>10, <5>1, <5>2 DEF e
      <4>3. QED BY <1>13, <1>17, <1>29, <3>2, <3>4, <4>1, <4>2 DEF old
    <3>5. QED BY <3>3, <3>4
  <2>2. wait' => Current' > 0
    BY <1>5, <1>17
  <2>3. QED BY <2>1, <2>2 DEF AllToLog
<1>31. QED
  BY <1>18, <1>19, <1>20, <1>26, <1>27, <1>28, <1>29, <1>30 DEF IInv, Logs

LEMMA HeadEvent ==
  ASSUME IInv, queue # << >>
  PROVE  /\ Head(queue) = queue[1] /\ 1 \in DOMAIN queue /\ queue[1] \in Events
         /\ queue[1].type # "new_packet" =>
              InPacket /\ Current > 0 /\ Current \in Nat \ {0} /\ items[Current] \in Item
<1>1. TypeInv /\ QueueOK
  BY DEF IInv
<1>2. queue \in Seq(Events)
  BY <1>1 DEF TypeInv
<1>3. Len(queue) \in Nat \ {0} /\ DOMAIN queue = 1 .. Len(queue)
  BY <1>2, EmptySeq
<1>4. Head(queue) = queue[1] /\ 1 \in DOMAIN queue /\ queue[1] \in Events
  BY <1>2, <1>3
<1>5. queue[1].type # "new_packet" => InPacket /\ Current > 0
  BY <1>1 DEF InPacket, QueueOK, Refers
<1>6. QED BY <1>1, <1>4, <1>5, CurrentItem

LEMMA NewPacketStep ==
  ASSUME IInv, NewPacket, UNCHANGED idVars
  PROVE  IInv'
<1> DEFINE e == queue[1]
           p == Head(queue).packet
           new == [link |-> p.link, sender |-> p.src, receiver |-> p.dst, protocol |-> None,
                   unit |-> None, func |-> None, is_response |-> FALSE, target |-> None]
           raised == (IF wait THEN << GenRef(Current) >> ELSE << >>) \o << ItemSeen(new) >>
<1>1. /\ TypeInv /\ QueueOK /\ OneWay /\ Closed /\ Shows /\ IdentitiesEarned /\ Logs
      /\ AllToLog /\ InOrder
  BY DEF IInv, Logs
<1>2. queue # << >> /\ Head(queue).type = "new_packet"
  BY DEF NewPacket, Event
<1>3. Head(queue) = e /\ 1 \in DOMAIN queue /\ e \in Events
  BY <1>2, HeadEvent
<1>4. e.type = "new_packet" /\ p = e.packet
  BY <1>2, <1>3
<1>5. ~InPacket /\ Current \in Nat
  BY <1>1, <1>4, CurrentItem DEF InPacket
<1>6. p \in Packets
  BY <1>3, <1>4, EventFields
<1>7. PICK i : i = new
  OBVIOUS
<1>8. /\ i \in Item /\ i.link = p.link /\ i.sender = p.src /\ i.receiver = p.dst
      /\ i.protocol = None /\ i.func = None /\ i.is_response = FALSE /\ i.target = None
  <2>1. p.link \in Links /\ p.src \in Hosts /\ p.dst \in Hosts
    BY <1>6, StatsAssumption
  <2>2. QED BY <1>7, <2>1 DEF Item
<1>9. items' = Append(items, i) /\ Raise(raised) /\ wait' = TRUE
  BY <1>7 DEF NewPacket
<1>10. /\ UNCHANGED << prefixed, tgt_table, req_table, counts, responses, logged, periods >>
       /\ UNCHANGED << id_req_table, identity_map >>
  BY DEF NewPacket, uncounted, idVars
<1>11. PICK events : events = raised
  OBVIOUS
<1>13. ~wait => events = << ItemSeen(i) >>
  BY <1>7, <1>11
<1>12. wait => events = << GenRef(Current), ItemSeen(i) >>
  BY <1>7, <1>11, Joined
<1>15. /\ ItemSeen(i) \in RaisedEvents /\ ItemSeen(i).type = "item_seen"
       /\ ItemSeen(i).item = i /\ ItemSeen(i).ref = 0 /\ Carried(ItemSeen(i)) = PacketPaths(i)
  <2>1. ItemPaths(i) = PacketPaths(i)
    BY <1>8 DEF ItemPaths
  <2>2. QED BY <1>8, <2>1, EventsRaised
<1>16. /\ GenRef(Current) \in RaisedEvents /\ GenRef(Current).type = "item_gen"
       /\ GenRef(Current).ref = Current /\ Carried(GenRef(Current)) = {}
  BY <1>5, EventsRaised
<1>17. /\ events \in Seq(RaisedEvents)
       /\ \A j \in DOMAIN events : events[j] = ItemSeen(i) \/ (wait /\ events[j] = GenRef(Current))
       /\ \E j \in DOMAIN events : events[j] = ItemSeen(i)
       /\ wait => \E j \in DOMAIN events : events[j] = GenRef(Current)
  <2>1. CASE wait
    <3>1. events = << GenRef(Current), ItemSeen(i) >>
      BY <1>12, <2>1
    <3>2. /\ events \in Seq(RaisedEvents) /\ DOMAIN events = {1, 2}
          /\ events[1] = GenRef(Current) /\ events[2] = ItemSeen(i)
      BY <1>15, <1>16, <3>1, TwoRaised
    <3>3. QED BY <2>1, <3>2
  <2>2. CASE ~wait
    <3>1. events = << ItemSeen(i) >>
      BY <1>13, <2>2
    <3>2. events \in Seq(RaisedEvents) /\ DOMAIN events = {1} /\ events[1] = ItemSeen(i)
      BY <1>15, <3>1, OneRaised
    <3>3. QED BY <2>2, <3>2
  <2>3. QED BY <2>1, <2>2
<1>18. Handles(events)
  BY <1>1, <1>2, <1>9, <1>11, <1>17, RaiseHandles
<1>19. /\ items' \in Seq(Item) /\ Current' = Current + 1 /\ items'[Current'] = i
       /\ DOMAIN items' = 1 .. Current + 1 /\ ItemsKept
       /\ \A k \in 1 .. Current : items'[k] = items[k]
  BY <1>1, <1>8, <1>9, CurrentAdded
<1> HIDE DEF e, p, new, raised
<1>20. TypeInv'
  BY <1>1, <1>10, <1>18, <1>19 DEF TypeInv, Handles
<1>21. Current' \in Nat \ {0} /\ Current <= Current'
  BY <1>5, <1>19
<1>22. wait => Current \in 1 .. Current'
  <2>1. wait => Current # 0
    BY <1>1 DEF AllToLog
  <2>2. QED BY <1>5, <1>19, <2>1
<1>23. \A j \in DOMAIN events :
         /\ events[j].type = "item_gen" => events[j].ref \in 1 .. Current' /\ events[j].ref = Current
         /\ events[j].type = "item_seen" => events[j].ref = 0 /\ events[j].item = i
         /\ Carried(events[j]) \subseteq PacketPaths(i)
         /\ events[j].type # "match"
  BY <1>15, <1>16, <1>17, <1>22
<1>24. QueueOK' /\ \A j \in DOMAIN queue' : queue'[j].type # "new_packet"
  BY <1>1, <1>4, <1>5, <1>8, <1>18, <1>19, <1>21, <1>23, QueueStep DEF Messages, e
<1>25. OneWay'
  <2>1. ASSUME NEW asks \in BOOLEAN, Way(p.link, p.src, p.dst, asks)
        PROVE  Fits(i, asks)
    BY <1>8, <2>1 DEF Fits
  <2>2. \A asks \in BOOLEAN :
           /\ queue[1].type \in Directed => (queue[1].pdu.func \in Asks <=> asks)
           /\ ~InPacket => Way(queue[1].packet.link, queue[1].packet.src, queue[1].packet.dst, asks)
           /\ InPacket => Fits(items[Current], asks)
           => Fits(items'[Current'], asks)
    BY <1>4, <1>5, <1>19, <2>1 DEF e
  <2>3. QED BY <1>1, <1>8, <1>18, <1>19, <1>24, <2>2, OneWayStep
<1>26. Keeps
  BY <1>4, <1>10, KeepsCounts DEF e
<1>27. /\ \A q : Coming(q) => Coming(q)'
       /\ \A q \in PacketPaths(i) : Coming(q)'
  <2>1. /\ \A q : Coming(q) => Coming(q)'
        /\ \A j \in DOMAIN events : \A q \in Carried(events[j]) : Coming(q)'
    BY <1>18, <1>26, ComingStep
  <2>2. QED BY <1>15, <1>17, <2>1
<1>28. Closed'
  <2>1. \A q \in DOMAIN counts' : q \in DOMAIN counts
    BY <1>10
  <2>2. ASSUME NEW q \in PacketPaths(i)
        PROVE  q = << >> \/ Coming(Front(q))'
    <3>1. PICK f : f = Front(q)
      OBVIOUS
    <3>2. q = << >> \/ f \in PacketPaths(i)
      <4>1. Front(<< i.sender >>) = << >> /\ Front(<< i.sender, i.receiver >>) = << i.sender >>
        BY PathsOfItem
      <4>2. QED BY <3>1, <4>1 DEF PacketPaths
    <3>3. QED BY <1>27, <3>1, <3>2
  <2>3. \A j \in DOMAIN events : \A q \in Carried(events[j]) : q = << >> \/ Coming(Front(q))'
    BY <1>23, <2>2
  <2>4. \A q \in PacketPaths(items'[Current']) : Coming(q)'
    BY <1>19, <1>27
  <2>5. items'[Current'].protocol = None
    BY <1>8, <1>19
  <2>6. QED BY <1>1, <1>18, <1>26, <2>1, <2>3, <2>4, <2>5, ClosedStep
<1>29. Shows'
  <2>1. items'[Current'].func = None
    BY <1>8, <1>19
  <2>2. QED BY <1>1, <1>10, <1>18, <1>19, <1>23, <1>26, <2>1, ShowsStep
<1>30. IdentitiesEarned'
  BY <1>1, <1>10, EarnedStep DEF Published
<1>31. /\ InOrder' /\ \A k : ToLog(k) => ToLog(k)'
       /\ \A k : k = Current /\ wait => ToLog(k)'
  <2>1. queue[1].type # "item_gen"
    BY <1>4 DEF e
  <2>2. /\ InOrder' /\ \A k : ToLog(k) => ToLog(k)'
        /\ \A k : \A j \in DOMAIN events : events[j] = GenRef(k) => ToLog(k)'
    BY <1>1, <1>5, <1>10, <1>18, <1>21, <1>23, <2>1, LogStep
  <2>3. ASSUME NEW k, k = Current, wait PROVE ToLog(k)'
    <3>1. \E j \in DOMAIN events : events[j] = GenRef(k)
      BY <1>17, <2>3
    <3>2. QED BY <2>2, <3>1
  <2>4. QED BY <2>2, <2>3
<1>32. AllToLog'
  <2>1. ASSUME NEW k \in DOMAIN items'
        PROVE  /\ ToLog(k)' \/ (k = Current' /\ wait')
                  \/ (items'[k].is_response /\ items'[k].target = None)
               /\ items'[k].target # None => ToLog(k)'
    <3>1. CASE k = Current'
      BY <1>8, <1>9, <1>19, <3>1
    <3>2. CASE k # Current'
      <4>1. k \in 1 .. Current /\ items'[k] = items[k] /\ k \in DOMAIN items
        BY <1>1, <1>5, <1>19, <3>2, CurrentItem
      <4>2. /\ ToLog(k) \/ (k = Current /\ wait)
               \/ (items[k].is_response /\ items[k].target = None)
            /\ items[k].target # None => ToLog(k)
        BY <1>1, <4>1 DEF AllToLog
      <4>3. QED BY <1>31, <4>1, <4>2
    <3>3. QED BY <3>1, <3>2
  <2>2. Current' > 0
    BY <1>21
  <2>3. QED BY <2>1, <2>2 DEF AllToLog
<1>33. QED
  BY <1>20, <1>24, <1>25, <1>28, <1>29, <1>30, <1>31, <1>32 DEF IInv, Logs

\* The head is a message's detail: the message has been seen.
LEMMA DetailHead ==
  ASSUME IInv, queue # << >>, queue[1].type \in Details
  PROVE  InPacket /\ items[Current].protocol # None
<1>1. 1 \in DOMAIN queue /\ InPacket
  BY HeadEvent DEF Details
<1>2. \/ \E j \in 1 .. 1 - 1 : queue[j].type \in Messages
      \/ InPacket /\ items[Current].protocol # None
  BY <1>1 DEF IInv, QueueOK, MessageFirst
<1>3. 1 .. 1 - 1 = {}
  OBVIOUS
<1>4. QED BY <1>2, <1>3

LEMMA TargetStep ==
  ASSUME IInv, queue # << >>, queue[1].type \in Details,
         NEW t \in Targets, items' = [items EXCEPT ![Current].target = t],
         Raise(<< SeenRef(Current), GenRef(Current) >>), wait' = FALSE,
         tgt_table' \in [DOMAIN tgt_table' -> Targets],
         UNCHANGED << counts, logged, periods >>, UNCHANGED idVars
  PROVE  IInv'
<1> DEFINE e == queue[1]
           old == items[Current]
<1>1. /\ TypeInv /\ QueueOK /\ OneWay /\ Closed /\ Shows /\ IdentitiesEarned /\ Logs
      /\ AllToLog /\ InOrder
  BY DEF IInv, Logs
<1>2. /\ 1 \in DOMAIN queue /\ e \in Events /\ e.type # "new_packet"
      /\ InPacket /\ Current > 0 /\ Current \in Nat \ {0} /\ old \in Item
  BY HeadEvent DEF Details
<1>3. old.protocol # None
  BY DetailHead
<1>4. PICK i : i = [old EXCEPT !.target = t]
  OBVIOUS
<1>5. /\ i \in Item /\ items' = [items EXCEPT ![Current] = i]
      /\ i.link = old.link /\ i.sender = old.sender /\ i.receiver = old.receiver
      /\ i.protocol = old.protocol /\ i.func = old.func /\ i.unit = old.unit
      /\ i.is_response = old.is_response /\ i.target = t
  <2>1. i \in Item /\ items' = [items EXCEPT ![Current] = i]
    BY <1>1, <1>2, <1>4, TargetItem
  <2>2. QED BY <1>2, <1>4, <2>1 DEF Item
<1>6. UNCHANGED << id_req_table, identity_map >>
  BY DEF idVars
<1>7. PICK events : events = << SeenRef(Current), GenRef(Current) >>
  OBVIOUS
<1>8. /\ SeenRef(Current) \in RaisedEvents /\ SeenRef(Current).type = "item_seen"
      /\ SeenRef(Current).ref = Current /\ Carried(SeenRef(Current)) = {}
      /\ GenRef(Current) \in RaisedEvents /\ GenRef(Current).type = "item_gen"
      /\ GenRef(Current).ref = Current /\ Carried(GenRef(Current)) = {}
  BY <1>2, EventsRaised
<1>9. /\ events \in Seq(RaisedEvents) /\ DOMAIN events = {1, 2}
      /\ events[1] = SeenRef(Current) /\ events[2] = GenRef(Current)
  BY <1>7, <1>8, TwoRaised
<1>10. Handles(events)
  BY <1>1, <1>7, <1>9, RaiseHandles
<1>11. /\ items' \in Seq(Item) /\ Current' = Current /\ items'[Current'] = i
       /\ DOMAIN items' = 1 .. Current /\ ItemsKept
       /\ \A k \in 1 .. Current : k # Current => items'[k] = items[k]
  BY <1>1, <1>2, <1>5, CurrentSet
<1> HIDE DEF e, old
<1>12. TypeInv'
  BY <1>1, <1>10, <1>11 DEF TypeInv, Handles
<1>13. \A j \in DOMAIN events :
         /\ events[j].type = "item_gen" => events[j].ref \in 1 .. Current' /\ events[j].ref = Current
         /\ events[j].type = "item_seen" => events[j].ref # 0 /\ events[j].ref = Current'
         /\ Carried(events[j]) = {}
         /\ events[j].type # "match"
  BY <1>2, <1>8, <1>9, <1>11
<1>14. QueueOK' /\ \A j \in DOMAIN queue' : queue'[j].type # "new_packet"
  <2>1. items'[Current'].protocol # None
    BY <1>3, <1>5, <1>11
  <2>2. queue[1].type \notin Messages /\ queue[1].type # "header_block"
    BY DEF Messages, Details
  <2>3. QED BY <1>1, <1>2, <1>10, <1>11, <1>13, <2>1, <2>2, QueueStep
<1>15. OneWay'
  <2>1. ASSUME NEW asks \in BOOLEAN, Fits(old, asks)
        PROVE  Fits(i, asks)
    BY <1>5, <2>1 DEF Fits
  <2>2. \A asks \in BOOLEAN :
           /\ queue[1].type \in Directed => (queue[1].pdu.func \in Asks <=> asks)
           /\ ~InPacket => Way(queue[1].packet.link, queue[1].packet.src, queue[1].packet.dst, asks)
           /\ InPacket => Fits(items[Current], asks)
           => Fits(items'[Current'], asks)
    BY <1>2, <1>11, <2>1 DEF old
  <2>3. QED BY <1>1, <1>5, <1>10, <1>11, <1>14, <2>2, OneWayStep
<1>16. Keeps
  BY KeepsCounts DEF Details
<1>17. \A q : Coming(q) => Coming(q)'
  BY <1>10, <1>16, ComingStep
<1>18. Closed'
  <2>1. \A q \in DOMAIN counts' : q \in DOMAIN counts
    OBVIOUS
  <2>2. PacketPaths(i) = PacketPaths(old) /\ FunctionPath(i) = FunctionPath(old)
    BY <1>5 DEF PacketPaths, FunctionPath
  <2>3. \A q \in PacketPaths(items'[Current']) : Coming(q)'
    BY <1>1, <1>2, <1>11, <1>17, <2>2 DEF Closed, old
  <2>4. Coming(FunctionPath(items[Current]))'
    <3>1. PICK q : q = FunctionPath(old)
      OBVIOUS
    <3>2. queue[1].type # "application_header"
      BY DEF Details
    <3>3. Coming(q)
      BY <1>1, <1>2, <1>3, <3>1, <3>2 DEF Closed, old
    <3>4. Coming(q)'
      BY <1>17, <3>3
    <3>5. FunctionPath(items'[Current']) = q
      BY <1>11, <2>2, <3>1
    <3>6. QED BY <3>4, <3>5
  <2>5. QED BY <1>1, <1>10, <1>13, <1>16, <2>1, <2>3, <2>4, ClosedStep
<1>19. Shows'
  <2>1. ASSUME i.func # None
        PROVE  /\ i.protocol # None
               /\ Shown(items[Current].sender, items[Current].receiver, items[Current].protocol,
                        items[Current].func)'
    <3>1. Current \in DOMAIN items
      BY <1>1, <1>2, CurrentItem
    <3>2. Shown(old.sender, old.receiver, old.protocol, old.func)
      BY <1>1, <1>5, <2>1, <3>1 DEF Shows, ItemsShow, old
    <3>3. Shown(i.sender, i.receiver, i.protocol, i.func)
      BY <1>5, <3>2
    <3>4. Shown(i.sender, i.receiver, i.protocol, i.func)'
      BY <1>10, <1>16, <3>3, ShownStep
    <3>5. QED BY <1>3, <1>5, <1>11, <3>4
  <2>2. QED BY <1>1, <1>6, <1>10, <1>11, <1>13, <1>16, <2>1, ShowsStep
<1>20. IdentitiesEarned'
  BY <1>1, <1>6, EarnedStep DEF Published
<1>21. /\ InOrder' /\ \A k : ToLog(k) => ToLog(k)'
       /\ \A k : k = Current => ToLog(k)'
  <2>1. queue[1].type # "item_gen"
    BY DEF Details
  <2>2. /\ InOrder' /\ \A k : ToLog(k) => ToLog(k)'
        /\ \A k : \A j \in DOMAIN events : events[j] = GenRef(k) => ToLog(k)'
    BY <1>1, <1>2, <1>10, <1>11, <1>13, <2>1, LogStep
  <2>3. ASSUME NEW k, k = Current PROVE ToLog(k)'
    BY <1>9, <2>2, <2>3
  <2>4. QED BY <2>2, <2>3
<1>22. AllToLog'
  <2>1. ASSUME NEW k \in DOMAIN items'
        PROVE  /\ ToLog(k)' \/ (k = Current' /\ wait')
                  \/ (items'[k].is_response /\ items'[k].target = None)
               /\ items'[k].target # None => ToLog(k)'
    <3>1. CASE k = Current
      BY <1>21, <3>1
    <3>2. CASE k # Current
      <4>1. items'[k] = items[k] /\ k \in DOMAIN items
        BY <1>1, <1>11, <3>2, CurrentItem
      <4>2. /\ ToLog(k) \/ (k = Current /\ wait)
               \/ (items[k].is_response /\ items[k].target = None)
            /\ items[k].target # None => ToLog(k)
        BY <1>1, <4>1 DEF AllToLog
      <4>3. QED BY <1>21, <3>2, <4>1, <4>2
    <3>3. QED BY <3>1, <3>2
  <2>2. QED BY <2>1 DEF AllToLog
<1>23. QED
  BY <1>12, <1>14, <1>15, <1>18, <1>19, <1>20, <1>21, <1>22 DEF IInv, Logs

LEMMA HeaderBlockStep ==
  ASSUME IInv, HeaderBlock, UNCHANGED idVars
  PROVE  IInv'
<1> DEFINE e == queue[1]
           pdu == Head(queue).pdu
           old == items[Current]
<1>1. /\ TypeInv /\ QueueOK /\ OneWay /\ Closed /\ Shows /\ IdentitiesEarned /\ Logs
      /\ AllToLog /\ InOrder
  BY DEF IInv, Logs
<1>2. queue # << >> /\ Head(queue).type = "header_block"
  BY DEF HeaderBlock, Event
<1>3. /\ Head(queue) = e /\ 1 \in DOMAIN queue /\ e \in Events /\ e.type = "header_block"
      /\ InPacket /\ Current > 0 /\ Current \in Nat \ {0} /\ old \in Item /\ pdu = e.pdu
  BY <1>2, HeadEvent
<1>4. pdu \in Dnp3
  BY <1>3, EventFields
<1>5. PICK i : i = [old EXCEPT !.unit = [src |-> pdu.src, dest |-> pdu.dest]]
  OBVIOUS
<1>6. /\ i \in Item /\ items' = [items EXCEPT ![Current] = i]
      /\ i.link = old.link /\ i.sender = old.sender /\ i.receiver = old.receiver
      /\ i.protocol = old.protocol /\ i.func = old.func /\ i.unit # None
      /\ i.is_response = old.is_response /\ i.target = old.target
  <2>1. [src |-> pdu.src, dest |-> pdu.dest] \in UnitIds
    BY <1>4 DEF Dnp3, UnitIds
  <2>2. /\ i \in Item /\ i.unit = [src |-> pdu.src, dest |-> pdu.dest]
        /\ i.link = old.link /\ i.sender = old.sender /\ i.receiver = old.receiver
        /\ i.protocol = old.protocol /\ i.func = old.func
        /\ i.is_response = old.is_response /\ i.target = old.target
    BY <1>3, <1>5, <2>1 DEF Item
  <2>3. items' = [items EXCEPT ![Current].unit = [src |-> pdu.src, dest |-> pdu.dest]]
    BY DEF HeaderBlock
  <2>4. items' = [items EXCEPT ![Current] = i]
    BY <1>5, <2>3
  <2>5. QED BY <2>1, <2>2, <2>4, NoneIsNone
<1>7. /\ UNCHANGED << wait, prefixed, tgt_table, req_table, counts, responses, logged, periods >>
      /\ UNCHANGED << id_req_table, identity_map >> /\ Raise(<< >>)
  BY DEF HeaderBlock, uncounted, idVars
<1>8. PICK events : events = << >>
  OBVIOUS
<1>9. events \in Seq(RaisedEvents) /\ DOMAIN events = {}
  BY <1>8, NoneRaised
<1>10. Handles(events)
  BY <1>1, <1>2, <1>7, <1>8, <1>9, RaiseHandles
<1>11. /\ items' \in Seq(Item) /\ Current' = Current /\ items'[Current'] = i
       /\ DOMAIN items' = 1 .. Current /\ ItemsKept
       /\ \A k \in 1 .. Current : k # Current => items'[k] = items[k]
  BY <1>1, <1>3, <1>6, CurrentSet
<1> HIDE DEF e, old, pdu
<1>12. TypeInv'
  BY <1>1, <1>7, <1>10, <1>11 DEF TypeInv, Handles
<1>13. QueueOK' /\ \A j \in DOMAIN queue' : queue'[j].type # "new_packet"
  <2>1. items'[Current'].unit # None /\ (old.protocol # None => items'[Current'].protocol # None)
    BY <1>6, <1>11
  <2>2. queue[1].type \notin Messages
    BY <1>3 DEF Messages, e
  <2>3. QED BY <1>1, <1>3, <1>9, <1>10, <1>11, <2>1, <2>2, QueueStep DEF old
<1>14. OneWay'
  <2>1. ASSUME NEW asks \in BOOLEAN, Fits(old, asks)
        PROVE  Fits(i, asks)
    BY <1>6, <2>1 DEF Fits
  <2>2. \A asks \in BOOLEAN :
           /\ queue[1].type \in Directed => (queue[1].pdu.func \in Asks <=> asks)
           /\ ~InPacket => Way(queue[1].packet.link, queue[1].packet.src, queue[1].packet.dst, asks)
           /\ InPacket => Fits(items[Current], asks)
           => Fits(items'[Current'], asks)
    BY <1>3, <1>11, <2>1 DEF old
  <2>3. QED BY <1>1, <1>6, <1>10, <1>11, <1>13, <2>2, OneWayStep
<1>15. Keeps
  BY <1>3, <1>7, KeepsCounts DEF e
<1>16. \A q : Coming(q) => Coming(q)'
  BY <1>10, <1>15, ComingStep
<1>17. Closed'
  <2>1. \A q \in DOMAIN counts' : q \in DOMAIN counts
    BY <1>7
  <2>2. PacketPaths(i) = PacketPaths(old)
    BY <1>6 DEF PacketPaths
  <2>3. \A q \in PacketPaths(items'[Current']) : Coming(q)'
    BY <1>1, <1>3, <1>11, <1>16, <2>2 DEF Closed, old
  <2>4. queue'[1].type = "application_header"
    <3>1. 1 + 1 \in DOMAIN queue /\ queue[1 + 1].type = "application_header"
      BY <1>1, <1>3 DEF QueueOK, AddressesFirst, e
    <3>2. PICK k \in DOMAIN queue : k = 2 /\ queue[k].type = "application_header"
      BY <3>1
    <3>3. k # 1 /\ k - 1 = 1
      BY <3>2
    <3>4. QED BY <1>10, <3>2, <3>3 DEF Handles, MovedTo
  <2>5. QED BY <1>1, <1>9, <1>10, <1>15, <2>1, <2>3, <2>4, ClosedStep
<1>18. Shows'
  <2>1. ASSUME i.func # None
        PROVE  /\ i.protocol # None
               /\ Shown(items[Current].sender, items[Current].receiver, items[Current].protocol,
                        items[Current].func)'
    <3>1. Current \in DOMAIN items
      BY <1>1, <1>3, CurrentItem
    <3>2. old.protocol # None /\ Shown(old.sender, old.receiver, old.protocol, old.func)
      BY <1>1, <1>6, <2>1, <3>1 DEF Shows, ItemsShow, old
    <3>3. Shown(i.sender, i.receiver, i.protocol, i.func)
      BY <1>6, <3>2
    <3>4. Shown(i.sender, i.receiver, i.protocol, i.func)'
      BY <1>7, <1>10, <1>15, <3>3, ShownStep
    <3>5. QED BY <1>6, <1>11, <3>2, <3>4
  <2>2. QED BY <1>1, <1>7, <1>9, <1>10, <1>11, <1>15, <2>1, ShowsStep
<1>19. IdentitiesEarned'
  BY <1>1, <1>7, EarnedStep DEF Published
<1>20. InOrder' /\ \A k : ToLog(k) => ToLog(k)'
  <2>1. queue[1].type # "item_gen"
    BY <1>3 DEF e
  <2>2. QED BY <1>1, <1>3, <1>7, <1>9, <1>10, <1>11, <2>1, LogStep
<1>21. AllToLog'
  <2>1. ASSUME NEW k \in DOMAIN items'
        PROVE  /\ ToLog(k)' \/ (k = Current' /\ wait')
                  \/ (items'[k].is_response /\ items'[k].target = None)
               /\ items'[k].target # None => ToLog(k)'
    <3>1. k \in DOMAIN items
      BY <1>1, <1>11, CurrentItem
    <3>2. /\ ToLog(k) \/ (k = Current /\ wait)
             \/ (items[k].is_response /\ items[k].target = None)
          /\ items[k].target # None => ToLog(k)
      BY <1>1, <3>1 DEF AllToLog
    <3>3. items'[k].is_response = items[k].is_response /\ items'[k].target = items[k].target
      BY <1>6, <1>11 DEF old
    <3>4. QED BY <1>7, <1>11, <1>20, <3>2, <3>3
  <2>2. Current' > 0
    BY <1>3, <1>11
  <2>3. QED BY <2>1, <2>2 DEF AllToLog
<1>22. QED
  BY <1>12, <1>13, <1>14, <1>17, <1>18, <1>19, <1>20, <1>21 DEF IInv, Logs

LEMMA SameItemsStep ==
  ASSUME IInv, NEW events, Handles(events), items' = items,
         tgt_table' \in [DOMAIN tgt_table' -> Targets], logged' \in Seq(Nat),
         queue[1].type \notin Messages \cup {"new_packet", "header_block"},
         \A j \in DOMAIN events : events[j].type = "match",
         Keeps, \A p \in DOMAIN counts' : p \in DOMAIN counts \cup Carried(queue[1])
                                          \/ p = << >> \/ Coming(Front(p))'
  PROVE  /\ TypeInv' /\ QueueOK' /\ OneWay' /\ Closed'
         /\ InPacket /\ Current \in Nat \ {0} /\ Current' = Current /\ ItemsKept
<1>1. /\ TypeInv /\ QueueOK /\ OneWay /\ Closed
  BY DEF IInv
<1>2. /\ 1 \in DOMAIN queue /\ InPacket /\ Current > 0 /\ Current \in Nat \ {0}
      /\ items[Current] \in Item
  BY HeadEvent DEF Handles
<1>3. TypeInv'
  BY <1>1 DEF TypeInv, Handles
<1>4. Current' = Current /\ ItemsKept
  BY DEF Current, ItemsKept
<1>5. \A j \in DOMAIN events :
        events[j].type # "item_gen" /\ events[j].type # "item_seen" /\ Carried(events[j]) = {}
  BY DEF Carried
<1>6. QueueOK' /\ \A j \in DOMAIN queue' : queue'[j].type # "new_packet"
  BY <1>1, <1>2, <1>4, <1>5, QueueStep
<1>7. OneWay'
  <2>1. \A asks \in BOOLEAN :
           /\ queue[1].type \in Directed => (queue[1].pdu.func \in Asks <=> asks)
           /\ ~InPacket => Way(queue[1].packet.link, queue[1].packet.src, queue[1].packet.dst, asks)
           /\ InPacket => Fits(items[Current], asks)
           => Fits(items'[Current'], asks)
    BY <1>2, <1>4
  <2>2. QED BY <1>1, <1>2, <1>4, <1>6, <2>1, OneWayStep
<1>8. \A q : Coming(q) => Coming(q)'
  BY ComingStep
<1>9. Closed'
  <2>1. \A q \in PacketPaths(items'[Current']) : Coming(q)'
    BY <1>1, <1>2, <1>4, <1>8 DEF Closed
  <2>2. items'[Current'].protocol # None => Coming(FunctionPath(items[Current]))'
    <3>1. PICK q : q = FunctionPath(items[Current])
      OBVIOUS
    <3>2. queue[1].type # "application_header"
      BY DEF Messages
    <3>3. items[Current].protocol # None => Coming(q)
      BY <1>1, <1>2, <3>1, <3>2 DEF Closed
    <3>4. items[Current].protocol # None => Coming(q)'
      BY <1>8, <3>3
    <3>5. FunctionPath(items'[Current']) = q
      BY <1>4, <3>1
    <3>6. QED BY <1>4, <3>4, <3>5
  <2>3. QED BY <1>1, <1>5, <2>1, <2>2, ClosedStep
<1>10. QED BY <1>2, <1>3, <1>4, <1>6, <1>7, <1>9

\* Nothing is raised, and the items stay as they are.
LEMMA QuietStep ==
  ASSUME IInv, queue # << >>, Raise(<< >>), items' = items,
         tgt_table' \in [DOMAIN tgt_table' -> Targets], UNCHANGED << logged, periods >>,
         queue[1].type \notin Messages \cup {"new_packet", "header_block", "item_gen"},
         wait' = wait \/ (wait' = FALSE /\ items[Current].is_response),
         id_req_table' = id_req_table,
         DOMAIN counts \cup Carried(queue[1]) \subseteq DOMAIN counts',
         \A p \in DOMAIN counts' : p \in DOMAIN counts \cup Carried(queue[1]) \/ p = << >>
                                   \/ Coming(Front(p)) \/ Front(p) \in DOMAIN counts'
  PROVE  TypeInv' /\ QueueOK' /\ OneWay' /\ Closed' /\ Shows' /\ Logs'
<1>1. /\ TypeInv /\ QueueOK /\ Shows /\ AllToLog /\ InOrder
  BY DEF IInv, Logs
<1>2. PICK events : events = << >>
  OBVIOUS
<1>3. events \in Seq(RaisedEvents) /\ DOMAIN events = {}
  BY <1>2, NoneRaised
<1>4. Handles(events)
  BY <1>1, <1>2, <1>3, RaiseHandles
<1>5. Keeps
  BY DEF Keeps
<1>6. \A q : Coming(q) => Coming(q)'
  BY <1>4, <1>5, ComingStep
<1>7. \A p \in DOMAIN counts' : p \in DOMAIN counts \cup Carried(queue[1])
                                \/ p = << >> \/ Coming(Front(p))'
  <2>1. ASSUME NEW p \in DOMAIN counts', Coming(Front(p)) PROVE Coming(Front(p))'
    <3>1. PICK q : q = Front(p)
      OBVIOUS
    <3>2. Coming(q)'
      BY <1>6, <2>1, <3>1
    <3>3. QED BY <3>1, <3>2
  <2>2. ASSUME NEW p \in DOMAIN counts', Front(p) \in DOMAIN counts' PROVE Coming(Front(p))'
    BY <2>2 DEF Coming, CountedBefore
  <2>3. QED BY <2>1, <2>2
<1>8. logged' \in Seq(Nat)
  BY <1>1 DEF TypeInv
<1>9. /\ TypeInv' /\ QueueOK' /\ OneWay' /\ Closed'
      /\ InPacket /\ Current \in Nat \ {0} /\ Current' = Current /\ ItemsKept
  BY <1>3, <1>4, <1>5, <1>7, <1>8, SameItemsStep
<1>10. Shows'
  <2>1. ASSUME items'[Current'].func # None
        PROVE  /\ items'[Current'].protocol # None
               /\ Shown(items[Current].sender, items[Current].receiver, items[Current].protocol,
                        items[Current].func)'
    <3>1. PICK i : i = items[Current]
      OBVIOUS
    <3>2. Current \in DOMAIN items
      BY <1>1, <1>9, CurrentItem
    <3>3. i.protocol # None /\ Shown(i.sender, i.receiver, i.protocol, i.func)
      BY <1>1, <1>9, <2>1, <3>1, <3>2 DEF Shows, ItemsShow
    <3>4. Shown(i.sender, i.receiver, i.protocol, i.func)'
      BY <1>4, <1>5, <3>3, ShownStep
    <3>5. QED BY <1>9, <3>1, <3>3, <3>4
  <2>2. QED BY <1>1, <1>3, <1>4, <1>5, <1>9, <2>1, ShowsStep
<1>11. InOrder' /\ \A k : ToLog(k) => ToLog(k)'
  BY <1>1, <1>3, <1>4, <1>9, LogStep
<1>12. AllToLog'
  <2>1. ASSUME NEW k \in DOMAIN items'
        PROVE  /\ ToLog(k)' \/ (k = Current' /\ wait')
                  \/ (items'[k].is_response /\ items'[k].target = None)
               /\ items'[k].target # None => ToLog(k)'
    <3>1. /\ ToLog(k) \/ (k = Current /\ wait)
             \/ (items[k].is_response /\ items[k].target = None)
          /\ items[k].target # None => ToLog(k)
      BY <1>1 DEF AllToLog
    <3>2. QED BY <1>9, <1>11, <3>1
  <2>2. wait' => Current' > 0
    BY <1>9
  <2>3. QED BY <2>1, <2>2 DEF AllToLog
<1>13. QED BY <1>9, <1>10, <1>11, <1>12 DEF Logs

LEMMA ObservePaths ==
  ASSUME NEW i, Observe(i)
  PROVE  DOMAIN counts' = DOMAIN counts \cup ItemPaths(i)
BY DEF Observe, ObserveMessage, Plus, ItemPaths

LEMMA CountItemStep ==
  ASSUME IInv, CountItem, UNCHANGED idVars
  PROVE  IInv'
<1> DEFINE e == queue[1]
<1>1. /\ TypeInv /\ QueueOK /\ OneWay /\ Closed /\ Shows /\ IdentitiesEarned /\ Logs
  BY DEF IInv
<1>2. queue # << >> /\ Head(queue).type = "item_seen"
  BY DEF CountItem, Event
<1>3. /\ Head(queue) = e /\ 1 \in DOMAIN queue /\ e \in Events /\ e.type = "item_seen"
      /\ InPacket /\ Current > 0 /\ Current \in Nat \ {0} /\ items[Current] \in Item
  BY <1>2, HeadEvent
<1>4. PICK i : i = IF e.ref = 0 THEN e.item ELSE items[e.ref]
  OBVIOUS
<1>5. Observe(i)
  BY <1>3, <1>4 DEF CountItem
<1>6. e.ref # 0 => i = items[Current] /\ Carried(e) = {}
  <2>1. e.ref # 0 => e.ref = Current
    BY <1>1, <1>3 DEF QueueOK, Refers
  <2>2. QED BY <1>4, <2>1 DEF Carried
<1>7. e.ref = 0 => Carried(e) = ItemPaths(i)
  BY <1>3, <1>4 DEF Carried
<1>8. DOMAIN counts' = DOMAIN counts \cup ItemPaths(i)
  BY <1>5, ObservePaths
<1>9. /\ UNCHANGED << items, wait, prefixed, tgt_table, logged, periods >> /\ Raise(<< >>)
      /\ UNCHANGED << id_req_table, identity_map >>
  BY DEF CountItem, idVars
<1> HIDE DEF e
<1>10. ASSUME e.ref # 0, NEW p \in ItemPaths(i)
       PROVE  p = << >> \/ Coming(Front(p)) \/ Front(p) \in DOMAIN counts'
  <2>1. i = items[Current]
    BY <1>6, <1>10
  <2>2. << i.sender, i.receiver >> \in PacketPaths(i) /\ \A q \in PacketPaths(i) : Coming(q)
    BY <1>1, <1>3, <2>1 DEF Closed, PacketPaths
  <2>3. CASE i.protocol = None
    <3>1. p \in PacketPaths(i) /\ PacketPaths(i) \subseteq DOMAIN counts'
      BY <1>8, <1>10, <2>3 DEF ItemPaths
    <3>2. Front(<< i.sender >>) = << >> /\ Front(<< i.sender, i.receiver >>) = << i.sender >>
      BY PathsOfItem
    <3>3. p = << >> \/ Front(p) \in PacketPaths(i)
      BY <3>1, <3>2 DEF PacketPaths
    <3>4. QED BY <3>1, <3>3
  <2>4. CASE i.protocol # None /\ i.target = None
    <3>1. p \in MessagePaths(i) /\ MessagePaths(i) \subseteq DOMAIN counts'
      BY <1>8, <1>10, <2>4 DEF ItemPaths
    <3>2. PICK q : q = Front(p)
      OBVIOUS
    <3>3. q \in MessagePaths(i) \cup {<< i.sender, i.receiver >>}
      BY <3>1, <3>2, PathsOfItem
    <3>4. QED BY <2>2, <3>1, <3>2, <3>3
  <2>5. CASE i.protocol # None /\ i.target # None
    <3>1. p = TargetPath(i)
      BY <1>10, <2>5 DEF ItemPaths
    <3>2. Front(p) = FunctionPath(i)
      BY <3>1, PathsOfItem
    <3>3. Coming(FunctionPath(items[Current]))
      BY <1>1, <1>3, <2>1, <2>5 DEF Closed, e
    <3>4. QED BY <2>1, <3>2, <3>3
  <2>6. QED BY <2>3, <2>4, <2>5
<1>11. TypeInv' /\ QueueOK' /\ OneWay' /\ Closed' /\ Shows' /\ Logs'
  <2>1. tgt_table' \in [DOMAIN tgt_table' -> Targets]
    BY <1>1, <1>9 DEF TypeInv
  <2>2. queue[1].type \notin Messages \cup {"new_packet", "header_block", "item_gen"}
    BY <1>3 DEF Messages, e
  <2>3. DOMAIN counts \cup Carried(queue[1]) \subseteq DOMAIN counts'
    BY <1>6, <1>7, <1>8 DEF e
  <2>4. \A p \in DOMAIN counts' : p \in DOMAIN counts \cup Carried(queue[1]) \/ p = << >>
                                   \/ Coming(Front(p)) \/ Front(p) \in DOMAIN counts'
    BY <1>7, <1>8, <1>10 DEF e
  <2>5. QED BY <1>2, <1>9, <2>1, <2>2, <2>3, <2>4, QuietStep
<1>12. IdentitiesEarned'
  BY <1>1, <1>8, <1>9, EarnedStep DEF Published
<1>13. QED BY <1>11, <1>12 DEF IInv

\* Handlers that find no target.
LEMMA DropStep ==
  ASSUME IInv, queue # << >>, queue[1].type \in Details, Raise(<< >>), items' = items,
         UNCHANGED << tgt_table, counts, logged, periods >>, UNCHANGED idVars,
         wait' = wait \/ (wait' = FALSE /\ queue[1].type = "detail" /\ queue[1].pdu.func \notin Asks)
  PROVE  IInv'
<1>1. /\ TypeInv /\ QueueOK /\ OneWay /\ Closed /\ Shows /\ IdentitiesEarned /\ Logs
  BY DEF IInv
<1>2. /\ 1 \in DOMAIN queue /\ InPacket /\ Current > 0 /\ Current \in Nat \ {0}
      /\ items[Current] \in Item
  BY HeadEvent DEF Details
<1>3. items[Current].protocol # None
  BY DetailHead
<1>4. wait' = wait \/ (wait' = FALSE /\ items[Current].is_response)
  <2>1. SUFFICES ASSUME queue[1].type = "detail", queue[1].pdu.func \notin Asks
                 PROVE  items[Current].is_response
    OBVIOUS
  <2>2. queue[1].type \in Directed
    BY <2>1 DEF Directed
  <2>3. PICK asks \in BOOLEAN :
          (queue[1].pdu.func \in Asks <=> asks) /\ Fits(items[Current], asks)
    BY <1>1, <1>2, <2>2 DEF OneWay
  <2>4. QED BY <1>3, <2>1, <2>3 DEF Fits
<1>5. UNCHANGED << id_req_table, identity_map >>
  BY DEF idVars
<1>6. Carried(queue[1]) = {}
  BY DEF Carried, Details
<1>7. TypeInv' /\ QueueOK' /\ OneWay' /\ Closed' /\ Shows' /\ Logs'
  <2>1. tgt_table' \in [DOMAIN tgt_table' -> Targets]
    BY <1>1 DEF TypeInv
  <2>2. queue[1].type \notin Messages \cup {"new_packet", "header_block", "item_gen"}
    BY DEF Messages, Details
  <2>3. /\ DOMAIN counts \cup Carried(queue[1]) \subseteq DOMAIN counts'
        /\ \A p \in DOMAIN counts' : p \in DOMAIN counts \cup Carried(queue[1])
    BY <1>6
  <2>4. QED BY <1>4, <1>5, <2>1, <2>2, <2>3, QuietStep
<1>8. IdentitiesEarned'
  BY <1>1, <1>5, EarnedStep DEF Published
<1>9. QED BY <1>7, <1>8 DEF IInv

LEMMA ModbusRequestStep ==
  ASSUME IInv, ModbusRequest, UNCHANGED idVars
  PROVE  IInv'
<1> DEFINE pdu == Head(queue).pdu
           link == items[Current].link
<1>1. queue # << >> /\ Head(queue).type = "detail"
  BY DEF ModbusRequest, Event
<1>2. queue[1].type = "detail" /\ pdu \in Modbus
  BY <1>1, HeadEvent, EventFields
<1>3. pdu.target \in Targets
  BY <1>2 DEF Modbus
<1>4. /\ tgt_table' = [x \in DOMAIN tgt_table \cup {link} |->
                         IF x = link THEN pdu.target ELSE tgt_table[x]]
      /\ WithTarget(pdu.target) /\ UNCHANGED << counts, logged, periods >>
  BY DEF ModbusRequest, uncounted
<1>5. tgt_table' \in [DOMAIN tgt_table' -> Targets]
  <2>1. tgt_table \in [DOMAIN tgt_table -> Targets]
    BY DEF IInv, TypeInv
  <2>2. QED BY <1>3, <1>4, <2>1
<1> HIDE DEF pdu, link
<1>6. QED BY <1>1, <1>2, <1>3, <1>4, <1>5, TargetStep DEF WithTarget, Details

LEMMA ModbusResponseStep ==
  ASSUME IInv, ModbusResponse, UNCHANGED idVars
  PROVE  IInv'
<1> DEFINE link == items[Current].link
<1>1. queue # << >> /\ Head(queue).type = "detail" /\ Head(queue).pdu.func \notin Asks
  BY DEF ModbusResponse, Event
<1>2. queue[1].type = "detail" /\ queue[1].pdu.func \notin Asks /\ queue[1].type \in Details
  BY <1>1, HeadEvent DEF Details
<1>3. UNCHANGED << prefixed, tgt_table, counts, logged, periods >>
  BY DEF ModbusResponse, uncounted
<1>4. tgt_table \in [DOMAIN tgt_table -> Targets]
  BY DEF IInv, TypeInv
<1>5. CASE link \in DOMAIN tgt_table
  <2>1. WithTarget(tgt_table[link])
    BY <1>5 DEF ModbusResponse
  <2>2. PICK t \in Targets : t = tgt_table[link]
    BY <1>4, <1>5
  <2>3. /\ items' = [items EXCEPT ![Current].target = t]
        /\ Raise(<< SeenRef(Current), GenRef(Current) >>) /\ wait' = FALSE
    BY <2>1, <2>2 DEF WithTarget
  <2>4. tgt_table' \in [DOMAIN tgt_table' -> Targets]
    BY <1>3, <1>4
  <2>5. QED BY <1>1, <1>2, <1>3, <2>3, <2>4, TargetStep
<1>6. CASE link \notin DOMAIN tgt_table
  <2>1. Raise(<< >>) /\ wait' = FALSE /\ items' = items
    BY <1>6 DEF ModbusResponse
  <2>2. QED BY <1>1, <1>2, <1>3, <2>1, DropStep
<1>7. QED BY <1>5, <1>6

\* An object gives its message a target or does not.
LEMMA ObjectTarget ==
  ASSUME IInv, HandleObjectHeader \/ HandleObjectPrefix
  PROVE  /\ queue # << >> /\ queue[1].type \in {"object_header", "object_prefix"}
         /\ UNCHANGED << tgt_table, counts, logged, periods >>
         /\ (\E t \in Targets : WithTarget(t)) \/ WithoutTarget
<1>1. queue # << >> /\ Head(queue).type \in {"object_header", "object_prefix"}
  BY DEF HandleObjectHeader, HandleObjectPrefix, Event
<1>2. /\ Head(queue) = queue[1] /\ queue[1] \in Events
      /\ queue[1].type \in {"object_header", "object_prefix"} /\ queue[1].type \in Details
  BY <1>1, HeadEvent DEF Details
<1>3. UNCHANGED << tgt_table, counts, logged, periods >>
  BY DEF HandleObjectHeader, HandleObjectPrefix, uncounted
<1>4. \/ \E t \in Targets : WithTarget(t)
      \/ WithoutTarget
  <2>1. CASE HandleObjectHeader
    <3>1. queue[1].object \in ObjectHeader
      BY <1>2, <2>1, EventFields DEF HandleObjectHeader, Event
    <3>2. PICK o \in ObjectHeader : o = queue[1].object
      BY <3>1
    <3>3. IF o.qualifier = "range" THEN WithTarget(Head(o.targets)) ELSE WithoutTarget
      BY <1>2, <2>1, <3>2 DEF HandleObjectHeader
    <3>4. o.targets \in Seq(Targets) /\ (o.qualifier = "range" => o.targets # << >>)
      BY <3>2 DEF ObjectHeader
    <3>5. o.qualifier = "range" => Head(o.targets) \in Targets
      BY <3>4, EmptySeq
    <3>6. QED BY <3>3, <3>5
  <2>2. CASE HandleObjectPrefix
    <3>1. queue[1].target \in Targets
      BY <1>2, <2>2, EventFields DEF HandleObjectPrefix, Event
    <3>2. QED BY <1>2, <2>2, <3>1 DEF HandleObjectPrefix
  <2>3. QED BY <2>1, <2>2
<1>5. QED BY <1>1, <1>2, <1>3, <1>4

LEMMA ObjectStep ==
  ASSUME IInv, HandleObjectHeader \/ HandleObjectPrefix, UNCHANGED idVars
  PROVE  IInv'
<1>1. /\ queue # << >> /\ queue[1].type \in Details
      /\ queue[1].type \in {"object_header", "object_prefix"}
      /\ UNCHANGED << tgt_table, counts, logged, periods >>
      /\ (\E t \in Targets : WithTarget(t)) \/ WithoutTarget
  BY ObjectTarget DEF Details
<1>2. CASE \E t \in Targets : WithTarget(t)
  <2>1. PICK t \in Targets : WithTarget(t)
    BY <1>2
  <2>2. tgt_table' \in [DOMAIN tgt_table' -> Targets]
    BY <1>1 DEF IInv, TypeInv
  <2>3. QED BY <1>1, <2>1, <2>2, TargetStep DEF WithTarget
<1>3. CASE WithoutTarget
  BY <1>1, <1>3, DropStep DEF WithoutTarget
<1>4. QED BY <1>1, <1>2, <1>3
-----------------------------------------------------------------------------
(* The identities *)

LEMMA OriginExists == Origin \in Origins /\ IsOrigin(Origin)
<1>1. PICK orig \in [Links -> Hosts], resp \in [Links -> Hosts] : \A p \in Packets :
        \/ p.src = orig[p.link] /\ p.dst = resp[p.link] /\ PacketFuncs(p) \subseteq Asks
        \/ p.src = resp[p.link] /\ p.dst = orig[p.link] /\ PacketFuncs(p) \cap Asks = {}
  BY OriginAssumption DEF PacketFuncs
<1>2. PICK o \in Origins : o.orig = orig /\ o.resp = resp
  <2>1. [orig |-> orig, resp |-> resp] \in Origins
    BY DEF Origins
  <2>2. QED BY <2>1
<1>3. IsOrigin(o)
  BY <1>1, <1>2 DEF IsOrigin
<1>4. QED BY <1>3 DEF Origin

LEMMA HandleMatchStep ==
  ASSUME IInv, HandleMatch
  PROVE  IInv'
<1> DEFINE e == queue[1]
           r == id_req_table[Head(queue).link]
           new == {hi \in Recognized(r, Head(queue).found) : hi[2] # ""}
<1>1. /\ TypeInv /\ QueueOK /\ OneWay /\ Closed /\ Shows /\ IdentitiesEarned /\ Logs
  BY DEF IInv
<1>2. queue # << >> /\ Head(queue).type = "match"
  BY DEF HandleMatch, Event
<1>3. /\ Head(queue) = e /\ 1 \in DOMAIN queue /\ e \in Events /\ e.type = "match"
      /\ InPacket /\ Current > 0 /\ Current \in Nat \ {0} /\ items[Current] \in Item
  BY <1>2, HeadEvent
<1>4. e.link \in Links /\ e.found \subseteq Identities
  BY <1>3, EventFields
<1>5. /\ identity_map' =
           [h \in DOMAIN identity_map \cup {hi[1] : hi \in new} |->
              (IF h \in DOMAIN identity_map THEN identity_map[h] ELSE {})
              \cup {hi[2] : hi \in {x \in new : x[1] = h}}]
      /\ UNCHANGED << id_req_table >>
  BY DEF HandleMatch, AddIdentities
<1>6. /\ UNCHANGED << items, wait, prefixed, tgt_table, req_table, counts, responses, logged, periods >>
      /\ Raise(<< >>)
  BY DEF HandleMatch, uncounted
<1>7. PICK orig \in Hosts, resp \in Hosts : orig = Origin.orig[e.link] /\ resp = Origin.resp[e.link]
  BY <1>4, OriginExists DEF Origins
<1>8. r.requestor = orig /\ r.responder = resp
  <2>1. e.link \in DOMAIN id_req_table
    BY <1>1, <1>3 DEF Shows, MatchesShow, MatchShows
  <2>2. QED BY <1>1, <1>3, <1>7, <2>1 DEF Shows, RequestsShow
<1>9. \A i \in e.found : Sent(orig, resp, i.protocol, i.ask) /\ Sent(resp, orig, i.protocol, i.answer)
  <2>1. MatchShows(e, 1)
    BY <1>1, <1>3 DEF Shows, MatchesShow
  <2>2. \A h, g, protocol, f : ShownBefore(h, g, protocol, f, 1) => Sent(h, g, protocol, f)
    <3>1. 1 .. 1 - 1 = {}
      OBVIOUS
    <3>2. \A p : CountedBefore(p, 1) => p \in DOMAIN counts
      BY <3>1 DEF CountedBefore
    <3>3. QED BY <3>2 DEF ShownBefore, Sent
  <2>3. QED BY <1>7, <2>1, <2>2 DEF MatchShows
<1>10. ASSUME NEW x \in new PROVE Earned(x[1], x[2])
  <2>1. PICK i \in e.found : x = << orig, i.requestor >> \/ x = << resp, i.responder >>
    BY <1>3, <1>8 DEF Recognized
  <2>2. i \in Identities
    BY <1>4, <2>1
  <2>3. Sent(orig, resp, i.protocol, i.ask) /\ Sent(resp, orig, i.protocol, i.answer)
    BY <1>9
  <2>4. CASE x = << orig, i.requestor >>
    <3>1. x[1] = orig /\ x[2] = i.requestor
      BY <2>4
    <3>2. QED BY <1>7, <2>2, <2>3, <3>1 DEF Earned
  <2>5. CASE x = << resp, i.responder >>
    <3>1. x[1] = resp /\ x[2] = i.responder
      BY <2>5
    <3>2. QED BY <1>7, <2>2, <2>3, <3>1 DEF Earned
  <2>6. QED BY <2>1, <2>4, <2>5
<1> HIDE DEF e, r, new
<1>11. IdentitiesEarned'
  <2>1. ASSUME NEW h \in DOMAIN identity_map', NEW identity \in identity_map'[h]
        PROVE  Earned(h, identity)
    <3>1. CASE h \in DOMAIN identity_map /\ identity \in identity_map[h]
      BY <1>1, <3>1 DEF IdentitiesEarned
    <3>2. CASE \E x \in new : x[1] = h /\ x[2] = identity
      BY <1>10, <3>2
    <3>3. QED BY <1>5, <2>1, <3>1, <3>2
  <2>2. \A h, identity : Earned(h, identity) => Earned(h, identity)'
    <3>1. \A h, g, protocol, f : Sent(h, g, protocol, f) => Sent(h, g, protocol, f)'
      BY <1>6 DEF Sent, Published
    <3>2. QED BY <3>1 DEF Earned
  <2>3. QED BY <2>1, <2>2 DEF IdentitiesEarned
<1>12. TypeInv' /\ QueueOK' /\ OneWay' /\ Closed' /\ Shows' /\ Logs'
  <2>1. tgt_table' \in [DOMAIN tgt_table' -> Targets]
    BY <1>1, <1>6 DEF TypeInv
  <2>2. queue[1].type \notin Messages \cup {"new_packet", "header_block", "item_gen"}
    BY <1>3 DEF Messages, e
  <2>3. Carried(queue[1]) = {}
    BY <1>3 DEF Carried, e
  <2>4. /\ DOMAIN counts \cup Carried(queue[1]) \subseteq DOMAIN counts'
        /\ \A p \in DOMAIN counts' : p \in DOMAIN counts \cup Carried(queue[1])
    BY <1>6, <2>3
  <2>5. QED BY <1>2, <1>5, <1>6, <2>1, <2>2, <2>4, QuietStep
<1>13. QED BY <1>11, <1>12 DEF IInv

LEMMA MatchesRaised ==
  ASSUME NEW i \in Item
  PROVE  /\ Matches(i) \in Seq(RaisedEvents)
         /\ \A j \in DOMAIN Matches(i) :
              /\ j = 1 /\ Matches(i)[j].type = "match" /\ Replying(i)
              /\ Matches(i)[j].link = i.link /\ Matches(i)[j].found = Known(i)
<1>1. PICK events : events = Matches(i)
  OBVIOUS
<1>2. /\ events \in Seq(RaisedEvents)
      /\ \A j \in DOMAIN events :
           /\ j = 1 /\ events[j].type = "match" /\ Replying(i)
           /\ events[j].link = i.link /\ events[j].found = Known(i)
  <2>1. CASE Replying(i) /\ Known(i) # {}
    <3> DEFINE m == [type |-> "match", link |-> i.link, found |-> Known(i)]
    <3>1. i.link \in Links /\ Known(i) \subseteq Identities
      BY DEF Item, Known
    <3>2. m \in RaisedEvents
      BY <3>1 DEF RaisedEvents
    <3>3. events = << m >>
      BY <1>1, <2>1 DEF Matches
    <3>4. events \in Seq(RaisedEvents) /\ DOMAIN events = {1} /\ events[1] = m
      BY <3>2, <3>3, OneRaised
    <3>5. QED BY <2>1, <3>4
  <2>2. CASE ~(Replying(i) /\ Known(i) # {})
    <3>1. events = << >>
      BY <1>1, <2>2 DEF Matches
    <3>2. QED BY <3>1, NoneRaised
  <2>3. QED BY <2>1, <2>2
<1>3. QED BY <1>1, <1>2

LEMMA HandleItemGenStep ==
  ASSUME IInv, HandleItemGen
  PROVE  IInv'
<1> DEFINE e == queue[1]
<1>1. /\ TypeInv /\ QueueOK /\ OneWay /\ Closed /\ Shows /\ IdentitiesEarned /\ Logs
      /\ AllToLog /\ InOrder /\ ItemsShow /\ RequestsShow /\ MatchesShow
  BY DEF IInv, Logs, Shows
<1>2. queue # << >> /\ Head(queue).type = "item_gen"
  BY DEF HandleItemGen, Event
<1>3. /\ Head(queue) = e /\ 1 \in DOMAIN queue /\ e \in Events /\ e.type = "item_gen"
      /\ InPacket /\ Current > 0 /\ Current \in Nat \ {0} /\ items[Current] \in Item
  BY <1>2, HeadEvent
<1>4. e.ref \in 1 .. Current /\ e.ref \in DOMAIN items /\ e.ref \in Nat
  <2>1. e.ref \in 1 .. Current
    BY <1>1, <1>3 DEF QueueOK, Refers
  <2>2. QED BY <1>1, <2>1, CurrentItem
<1>5. PICK i : i = items[e.ref]
  OBVIOUS
<1>6. i \in Item
  BY <1>1, <1>4, <1>5, CurrentItem
<1>7. /\ logged' = Append(logged, e.ref) /\ Raise(Matches(i)) /\ RememberRequest(i)
      /\ UNCHANGED << items, wait, prefixed, tgt_table, req_table, counts, responses, periods >>
  BY <1>3, <1>5 DEF HandleItemGen, ItemGen
<1>8. PICK events : events = Matches(i)
  OBVIOUS
<1>9. /\ events \in Seq(RaisedEvents)
      /\ \A j \in DOMAIN events :
           /\ j = 1 /\ events[j].type = "match" /\ Replying(i)
           /\ events[j].link = i.link /\ events[j].found = Known(i)
  BY <1>6, <1>8, MatchesRaised
<1>10. Handles(events)
  BY <1>1, <1>2, <1>7, <1>8, <1>9, RaiseHandles
<1>11. Keeps
  BY <1>3, <1>7, KeepsCounts
<1>12. identity_map' = identity_map /\ id_req_table' =
         [x \in DOMAIN id_req_table \cup (IF Asking(i) THEN {i.link} ELSE {}) |->
            IF Asking(i) /\ x = i.link THEN RequestOf(i) ELSE id_req_table[x]]
  BY <1>7 DEF RememberRequest
<1>13. DOMAIN id_req_table' = DOMAIN id_req_table \cup (IF Asking(i) THEN {i.link} ELSE {})
  BY <1>12
<1> HIDE DEF e
<1>14. /\ TypeInv' /\ QueueOK' /\ OneWay' /\ Closed'
       /\ Current' = Current /\ ItemsKept
  <2>1. tgt_table' \in [DOMAIN tgt_table' -> Targets] /\ logged' \in Seq(Nat)
    BY <1>1, <1>4, <1>7 DEF TypeInv
  <2>2. queue[1].type \notin Messages \cup {"new_packet", "header_block"}
    BY <1>3 DEF Messages, e
  <2>3. \A p \in DOMAIN counts' : p \in DOMAIN counts \cup Carried(queue[1])
    BY <1>7
  <2>4. QED BY <1>7, <1>9, <1>10, <1>11, <2>1, <2>2, <2>3, SameItemsStep
<1>15. /\ \A h, g, protocol, f : Shown(h, g, protocol, f) => Shown(h, g, protocol, f)'
       /\ \A h, g, protocol, f : \A n \in Nat :
            n >= Len(queue) /\ Shown(h, g, protocol, f) => ShownBefore(h, g, protocol, f, n)'
  BY <1>7, <1>10, <1>11, ShownStep
\* what the item shows
<1>16. i.func # None =>
         /\ i.protocol # None /\ Shown(i.sender, i.receiver, i.protocol, i.func)
         /\ Way(i.link, i.sender, i.receiver, ~i.is_response)
  BY <1>1, <1>4, <1>5 DEF ItemsShow, OneWay
<1>17. ItemsShow'
  <2>1. ASSUME NEW k \in DOMAIN items', items'[k].func # None
        PROVE  /\ items'[k].protocol # None
               /\ Shown(items[k].sender, items[k].receiver, items[k].protocol, items[k].func)'
    <3>1. PICK x : x = items[k]
      OBVIOUS
    <3>2. items'[k] = x /\ k \in DOMAIN items
      BY <1>7, <2>1, <3>1
    <3>3. x.protocol # None /\ Shown(x.sender, x.receiver, x.protocol, x.func)
      BY <1>1, <2>1, <3>1, <3>2 DEF ItemsShow
    <3>4. Shown(x.sender, x.receiver, x.protocol, x.func)'
      BY <1>15, <3>3
    <3>5. QED BY <3>2, <3>3, <3>4
  <2>2. QED BY <2>1 DEF ItemsShow
<1>18. RequestsShow'
  <2>1. ASSUME NEW link \in DOMAIN id_req_table'
        PROVE  LET r == id_req_table'[link]
               IN  /\ r.requestor = Origin.orig[link] /\ r.responder = Origin.resp[link]
                   /\ Shown(r.requestor, r.responder, r.protocol, r.req_func)
    <3>1. CASE Asking(i) /\ link = i.link
      <4>1. id_req_table'[link] = RequestOf(i)
        BY <1>12, <2>1, <3>1
      <4>2. i.func # None /\ i.is_response = FALSE
        BY <1>6, <3>1, NodeAssumption DEF Asking, Item
      <4>3. i.sender = Origin.orig[link] /\ i.receiver = Origin.resp[link]
        BY <1>16, <3>1, <4>2 DEF Way
      <4>4. QED BY <1>16, <4>1, <4>2, <4>3 DEF RequestOf
    <3>2. CASE ~(Asking(i) /\ link = i.link)
      <4>1. link \in DOMAIN id_req_table /\ id_req_table'[link] = id_req_table[link]
        BY <1>12, <2>1, <3>2
      <4>2. QED BY <1>1, <4>1 DEF RequestsShow
    <3>3. QED BY <3>1, <3>2
  <2>2. ASSUME NEW link \in DOMAIN id_req_table'
        PROVE  /\ id_req_table'[link].requestor = Origin.orig[link]
               /\ id_req_table'[link].responder = Origin.resp[link]
               /\ Shown(id_req_table[link].requestor, id_req_table[link].responder,
                        id_req_table[link].protocol, id_req_table[link].req_func)'
    <3>1. PICK r : r = id_req_table'[link]
      OBVIOUS
    <3>2. /\ r.requestor = Origin.orig[link] /\ r.responder = Origin.resp[link]
          /\ Shown(r.requestor, r.responder, r.protocol, r.req_func)
      BY <2>1, <3>1
    <3>3. Shown(r.requestor, r.responder, r.protocol, r.req_func)'
      BY <1>15, <3>2
    <3>4. QED BY <3>1, <3>2, <3>3
  <2>3. QED BY <2>2 DEF RequestsShow
<1>19. ASSUME NEW n \in Nat, n >= Len(queue), NEW m, m.link = i.link, m.found = Known(i), Replying(i)
       PROVE  MatchShows(m, n)'
  <2>1. i.func # None /\ i.is_response /\ i.link \in DOMAIN id_req_table
    BY <1>19, NodeAssumption DEF Replying
  <2>2. PICK r : r = id_req_table[i.link]
    OBVIOUS
  <2>3. /\ r.requestor = Origin.orig[i.link] /\ r.responder = Origin.resp[i.link]
        /\ Shown(r.requestor, r.responder, r.protocol, r.req_func)
        /\ r.requestor = i.receiver /\ r.responder = i.sender /\ r.protocol = i.protocol
    BY <1>1, <1>19, <2>1, <2>2 DEF RequestsShow, Replying
  <2>4. ASSUME NEW d \in Known(i)
        PROVE  /\ ShownBefore(Origin.orig[i.link], Origin.resp[i.link], d.protocol, d.ask, n)'
               /\ ShownBefore(Origin.resp[i.link], Origin.orig[i.link], d.protocol, d.answer, n)'
    <3>1. d.protocol = i.protocol /\ d.answer = i.func /\ d.ask = r.req_func
      BY <2>2, <2>4 DEF Known
    <3>2. PICK orig, resp : orig = Origin.orig[i.link] /\ resp = Origin.resp[i.link]
      OBVIOUS
    <3>3. Shown(orig, resp, d.protocol, d.ask) /\ Shown(resp, orig, d.protocol, d.answer)
      BY <1>16, <2>1, <2>3, <3>1, <3>2
    <3>4. /\ ShownBefore(orig, resp, d.protocol, d.ask, n)'
          /\ ShownBefore(resp, orig, d.protocol, d.answer, n)'
      BY <1>15, <1>19, <3>3
    <3>5. QED BY <3>2, <3>4
  <2>5. m.link \in DOMAIN id_req_table'
    BY <1>13, <1>19, <2>1
  <2>6. QED BY <1>19, <2>4, <2>5 DEF MatchShows
<1>20. MatchesShow'
  <2>1. ASSUME NEW n \in DOMAIN queue', queue'[n].type = "match"
        PROVE  MatchShows(queue[n], n)'
    <3>1. PICK m : m = queue'[n]
      OBVIOUS
    <3>2. CASE n + 1 \in DOMAIN queue /\ m = queue[n + 1]
      <4>1. MatchShows(m, n)'
        BY <1>1, <1>7, <1>10, <1>11, <1>13, <2>1, <3>1, <3>2, MatchStep
      <4>2. QED BY <3>1, <4>1 DEF MatchShows
    <3>3. CASE \E j \in DOMAIN events : n = Len(queue) - 1 + j /\ m = events[j]
      <4>1. PICK j \in DOMAIN events : n = Len(queue) - 1 + j /\ m = events[j]
        BY <3>3
      <4>2. j = 1 /\ m.link = i.link /\ m.found = Known(i) /\ Replying(i)
        BY <1>9, <4>1
      <4>3. n \in Nat /\ n >= Len(queue)
        BY <1>10, <4>1, <4>2 DEF Handles, MovedTo
      <4>4. MatchShows(m, n)'
        BY <1>19, <4>2, <4>3
      <4>5. QED BY <3>1, <4>4 DEF MatchShows
    <3>4. QED BY <1>10, <3>1, <3>2, <3>3 DEF Handles, MovedTo
  <2>2. QED BY <2>1 DEF MatchesShow
<1>21. IdentitiesEarned'
  BY <1>1, <1>7, <1>12, EarnedStep DEF Published
<1>22. InOrder' /\ \A k : ToLog(k) => ToLog(k)'
  <2>1. /\ queue[1].type = "item_gen" /\ logged' = Append(logged, queue[1].ref)
        /\ \A j \in DOMAIN events : events[j].type # "item_gen"
    BY <1>3, <1>7, <1>9 DEF e
  <2>2. QED BY <1>1, <1>3, <1>10, <1>14, <2>1, LogStep
<1>23. AllToLog'
  <2>1. ASSUME NEW k \in DOMAIN items'
        PROVE  /\ ToLog(k)' \/ (k = Current' /\ wait')
                  \/ (items'[k].is_response /\ items'[k].target = None)
               /\ items'[k].target # None => ToLog(k)'
    <3>1. /\ ToLog(k) \/ (k = Current /\ wait)
             \/ (items[k].is_response /\ items[k].target = None)
          /\ items[k].target # None => ToLog(k)
      BY <1>1, <1>7 DEF AllToLog
    <3>2. QED BY <1>7, <1>14, <1>22, <3>1
  <2>2. Current' > 0
    BY <1>3, <1>14
  <2>3. QED BY <2>1, <2>2 DEF AllToLog
<1>24. QED
  BY <1>14, <1>17, <1>18, <1>20, <1>21, <1>22, <1>23 DEF IInv, Logs, Shows

-----------------------------------------------------------------------------
(* The events of a packet *)

\* Events of messages whose functions are in F.
Dissected(F) ==
  {s \in Seq(Dissection) :
     /\ \A i \in DOMAIN s :
          s[i].type = "header_block" => i + 1 \in DOMAIN s /\ s[i + 1].type = "application_header"
     /\ \A i \in DOMAIN s :
          s[i].type = "application_header" => i - 1 \in DOMAIN s /\ s[i - 1].type = "header_block"
     /\ \A i \in DOMAIN s :
          s[i].type \in Details => \E j \in 1 .. i - 1 : s[j].type \in Messages
     /\ \A i \in DOMAIN s : s[i].type \in Directed => s[i].pdu.func \in F}

LEMMA DissectedJoin ==
  ASSUME NEW F
  PROVE  Joinable(Dissected(F))
<1>1. << >> \in Dissected(F)
  BY DEF Dissected
<1>2. ASSUME NEW a \in Dissected(F), NEW b \in Dissected(F)
      PROVE  a \o b \in Dissected(F)
  <2>1. a \in Seq(Dissection) /\ b \in Seq(Dissection)
    BY DEF Dissected
  <2>2. PICK m \in Nat, n \in Nat : m = Len(a) /\ n = Len(b)
    BY <2>1
  <2>3. DOMAIN a = 1 .. m /\ DOMAIN b = 1 .. n
    BY <2>1, <2>2
  <2>4. PICK c : c = a \o b
    OBVIOUS
  <2>5. /\ c \in Seq(Dissection) /\ DOMAIN c = 1 .. m + n
        /\ \A i \in 1 .. m + n : c[i] = IF i <= m THEN a[i] ELSE b[i - m]
    <3>1. PICK S : S = Dissection
      OBVIOUS
    <3>2. /\ a \o b \in Seq(S) /\ Len(a \o b) = Len(a) + Len(b)
          /\ \A i \in 1 .. Len(a) + Len(b) : (a \o b)[i] = IF i <= Len(a) THEN a[i] ELSE b[i - Len(a)]
      BY <2>1, <3>1, ConcatProperties
    <3>3. DOMAIN c = 1 .. Len(c)
      BY <2>4, <3>2
    <3>4. QED BY <2>2, <2>4, <3>1, <3>2, <3>3
  <2>6. /\ \A i \in 1 .. m : i \in DOMAIN c /\ c[i] = a[i]
        /\ \A i \in 1 .. n : m + i \in DOMAIN c /\ c[m + i] = b[i]
    <3>1. \A i \in 1 .. m : i \in 1 .. m + n /\ i <= m
      OBVIOUS
    <3>2. \A i \in 1 .. n : m + i \in 1 .. m + n /\ ~(m + i <= m) /\ m + i - m = i
      OBVIOUS
    <3>3. QED BY <2>5, <3>1, <3>2
  <2>7. \A i \in DOMAIN c : (i \in 1 .. m) \/ \E j \in 1 .. n : i = m + j
    <3>1. ASSUME NEW i \in 1 .. m + n, i \notin 1 .. m PROVE i - m \in 1 .. n /\ i = m + (i - m)
      BY <3>1
    <3>2. QED BY <2>5, <3>1
  <2>8. ASSUME NEW i \in DOMAIN c, c[i].type = "header_block"
        PROVE  i + 1 \in DOMAIN c /\ c[i + 1].type = "application_header"
    <3>1. CASE i \in 1 .. m
      <4>1. i + 1 \in DOMAIN a /\ a[i + 1].type = "application_header"
        BY <2>3, <2>6, <2>8, <3>1 DEF Dissected
      <4>2. QED BY <2>3, <2>6, <4>1
    <3>2. CASE \E j \in 1 .. n : i = m + j
      <4>1. PICK j \in 1 .. n : i = m + j
        BY <3>2
      <4>2. j + 1 \in 1 .. n /\ b[j + 1].type = "application_header"
        BY <2>3, <2>6, <2>8, <4>1 DEF Dissected
      <4>3. PICK k \in 1 .. n : k = j + 1
        BY <4>2
      <4>4. m + k = i + 1
        BY <4>1, <4>3
      <4>5. m + k \in DOMAIN c /\ c[m + k].type = "application_header"
        BY <2>6, <4>2, <4>3
      <4>6. QED BY <4>4, <4>5
    <3>3. QED BY <2>7, <3>1, <3>2
  <2>9. ASSUME NEW i \in DOMAIN c, c[i].type = "application_header"
        PROVE  i - 1 \in DOMAIN c /\ c[i - 1].type = "header_block"
    <3>1. CASE i \in 1 .. m
      <4>1. i - 1 \in DOMAIN a /\ a[i - 1].type = "header_block"
        BY <2>3, <2>6, <2>9, <3>1 DEF Dissected
      <4>2. QED BY <2>3, <2>6, <4>1
    <3>2. CASE \E j \in 1 .. n : i = m + j
      <4>1. PICK j \in 1 .. n : i = m + j
        BY <3>2
      <4>2. j - 1 \in 1 .. n /\ b[j - 1].type = "header_block"
        BY <2>3, <2>6, <2>9, <4>1 DEF Dissected
      <4>3. PICK k \in 1 .. n : k = j - 1
        BY <4>2
      <4>4. m + k = i - 1
        BY <4>1, <4>3
      <4>5. m + k \in DOMAIN c /\ c[m + k].type = "header_block"
        BY <2>6, <4>2, <4>3
      <4>6. QED BY <4>4, <4>5
    <3>3. QED BY <2>7, <3>1, <3>2
  <2>10. ASSUME NEW i \in DOMAIN c, c[i].type \in Details
         PROVE  \E j \in 1 .. i - 1 : c[j].type \in Messages
    <3>1. CASE i \in 1 .. m
      <4>1. PICK j \in 1 .. i - 1 : a[j].type \in Messages
        BY <2>3, <2>6, <2>10, <3>1 DEF Dissected
      <4>2. j \in 1 .. m
        BY <3>1, <4>1
      <4>3. QED BY <2>6, <4>1, <4>2
    <3>2. CASE \E j \in 1 .. n : i = m + j
      <4>1. PICK k \in 1 .. n : i = m + k
        BY <3>2
      <4>2. PICK j \in 1 .. k - 1 : b[j].type \in Messages
        BY <2>3, <2>6, <2>10, <4>1 DEF Dissected
      <4>3. j \in 1 .. n /\ m + j \in 1 .. i - 1
        BY <4>1, <4>2
      <4>4. QED BY <2>6, <4>2, <4>3
    <3>3. QED BY <2>7, <3>1, <3>2
  <2>11. ASSUME NEW i \in DOMAIN c, c[i].type \in Directed
         PROVE  c[i].pdu.func \in F
    <3>1. CASE i \in 1 .. m
      BY <2>3, <2>6, <2>11, <3>1 DEF Dissected
    <3>2. CASE \E j \in 1 .. n : i = m + j
      <4>1. PICK j \in 1 .. n : i = m + j
        BY <3>2
      <4>2. c[i] = b[j]
        BY <2>6, <4>1
      <4>3. QED BY <2>3, <2>11, <4>2 DEF Dissected
    <3>3. QED BY <2>7, <3>1, <3>2
  <2>12. QED BY <2>4, <2>5, <2>8, <2>9, <2>10, <2>11 DEF Dissected
<1>3. QED BY <1>1, <1>2 DEF Joinable

LEMMA SeqJoin ==
  ASSUME NEW S
  PROVE  Joinable(Seq(S))
BY DEF Joinable

LEMMA ModbusDissected ==
  ASSUME NEW F, NEW pdu \in Modbus, pdu.func \in F
  PROVE  ModbusEvents(pdu) \in Dissected(F)
<1> DEFINE a == MessageEvent("modbus_message", pdu)
           b == MessageEvent("detail", pdu)
<1>1. /\ a \in Dissection /\ a.type = "modbus_message" /\ a.pdu = pdu
      /\ b \in Dissection /\ b.type = "detail" /\ b.pdu = pdu
  BY DEF MessageEvent, Dissection, MessageEvents
<1> HIDE DEF a, b
<1>2. CASE pdu.detailed
  <2>1. ModbusEvents(pdu) = << a, b >>
    BY <1>2, Joined DEF ModbusEvents, a, b
  <2>2. PICK s : s = << a, b >>
    OBVIOUS
  <2>3. /\ s \in Seq(Dissection) /\ DOMAIN s = 1 .. 2 /\ s[1] = a /\ s[2] = b
    BY <1>1, <2>2
  <2>4. \A i \in 1 .. 2 : i = 1 \/ i = 2
    OBVIOUS
  <2>5. 1 \in 1 .. 2 - 1
    OBVIOUS
  <2>6. a.type \notin Details /\ a.type \in Messages /\ b.type \in Details
    BY <1>1 DEF Details, Messages
  <2>7. \A i \in DOMAIN s : s[i].type \notin {"header_block", "application_header"}
    BY <1>1, <2>3, <2>4
  <2>8. \A i \in DOMAIN s : s[i].type \in Details => \E j \in 1 .. i - 1 : s[j].type \in Messages
    BY <2>3, <2>4, <2>5, <2>6
  <2>9. \A i \in DOMAIN s : s[i].pdu.func \in F
    BY <1>1, <2>3, <2>4
  <2>10. QED BY <2>1, <2>2, <2>3, <2>7, <2>8, <2>9 DEF Dissected
<1>3. CASE ~pdu.detailed
  <2>1. ModbusEvents(pdu) = << a >>
    BY <1>3 DEF ModbusEvents, a
  <2>2. PICK s : s = << a >>
    OBVIOUS
  <2>3. s \in Seq(Dissection) /\ DOMAIN s = {1} /\ s[1] = a
    BY <1>1, <2>2
  <2>4. a.type \notin Details
    BY <1>1 DEF Details
  <2>5. QED BY <1>1, <2>1, <2>2, <2>3, <2>4 DEF Dissected
<1>4. QED BY <1>2, <1>3

LEMMA ObjectsDissected ==
  ASSUME NEW o \in ObjectHeader
  PROVE  ObjectEvents(o) \in Seq(ObjectEventsOf)
<1> DEFINE h == [type |-> "object_header", object |-> o]
           prefixes == [i \in DOMAIN o.targets |-> [type |-> "object_prefix", target |-> o.targets[i]]]
<1>1. h \in ObjectEventsOf
  BY DEF ObjectEventsOf
<1>2. o.targets \in Seq(Targets)
  BY DEF ObjectHeader
<1>3. prefixes \in Seq(ObjectEventsOf)
  <2>1. PICK n \in Nat : DOMAIN o.targets = 1 .. n
    BY <1>2
  <2>2. \A i \in 1 .. n : [type |-> "object_prefix", target |-> o.targets[i]] \in ObjectEventsOf
    BY <1>2, <2>1 DEF ObjectEventsOf
  <2>3. prefixes \in [1 .. n -> ObjectEventsOf]
    BY <2>1, <2>2
  <2>4. QED BY <2>3
<1>4. << h >> \in Seq(ObjectEventsOf)
  BY <1>1
<1> HIDE DEF h, prefixes
<1>5. ObjectEvents(o) = << h >> \o (IF o.qualifier = "range" THEN << >> ELSE prefixes)
  BY DEF ObjectEvents, h, prefixes
<1>6. QED BY <1>3, <1>4, <1>5

LEMMA Dnp3Dissected ==
  ASSUME NEW F, NEW pdu \in Dnp3, pdu.func \in F
  PROVE  Dnp3Events(pdu) \in Dissected(F)
<1> DEFINE a == MessageEvent("header_block", pdu)
           b == MessageEvent("application_header", pdu)
           groups == [i \in DOMAIN pdu.objects |-> ObjectEvents(pdu.objects[i])]
<1>1. /\ a \in Dissection /\ a.type = "header_block" /\ a.pdu = pdu
      /\ b \in Dissection /\ b.type = "application_header" /\ b.pdu = pdu
  BY DEF MessageEvent, Dissection, MessageEvents
<1>2. pdu.objects \in Seq(ObjectHeader)
  BY DEF Dnp3
<1>3. groups \in Seq(Seq(ObjectEventsOf))
  <2>1. PICK n \in Nat : DOMAIN pdu.objects = 1 .. n
    BY <1>2
  <2>2. \A i \in 1 .. n : ObjectEvents(pdu.objects[i]) \in Seq(ObjectEventsOf)
    BY <1>2, <2>1, ObjectsDissected
  <2>3. groups \in [1 .. n -> Seq(ObjectEventsOf)]
    BY <2>1, <2>2
  <2>4. QED BY <2>3
<1>4. PICK rest : rest = FlattenSeq(groups)
  OBVIOUS
<1> HIDE DEF groups
<1>5. rest \in Seq(ObjectEventsOf)
  <2>1. PICK G : G = Seq(ObjectEventsOf)
    OBVIOUS
  <2>2. Joinable(G) /\ groups \in Seq(G)
    BY <1>3, <2>1, SeqJoin
  <2>3. QED BY <1>4, <2>1, <2>2, Flattened
<1>6. \A i \in DOMAIN rest : rest[i] \in Dissection /\ rest[i].type \in {"object_header", "object_prefix"}
  BY <1>5 DEF ObjectEventsOf, Dissection
<1> HIDE DEF a, b
<1>7. Dnp3Events(pdu) = << a, b >> \o rest
  BY <1>4 DEF Dnp3Events, a, b, groups
<1>8. PICK m \in Nat : m = Len(rest) /\ DOMAIN rest = 1 .. m
  BY <1>5
<1>9. rest \in Seq(Dissection)
  <2>1. rest = [i \in 1 .. m |-> rest[i]]
    BY <1>5, <1>8
  <2>2. rest \in [1 .. m -> Dissection]
    BY <1>6, <1>8, <2>1
  <2>3. QED BY <2>2
<1>10. PICK s : s = << a, b >> \o rest
  OBVIOUS
<1>11. /\ s \in Seq(Dissection) /\ DOMAIN s = 1 .. 2 + m /\ s[1] = a /\ s[2] = b
       /\ \A i \in 1 .. 2 + m : i # 1 /\ i # 2 => s[i] = rest[i - 2] /\ i - 2 \in 1 .. m
  <2>1. PICK S, two : S = Dissection /\ two = << a, b >>
    OBVIOUS
  <2>2. two \in Seq(S) /\ Len(two) = 2 /\ two[1] = a /\ two[2] = b /\ rest \in Seq(S)
    BY <1>1, <1>9, <2>1
  <2>3. /\ two \o rest \in Seq(S) /\ Len(two \o rest) = Len(two) + Len(rest)
        /\ \A i \in 1 .. Len(two) + Len(rest) :
             (two \o rest)[i] = IF i <= Len(two) THEN two[i] ELSE rest[i - Len(two)]
    BY <2>2, ConcatProperties
  <2>4. s = two \o rest
    BY <1>10, <2>1
  <2>5. /\ s \in Seq(S) /\ DOMAIN s = 1 .. 2 + m
        /\ \A i \in 1 .. 2 + m : s[i] = IF i <= 2 THEN two[i] ELSE rest[i - 2]
    BY <1>8, <2>2, <2>3, <2>4
  <2>6. 1 \in 1 .. 2 + m /\ 2 \in 1 .. 2 + m /\ 1 <= 2 /\ 2 <= 2
    OBVIOUS
  <2>7. \A i \in 1 .. 2 + m : i # 1 /\ i # 2 => ~(i <= 2) /\ i - 2 \in 1 .. m
    OBVIOUS
  <2>8. QED BY <2>1, <2>2, <2>5, <2>6, <2>7
<1>12. \A i \in DOMAIN s : i # 1 /\ i # 2 => s[i].type \in {"object_header", "object_prefix"}
  BY <1>6, <1>8, <1>11
<1>13. 1 \in DOMAIN s /\ 2 \in DOMAIN s /\ 1 + 1 = 2 /\ 2 - 1 = 1
  BY <1>11
<1>14. ASSUME NEW i \in DOMAIN s
       PROVE  /\ s[i].type = "header_block" => i + 1 \in DOMAIN s /\ s[i + 1].type = "application_header"
              /\ s[i].type = "application_header" => i - 1 \in DOMAIN s /\ s[i - 1].type = "header_block"
              /\ s[i].type \in Directed => s[i].pdu.func \in F
  <2>1. CASE i = 1
    <3>1. s[i].type = "header_block" /\ s[i + 1].type = "application_header" /\ i + 1 \in DOMAIN s
      BY <1>1, <1>11, <1>13, <2>1
    <3>2. QED BY <3>1 DEF Directed
  <2>2. CASE i = 2
    <3>1. /\ s[i].type = "application_header" /\ s[i].pdu = pdu
          /\ s[i - 1].type = "header_block" /\ i - 1 \in DOMAIN s
      BY <1>1, <1>11, <1>13, <2>2
    <3>2. QED BY <3>1
  <2>3. CASE i # 1 /\ i # 2
    BY <1>12, <2>3 DEF Directed
  <2>4. QED BY <2>1, <2>2, <2>3
<1>15. ASSUME NEW i \in DOMAIN s, s[i].type \in Details
       PROVE  \E j \in 1 .. i - 1 : s[j].type \in Messages
  <2>1. i # 1 /\ i # 2
    BY <1>1, <1>11, <1>15 DEF Details
  <2>2. 2 \in 1 .. i - 1
    BY <1>11, <2>1
  <2>3. s[2].type \in Messages
    BY <1>1, <1>11 DEF Messages
  <2>4. QED BY <2>2, <2>3
<1>16. s \in Dissected(F)
  BY <1>11, <1>14, <1>15 DEF Dissected
<1>17. QED BY <1>7, <1>10, <1>16

LEMMA PacketDissected ==
  ASSUME NEW p \in Packets
  PROVE  FlattenSeq([i \in DOMAIN p.pdus |->
           IF p.pdus[i].protocol = "Modbus" THEN ModbusEvents(p.pdus[i])
                                           ELSE Dnp3Events(p.pdus[i])]) \in Dissected(PacketFuncs(p))
<1> DEFINE groups == [i \in DOMAIN p.pdus |->
                        IF p.pdus[i].protocol = "Modbus" THEN ModbusEvents(p.pdus[i])
                                                        ELSE Dnp3Events(p.pdus[i])]
<1>1. p.pdus \in Seq(Modbus \cup Dnp3)
  BY StatsAssumption
<1>2. PICK n \in Nat : DOMAIN p.pdus = 1 .. n
  BY <1>1
<1>3. PICK G : G = Dissected(PacketFuncs(p))
  OBVIOUS
<1>4. ASSUME NEW i \in 1 .. n
      PROVE  (IF p.pdus[i].protocol = "Modbus" THEN ModbusEvents(p.pdus[i])
                                               ELSE Dnp3Events(p.pdus[i])) \in G
  <2>1. PICK pdu \in Modbus \cup Dnp3 : pdu = p.pdus[i]
    BY <1>1, <1>2
  <2>2. pdu.func \in PacketFuncs(p)
    BY <1>2, <2>1 DEF PacketFuncs
  <2>3. CASE pdu \in Modbus
    <3>1. pdu.protocol = "Modbus"
      BY <2>3 DEF Modbus
    <3>2. QED BY <1>3, <2>1, <2>2, <2>3, <3>1, ModbusDissected
  <2>4. CASE pdu \in Dnp3
    <3>1. pdu.protocol # "Modbus"
      BY <2>4 DEF Dnp3
    <3>2. QED BY <1>3, <2>1, <2>2, <2>4, <3>1, Dnp3Dissected
  <2>5. QED BY <2>3, <2>4
<1>5. groups \in Seq(G)
  <2>1. groups \in [1 .. n -> G]
    BY <1>2, <1>4
  <2>2. QED BY <2>1
<1>6. Joinable(G)
  BY <1>3, DissectedJoin
<1> HIDE DEF groups
<1>7. FlattenSeq(groups) \in G
  BY <1>5, <1>6, Flattened
<1>8. QED BY <1>3, <1>7 DEF groups

LEMMA PacketStep ==
  ASSUME IInv, NEW p \in Packets, Packet(p), UNCHANGED idVars
  PROVE  IInv'
<1>1. /\ TypeInv /\ QueueOK /\ OneWay /\ Closed /\ Shows /\ IdentitiesEarned /\ Logs
      /\ AllToLog /\ InOrder /\ ItemsShow /\ RequestsShow /\ MatchesShow
  BY DEF IInv, Logs, Shows
<1>2. PICK s : s = FlattenSeq([i \in DOMAIN p.pdus |->
           IF p.pdus[i].protocol = "Modbus" THEN ModbusEvents(p.pdus[i])
                                           ELSE Dnp3Events(p.pdus[i])])
  OBVIOUS
<1>3. PICK new : new = [type |-> "new_packet", packet |-> p]
  OBVIOUS
<1>4. queue = << >> /\ queue' = << new >> \o s
  BY <1>2, <1>3 DEF Packet
<1>5. /\ UNCHANGED << items, wait, prefixed, tgt_table, req_table, counts, responses, logged, periods >>
      /\ UNCHANGED << id_req_table, identity_map >>
  BY DEF Packet, idVars
<1>6. s \in Dissected(PacketFuncs(p)) /\ s \in Seq(Dissection)
  <2>1. s \in Dissected(PacketFuncs(p))
    BY <1>2, PacketDissected
  <2>2. QED BY <2>1 DEF Dissected
<1>7. new \in Events /\ new.type = "new_packet" /\ new.packet = p
  BY <1>3 DEF Events, PacketEvents
<1>8. PICK n \in Nat : n = Len(s) /\ DOMAIN s = 1 .. n
  BY <1>6
<1>9. s \in Seq(Events)
  <2>1. \A i \in 1 .. n : s[i] \in Events
    BY <1>6, <1>8 DEF Events
  <2>2. s = [i \in 1 .. n |-> s[i]]
    BY <1>6, <1>8
  <2>3. s \in [1 .. n -> Events]
    BY <2>1, <2>2
  <2>4. QED BY <2>3
<1>10. /\ queue' \in Seq(Events) /\ DOMAIN queue' = 1 .. 1 + n /\ queue'[1] = new
       /\ \A i \in 2 .. 1 + n : queue'[i] = s[i - 1] /\ i - 1 \in 1 .. n
       /\ \A i \in 1 .. n : i + 1 \in 2 .. 1 + n /\ queue'[i + 1] = s[i]
  <2>1. PICK S, one : S = Events /\ one = << new >>
    OBVIOUS
  <2>2. one \in Seq(S) /\ Len(one) = 1 /\ one[1] = new /\ s \in Seq(S)
    BY <1>7, <1>9, <2>1
  <2>3. /\ one \o s \in Seq(S) /\ Len(one \o s) = Len(one) + Len(s)
        /\ \A i \in 1 .. Len(one) + Len(s) :
             (one \o s)[i] = IF i <= Len(one) THEN one[i] ELSE s[i - Len(one)]
    BY <2>2, ConcatProperties
  <2>4. queue' = one \o s
    BY <1>4, <2>1
  <2>5. /\ queue' \in Seq(S) /\ DOMAIN queue' = 1 .. 1 + n
        /\ \A i \in 1 .. 1 + n : queue'[i] = IF i <= 1 THEN one[i] ELSE s[i - 1]
    BY <1>8, <2>2, <2>3, <2>4
  <2>6. queue'[1] = new
    BY <2>2, <2>5
  <2>7. ASSUME NEW i \in 2 .. 1 + n PROVE queue'[i] = s[i - 1] /\ i - 1 \in 1 .. n
    BY <2>5
  <2>8. ASSUME NEW i \in 1 .. n PROVE i + 1 \in 2 .. 1 + n /\ queue'[i + 1] = s[i]
    <3>1. PICK k \in 2 .. 1 + n : k = i + 1
      OBVIOUS
    <3>2. queue'[k] = s[k - 1] /\ k - 1 = i
      BY <2>7, <3>1
    <3>3. QED BY <3>1, <3>2
  <2>9. QED BY <2>1, <2>5, <2>6, <2>7, <2>8
<1>11. \A i \in DOMAIN queue' : i = 1 \/ i \in 2 .. 1 + n
  BY <1>10
<1>12. queue' # << >> /\ 1 \in DOMAIN queue' /\ ~InPacket'
  BY <1>7, <1>10 DEF InPacket
<1>13. TypeInv'
  BY <1>1, <1>5, <1>10 DEF TypeInv
<1>14. \A i \in 1 .. n : s[i].type \in Dissections
  <2>1. \A i \in 1 .. n : s[i] \in Dissection
    BY <1>6, <1>8
  <2>2. QED BY <2>1 DEF Dissection, MessageEvents, ObjectEventsOf, Dissections
<1>15. \A i \in DOMAIN queue' : i # 1 => queue'[i].type \in Dissections
  BY <1>10, <1>11, <1>14
<1>16. QueueOK'
  <2>1. PacketFirst'
    BY <1>15 DEF PacketFirst, Dissections
  <2>2. AddressesFirst'
    <3>1. ASSUME NEW i \in DOMAIN queue', queue'[i].type = "header_block"
          PROVE  i + 1 \in DOMAIN queue' /\ queue'[i + 1].type = "application_header"
      <4>1. i \in 2 .. 1 + n
        BY <1>7, <1>10, <1>11, <3>1
      <4>2. PICK k \in 1 .. n : k = i - 1 /\ queue'[i] = s[k]
        BY <1>10, <4>1
      <4>3. k + 1 \in 1 .. n /\ s[k + 1].type = "application_header"
        BY <1>6, <1>8, <3>1, <4>2 DEF Dissected
      <4>4. k + 1 = i
        BY <4>1, <4>2
      <4>5. i \in 1 .. n /\ s[i].type = "application_header"
        BY <4>3, <4>4
      <4>6. i + 1 \in DOMAIN queue'
        BY <1>10, <4>5
      <4>7. QED BY <1>10, <4>5, <4>6
    <3>2. ASSUME NEW i \in DOMAIN queue', queue'[i].type = "application_header"
          PROVE  i # 1 /\ queue'[i - 1].type = "header_block"
      <4>1. i \in 2 .. 1 + n
        BY <1>7, <1>10, <1>11, <3>2
      <4>2. PICK k \in 1 .. n : k = i - 1 /\ queue'[i] = s[k]
        BY <1>10, <4>1
      <4>3. k - 1 \in 1 .. n /\ s[k - 1].type = "header_block"
        BY <1>6, <1>8, <3>2, <4>2 DEF Dissected
      <4>4. PICK j \in 1 .. n : j = k - 1
        BY <4>3
      <4>5. queue'[j + 1] = s[j] /\ j + 1 = i - 1
        BY <1>10, <4>1, <4>2, <4>4
      <4>6. QED BY <4>1, <4>3, <4>4, <4>5
    <3>3. QED BY <3>1, <3>2 DEF AddressesFirst
  <2>3. MessageFirst'
    <3>1. ASSUME NEW i \in DOMAIN queue', queue'[i].type \in Details
          PROVE  \E j \in 1 .. i - 1 : queue'[j].type \in Messages
      <4>1. i \in 2 .. 1 + n
        BY <1>7, <1>10, <1>11, <3>1 DEF Details
      <4>2. PICK k \in 1 .. n : k = i - 1 /\ queue'[i] = s[k]
        BY <1>10, <4>1
      <4>3. PICK j \in 1 .. k - 1 : s[j].type \in Messages
        BY <1>6, <1>8, <3>1, <4>2 DEF Dissected
      <4>4. j \in 1 .. n /\ j + 1 \in 1 .. i - 1
        BY <4>1, <4>2
      <4>5. queue'[j + 1].type \in Messages
        BY <1>10, <4>3, <4>4
      <4>6. QED BY <4>4, <4>5
    <3>2. QED BY <3>1 DEF MessageFirst
  <2>4. Refers'
    <3>1. \A i \in DOMAIN queue' : queue'[i].type \notin {"item_gen", "item_seen"}
      BY <1>7, <1>10, <1>15 DEF Dissections
    <3>2. QED BY <1>12, <3>1 DEF Refers
  <2>5. QED BY <2>1, <2>2, <2>3, <2>4 DEF QueueOK
<1>17. OneWay'
  <2>1. PICK asks \in BOOLEAN : /\ Way(p.link, p.src, p.dst, asks)
                                /\ \A f \in PacketFuncs(p) : f \in Asks <=> asks
    <3>1. \/ Way(p.link, p.src, p.dst, TRUE) /\ PacketFuncs(p) \subseteq Asks
          \/ Way(p.link, p.src, p.dst, FALSE) /\ PacketFuncs(p) \cap Asks = {}
      BY OriginExists DEF IsOrigin, Way
    <3>2. QED BY <3>1
  <2>2. ASSUME NEW i \in DOMAIN queue', queue'[i].type \in Directed
        PROVE  queue'[i].pdu.func \in Asks <=> asks
    <3>1. i \in 2 .. 1 + n
      BY <1>7, <1>10, <1>11, <2>2 DEF Directed
    <3>2. queue'[i] = s[i - 1] /\ i - 1 \in DOMAIN s
      BY <1>8, <1>10, <3>1
    <3>3. queue'[i].pdu.func \in PacketFuncs(p)
      BY <1>6, <2>2, <3>2 DEF Dissected
    <3>4. QED BY <2>1, <3>3
  <2>3. Way(queue'[1].packet.link, queue'[1].packet.src, queue'[1].packet.dst, asks)
    BY <1>7, <1>10, <2>1
  <2>4. \A k \in DOMAIN items' :
          items'[k].protocol # None =>
            Way(items'[k].link, items'[k].sender, items'[k].receiver, ~items'[k].is_response)
    BY <1>1, <1>5 DEF OneWay
  <2>5. QED BY <1>12, <2>2, <2>3, <2>4 DEF OneWay
<1>18. \A q, m : CountedBefore(q, m) /\ m = 1 => q \in DOMAIN counts
  <2>1. 1 .. 1 - 1 = {}
    OBVIOUS
  <2>2. QED BY <2>1 DEF CountedBefore
<1>19. Len(queue) + 1 = 1
  BY <1>4
<1>20. \A q : Coming(q) => q \in DOMAIN counts /\ Coming(q)'
  BY <1>5, <1>18, <1>19 DEF Coming, CountedBefore
<1>21. \A i \in DOMAIN queue' : Carried(queue'[i]) = {}
  BY <1>7, <1>10, <1>15 DEF Carried, Dissections
<1>22. Closed'
  <2>1. \A q \in DOMAIN counts' : q = << >> \/ Coming(Front(q))'
    <3>1. ASSUME NEW q \in DOMAIN counts', q # << >> PROVE Coming(Front(q))'
      <4>1. PICK f : f = Front(q)
        OBVIOUS
      <4>2. Coming(f)'
        BY <1>1, <1>5, <1>20, <3>1, <4>1 DEF Closed
      <4>3. QED BY <4>1, <4>2
    <3>2. QED BY <3>1
  <2>2. QED BY <1>12, <1>21, <2>1 DEF Closed
<1>23. \A h, g, protocol, f : Shown(h, g, protocol, f) => Shown(h, g, protocol, f)'
  BY <1>5, <1>20 DEF Shown, ShownBefore, Coming, Published
<1>24. Shows'
  <2>1. ItemsShow'
    BY <1>1, <1>5, <1>23 DEF ItemsShow
  <2>2. RequestsShow'
    BY <1>1, <1>5, <1>23 DEF RequestsShow
  <2>3. MatchesShow'
    BY <1>7, <1>10, <1>15 DEF MatchesShow, Dissections
  <2>4. QED BY <2>1, <2>2, <2>3 DEF Shows
<1>25. IdentitiesEarned'
  BY <1>1, <1>5, EarnedStep DEF Published
<1>26. Logs'
  <2>1. \A i \in DOMAIN queue' : queue'[i].type # "item_gen"
    BY <1>7, <1>10, <1>15 DEF Dissections
  <2>2. \A k : ToLog(k) => ToLog(k)'
    <3>1. DOMAIN queue = {}
      BY <1>4
    <3>2. QED BY <1>5, <3>1 DEF ToLog
  <2>3. Current' = Current
    BY <1>5 DEF Current
  <2>4. InOrder'
    BY <1>1, <1>5, <2>1, <2>3 DEF InOrder
  <2>5. AllToLog'
    BY <1>1, <1>5, <2>2, <2>3 DEF AllToLog
  <2>6. QED BY <2>4, <2>5 DEF Logs
<1>27. QED BY <1>13, <1>16, <1>17, <1>22, <1>24, <1>25, <1>26 DEF IInv

-----------------------------------------------------------------------------
(* The counter *)

LEMMA CountsAre ==
  ASSUME NEW f
  PROVE  /\ f \in Counts <=> f \in [DOMAIN f -> Nat \ {0}] /\ DOMAIN f \subseteq Seq(Names)
         /\ f \in Tallies <=> f \in [DOMAIN f -> Nat] /\ DOMAIN f \subseteq Seq(Names)
<1>1. f \in Counts => f \in [DOMAIN f -> Nat \ {0}] /\ DOMAIN f \subseteq Seq(Names)
  BY DEF Counts
<1>2. f \in Tallies => f \in [DOMAIN f -> Nat] /\ DOMAIN f \subseteq Seq(Names)
  BY DEF Tallies
<1>3. ASSUME f \in [DOMAIN f -> Nat \ {0}], DOMAIN f \subseteq Seq(Names) PROVE f \in Counts
  <2>1. DOMAIN f \in SUBSET Seq(Names)
    BY <1>3
  <2>2. QED BY <1>3, <2>1 DEF Counts
<1>4. ASSUME f \in [DOMAIN f -> Nat], DOMAIN f \subseteq Seq(Names) PROVE f \in Tallies
  <2>1. DOMAIN f \in SUBSET Seq(Names)
    BY <1>4
  <2>2. QED BY <1>4, <2>1 DEF Tallies
<1>5. QED BY <1>1, <1>2, <1>3, <1>4

LEMMA PlusCounts ==
  ASSUME NEW f \in Counts, NEW ps \in SUBSET Seq(Names)
  PROVE  /\ Plus(f, ps) \in Counts /\ DOMAIN Plus(f, ps) = DOMAIN f \cup ps
         /\ \A p \in DOMAIN Plus(f, ps) :
              Plus(f, ps)[p] = (IF p \in DOMAIN f THEN f[p] ELSE 0) + (IF p \in ps THEN 1 ELSE 0)
<1>1. f \in [DOMAIN f -> Nat \ {0}] /\ DOMAIN f \subseteq Seq(Names)
  BY CountsAre
<1>2. /\ DOMAIN Plus(f, ps) = DOMAIN f \cup ps
      /\ \A p \in DOMAIN Plus(f, ps) :
           Plus(f, ps)[p] = (IF p \in DOMAIN f THEN f[p] ELSE 0) + (IF p \in ps THEN 1 ELSE 0)
  BY DEF Plus
<1>3. Plus(f, ps) \in [DOMAIN f \cup ps -> Nat \ {0}]
  <2>1. \A p \in DOMAIN f \cup ps :
          (IF p \in DOMAIN f THEN f[p] ELSE 0) + (IF p \in ps THEN 1 ELSE 0) \in Nat \ {0}
    BY <1>1
  <2>2. QED BY <2>1 DEF Plus
<1>4. PICK g : g = Plus(f, ps)
  OBVIOUS
<1>5. g \in [DOMAIN g -> Nat \ {0}] /\ DOMAIN g \subseteq Seq(Names)
  BY <1>1, <1>2, <1>3, <1>4
<1>6. g \in Counts
  BY <1>5, CountsAre
<1>7. QED BY <1>2, <1>4, <1>6

LEMMA ItemPathsTyped ==
  ASSUME NEW i \in Item
  PROVE  ItemPaths(i) \subseteq Seq(Names) /\ MessagePaths(i) \subseteq Seq(Names)
<1>1. /\ i.sender \in Names /\ i.receiver \in Names /\ i.protocol \in Names
      /\ i.unit \in Names /\ i.func \in Names /\ i.target \in Names
  BY DEF Item, Names
<1>2. FunctionPath(i) \in Seq(Names) /\ Len(FunctionPath(i)) = 5
  BY <1>1 DEF FunctionPath
<1>3. MessagePaths(i) \subseteq Seq(Names)
  <2>1. ASSUME NEW n \in 3 .. 5 PROVE SubSeq(FunctionPath(i), 1, n) \in Seq(Names)
    <3>1. 1 \in 1 .. Len(FunctionPath(i)) + 1 /\ n \in 0 .. Len(FunctionPath(i))
      BY <1>2
    <3>2. PICK s \in Seq(Names) : s = FunctionPath(i)
      BY <1>2
    <3>3. \A j \in 1 .. Len(s) : s[j] \in Names
      BY <3>2, ElementOfSeq
    <3>4. Len(s) = 5 /\ n <= 5
      BY <1>2, <3>2
    <3>5. \A j \in 1 .. n : s[j] \in Names
      BY <3>3, <3>4
    <3>6. s \in Seq(Names) /\ 1 \in 1 .. Len(s) + 1 /\ n \in 0 .. Len(s)
      BY <3>1, <3>2
    <3>7. SubSeq(s, 1, n) \in Seq(Names)
      BY <3>6, SubSeqProperties
    <3>8. QED BY <3>2, <3>7
  <2>2. QED BY <2>1 DEF MessagePaths
<1>4. PacketPaths(i) \subseteq Seq(Names)
  BY <1>1 DEF PacketPaths
<1>5. TargetPath(i) \in Seq(Names)
  BY <1>1, <1>2 DEF TargetPath
<1>6. QED BY <1>3, <1>4, <1>5 DEF ItemPaths

\* What the counter does with the item of the first event.
LEMMA Counted ==
  ASSUME IInv, CountItem
  PROVE  \E i \in Item :
           /\ i = IF queue[1].ref = 0 THEN queue[1].item ELSE items[Current]
           /\ Observe(i) /\ counts' = Plus(counts, ItemPaths(i)) /\ UNCHANGED periods
<1>1. queue # << >> /\ Head(queue).type = "item_seen"
  BY DEF CountItem, Event
<1>2. /\ Head(queue) = queue[1] /\ 1 \in DOMAIN queue /\ queue[1].type = "item_seen"
      /\ items[Current] \in Item
  BY <1>1, HeadEvent
<1>3. IF queue[1].ref = 0 THEN queue[1].item \in Item ELSE queue[1].ref = Current
  BY <1>2 DEF IInv, QueueOK, Refers
<1>4. PICK i : i = IF queue[1].ref = 0 THEN queue[1].item ELSE items[Current]
  OBVIOUS
<1>5. i \in Item /\ Observe(i)
  BY <1>2, <1>3, <1>4 DEF CountItem
<1>6. counts' = Plus(counts, ItemPaths(i))
  BY <1>5 DEF Observe, ObserveMessage, ItemPaths
<1>7. UNCHANGED periods
  BY DEF CountItem
<1>8. QED BY <1>4, <1>5, <1>6, <1>7

LEMMA AnsweredTyped ==
  ASSUME CountsTyped, NEW i \in Item, Answers(i)
  PROVE  AnsweredPath(i) \in Seq(Names) /\ i.link \in DOMAIN req_table
<1>1. i.link \in DOMAIN req_table /\ req_table[i.link] \in Requests
  BY DEF Answers, CountsTyped
<1>2. Swapped(i.unit, i.protocol) = req_table[i.link].unit
  BY DEF Answers
<1>3. /\ i.receiver \in Names /\ i.sender \in Names /\ i.protocol \in Names
      /\ req_table[i.link].unit \in Names /\ req_table[i.link].func \in Names
  BY <1>1 DEF Item, Requests, Names
<1>4. QED BY <1>1, <1>2, <1>3 DEF AnsweredPath

LEMMA CountItemTyped ==
  ASSUME IInv, CountsTyped, CountItem
  PROVE  CountsTyped'
<1>1. PICK i \in Item : Observe(i) /\ counts' = Plus(counts, ItemPaths(i)) /\ UNCHANGED periods
  BY Counted
<1>2. counts' \in Counts
  BY <1>1, ItemPathsTyped, PlusCounts DEF CountsTyped
<1>3. Answers(i) => AnsweredPath(i) \in Seq(Names) /\ i.link \in DOMAIN req_table
  BY AnsweredTyped
<1>4. responses' \in Counts
  <2>1. CASE UNCHANGED responses
    BY <2>1 DEF CountsTyped
  <2>2. CASE Answers(i) /\ responses' = Plus(responses, {AnsweredPath(i)})
    <3>1. PICK p \in Seq(Names) : p = AnsweredPath(i)
      BY <1>3, <2>2
    <3>2. {p} \in SUBSET Seq(Names) /\ responses \in Counts /\ responses' = Plus(responses, {p})
      BY <2>2, <3>1 DEF CountsTyped
    <3>3. QED BY <3>2, PlusCounts
  <2>3. UNCHANGED responses \/ (Answers(i) /\ responses' = Plus(responses, {AnsweredPath(i)}))
    BY <1>1 DEF Observe, ObserveMessage
  <2>4. QED BY <2>1, <2>2, <2>3
<1>5. req_table' \in [DOMAIN req_table' -> Requests]
  <2>1. CASE UNCHANGED req_table
    BY <2>1 DEF CountsTyped
  <2>2. CASE i.protocol # None /\ req_table' = Remembered(i)
    <3>1. [requestor |-> i.sender, responder |-> i.receiver, protocol |-> i.protocol,
           unit |-> i.unit, func |-> i.func, is_responded |-> FALSE] \in Requests
      BY <2>2 DEF Item, Requests
    <3>2. req_table \in [DOMAIN req_table -> Requests]
      BY DEF CountsTyped
    <3>3. QED BY <2>2, <3>1, <3>2 DEF Remembered
  <2>3. CASE Answers(i) /\ req_table' = [req_table EXCEPT ![i.link].is_responded = TRUE]
    <3>1. i.link \in DOMAIN req_table /\ req_table \in [DOMAIN req_table -> Requests]
      BY <1>3, <2>3 DEF CountsTyped
    <3>2. [req_table[i.link] EXCEPT !.is_responded = TRUE] \in Requests
      BY <3>1 DEF Requests
    <3>3. QED BY <2>3, <3>1, <3>2
  <2>4. QED BY <1>1, <2>1, <2>2, <2>3 DEF Observe, ObserveMessage
<1>6. QED BY <1>1, <1>2, <1>4, <1>5 DEF CountsTyped

LEMMA TreeTyped ==
  ASSUME CountsTyped
  PROVE  Tree \in [num : Counts, num_res : Tallies] /\ DOMAIN Tree.num \subseteq DOMAIN counts
<1> DEFINE nodes == {p \in DOMAIN counts : \A q \in DOMAIN counts : Len(q) <= Len(p) => Attached(q)}
           asked == {p \in nodes : Len(p) = 5 /\ p[5] \in Asks}
           num_res == [p \in asked |-> IF p \in DOMAIN responses THEN responses[p] ELSE 0]
<1>1. /\ counts \in [DOMAIN counts -> Nat \ {0}] /\ DOMAIN counts \subseteq Seq(Names)
      /\ responses \in [DOMAIN responses -> Nat \ {0}]
  BY CountsAre DEF CountsTyped
<1>2. Tree = [num |-> Restrict(counts, nodes), num_res |-> num_res]
  BY DEF Tree
<1>3. nodes \subseteq DOMAIN counts /\ asked \subseteq nodes
  OBVIOUS
<1> HIDE DEF nodes, asked
<1>4. Restrict(counts, nodes) \in Counts /\ DOMAIN Restrict(counts, nodes) = nodes
  <2>1. PICK f : f = Restrict(counts, nodes)
    OBVIOUS
  <2>2. f \in [nodes -> Nat \ {0}]
    BY <1>1, <1>3, <2>1 DEF Restrict
  <2>3. f \in [DOMAIN f -> Nat \ {0}] /\ DOMAIN f \subseteq Seq(Names)
    BY <1>1, <1>3, <2>2
  <2>4. f \in Counts
    BY <2>3, CountsAre
  <2>5. QED BY <2>1, <2>2, <2>4
<1>5. num_res \in Tallies
  <2>1. PICK f : f = num_res
    OBVIOUS
  <2>2. f \in [asked -> Nat]
    BY <1>1, <2>1
  <2>3. f \in [DOMAIN f -> Nat] /\ DOMAIN f \subseteq Seq(Names)
    BY <1>1, <1>3, <2>2
  <2>4. f \in Tallies
    BY <2>3, CountsAre
  <2>5. QED BY <2>1, <2>4
<1> HIDE DEF num_res
<1>6. QED BY <1>2, <1>3, <1>4, <1>5

\* At the end of a period every node of the tree has its parent.
LEMMA TreeIsWhole ==
  ASSUME IInv, CountsTyped, queue = << >>
  PROVE  /\ \A p \in DOMAIN counts : Attached(p)
         /\ Tree.num = counts
<1>1. \A p : Coming(p) => p \in DOMAIN counts
  <2>1. Len(queue) + 1 = 1 /\ 1 .. 1 - 1 = {}
    OBVIOUS
  <2>2. QED BY <2>1 DEF Coming, CountedBefore
<1>2. \A p \in DOMAIN counts : Attached(p)
  BY <1>1 DEF IInv, Closed, Attached
<1>3. {p \in DOMAIN counts : \A q \in DOMAIN counts : Len(q) <= Len(p) => Attached(q)} = DOMAIN counts
  BY <1>2
<1>4. Tree.num = Restrict(counts, DOMAIN counts)
  BY <1>3 DEF Tree
<1>5. Restrict(counts, DOMAIN counts) = counts
  BY CountsAre DEF CountsTyped, Restrict
<1>6. QED BY <1>2, <1>4, <1>5

LEMMA PeriodAdded ==
  ASSUME IInv, CountsTyped, FinishPeriod
  PROVE  /\ CountsTyped' /\ Len(periods') = Len(periods) + 1 /\ Len(periods) \in Nat
         /\ DOMAIN periods = 1 .. Len(periods) /\ DOMAIN periods' = 1 .. Len(periods) + 1
         /\ \A k \in DOMAIN periods : periods'[k] = periods[k]
         /\ periods'[Len(periods) + 1] = Tree
         /\ Tree \in [num : Counts, num_res : Tallies] /\ Tree.num = counts
         /\ counts' = Nothing /\ responses' = Nothing
         /\ DOMAIN counts' = {} /\ DOMAIN responses' = {} /\ queue = << >>
<1>1. /\ periods' = Append(periods, Tree) /\ counts' = Nothing /\ responses' = Nothing
      /\ queue = << >> /\ UNCHANGED req_table
  BY DEF FinishPeriod
<1>2. Tree \in [num : Counts, num_res : Tallies] /\ Tree.num = counts
  BY <1>1, TreeTyped, TreeIsWhole
<1>3. PICK S, t : S = [num : Counts, num_res : Tallies] /\ t = Tree
  OBVIOUS
<1>4. periods \in Seq(S) /\ t \in S
  BY <1>2, <1>3 DEF CountsTyped
<1>5. /\ Append(periods, t) \in Seq(S) /\ Len(Append(periods, t)) = Len(periods) + 1
      /\ \A k \in 1 .. Len(periods) : Append(periods, t)[k] = periods[k]
      /\ Append(periods, t)[Len(periods) + 1] = t
  BY <1>4, AppendProperties
<1>6. DOMAIN periods = 1 .. Len(periods) /\ DOMAIN periods' = 1 .. Len(periods')
  BY <1>1, <1>3, <1>4, <1>5
<1>7. Nothing \in Counts /\ DOMAIN Nothing = {}
  <2>1. Nothing \in [{} -> Nat \ {0}] /\ DOMAIN Nothing = {}
    BY DEF Nothing
  <2>2. {} \in SUBSET Seq(Names)
    OBVIOUS
  <2>3. QED BY <2>1, <2>2 DEF Counts
<1>8. CountsTyped'
  BY <1>1, <1>3, <1>5, <1>7 DEF CountsTyped
<1>9. QED BY <1>1, <1>2, <1>3, <1>4, <1>5, <1>6, <1>7, <1>8

LEMMA EndPeriodStep ==
  ASSUME IInv, CountsTyped, EndPeriod
  PROVE  IInv'
<1>1. /\ TypeInv /\ QueueOK /\ OneWay /\ Closed /\ Shows /\ IdentitiesEarned /\ Logs
      /\ AllToLog /\ InOrder /\ ItemsShow /\ RequestsShow /\ MatchesShow
  BY DEF IInv, Logs, Shows
<1>2. FinishPeriod /\ UNCHANGED << id_req_table, identity_map >>
  BY DEF EndPeriod, idVars
<1>3. UNCHANGED << queue, items, wait, prefixed, tgt_table, logged >>
  BY <1>2 DEF FinishPeriod
<1>4. /\ \A k \in DOMAIN periods : k \in DOMAIN periods' /\ periods'[k] = periods[k]
      /\ Len(periods) + 1 \in DOMAIN periods' /\ periods'[Len(periods) + 1].num = counts
      /\ DOMAIN counts' = {} /\ queue = << >>
  BY <1>2, PeriodAdded
<1>5. /\ \A p \in DOMAIN counts : Published(p)'
      /\ \A p : Published(p) => Published(p)'
  BY <1>4 DEF Published
<1>6. DOMAIN queue' = {} /\ ~InPacket' /\ DOMAIN queue = {} /\ queue' = << >>
  BY <1>3, <1>4 DEF InPacket
<1>7. TypeInv'
  BY <1>1, <1>3 DEF TypeInv
<1>8. QueueOK'
  BY <1>6 DEF QueueOK, PacketFirst, AddressesFirst, MessageFirst, Refers
<1>9. OneWay'
  BY <1>1, <1>3, <1>6 DEF OneWay
<1>10. Closed'
  BY <1>4, <1>6 DEF Closed
<1>11. \A h, g, protocol, f : Shown(h, g, protocol, f) => Shown(h, g, protocol, f)'
  <2>1. Len(queue) + 1 = 1 /\ 1 .. 1 - 1 = {}
    BY <1>4
  <2>2. \A p : CountedBefore(p, Len(queue) + 1) => p \in DOMAIN counts
    BY <2>1 DEF CountedBefore
  <2>3. QED BY <1>5, <2>2 DEF Shown, ShownBefore
<1>12. Shows'
  BY <1>1, <1>2, <1>3, <1>6, <1>11 DEF Shows, ItemsShow, RequestsShow, MatchesShow
<1>13. IdentitiesEarned'
  BY <1>1, <1>2, <1>5, EarnedStep
<1>14. Logs'
  <2>1. Current' = Current
    BY <1>3 DEF Current
  <2>2. \A k : ToLog(k) => ToLog(k)'
    BY <1>3 DEF ToLog
  <2>3. AllToLog'
    BY <1>1, <1>3, <2>1, <2>2 DEF AllToLog
  <2>4. InOrder'
    BY <1>1, <1>3, <2>1 DEF InOrder
  <2>5. QED BY <2>3, <2>4 DEF Logs
<1>15. QED BY <1>7, <1>8, <1>9, <1>10, <1>12, <1>13, <1>14 DEF IInv

-----------------------------------------------------------------------------
(* The invariant, and what follows from it *)

LEMMA InitInv == Init => IInv /\ CountsTyped
<1> SUFFICES ASSUME Init
             PROVE  IInv /\ CountsTyped
  OBVIOUS
<1>1. /\ queue = << >> /\ items = << >> /\ wait = FALSE /\ tgt_table = Nothing
      /\ req_table = Nothing /\ counts = Nothing /\ responses = Nothing
      /\ logged = << >> /\ periods = << >>
      /\ id_req_table = [x \in {} |-> 0] /\ identity_map = [x \in {} |-> {}]
  BY DEF Init, StatsInit, IdInit
<1>2. /\ DOMAIN queue = {} /\ DOMAIN items = {} /\ DOMAIN logged = {} /\ DOMAIN periods = {}
      /\ ~InPacket
  BY <1>1 DEF InPacket
<1>3. /\ DOMAIN counts = {} /\ DOMAIN id_req_table = {} /\ DOMAIN identity_map = {}
      /\ DOMAIN tgt_table = {} /\ DOMAIN req_table = {} /\ DOMAIN Nothing = {}
  BY <1>1 DEF Nothing
<1>4. TypeInv
  BY <1>1, <1>3 DEF TypeInv, Nothing
<1>5. QueueOK
  BY <1>2 DEF QueueOK, PacketFirst, AddressesFirst, MessageFirst, Refers
<1>6. OneWay
  BY <1>1, <1>2 DEF OneWay
<1>7. Closed
  BY <1>2, <1>3 DEF Closed
<1>8. Shows
  BY <1>2, <1>3 DEF Shows, ItemsShow, RequestsShow, MatchesShow
<1>9. IdentitiesEarned
  BY <1>3 DEF IdentitiesEarned
<1>10. Logs
  BY <1>1, <1>2 DEF Logs, AllToLog, InOrder
<1>11. CountsTyped
  <2>1. Nothing \in [{} -> Nat \ {0}]
    BY DEF Nothing
  <2>2. {} \in SUBSET Seq(Names)
    OBVIOUS
  <2>3. Nothing \in Counts
    BY <2>1, <2>2 DEF Counts
  <2>4. req_table \in [DOMAIN req_table -> Requests]
    BY <1>1, <1>3 DEF Nothing
  <2>5. PICK S : S = [num : Counts, num_res : Tallies]
    OBVIOUS
  <2>6. periods \in Seq(S)
    BY <1>1
  <2>7. QED BY <1>1, <2>3, <2>4, <2>5, <2>6 DEF CountsTyped
<1>12. QED BY <1>4, <1>5, <1>6, <1>7, <1>8, <1>9, <1>10, <1>11 DEF IInv

LEMMA CountsKept ==
  ASSUME CountsTyped, UNCHANGED << counts, responses, req_table, periods >>
  PROVE  CountsTyped'
BY DEF CountsTyped

LEMMA CollectStep ==
  ASSUME IInv, CountsTyped, Collect, UNCHANGED idVars
  PROVE  IInv' /\ CountsTyped'
<1>1. ASSUME NEW p \in Packets, Packet(p) PROVE IInv' /\ CountsTyped'
  <2>1. UNCHANGED << counts, responses, req_table, periods >>
    BY <1>1 DEF Packet
  <2>2. QED BY <1>1, <2>1, PacketStep, CountsKept
<1>2. CASE NewPacket
  <2>1. UNCHANGED << counts, responses, req_table, periods >>
    BY <1>2 DEF NewPacket, uncounted
  <2>2. QED BY <1>2, <2>1, NewPacketStep, CountsKept
<1>3. ASSUME NEW type \in Messages, Message(type) PROVE IInv' /\ CountsTyped'
  <2>1. UNCHANGED << counts, responses, req_table, periods >>
    BY <1>3 DEF Message, uncounted
  <2>2. QED BY <1>3, <2>1, MessageStep, CountsKept
<1>4. CASE ModbusMessage \/ ApplicationHeader
  BY <1>3, <1>4 DEF ModbusMessage, ApplicationHeader, Messages
<1>5. CASE ModbusRequest
  <2>1. UNCHANGED << counts, responses, req_table, periods >>
    BY <1>5 DEF ModbusRequest, uncounted
  <2>2. QED BY <1>5, <2>1, ModbusRequestStep, CountsKept
<1>6. CASE ModbusResponse
  <2>1. UNCHANGED << counts, responses, req_table, periods >>
    BY <1>6 DEF ModbusResponse, uncounted
  <2>2. QED BY <1>6, <2>1, ModbusResponseStep, CountsKept
<1>7. CASE HeaderBlock
  <2>1. UNCHANGED << counts, responses, req_table, periods >>
    BY <1>7 DEF HeaderBlock, uncounted
  <2>2. QED BY <1>7, <2>1, HeaderBlockStep, CountsKept
<1>8. CASE HandleObjectHeader \/ HandleObjectPrefix
  <2>1. UNCHANGED << counts, responses, req_table, periods >>
    BY <1>8 DEF HandleObjectHeader, HandleObjectPrefix, uncounted
  <2>2. QED BY <1>8, <2>1, ObjectStep, CountsKept
<1>9. CASE CountItem
  BY <1>9, CountItemStep, CountItemTyped
<1>10. QED BY <1>1, <1>2, <1>4, <1>5, <1>6, <1>7, <1>8, <1>9 DEF Collect

LEMMA NextInv == IInv /\ CountsTyped /\ [Next]_vars => IInv' /\ CountsTyped'
<1> SUFFICES ASSUME IInv, CountsTyped, [Next]_vars
             PROVE  IInv' /\ CountsTyped'
  OBVIOUS
<1>1. CASE Collect /\ UNCHANGED << anoVars, idVars >>
  <2>1. UNCHANGED idVars
    BY <1>1
  <2>2. QED BY <1>1, <2>1, CollectStep
<1>2. CASE HandleItemGen
  <2>1. UNCHANGED << counts, responses, req_table, periods >>
    BY <1>2 DEF HandleItemGen, ItemGen
  <2>2. QED BY <1>2, <2>1, HandleItemGenStep, CountsKept
<1>3. CASE HandleMatch
  <2>1. UNCHANGED << counts, responses, req_table, periods >>
    BY <1>3 DEF HandleMatch, uncounted
  <2>2. QED BY <1>3, <2>1, HandleMatchStep, CountsKept
<1>4. CASE EndPeriod
  <2>1. FinishPeriod
    BY <1>4 DEF EndPeriod
  <2>2. QED BY <1>4, <2>1, EndPeriodStep, PeriodAdded
<1>5. CASE UNCHANGED vars
  <2>1. /\ UNCHANGED << queue, items, wait, prefixed, tgt_table, logged >>
        /\ UNCHANGED << counts, responses, req_table, periods >>
        /\ UNCHANGED << id_req_table, identity_map >>
    BY <1>5 DEF vars, statsVars, idVars
  <2>2. Current' = Current /\ InPacket' = InPacket
    BY <2>1 DEF Current, InPacket
  <2>3. /\ TypeInv' /\ QueueOK' /\ OneWay' /\ IdentitiesEarned' /\ Logs'
    <3>1. TypeInv'
      BY <2>1 DEF IInv, TypeInv
    <3>2. QueueOK'
      BY <2>1, <2>2 DEF IInv, QueueOK, PacketFirst, AddressesFirst, MessageFirst, Refers
    <3>3. OneWay'
      BY <2>1, <2>2 DEF IInv, OneWay
    <3>4. IdentitiesEarned'
      <4>1. \A p : Published(p) => Published(p)'
        BY <2>1 DEF Published
      <4>2. QED BY <2>1, <4>1, EarnedStep DEF IInv
    <3>5. Logs'
      <4>1. \A k : ToLog(k) => ToLog(k)'
        BY <2>1 DEF ToLog
      <4>2. QED BY <2>1, <2>2, <4>1 DEF IInv, Logs, AllToLog, InOrder
    <3>6. QED BY <3>1, <3>2, <3>3, <3>4, <3>5
  <2>4. \A p, n : CountedBefore(p, n) => CountedBefore(p, n)'
    BY <2>1 DEF CountedBefore
  <2>5. \A p : Coming(p) => Coming(p)'
    BY <2>1, <2>4 DEF Coming, CountedBefore
  <2>6. Closed'
    BY <2>1, <2>2, <2>5 DEF IInv, Closed
  <2>7. \A h, g, protocol, f, n : ShownBefore(h, g, protocol, f, n) => ShownBefore(h, g, protocol, f, n)'
    BY <2>1, <2>4 DEF ShownBefore, Published
  <2>8. \A h, g, protocol, f : Shown(h, g, protocol, f) => Shown(h, g, protocol, f)'
    BY <2>1, <2>7 DEF Shown, ShownBefore, CountedBefore, Published
  <2>9. Shows'
    <3>1. ItemsShow'
      BY <2>1, <2>8 DEF IInv, Shows, ItemsShow
    <3>2. RequestsShow'
      BY <2>1, <2>8 DEF IInv, Shows, RequestsShow
    <3>3. \A e, n : MatchShows(e, n) => MatchShows(e, n)'
      BY <2>1, <2>7 DEF MatchShows
    <3>4. MatchesShow'
      BY <2>1, <3>3 DEF IInv, Shows, MatchesShow, MatchShows
    <3>5. QED BY <3>1, <3>2, <3>4 DEF Shows
  <2>10. QED BY <2>1, <2>3, <2>6, <2>9, CountsKept DEF IInv
<1>6. QED BY <1>1, <1>2, <1>3, <1>4, <1>5 DEF Next

\* The shape of the queue, the tables of the scripts and what they rest on: the events
\* of a packet come in the order in which Bro raises them, and the counter's tables
\* and trees have the paths and the numbers they are read as.
THEOREM NodeInvariant == Spec => [](IInv /\ CountsTyped)
<1>1. Init => IInv /\ CountsTyped
  BY InitInv
<1>2. IInv /\ CountsTyped /\ [Next]_vars => (IInv /\ CountsTyped)'
  BY NextInv
<1>3. QED BY <1>1, <1>2, PTL DEF Spec

\* A host is identified only by what it did: the log has shown it send the request of
\* the pair to a host that sent the response, or the other way round, although the
\* match is handled after other events (item_gen and Intel::match of id_recog.bro).
THEOREM IdentitiesEarnedCorrect == Spec => []IdentitiesEarned
<1>1. IInv /\ CountsTyped => IdentitiesEarned
  BY DEF IInv
<1>2. QED BY <1>1, NodeInvariant, PTL

\* Every packet but the latest is logged when no event is left, whichever messages it
\* carries, unless it is a response whose request was not seen, and packets are logged
\* in order (g_wait of stats_col.bro).
THEOREM EveryPacketLoggedCorrect == Spec => []EveryPacketLogged
<1>1. ASSUME IInv PROVE EveryPacketLogged
  <2>1. /\ TypeInv /\ AllToLog /\ InOrder
    BY <1>1 DEF IInv, Logs
  <2>2. /\ Current \in Nat /\ DOMAIN items = 1 .. Current /\ Current = Len(items)
    BY <2>1, CurrentItem DEF Current
  <2>3. ASSUME queue = << >>, NEW k \in 1 .. Len(items) - 1
        PROVE  k \in Range(logged) \/ (items[k].is_response /\ items[k].target = None)
    <3>1. k \in DOMAIN items /\ k # Current
      <4>1. PICK n \in Nat : n = Current /\ n = Len(items) /\ DOMAIN items = 1 .. n
        BY <2>2
      <4>2. k \in 1 .. n - 1
        BY <4>1
      <4>3. k \in 1 .. n /\ k # n
        BY <4>1, <4>2
      <4>4. QED BY <4>1, <4>3
    <3>2. ToLog(k) \/ (items[k].is_response /\ items[k].target = None)
      BY <2>1, <3>1 DEF AllToLog
    <3>3. ToLog(k) => \E i \in DOMAIN logged : logged[i] = k
      BY <2>3 DEF ToLog
    <3>4. QED BY <3>2, <3>3 DEF Range
  <2>4. \A i, j \in DOMAIN logged : i <= j => logged[i] <= logged[j]
    BY <2>1 DEF InOrder
  <2>5. QED BY <2>3, <2>4 DEF EveryPacketLogged
<1>2. QED BY <1>1, NodeInvariant, PTL

\* The tree a period ends with is whole: although the levels of a packet are observed
\* by events of their own, every node has its parent, so that no lookup of
\* process_result fails and what is published is everything that was counted.
WholeTree == queue = << >> => (\A p \in DOMAIN counts : Attached(p)) /\ Tree.num = counts

THEOREM WholeTreeCorrect == Spec => []WholeTree
<1>1. IInv /\ CountsTyped => WholeTree
  BY TreeIsWhole DEF WholeTree
<1>2. QED BY <1>1, NodeInvariant, PTL

-----------------------------------------------------------------------------
(* Requests and answers *)

At(f, p) == IF p \in DOMAIN f THEN f[p] ELSE 0

RequestPath(r) == << r.requestor, r.responder, r.protocol, r.unit, r.func >>

\* The connections on which a request p waits for its answer
Open(p) == {link \in DOMAIN req_table :
              ~req_table[link].is_responded /\ RequestPath(req_table[link]) = p}

Made(p) == Sum([i \in DOMAIN periods |-> At(periods[i].num, p)], DOMAIN periods) + At(counts, p)
Answered(p) == Sum([i \in DOMAIN periods |-> At(periods[i].num_res, p)], DOMAIN periods)
               + At(responses, p)

\* Each answer is to a request of its own, and an open one is one more.
Credit ==
  /\ IsFiniteSet(DOMAIN req_table)
  /\ \A p : Answered(p) + Cardinality(Open(p)) <= Made(p)

LEMMA OpenFinite ==
  ASSUME Credit, NEW p
  PROVE  IsFiniteSet(Open(p)) /\ Cardinality(Open(p)) \in Nat
<1>1. Open(p) \in SUBSET DOMAIN req_table /\ IsFiniteSet(DOMAIN req_table)
  BY DEF Credit, Open
<1>2. QED BY <1>1, FS_Subset, FS_CardinalityType

LEMMA AtIsNat == ASSUME NEW f \in Tallies, NEW p PROVE At(f, p) \in Nat
<1>1. f \in [DOMAIN f -> Nat]
  BY CountsAre
<1>2. QED BY <1>1 DEF At

LEMMA CountIsTally == Counts \subseteq Tallies
<1>1. SUFFICES ASSUME NEW f \in Counts PROVE f \in Tallies
  OBVIOUS
<1>2. f \in [DOMAIN f -> Nat \ {0}] /\ DOMAIN f \subseteq Seq(Names)
  BY CountsAre
<1>3. f \in [DOMAIN f -> Nat]
  BY <1>2
<1>4. QED BY <1>2, <1>3, CountsAre

\* The sums over the periods that are over
LEMMA PeriodsSum ==
  ASSUME CountsTyped, NEW p
  PROVE  /\ DOMAIN periods = 1 .. Len(periods) /\ Len(periods) \in Nat
         /\ IsFiniteSet(DOMAIN periods)
         /\ \A i \in DOMAIN periods : /\ At(periods[i].num, p) \in Nat
                                      /\ At(periods[i].num_res, p) \in Nat
         /\ Sum([i \in DOMAIN periods |-> At(periods[i].num, p)], DOMAIN periods) \in Nat
         /\ Sum([i \in DOMAIN periods |-> At(periods[i].num_res, p)], DOMAIN periods) \in Nat
         /\ At(counts, p) \in Nat /\ At(responses, p) \in Nat
         /\ Made(p) \in Nat /\ Answered(p) \in Nat
<1> DEFINE num == [i \in DOMAIN periods |-> At(periods[i].num, p)]
           res == [i \in DOMAIN periods |-> At(periods[i].num_res, p)]
<1>1. PICK n \in Nat : n = Len(periods) /\ DOMAIN periods = 1 .. n
  BY DEF CountsTyped
<1>2. IsFiniteSet(DOMAIN periods)
  BY <1>1, FS_Interval
<1>3. ASSUME NEW i \in DOMAIN periods
      PROVE  At(periods[i].num, p) \in Nat /\ At(periods[i].num_res, p) \in Nat
  <2>1. PICK t \in [num : Counts, num_res : Tallies] : t = periods[i]
    <3>1. PICK S : S = [num : Counts, num_res : Tallies]
      OBVIOUS
    <3>2. periods \in Seq(S)
      BY <3>1 DEF CountsTyped
    <3>3. periods[i] \in S
      BY <1>1, <3>2, ElementOfSeq
    <3>4. QED BY <3>1, <3>3
  <2>2. t.num \in Tallies /\ t.num_res \in Tallies
    BY CountIsTally
  <2>3. QED BY <2>1, <2>2, AtIsNat
<1>4. /\ \A i \in DOMAIN periods : num[i] \in Nat
      /\ \A i \in DOMAIN periods : res[i] \in Nat
  BY <1>3
<1> HIDE DEF num, res
<1>5. Sum(num, DOMAIN periods) \in Nat /\ Sum(res, DOMAIN periods) \in Nat
  BY <1>2, <1>4, SumAdd
<1>6. At(counts, p) \in Nat /\ At(responses, p) \in Nat
  <2>1. counts \in Tallies /\ responses \in Tallies
    BY CountIsTally DEF CountsTyped
  <2>2. QED BY <2>1, AtIsNat
<1>7. Made(p) \in Nat /\ Answered(p) \in Nat
  <2>1. /\ Made(p) = Sum(num, DOMAIN periods) + At(counts, p)
        /\ Answered(p) = Sum(res, DOMAIN periods) + At(responses, p)
    BY DEF Made, Answered, num, res
  <2>2. QED BY <1>5, <1>6, <2>1
<1>8. QED BY <1>1, <1>2, <1>3, <1>5, <1>6, <1>7 DEF num, res

LEMMA PlusAt ==
  ASSUME NEW f \in Counts, NEW ps \in SUBSET Seq(Names), NEW p
  PROVE  At(Plus(f, ps), p) = At(f, p) + (IF p \in ps THEN 1 ELSE 0)
<1>1. /\ DOMAIN Plus(f, ps) = DOMAIN f \cup ps
      /\ \A q \in DOMAIN Plus(f, ps) :
           Plus(f, ps)[q] = (IF q \in DOMAIN f THEN f[q] ELSE 0) + (IF q \in ps THEN 1 ELSE 0)
  BY PlusCounts
<1>2. CASE p \in DOMAIN f \cup ps
  BY <1>1, <1>2 DEF At
<1>3. CASE p \notin DOMAIN f \cup ps
  BY <1>1, <1>3 DEF At
<1>4. QED BY <1>2, <1>3

\* An item that is observed as a message is a response or not, and makes a request or
\* may answer one.
LEMMA CreditObserved ==
  ASSUME CountsTyped, Credit, NEW i \in Item, Observe(i), counts' = Plus(counts, ItemPaths(i)),
         UNCHANGED periods
  PROVE  Credit'
<1>1. /\ IsFiniteSet(DOMAIN req_table) /\ counts \in Counts /\ responses \in Counts
      /\ ItemPaths(i) \in SUBSET Seq(Names)
  BY ItemPathsTyped DEF Credit, CountsTyped
<1>2. \A p : /\ At(counts', p) = At(counts, p) + (IF p \in ItemPaths(i) THEN 1 ELSE 0)
             /\ At(counts, p) \in Nat /\ At(responses, p) \in Nat
             /\ Made(p) \in Nat /\ Answered(p) \in Nat
             /\ Cardinality(Open(p)) \in Nat /\ IsFiniteSet(Open(p))
             /\ Answered(p) + Cardinality(Open(p)) <= Made(p)
  <2>1. SUFFICES ASSUME NEW p
                 PROVE  /\ At(counts', p) = At(counts, p) + (IF p \in ItemPaths(i) THEN 1 ELSE 0)
                        /\ At(counts, p) \in Nat /\ At(responses, p) \in Nat
                        /\ Made(p) \in Nat /\ Answered(p) \in Nat
                        /\ Cardinality(Open(p)) \in Nat /\ IsFiniteSet(Open(p))
                        /\ Answered(p) + Cardinality(Open(p)) <= Made(p)
    OBVIOUS
  <2>2. At(counts', p) = At(counts, p) + (IF p \in ItemPaths(i) THEN 1 ELSE 0)
    BY <1>1, PlusAt
  <2>3. Answered(p) + Cardinality(Open(p)) <= Made(p)
    BY DEF Credit
  <2>4. QED BY <2>2, <2>3, PeriodsSum, OpenFinite
<1>3. ASSUME NEW p
      PROVE  /\ Made(p)' = Made(p) + (IF p \in ItemPaths(i) THEN 1 ELSE 0)
             /\ At(responses', p) \in Nat
             /\ Answered(p)' = Answered(p) - At(responses, p) + At(responses', p)
  <2> DEFINE num == [k \in DOMAIN periods |-> At(periods[k].num, p)]
             res == [k \in DOMAIN periods |-> At(periods[k].num_res, p)]
  <2>1. PICK a, b : a = Sum(num, DOMAIN periods) /\ b = Sum(res, DOMAIN periods)
    OBVIOUS
  <2>2. /\ Made(p) = a + At(counts, p) /\ Made(p)' = a + At(counts', p)
        /\ Answered(p) = b + At(responses, p) /\ Answered(p)' = b + At(responses', p)
    BY <2>1 DEF Made, Answered
  <2>3. a \in Nat /\ b \in Nat
    BY <2>1, PeriodsSum
  <2>4. At(responses', p) \in Nat
    <3>1. responses' \in Counts
      <4>1. CASE UNCHANGED responses
        BY <1>1, <4>1
      <4>2. CASE \E q \in Seq(Names) : responses' = Plus(responses, {q})
        <5>1. PICK q \in Seq(Names) : responses' = Plus(responses, {q})
          BY <4>2
        <5>2. {q} \in SUBSET Seq(Names)
          OBVIOUS
        <5>3. QED BY <1>1, <5>1, <5>2, PlusCounts
      <4>3. UNCHANGED responses \/ \E q \in Seq(Names) : responses' = Plus(responses, {q})
        BY AnsweredTyped DEF Observe, ObserveMessage
      <4>4. QED BY <4>1, <4>2, <4>3
    <3>2. QED BY <3>1, CountIsTally, AtIsNat
  <2>5. QED BY <1>2, <2>2, <2>3, <2>4
<1>4. CASE UNCHANGED << req_table, responses >>
  <2>1. \A p : Open(p)' = Open(p)
    BY <1>4 DEF Open
  <2>2. \A p : Answered(p)' = Answered(p) /\ Made(p)' >= Made(p)
    BY <1>2, <1>3, <1>4
  <2>3. ASSUME NEW p PROVE Answered(p)' + Cardinality(Open(p)') <= Made(p)'
    <3>1. PICK m : m = Made(p)'
      OBVIOUS
    <3>2. m = Made(p) + (IF p \in ItemPaths(i) THEN 1 ELSE 0)
      BY <1>3, <3>1
    <3>3. QED BY <1>2, <2>1, <2>2, <3>1, <3>2
  <2>4. QED BY <1>1, <1>4, <2>3 DEF Credit
<1>5. CASE i.protocol # None /\ req_table' = Remembered(i) /\ UNCHANGED responses
                             /\ FunctionPath(i) \in ItemPaths(i)
  <2> DEFINE new == [requestor |-> i.sender, responder |-> i.receiver, protocol |-> i.protocol,
                     unit |-> i.unit, func |-> i.func, is_responded |-> FALSE]
  <2>1. /\ DOMAIN req_table' = DOMAIN req_table \cup {i.link} /\ req_table'[i.link] = new
        /\ \A link \in DOMAIN req_table : link # i.link => req_table'[link] = req_table[link]
    BY <1>5 DEF Remembered
  <2>2. RequestPath(new) = FunctionPath(i)
    BY DEF RequestPath, FunctionPath
  <2>3. IsFiniteSet(DOMAIN req_table')
    BY <1>1, <2>1, FS_AddElement
  <2> HIDE DEF new
  <2>4. ASSUME NEW p PROVE Answered(p)' + Cardinality(Open(p)') <= Made(p)'
    <3>1. PICK o : o = Open(p)'
      OBVIOUS
    <3>2. o \subseteq Open(p) \cup (IF p = FunctionPath(i) THEN {i.link} ELSE {})
      BY <2>1, <2>2, <3>1 DEF Open
    <3>3. Answered(p)' = Answered(p) /\ Made(p)' = Made(p) + (IF p \in ItemPaths(i) THEN 1 ELSE 0)
      BY <1>2, <1>3, <1>5
    <3>4. CASE p = FunctionPath(i)
      <4>1. o \in SUBSET (Open(p) \cup {i.link}) /\ IsFiniteSet(Open(p) \cup {i.link})
        BY <1>2, <3>2, <3>4, FS_AddElement
      <4>2. Cardinality(Open(p) \cup {i.link}) <= Cardinality(Open(p)) + 1
        <5>1. Cardinality(Open(p) \cup {i.link})
                = IF i.link \in Open(p) THEN Cardinality(Open(p)) ELSE Cardinality(Open(p)) + 1
          BY <1>2, FS_AddElement
        <5>2. QED BY <1>2, <5>1
      <4>3. Cardinality(o) <= Cardinality(Open(p) \cup {i.link}) /\ Cardinality(o) \in Nat
            /\ Cardinality(Open(p) \cup {i.link}) \in Nat
        BY <4>1, FS_Subset, FS_CardinalityType
      <4>4. Made(p)' = Made(p) + 1
        BY <1>5, <3>3, <3>4
      <4>5. Cardinality(o) <= Cardinality(Open(p)) + 1
        BY <1>2, <4>2, <4>3
      <4>6. QED BY <1>2, <3>1, <3>3, <4>3, <4>4, <4>5
    <3>5. CASE p # FunctionPath(i)
      <4>1. o \in SUBSET Open(p)
        BY <3>2, <3>5
      <4>2. Cardinality(o) <= Cardinality(Open(p)) /\ Cardinality(o) \in Nat
        BY <1>2, <4>1, FS_Subset, FS_CardinalityType
      <4>3. Made(p)' = Made(p) \/ Made(p)' = Made(p) + 1
        BY <1>2, <3>3
      <4>4. QED BY <1>2, <3>1, <3>3, <4>2, <4>3
    <3>6. QED BY <3>4, <3>5
  <2>5. QED BY <2>3, <2>4 DEF Credit
<1>6. CASE /\ Answers(i) /\ responses' = Plus(responses, {AnsweredPath(i)})
           /\ req_table' = [req_table EXCEPT ![i.link].is_responded = TRUE]
  <2>1. /\ i.link \in DOMAIN req_table /\ req_table[i.link] \in Requests
        /\ AnsweredPath(i) = RequestPath(req_table[i.link]) /\ ~req_table[i.link].is_responded
        /\ AnsweredPath(i) \in Seq(Names)
    BY <1>6, AnsweredTyped DEF Answers, AnsweredPath, RequestPath, CountsTyped
  <2>2. PICK q : q = AnsweredPath(i)
    OBVIOUS
  <2>3. /\ DOMAIN req_table' = DOMAIN req_table /\ req_table'[i.link].is_responded
        /\ \A link \in DOMAIN req_table : link # i.link => req_table'[link] = req_table[link]
    BY <1>6, <2>1 DEF Requests
  <2>4. \A p : At(responses', p) = At(responses, p) + (IF p = q THEN 1 ELSE 0)
    <3>1. {q} \in SUBSET Seq(Names) /\ responses' = Plus(responses, {q})
      BY <1>6, <2>1, <2>2
    <3>2. \A p : p \in {q} <=> p = q
      OBVIOUS
    <3>3. QED BY <1>1, <3>1, <3>2, PlusAt
  <2>5. ASSUME NEW p PROVE Answered(p)' + Cardinality(Open(p)') <= Made(p)'
    <3>1. PICK o : o = Open(p)'
      OBVIOUS
    <3>2. o = Open(p) \ {i.link}
      BY <2>3, <3>1 DEF Open
    <3>3. /\ Answered(p)' = Answered(p) + (IF p = q THEN 1 ELSE 0)
          /\ Made(p)' = Made(p) + (IF p \in ItemPaths(i) THEN 1 ELSE 0)
      BY <1>2, <1>3, <2>4
    <3>4. /\ IsFiniteSet(o)
          /\ Cardinality(o) = IF i.link \in Open(p) THEN Cardinality(Open(p)) - 1 ELSE Cardinality(Open(p))
      BY <1>2, <3>2, FS_RemoveElement
    <3>5. p = q => i.link \in Open(p)
      BY <2>1, <2>2 DEF Open
    <3>6. Cardinality(o) \in Nat
      BY <3>4, FS_CardinalityType
    <3>7. PICK a, c, k, m, m2 : a = Answered(p) /\ c = Cardinality(o) /\ k = Cardinality(Open(p))
                                /\ m = Made(p) /\ m2 = Made(p)'
      OBVIOUS
    <3>8. a \in Nat /\ c \in Nat /\ k \in Nat /\ m \in Nat /\ a + k <= m /\ (m2 = m \/ m2 = m + 1)
      BY <1>2, <3>3, <3>6, <3>7
    <3>9. a + (IF p = q THEN 1 ELSE 0) + c <= m2
      BY <3>4, <3>5, <3>7, <3>8
    <3>10. QED BY <3>1, <3>3, <3>7, <3>9
  <2>6. QED BY <1>1, <2>3, <2>5 DEF Credit
<1>7. \/ UNCHANGED << req_table, responses >>
      \/ i.protocol # None /\ req_table' = Remembered(i) /\ UNCHANGED responses
                           /\ FunctionPath(i) \in ItemPaths(i)
      \/ /\ Answers(i) /\ responses' = Plus(responses, {AnsweredPath(i)})
         /\ req_table' = [req_table EXCEPT ![i.link].is_responded = TRUE]
  <2>1. i.protocol # None /\ i.target = None => FunctionPath(i) \in ItemPaths(i)
    BY PathsOfItem DEF ItemPaths
  <2>2. QED BY <2>1 DEF Observe, ObserveMessage
<1>8. QED BY <1>4, <1>5, <1>6, <1>7

\* At the end of a period its numbers go into the sums of those that are over.
LEMMA CreditPublished ==
  ASSUME IInv, CountsTyped, Credit, FinishPeriod
  PROVE  Credit'
<1>1. /\ CountsTyped' /\ DOMAIN periods = 1 .. Len(periods) /\ Len(periods) \in Nat
      /\ DOMAIN periods' = 1 .. Len(periods) + 1
      /\ \A k \in DOMAIN periods : periods'[k] = periods[k]
      /\ periods'[Len(periods) + 1] = Tree /\ Tree.num = counts
      /\ DOMAIN counts' = {} /\ DOMAIN responses' = {}
  BY PeriodAdded
<1>2. UNCHANGED req_table /\ IsFiniteSet(DOMAIN req_table')
  BY DEF FinishPeriod, Credit
<1>3. PICK n \in Nat, m \in Nat : n = Len(periods) /\ m = n + 1
  <2>1. PICK n \in Nat : n = Len(periods)
    BY <1>1
  <2>2. n + 1 \in Nat
    OBVIOUS
  <2>3. QED BY <2>1, <2>2
<1>4. PICK t : t = Tree
  OBVIOUS
<1>5. \A p : At(t.num, p) = At(counts, p) /\ At(t.num_res, p) <= At(responses, p)
             /\ At(t.num_res, p) \in Nat
  <2>1. SUFFICES ASSUME NEW p PROVE At(t.num_res, p) <= At(responses, p) /\ At(t.num_res, p) \in Nat
    BY <1>1, <1>4
  <2>2. At(responses, p) \in Nat
    BY PeriodsSum
  <2>3. At(t.num_res, p) = 0 \/ At(t.num_res, p) = At(responses, p)
    BY <1>4 DEF Tree, At
  <2>4. QED BY <2>2, <2>3
<1>6. ASSUME NEW p PROVE Answered(p)' + Cardinality(Open(p)') <= Made(p)'
  <2> DEFINE num == [k \in DOMAIN periods |-> At(periods[k].num, p)]
             res == [k \in DOMAIN periods |-> At(periods[k].num_res, p)]
  <2>1. PICK a, b : a = Sum(num, DOMAIN periods) /\ b = Sum(res, DOMAIN periods)
    OBVIOUS
  <2>2. /\ Made(p) = a + At(counts, p) /\ Answered(p) = b + At(responses, p)
        /\ a \in Nat /\ b \in Nat /\ At(counts, p) \in Nat /\ At(responses, p) \in Nat
    BY <2>1, PeriodsSum DEF Made, Answered
  <2>3. At(counts', p) = 0 /\ At(responses', p) = 0
    BY <1>1 DEF At
  <2>4. PICK numN, resN : /\ numN = [k \in 1 .. m |-> At(periods'[k].num, p)]
                          /\ resN = [k \in 1 .. m |-> At(periods'[k].num_res, p)]
    OBVIOUS
  <2>5. Made(p)' = Sum(numN, 1 .. m) /\ Answered(p)' = Sum(resN, 1 .. m)
    <3>1. /\ Made(p)' = Sum(numN, 1 .. m) + 0
          /\ Answered(p)' = Sum(resN, 1 .. m) + 0
      BY <1>1, <1>3, <2>3, <2>4 DEF Made, Answered
    <3>2. Sum(numN, 1 .. m) \in Nat /\ Sum(resN, 1 .. m) \in Nat
      <4>1. /\ \A k \in 1 .. m : At(periods'[k].num, p) \in Nat
            /\ \A k \in 1 .. m : At(periods'[k].num_res, p) \in Nat
            /\ IsFiniteSet(1 .. m)
        <5>1. \A k \in 1 .. m : k \in DOMAIN periods \/ k = m
          BY <1>1, <1>3
        <5>2. /\ \A k \in DOMAIN periods : /\ At(periods'[k].num, p) \in Nat
                                           /\ At(periods'[k].num_res, p) \in Nat
          BY <1>1, PeriodsSum
        <5>3. At(periods'[m].num, p) \in Nat /\ At(periods'[m].num_res, p) \in Nat
          BY <1>1, <1>3, <1>4, <1>5, <2>2
        <5>4. IsFiniteSet(1 .. m)
          BY FS_Interval
        <5>5. QED BY <1>3, <5>1, <5>2, <5>3, <5>4
      <4>2. \A k \in 1 .. m : numN[k] \in Nat /\ resN[k] \in Nat
        BY <2>4, <4>1
      <4>3. QED BY <4>1, <4>2, SumAdd
    <3>3. QED BY <3>1, <3>2
  <2>6. /\ m \in 1 .. m /\ (1 .. m) \ {m} = 1 .. n
        /\ IsFiniteSet(1 .. m) /\ IsFiniteSet(1 .. n)
    <3>1. m \in 1 .. m /\ (1 .. m) \ {m} = 1 .. n
      BY <1>3
    <3>2. IsFiniteSet(1 .. m) /\ IsFiniteSet(1 .. n)
      BY FS_Interval
    <3>3. QED BY <3>1, <3>2
  <2>7. /\ numN[m] = At(counts, p) /\ resN[m] <= At(responses, p) /\ resN[m] \in Nat
        /\ \A k \in 1 .. n : /\ numN[k] = num[k] /\ num[k] \in Nat
                             /\ resN[k] = res[k] /\ res[k] \in Nat
    <3>1. \A k \in 1 .. n : k \in DOMAIN periods /\ k \in 1 .. m
      BY <1>1, <1>3
    <3>2. PICK l \in 1 .. m : l = m
      BY <2>6
    <3>3. periods'[l] = t
      BY <1>1, <1>3, <1>4, <3>2
    <3>4. numN[l] = At(counts, p) /\ resN[l] <= At(responses, p) /\ resN[l] \in Nat
      BY <1>5, <2>4, <3>3
    <3>5. \A k \in 1 .. n : /\ numN[k] = num[k] /\ num[k] \in Nat
                            /\ resN[k] = res[k] /\ res[k] \in Nat
      BY <1>1, <2>4, <3>1, PeriodsSum
    <3>6. QED BY <3>2, <3>4, <3>5
  <2> HIDE DEF num, res
  <2>8. \A k \in 1 .. m : k = m \/ k \in 1 .. n
    BY <1>3
  <2>9. /\ \A k \in 1 .. m : numN[k] \in Nat
        /\ \A k \in 1 .. m : resN[k] \in Nat
    BY <2>2, <2>7, <2>8
  <2>10. /\ Sum(numN, 1 .. m) = numN[m] + Sum(numN, 1 .. n)
         /\ Sum(resN, 1 .. m) = resN[m] + Sum(resN, 1 .. n)
    <3>1. \A c \in 1 .. m : Sum(numN, 1 .. m) = numN[c] + Sum(numN, (1 .. m) \ {c})
      BY <2>6, <2>9, SumAdd
    <3>2. \A c \in 1 .. m : Sum(resN, 1 .. m) = resN[c] + Sum(resN, (1 .. m) \ {c})
      BY <2>6, <2>9, SumAdd
    <3>3. QED BY <2>6, <3>1, <3>2
  <2>11. Sum(numN, 1 .. n) = a /\ Sum(resN, 1 .. n) = b
    <3>1. Sum(num, 1 .. n) = a /\ Sum(res, 1 .. n) = b
      BY <1>1, <1>3, <2>1
    <3>2. /\ \A k \in 1 .. n : num[k] \in Nat /\ numN[k] = num[k]
          /\ \A k \in 1 .. n : res[k] \in Nat /\ resN[k] = res[k]
      BY <2>7
    <3>3. Sum(num, 1 .. n) = Sum(numN, 1 .. n)
      BY <2>6, <3>2, SumSame
    <3>4. Sum(res, 1 .. n) = Sum(resN, 1 .. n)
      BY <2>6, <3>2, SumSame
    <3>5. QED BY <3>1, <3>3, <3>4
  <2>12. Made(p)' = At(counts, p) + a /\ Answered(p)' <= At(responses, p) + b
    BY <2>2, <2>5, <2>7, <2>10, <2>11
  <2>13. Open(p)' = Open(p)
    BY <1>2 DEF Open
  <2>14. Answered(p) + Cardinality(Open(p)) <= Made(p) /\ Cardinality(Open(p)) \in Nat
    BY OpenFinite DEF Credit
  <2>15. Answered(p)' \in Nat
    BY <2>2, <2>5, <2>6, <2>9, SumAdd
  <2>16. PICK x, y, c : x = Answered(p)' /\ y = Made(p)' /\ c = Cardinality(Open(p))
    OBVIOUS
  <2>17. x + c <= y
    BY <2>2, <2>12, <2>14, <2>15, <2>16
  <2>18. QED BY <2>13, <2>16, <2>17
<1>7. QED BY <1>2, <1>6 DEF Credit

LEMMA CreditInit == Init => Credit
<1> SUFFICES ASSUME Init PROVE Credit
  OBVIOUS
<1>1. /\ counts = Nothing /\ responses = Nothing /\ req_table = Nothing /\ periods = << >>
  BY DEF Init, StatsInit
<1>2. DOMAIN Nothing = {} /\ DOMAIN periods = {}
  BY <1>1 DEF Nothing
<1>3. ASSUME NEW p PROVE Answered(p) + Cardinality(Open(p)) <= Made(p)
  <2>1. Open(p) = {} /\ At(counts, p) = 0 /\ At(responses, p) = 0
    BY <1>1, <1>2 DEF Open, At
  <2>2. Made(p) = 0 + 0 /\ Answered(p) = 0 + 0
    BY <1>2, <2>1, SumEmpty DEF Made, Answered
  <2>3. QED BY <2>1, <2>2, FS_EmptySet
<1>4. QED BY <1>1, <1>2, <1>3, FS_EmptySet DEF Credit

LEMMA CreditStep == IInv /\ CountsTyped /\ Credit /\ [Next]_vars => Credit'
<1> SUFFICES ASSUME IInv, CountsTyped, Credit, [Next]_vars
             PROVE  Credit'
  OBVIOUS
<1>1. CASE CountItem
  BY <1>1, Counted, CreditObserved
<1>2. CASE FinishPeriod
  BY <1>2, CreditPublished
<1>3. CASE UNCHANGED << counts, responses, req_table, periods >>
  <2>1. \A p : Made(p)' = Made(p) /\ Answered(p)' = Answered(p) /\ Open(p)' = Open(p)
    BY <1>3 DEF Made, Answered, Open
  <2>2. QED BY <1>3, <2>1 DEF Credit
<1>4. CountItem \/ FinishPeriod \/ UNCHANGED << counts, responses, req_table, periods >>
  BY DEF Next, Collect, Packet, NewPacket, Message, ModbusMessage, ApplicationHeader, ModbusRequest,
         ModbusResponse, HeaderBlock, HandleObjectHeader, HandleObjectPrefix, HandleItemGen,
         ItemGen, HandleMatch, EndPeriod, uncounted, vars, statsVars
<1>5. QED BY <1>1, <1>2, <1>3, <1>4

\* Of every function, the logs never show more requests answered than made, over all
\* periods and the one under way: a response answers at most one request, and one
\* request at most once, although both are matched by the connection (item_seen of
\* stats_count.bro).
THEOREM AnsweredOnceCorrect == Spec => []AnsweredOnce
<1>1. ASSUME CountsTyped, Credit PROVE AnsweredOnce
  <2>1. ASSUME NEW p PROVE Answered(p) <= Made(p)
    <3>1. Answered(p) + Cardinality(Open(p)) <= Made(p) /\ Cardinality(Open(p)) \in Nat
      BY <1>1, OpenFinite DEF Credit
    <3>2. Answered(p) \in Nat /\ Made(p) \in Nat
      BY <1>1, PeriodsSum
    <3>3. QED BY <3>1, <3>2
  <2>2. ASSUME NEW p
        PROVE  /\ FoldFunction(+, 0, [i \in DOMAIN periods |-> At(periods[i].num, p)]) + At(counts, p)
                    = Made(p)
               /\ FoldFunction(+, 0, [i \in DOMAIN periods |-> At(periods[i].num_res, p)]) + At(responses, p)
                    = Answered(p)
    BY DEF Made, Answered, FoldFunction, FoldFunctionOnSet, Sum, MapThenSumSet, MapThenFoldSet
  <2>3. QED BY <2>1, <2>2 DEF AnsweredOnce, At
<1>2. CountsTyped /\ Credit => AnsweredOnce
  BY <1>1
<1>3. QED BY <1>2, CreditInit, CreditStep, NodeInvariant, PTL DEF Spec

-----------------------------------------------------------------------------
(* The levels of the tree *)

Beyond(path, n) == {q \in Seq(Names) : Len(q) = n /\ SubSeq(q, 1, Len(path)) = path}

Held(path, n) == Sum(counts, DOMAIN counts \cap Beyond(path, n))

\* The levels whose paths are counted together
Levels ==
  /\ IsFiniteSet(DOMAIN counts)
  /\ \A p \in Seq(Names) : Len(p) \in {0, 1, 3, 4} => At(counts, p) = Held(p, Len(p) + 1)

LEMMA TotalIsSum == ASSUME NEW S PROVE Total(S) = Sum(counts, S)
BY DEF Total, Sum, MapThenSumSet, MapThenFoldSet

LEMMA HeldIsTotal ==
  ASSUME CountsTyped, NEW p \in Seq(Names), NEW n \in Nat, Len(p) <= n
  PROVE  Total(Below(p, n)) = Held(p, n)
<1>1. DOMAIN counts \subseteq Seq(Names)
  BY CountsAre DEF CountsTyped
<1>2. Below(p, n) = DOMAIN counts \cap Beyond(p, n)
  BY <1>1 DEF Below, Beyond
<1>3. QED BY <1>2, TotalIsSum DEF Held

\* The sum over a part R of the paths when the paths ps are counted.
LEMMA SumOfPlus ==
  ASSUME NEW f \in Counts, IsFiniteSet(DOMAIN f), NEW ps \in SUBSET Seq(Names), NEW R
  PROVE  LET g == Plus(f, ps)
         IN  /\ Sum(f, DOMAIN f \cap R) \in Nat
             /\ ps \cap R = {} => Sum(g, DOMAIN g \cap R) = Sum(f, DOMAIN f \cap R)
             /\ \A c : ps \cap R = {c} => Sum(g, DOMAIN g \cap R) = Sum(f, DOMAIN f \cap R) + 1
<1>1. PICK g : g = Plus(f, ps)
  OBVIOUS
<1>2. PICK S : S = DOMAIN f \cap R
  OBVIOUS
<1>3. IsFiniteSet(S) /\ S \subseteq DOMAIN f
  BY <1>2, FS_Intersection
<1>4. f \in [DOMAIN f -> Nat \ {0}]
  BY CountsAre
<1>5. /\ DOMAIN g = DOMAIN f \cup ps
      /\ \A p \in DOMAIN g : g[p] = (IF p \in DOMAIN f THEN f[p] ELSE 0) + (IF p \in ps THEN 1 ELSE 0)
  <2>1. /\ DOMAIN Plus(f, ps) = DOMAIN f \cup ps
        /\ \A p \in DOMAIN Plus(f, ps) :
             Plus(f, ps)[p] = (IF p \in DOMAIN f THEN f[p] ELSE 0) + (IF p \in ps THEN 1 ELSE 0)
    BY PlusCounts
  <2>2. QED BY <1>1, <2>1
<1>6. \A x \in S : f[x] \in Nat
  BY <1>3, <1>4
<1>7. Sum(f, S) \in Nat
  BY <1>3, <1>6, SumAdd
<1>8. ASSUME ps \cap R = {} PROVE Sum(g, DOMAIN g \cap R) = Sum(f, S)
  <2>1. DOMAIN g \cap R = S
    BY <1>2, <1>5, <1>8
  <2>2. \A x \in S : x \in DOMAIN f /\ x \notin ps /\ x \in DOMAIN g
    BY <1>2, <1>5, <1>8
  <2>3. \A x \in S : g[x] = f[x]
    <3>1. SUFFICES ASSUME NEW x \in S PROVE g[x] = f[x]
      OBVIOUS
    <3>2. g[x] = f[x] + 0 /\ f[x] \in Nat
      BY <1>5, <1>6, <2>2
    <3>3. QED BY <3>2
  <2>4. Sum(f, S) = Sum(g, S)
    BY <1>3, <1>6, <2>3, SumSame
  <2>5. QED BY <2>1, <2>4
<1>9. ASSUME NEW c, ps \cap R = {c} PROVE Sum(g, DOMAIN g \cap R) = Sum(f, S) + 1
  <2>1. DOMAIN g \cap R = S \cup {c} /\ c \in ps /\ c \in R /\ c \in DOMAIN g
    BY <1>2, <1>5, <1>9
  <2>2. \A x \in S \ {c} : x \in DOMAIN f /\ x \notin ps /\ x \in DOMAIN g
    BY <1>2, <1>5, <1>9
  <2>3. \A x \in S \ {c} : g[x] = f[x]
    <3>1. SUFFICES ASSUME NEW x \in S \ {c} PROVE g[x] = f[x]
      OBVIOUS
    <3>2. g[x] = f[x] + 0 /\ f[x] \in Nat
      BY <1>5, <1>6, <2>2
    <3>3. QED BY <3>2
  <2>4. g[c] = (IF c \in S THEN f[c] ELSE 0) + 1
    BY <1>2, <1>5, <2>1
  <2>5. Sum(g, S \cup {c}) = Sum(f, S) + 1
    BY <1>3, <1>6, <2>3, <2>4, SumMore
  <2>6. QED BY <2>1, <2>5
<1>10. QED BY <1>1, <1>2, <1>7, <1>8, <1>9

LEMMA FinitePaths == ASSUME NEW i PROVE IsFiniteSet(ItemPaths(i))
<1>1. /\ IsFiniteSet({<< >>, << i.sender >>, << i.sender, i.receiver >>})
      /\ IsFiniteSet({ProtocolPath(i), UnitPath(i), FunctionPath(i)})
  <2>1. \A a, b, c : IsFiniteSet({a, b, c})
    <3>1. SUFFICES ASSUME NEW a, NEW b, NEW c PROVE IsFiniteSet({a, b, c})
      OBVIOUS
    <3>2. IsFiniteSet({a}) /\ IsFiniteSet({b}) /\ IsFiniteSet({c})
      BY FS_Singleton
    <3>3. IsFiniteSet(({a} \cup {b}) \cup {c})
      BY <3>2, FS_Union
    <3>4. {a, b, c} = ({a} \cup {b}) \cup {c}
      OBVIOUS
    <3>5. QED BY <3>3, <3>4
  <2>2. QED BY <2>1
<1>2. IsFiniteSet({TargetPath(i)})
  BY FS_Singleton
<1>3. QED BY <1>1, <1>2, PathsAre DEF ItemPaths, PacketPaths

\* Of the paths of an item, those of the level after p
LEMMA Rungs ==
  ASSUME NEW i \in Item, NEW p \in Seq(Names), Len(p) \in {0, 1, 3, 4}
  PROVE  IF p \in ItemPaths(i) THEN \E c : ItemPaths(i) \cap Beyond(p, Len(p) + 1) = {c}
                               ELSE ItemPaths(i) \cap Beyond(p, Len(p) + 1) = {}
<1> DEFINE one == << i.sender >>
           two == << i.sender, i.receiver >>
<1>1. ItemPaths(i) \subseteq Seq(Names)
  BY ItemPathsTyped
<1>2. \A q \in Seq(Names) : q \in Beyond(p, Len(p) + 1) <=> Len(q) = Len(p) + 1 /\ Front(q) = p
  <2>1. SUFFICES ASSUME NEW q \in Seq(Names)
                 PROVE  q \in Beyond(p, Len(p) + 1) <=> Len(q) = Len(p) + 1 /\ Front(q) = p
    OBVIOUS
  <2>2. PICK n \in Nat : n = Len(p)
    OBVIOUS
  <2>3. Len(q) = n + 1 => Len(q) - 1 = n
    BY <2>2
  <2>4. Front(q) = SubSeq(q, 1, Len(q) - 1)
    BY DEF Front
  <2>5. QED BY <2>2, <2>3, <2>4 DEF Beyond
<1>3. PICK n \in {0, 1, 3, 4} : n = Len(p)
  OBVIOUS
<1>4. /\ Len(<< >>) = 0 /\ Len(one) = 1 /\ Len(two) = 2 /\ (n = 0 <=> p = << >>)
  BY <1>3, EmptySeq
<1> HIDE DEF one, two
<1>5. PICK B : B = Beyond(p, n + 1)
  OBVIOUS
<1>6. \A q \in ItemPaths(i) : q \in B <=> Len(q) = n + 1 /\ Front(q) = p
  BY <1>1, <1>2, <1>3, <1>5
<1>7. CASE i.protocol = None
  <2>1. ItemPaths(i) = {<< >>, one, two}
    BY <1>7 DEF ItemPaths, PacketPaths, one, two
  <2>2. Front(one) = << >> /\ Front(two) = one
    BY PathsAre DEF one, two
  <2>3. << >> \notin B /\ (one \in B <=> n = 0) /\ (two \in B <=> n = 1 /\ p = one)
    <3>1. /\ << >> \in B <=> 0 = n + 1 /\ Front(<< >>) = p
          /\ one \in B <=> 1 = n + 1 /\ Front(one) = p
          /\ two \in B <=> 2 = n + 1 /\ Front(two) = p
      BY <1>4, <1>6, <2>1
    <3>2. (0 = n + 1 <=> FALSE) /\ (1 = n + 1 <=> n = 0) /\ (2 = n + 1 <=> n = 1)
      OBVIOUS
    <3>3. QED BY <1>4, <2>2, <3>1, <3>2
  <2>4. p \in ItemPaths(i) <=> n = 0 \/ (n = 1 /\ p = one)
    <3>1. p = << >> => n = 0
      BY <1>4
    <3>2. p = one => n = 1
      BY <1>3, <1>4
    <3>3. p # two
      <4>1. n # 2
        OBVIOUS
      <4>2. QED BY <1>3, <1>4, <4>1
    <3>4. QED BY <1>4, <2>1, <3>1, <3>2, <3>3
  <2>5. n = 0 => ItemPaths(i) \cap B = {one}
    BY <2>1, <2>3
  <2>6. n = 1 /\ p = one => ItemPaths(i) \cap B = {two}
    BY <2>1, <2>3
  <2>7. ~(n = 0 \/ (n = 1 /\ p = one)) => ItemPaths(i) \cap B = {}
    BY <2>1, <2>3
  <2>8. QED BY <1>3, <1>5, <2>4, <2>5, <2>6, <2>7
<1>8. CASE i.protocol # None /\ i.target = None
  <2> DEFINE three == ProtocolPath(i)
             four == UnitPath(i)
             five == FunctionPath(i)
  <2>1. /\ ItemPaths(i) = {three, four, five}
        /\ Len(three) = 3 /\ Len(four) = 4 /\ Len(five) = 5
        /\ Front(three) = two /\ Front(four) = three /\ Front(five) = four
    BY <1>8, PathsAre DEF ItemPaths, two
  <2> HIDE DEF three, four, five
  <2>2. three \notin B /\ (four \in B <=> n = 3 /\ p = three) /\ (five \in B <=> n = 4 /\ p = four)
    <3>1. /\ three \in B <=> 3 = n + 1 /\ Front(three) = p
          /\ four \in B <=> 4 = n + 1 /\ Front(four) = p
          /\ five \in B <=> 5 = n + 1 /\ Front(five) = p
      BY <1>6, <2>1
    <3>2. (3 = n + 1 <=> FALSE) /\ (4 = n + 1 <=> n = 3) /\ (5 = n + 1 <=> n = 4)
      OBVIOUS
    <3>3. QED BY <2>1, <3>1, <3>2
  <2>3. p \in ItemPaths(i) <=> (n = 3 /\ p = three) \/ (n = 4 /\ p = four)
    <3>1. p = three => n = 3
      BY <1>3, <2>1
    <3>2. p = four => n = 4
      BY <1>3, <2>1
    <3>3. p # five
      <4>1. n # 5
        OBVIOUS
      <4>2. QED BY <1>3, <2>1, <4>1
    <3>4. QED BY <2>1, <3>1, <3>2, <3>3
  <2>4. n = 3 /\ p = three => ItemPaths(i) \cap B = {four}
    BY <2>1, <2>2
  <2>5. n = 4 /\ p = four => ItemPaths(i) \cap B = {five}
    BY <2>1, <2>2
  <2>6. ~((n = 3 /\ p = three) \/ (n = 4 /\ p = four)) => ItemPaths(i) \cap B = {}
    BY <2>1, <2>2
  <2>7. QED BY <1>3, <1>5, <2>3, <2>4, <2>5, <2>6
<1>9. CASE i.protocol # None /\ i.target # None
  <2>1. ItemPaths(i) = {TargetPath(i)} /\ Len(TargetPath(i)) = 6
    BY <1>9, PathsAre DEF ItemPaths
  <2>2. p # TargetPath(i) /\ TargetPath(i) \notin B
    <3>1. n # 6 /\ n + 1 # 6
      OBVIOUS
    <3>2. QED BY <1>3, <1>6, <2>1, <3>1
  <2>3. QED BY <1>3, <1>5, <2>1, <2>2
<1>10. QED BY <1>7, <1>8, <1>9

LEMMA LevelsObserved ==
  ASSUME CountsTyped, Levels, NEW i \in Item, counts' = Plus(counts, ItemPaths(i))
  PROVE  Levels'
<1>1. /\ counts \in Counts /\ IsFiniteSet(DOMAIN counts) /\ ItemPaths(i) \in SUBSET Seq(Names)
  BY ItemPathsTyped DEF Levels, CountsTyped
<1>2. DOMAIN counts' = DOMAIN counts \cup ItemPaths(i) /\ IsFiniteSet(DOMAIN counts')
  <2>1. DOMAIN Plus(counts, ItemPaths(i)) = DOMAIN counts \cup ItemPaths(i)
    BY <1>1, PlusCounts
  <2>2. IsFiniteSet(ItemPaths(i))
    BY FinitePaths
  <2>3. IsFiniteSet(DOMAIN counts \cup ItemPaths(i))
    BY <1>1, <2>2, FS_Union
  <2>4. QED BY <2>1, <2>3
<1>3. ASSUME NEW p \in Seq(Names), Len(p) \in {0, 1, 3, 4}
      PROVE  At(counts', p) = Held(p, Len(p) + 1)'
  <2>1. PICK R : R = Beyond(p, Len(p) + 1)
    OBVIOUS
  <2>2. /\ Held(p, Len(p) + 1) = Sum(counts, DOMAIN counts \cap R)
        /\ Held(p, Len(p) + 1)' = Sum(counts', DOMAIN counts' \cap R)
    BY <2>1 DEF Held
  <2>3. At(counts', p) = At(counts, p) + (IF p \in ItemPaths(i) THEN 1 ELSE 0)
    BY <1>1, PlusAt
  <2>4. /\ Sum(counts, DOMAIN counts \cap R) \in Nat
        /\ ItemPaths(i) \cap R = {} =>
             Sum(counts', DOMAIN counts' \cap R) = Sum(counts, DOMAIN counts \cap R)
        /\ \A c : ItemPaths(i) \cap R = {c} =>
             Sum(counts', DOMAIN counts' \cap R) = Sum(counts, DOMAIN counts \cap R) + 1
    <3>1. PICK f, ps : f = counts /\ ps = ItemPaths(i)
      OBVIOUS
    <3>2. LET g == Plus(f, ps)
          IN  /\ Sum(f, DOMAIN f \cap R) \in Nat
              /\ ps \cap R = {} => Sum(g, DOMAIN g \cap R) = Sum(f, DOMAIN f \cap R)
              /\ \A c : ps \cap R = {c} => Sum(g, DOMAIN g \cap R) = Sum(f, DOMAIN f \cap R) + 1
      <4>1. f \in Counts /\ IsFiniteSet(DOMAIN f) /\ ps \in SUBSET Seq(Names)
        BY <1>1, <3>1
      <4> HIDE <1>1, <3>1
      <4>2. QED BY <4>1, SumOfPlus
    <3>3. QED BY <3>1, <3>2
  <2>5. At(counts, p) = Sum(counts, DOMAIN counts \cap R)
    BY <1>3, <2>2 DEF Levels
  <2>6. IF p \in ItemPaths(i) THEN \E c : ItemPaths(i) \cap R = {c} ELSE ItemPaths(i) \cap R = {}
    BY <1>3, <2>1, Rungs
  <2>7. PICK a, b : a = Sum(counts, DOMAIN counts \cap R) /\ b = Sum(counts', DOMAIN counts' \cap R)
    OBVIOUS
  <2>8. a \in Nat /\ b = a + (IF p \in ItemPaths(i) THEN 1 ELSE 0)
    <3>1. CASE p \in ItemPaths(i)
      <4>1. PICK c : ItemPaths(i) \cap R = {c}
        BY <2>6, <3>1
      <4>2. b = a + 1
        BY <2>4, <2>7, <4>1
      <4>3. QED BY <2>4, <2>7, <3>1, <4>2
    <3>2. CASE p \notin ItemPaths(i)
      <4>1. b = a /\ a \in Nat
        BY <2>4, <2>6, <2>7, <3>2
      <4>2. QED BY <3>2, <4>1
    <3>3. QED BY <3>1, <3>2
  <2>9. QED BY <2>2, <2>3, <2>5, <2>7, <2>8
<1>4. QED BY <1>2, <1>3 DEF Levels

-----------------------------------------------------------------------------
(* Counting events *)

Places(E, q) == {i \in DOMAIN q : q[i] \in E}
Count(E, q) == Cardinality(Places(E, q))
Is(E, e) == IF e \in E THEN 1 ELSE 0

LEMMA CountNone == ASSUME NEW E PROVE Count(E, << >>) = 0
<1>1. Places(E, << >>) = {}
  BY DEF Places
<1>2. QED BY <1>1, FS_EmptySet DEF Count

LEMMA CountOne ==
  ASSUME NEW E, NEW e
  PROVE  Count(E, << e >>) = Is(E, e)
<1>1. DOMAIN << e >> = {1} /\ << e >>[1] = e
  OBVIOUS
<1>2. CASE e \in E
  <2>1. Places(E, << e >>) = {1}
    BY <1>1, <1>2 DEF Places
  <2>2. Cardinality({1}) = 1
    BY FS_Singleton
  <2>3. QED BY <1>2, <2>1, <2>2 DEF Count, Is
<1>3. CASE e \notin E
  <2>1. Places(E, << e >>) = {}
    BY <1>1, <1>3 DEF Places
  <2>2. QED BY <1>3, <2>1, FS_EmptySet DEF Count, Is
<1>4. QED BY <1>2, <1>3

LEMMA CountIsNat ==
  ASSUME NEW E, NEW S, NEW q \in Seq(S)
  PROVE  IsFiniteSet(Places(E, q)) /\ Count(E, q) \in Nat
<1>1. PICK n \in Nat : DOMAIN q = 1 .. n
  OBVIOUS
<1>2. IsFiniteSet(1 .. n)
  BY FS_Interval
<1>3. Places(E, q) \in SUBSET (1 .. n)
  BY <1>1 DEF Places
<1>4. QED BY <1>2, <1>3, FS_Subset, FS_CardinalityType DEF Count

LEMMA CountConcat ==
  ASSUME NEW E, NEW S, NEW a \in Seq(S), NEW b \in Seq(S)
  PROVE  Count(E, a \o b) = Count(E, a) + Count(E, b)
<1>1. PICK m \in Nat, n \in Nat : m = Len(a) /\ n = Len(b)
  OBVIOUS
<1>2. DOMAIN a = 1 .. m /\ DOMAIN b = 1 .. n
  BY <1>1
<1>3. PICK c : c = a \o b
  OBVIOUS
<1>4. /\ c \in Seq(S) /\ DOMAIN c = 1 .. m + n
      /\ \A i \in 1 .. m + n : c[i] = IF i <= m THEN a[i] ELSE b[i - m]
  <2>1. /\ a \o b \in Seq(S) /\ Len(a \o b) = Len(a) + Len(b)
        /\ \A i \in 1 .. Len(a) + Len(b) : (a \o b)[i] = IF i <= Len(a) THEN a[i] ELSE b[i - Len(a)]
    BY ConcatProperties
  <2>2. DOMAIN c = 1 .. Len(c)
    BY <1>3, <2>1
  <2>3. QED BY <1>1, <1>3, <2>1, <2>2
<1> DEFINE A == Places(E, a)
           B == Places(E, b)
           D == {i \in m + 1 .. m + n : c[i] \in E}
           f == [i \in B |-> m + i]
<1>5. Places(E, c) = A \cup D /\ A \cap D = {}
  <2>1. \A i \in 1 .. m : i \in 1 .. m + n /\ c[i] = a[i] /\ i \notin m + 1 .. m + n
    BY <1>4
  <2>2. \A i \in 1 .. m + n : i \in 1 .. m \/ i \in m + 1 .. m + n
    OBVIOUS
  <2>3. \A i \in m + 1 .. m + n : i \in 1 .. m + n /\ i \notin 1 .. m
    OBVIOUS
  <2>4. QED BY <1>2, <1>4, <2>1, <2>2, <2>3 DEF Places
<1>6. \A i \in 1 .. n : m + i \in m + 1 .. m + n /\ c[m + i] = b[i]
  <2>1. \A i \in 1 .. n : m + i \in 1 .. m + n /\ m + i \in m + 1 .. m + n /\ ~(m + i <= m) /\ m + i - m = i
    OBVIOUS
  <2>2. QED BY <1>4, <2>1
<1>7. f \in Bijection(B, D)
  <2>1. B \subseteq 1 .. n
    BY <1>2 DEF Places
  <2>2. \A i \in B : m + i \in D
    BY <1>6, <2>1 DEF Places
  <2>3. \A i, j \in B : m + i = m + j => i = j
    BY <2>1
  <2>4. ASSUME NEW k \in D PROVE \E i \in B : k = m + i
    <3>1. PICK i \in 1 .. n : k = m + i
      <4>1. k - m \in 1 .. n /\ k = m + (k - m)
        OBVIOUS
      <4>2. QED BY <4>1
    <3>2. c[k] = b[i] /\ c[k] \in E
      BY <1>6, <3>1
    <3>3. QED BY <1>2, <3>1, <3>2 DEF Places
  <2>5. f \in [B -> D] /\ \A i \in B : f[i] = m + i
    BY <2>2
  <2> HIDE DEF f, B, D
  <2>6. f \in Injection(B, D)
    BY <2>3, <2>5 DEF Injection, IsInjective
  <2>7. f \in Surjection(B, D)
    BY <2>4, <2>5 DEF Surjection
  <2>8. QED BY <2>6, <2>7 DEF Bijection
<1>8. IsFiniteSet(A) /\ Cardinality(A) \in Nat /\ IsFiniteSet(B) /\ Cardinality(B) \in Nat
  BY CountIsNat DEF Count
<1> HIDE DEF f, A, B, D
<1>9. IsFiniteSet(D) /\ Cardinality(D) = Cardinality(B)
  BY <1>7, <1>8, FS_Bijection DEF ExistsBijection
<1>10. Cardinality(A \cup D) = Cardinality(A) + Cardinality(D)
  <2>1. Cardinality(A \cup D) = Cardinality(A) + Cardinality(D) - Cardinality(A \cap D)
    BY <1>8, <1>9, FS_Union
  <2>2. Cardinality(A \cap D) = 0
    BY <1>5, FS_EmptySet
  <2>3. QED BY <1>8, <1>9, <2>1, <2>2
<1>11. Count(E, c) = Cardinality(A \cup D) /\ Count(E, a) = Cardinality(A) /\ Count(E, b) = Cardinality(B)
  BY <1>5 DEF Count, A, B
<1>12. QED BY <1>3, <1>9, <1>10, <1>11

\* What the queue gains and loses when its first event is handled.
LEMMA CountMoved ==
  ASSUME NEW E, NEW S, NEW s \in Seq(S), s # << >>, NEW e \in Seq(S), NEW t, t = Tail(s) \o e
  PROVE  /\ Count(E, t) + Is(E, s[1]) = Count(E, s) + Count(E, e)
         /\ Count(E, t) \in Nat /\ Count(E, s) \in Nat /\ Count(E, e) \in Nat
<1>1. PICK r \in Seq(S) : r = Tail(s)
  BY HeadTailProperties
<1>2. Len(s) \in Nat \ {0} /\ s[1] \in S /\ Len(s) >= 1
  <2>1. Len(s) \in Nat /\ Len(s) # 0
    BY EmptySeq
  <2>2. QED BY <2>1
<1>3. s = << s[1] >> \o r
  <2>1. SubSeq(s, 1, Len(s)) = << s[1] >> \o SubSeq(s, 1 + 1, Len(s))
    <3>1. 1 \in 1 .. Len(s) /\ Len(s) \in 1 .. Len(s)
      BY <1>2
    <3>2. QED BY <3>1, SubSeqRecursiveFirst
  <2>2. SubSeq(s, 1, Len(s)) = s
    BY SubSeqFull
  <2>3. r = SubSeq(s, 2, Len(s)) /\ 1 + 1 = 2
    BY <1>1, TailIsSubSeq
  <2>4. QED BY <2>1, <2>2, <2>3
<1>4. << s[1] >> \in Seq(S)
  BY <1>2
<1>5. Count(E, s) = Is(E, s[1]) + Count(E, r)
  <2>1. Count(E, << s[1] >> \o r) = Count(E, << s[1] >>) + Count(E, r)
    BY <1>4, CountConcat
  <2>2. QED BY <1>3, <2>1, CountOne
<1>6. Count(E, t) = Count(E, r) + Count(E, e)
  BY <1>1, CountConcat
<1>7. Count(E, r) \in Nat /\ Count(E, e) \in Nat /\ Is(E, s[1]) \in Nat
  BY CountIsNat DEF Is
<1>8. QED BY <1>5, <1>6, <1>7

-----------------------------------------------------------------------------
(* Targets and messages *)

\* Events that count a target, and events that count a message, in a packet of Modbus
Owing(P) == {e \in Events : P = "Modbus" /\ (e.type = "detail" \/ (e.type = "item_seen" /\ e.ref # 0))}
Promising(P) ==
  {e \in Events : /\ P = "Modbus"
                  /\ \/ e.type = "modbus_message"
                     \/ e.type = "item_seen" /\ e.ref = 0 /\ e.item.protocol = "Modbus"}

Protocols == {"Modbus", "DNP3"}

\* An event with a record of its own is about the packet of i, and has no target.
Resembles(e, i, P) ==
  e.type = "item_seen" /\ e.ref = 0 =>
    /\ e.item.protocol \in {None, P} /\ e.item.target = None
    /\ e.item.sender = i.sender /\ e.item.receiver = i.receiver

Speaks(P) ==
  /\ \A i \in DOMAIN queue :
       /\ queue[i].type \in {"modbus_message", "detail"} => P = "Modbus"
       /\ queue[i].type \in Dissections \ {"modbus_message", "detail"} => P = "DNP3"
       /\ Resembles(queue[i], items[Current], P)
  /\ InPacket => items[Current].protocol \in {None, P}

Pair == IF InPacket THEN << items[Current].sender, items[Current].receiver >>
                    ELSE << queue[1].packet.src, queue[1].packet.dst >>

\* A target that is counted, or will be, is one of a message that is, or will be before.
Covered(a, b, owed, promised) ==
  LET p == << a, b, "Modbus" >>
  IN  Held(p, 6) + (IF << a, b >> = Pair THEN owed ELSE 0)
        <= At(counts, p) + (IF << a, b >> = Pair THEN promised ELSE 0)

Balanced(P) ==
  \A a, b \in Names : Covered(a, b, Count(Owing(P), queue), Count(Promising(P), queue))

Targeted == \E P \in Protocols : Speaks(P) /\ Balanced(P)

LEMMA ModbusPath ==
  ASSUME NEW a \in Names, NEW b \in Names
  PROVE  << a, b, "Modbus" >> \in Seq(Names) /\ Len(<< a, b, "Modbus" >>) = 3
<1>1. "Modbus" \in Names
  BY DEF Names
<1>2. QED BY <1>1

LEMMA HeldIsNat ==
  ASSUME CountsTyped, Levels, NEW p, NEW n
  PROVE  Held(p, n) \in Nat /\ At(counts, p) \in Nat
<1>1. PICK f, S : f = counts /\ S = DOMAIN counts \cap Beyond(p, n)
  OBVIOUS
<1>2. f \in [DOMAIN f -> Nat \ {0}] /\ IsFiniteSet(DOMAIN f) /\ S \subseteq DOMAIN f
  BY <1>1, CountsAre DEF CountsTyped, Levels
<1>3. IsFiniteSet(S) /\ \A x \in S : f[x] \in Nat
  BY <1>2, FS_Subset
<1>4. Sum(f, S) \in Nat
  BY <1>3, SumAdd
<1>5. At(counts, p) \in Nat
  BY CountIsTally, AtIsNat DEF CountsTyped
<1>6. QED BY <1>1, <1>4, <1>5 DEF Held

LEMMA SpeaksStep ==
  ASSUME TypeInv, QueueOK, NEW events, Handles(events), NEW P \in Protocols, Speaks(P),
         << items'[Current'].sender, items'[Current'].receiver >> = Pair,
         items'[Current'].protocol \in {None, P},
         \A j \in DOMAIN events : Resembles(events[j], items'[Current'], P)
  PROVE  Speaks(P)'
<1>1. ASSUME NEW i \in DOMAIN queue'
      PROVE  /\ queue'[i].type \in {"modbus_message", "detail"} => P = "Modbus"
             /\ queue'[i].type \in Dissections \ {"modbus_message", "detail"} => P = "DNP3"
             /\ Resembles(queue'[i], items'[Current'], P)
  <2>1. PICK x, cur : x = queue'[i] /\ cur = items'[Current']
    OBVIOUS
  <2>2. CASE i + 1 \in DOMAIN queue /\ x = queue[i + 1]
    <3>1. PICK k \in DOMAIN queue : k = i + 1 /\ x = queue[k]
      BY <2>2
    <3>2. /\ x.type \in {"modbus_message", "detail"} => P = "Modbus"
          /\ x.type \in Dissections \ {"modbus_message", "detail"} => P = "DNP3"
          /\ Resembles(x, items[Current], P)
      BY <3>1 DEF Speaks
    <3>3. k # 1
      <4>1. i \in Nat \ {0}
        BY DEF Handles, MovedTo
      <4>2. QED BY <3>1, <4>1
    <3>4. x.type = "item_seen" => InPacket
      <4>1. queue[1].type = "new_packet" => x.type \in Dissections
        BY <3>1, <3>3 DEF QueueOK, PacketFirst
      <4>2. "item_seen" \notin Dissections /\ queue # << >>
        BY DEF Dissections, Handles
      <4>3. QED BY <4>1, <4>2 DEF InPacket
    <3>5. InPacket => cur.sender = items[Current].sender /\ cur.receiver = items[Current].receiver
      BY <2>1 DEF Pair
    <3>6. Resembles(x, cur, P)
      BY <3>2, <3>4, <3>5 DEF Resembles
    <3>7. QED BY <2>1, <3>2, <3>6
  <2>3. CASE \E j \in DOMAIN events : x = events[j]
    <3>1. PICK j \in DOMAIN events : x = events[j]
      BY <2>3
    <3>2. x.type \in Raised /\ Resembles(x, cur, P)
      BY <2>1, <3>1 DEF Handles
    <3>3. QED BY <2>1, <3>2 DEF Raised, Dissections
  <2>4. QED BY <2>1, <2>2, <2>3 DEF Handles, MovedTo
<1>2. QED BY <1>1 DEF Speaks

LEMMA PairKept ==
  ASSUME QueueOK, NEW events, Handles(events),
         << items'[Current'].sender, items'[Current'].receiver >> = Pair
  PROVE  queue' = << >> \/ Pair' = Pair
<1>1. ASSUME queue' # << >> PROVE InPacket'
  <2>1. \A i \in DOMAIN queue' : queue'[i].type # "new_packet"
    <3>1. ASSUME NEW i \in DOMAIN queue' PROVE queue'[i].type # "new_packet"
      <4>1. PICK x : x = queue'[i]
        OBVIOUS
      <4>2. CASE i + 1 \in DOMAIN queue /\ x = queue[i + 1]
        <5>1. PICK k \in DOMAIN queue : k = i + 1 /\ x = queue[k]
          BY <4>2
        <5>2. k # 1
          <6>1. i \in Nat \ {0}
            BY DEF Handles, MovedTo
          <6>2. QED BY <5>1, <6>1
        <5>3. QED BY <4>1, <5>1, <5>2 DEF QueueOK, PacketFirst
      <4>3. CASE \E j \in DOMAIN events : x = events[j]
        BY <4>1, <4>3 DEF Handles, Raised
      <4>4. QED BY <4>1, <4>2, <4>3 DEF Handles, MovedTo
    <3>2. QED BY <3>1
  <2>2. 1 \in DOMAIN queue'
    <3>1. queue' \in Seq(Events)
      BY DEF Handles
    <3>2. Len(queue') \in Nat \ {0} /\ DOMAIN queue' = 1 .. Len(queue')
      BY <1>1, <3>1, EmptySeq
    <3>3. QED BY <3>2
  <2>3. QED BY <1>1, <2>1, <2>2 DEF InPacket
<1>2. InPacket' => Pair' = << items'[Current'].sender, items'[Current'].receiver >>
  BY DEF Pair
<1>3. QED BY <1>1, <1>2

\* What the queue gains and loses
LEMMA CountHandled ==
  ASSUME TypeInv, queue # << >>, NEW events \in Seq(RaisedEvents), Raise(events), NEW E
  PROVE  /\ Count(E, queue') + Is(E, queue[1]) = Count(E, queue) + Count(E, events)
         /\ Count(E, queue') \in Nat /\ Count(E, queue) \in Nat /\ Count(E, events) \in Nat
         /\ Is(E, queue[1]) \in {0, 1}
<1>1. queue \in Seq(Events)
  BY DEF TypeInv
<1>2. events \in Seq(Events)
  <2>1. RaisedEvents \subseteq Events
    BY DEF Events
  <2>2. PICK R, S : R = RaisedEvents /\ S = Events
    OBVIOUS
  <2>3. events \in Seq(R) /\ R \subseteq S
    BY <2>1, <2>2
  <2>4. events \in Seq(S)
    BY <2>3
  <2>5. QED BY <2>2, <2>4
<1>3. PICK S, s, t : S = Events /\ s = queue /\ t = queue'
  OBVIOUS
<1>4. s \in Seq(S) /\ s # << >> /\ events \in Seq(S) /\ t = Tail(s) \o events
  BY <1>1, <1>2, <1>3 DEF Raise
<1>5. /\ Count(E, t) + Is(E, s[1]) = Count(E, s) + Count(E, events)
      /\ Count(E, t) \in Nat /\ Count(E, s) \in Nat /\ Count(E, events) \in Nat
  BY <1>4, CountMoved
<1>6. QED BY <1>3, <1>5 DEF Is

\* Steps that count nothing
LEMMA BalancedStep ==
  ASSUME IInv, CountsTyped, Levels, queue # << >>, NEW events \in Seq(RaisedEvents), Raise(events),
         counts' = counts, NEW P, Balanced(P), queue' = << >> \/ Pair' = Pair,
         Count(Owing(P), events) + Is(Promising(P), queue[1])
           <= Count(Promising(P), events) + Is(Owing(P), queue[1])
  PROVE  Balanced(P)'
<1>1. PICK E, F : E = Owing(P) /\ F = Promising(P)
  OBVIOUS
<1>2. /\ Count(E, queue') + Is(E, queue[1]) = Count(E, queue) + Count(E, events)
      /\ Count(F, queue') + Is(F, queue[1]) = Count(F, queue) + Count(F, events)
      /\ Count(E, queue') \in Nat /\ Count(E, queue) \in Nat /\ Count(E, events) \in Nat
      /\ Count(F, queue') \in Nat /\ Count(F, queue) \in Nat /\ Count(F, events) \in Nat
      /\ Is(E, queue[1]) \in Nat /\ Is(F, queue[1]) \in Nat
  <2>1. TypeInv
    BY DEF IInv
  <2>2. ASSUME NEW G
        PROVE  /\ Count(G, queue') + Is(G, queue[1]) = Count(G, queue) + Count(G, events)
               /\ Count(G, queue') \in Nat /\ Count(G, queue) \in Nat
               /\ Count(G, events) \in Nat /\ Is(G, queue[1]) \in {0, 1}
    BY <2>1, CountHandled
  <2>3. {0, 1} \subseteq Nat
    OBVIOUS
  <2>4. QED BY <2>2, <2>3
<1>3. Count(E, events) + Is(F, queue[1]) <= Count(F, events) + Is(E, queue[1])
  BY <1>1
<1>4. PICK m \in Nat, n \in Nat, m2 \in Nat, n2 \in Nat :
        /\ m = Count(E, queue) /\ n = Count(F, queue)
        /\ m2 = Count(E, queue') /\ n2 = Count(F, queue')
  BY <1>2
<1>5. m2 + n <= n2 + m
  <2>1. PICK i \in Nat, j \in Nat, k \in Nat, l \in Nat :
          /\ i = Count(E, events) /\ j = Count(F, events)
          /\ k = Is(E, queue[1]) /\ l = Is(F, queue[1])
    BY <1>2
  <2>2. m2 + k = m + i /\ n2 + l = n + j /\ i + l <= j + k
    BY <1>2, <1>3, <1>4, <2>1
  <2>3. QED BY <2>2
<1>6. queue' = << >> => m2 = 0 /\ n2 = 0
  BY <1>4, CountNone
<1>7. ASSUME NEW a \in Names, NEW b \in Names
      PROVE  Covered(a, b, m2, n2)'
  <2>1. PICK p : p = << a, b, "Modbus" >>
    OBVIOUS
  <2>2. PICK h, c : h = Held(p, 6) /\ c = At(counts, p)
    OBVIOUS
  <2>3. Held(p, 6)' = h /\ At(counts', p) = c
    BY <2>2 DEF Held
  <2>4. h \in Nat /\ c \in Nat
    BY <2>2, HeldIsNat
  <2>5. h + (IF << a, b >> = Pair THEN m ELSE 0) <= c + (IF << a, b >> = Pair THEN n ELSE 0)
    BY <1>1, <1>4, <2>1, <2>2 DEF Balanced, Covered
  <2>6. h + (IF << a, b >> = Pair' THEN m2 ELSE 0) <= c + (IF << a, b >> = Pair' THEN n2 ELSE 0)
    <3>1. CASE << a, b >> = Pair
      <4>1. h + m2 <= c + n2
        BY <1>5, <2>4, <2>5, <3>1
      <4>2. CASE queue' = << >>
        BY <1>6, <2>4, <4>1, <4>2
      <4>3. CASE Pair' = Pair
        BY <2>4, <3>1, <4>1, <4>3
      <4>4. QED BY <4>2, <4>3
    <3>2. CASE << a, b >> # Pair
      <4>1. h <= c
        BY <2>4, <2>5, <3>2
      <4>2. CASE queue' = << >>
        BY <1>6, <2>4, <4>1, <4>2
      <4>3. CASE Pair' = Pair
        BY <2>4, <3>2, <4>1, <4>3
      <4>4. QED BY <4>2, <4>3
    <3>3. QED BY <3>1, <3>2
  <2>7. QED BY <2>1, <2>3, <2>6 DEF Covered
<1>8. Owing(P)' = E /\ Promising(P)' = F
  BY <1>1 DEF Owing, Promising
<1>9. \A a, b \in Names : Covered(a, b, m2, n2)'
  BY <1>7
<1>10. QED BY <1>4, <1>8, <1>9 DEF Balanced, Covered

LEMMA TargetedStep ==
  ASSUME IInv, CountsTyped, Levels, Targeted, queue # << >>,
         NEW events \in Seq(RaisedEvents), Raise(events), counts' = counts,
         << items'[Current'].sender, items'[Current'].receiver >> = Pair,
         \A P \in Protocols : Speaks(P) =>
           /\ items'[Current'].protocol \in {None, P}
           /\ \A j \in DOMAIN events : Resembles(events[j], items'[Current'], P)
           /\ Count(Owing(P), events) + Is(Promising(P), queue[1])
                <= Count(Promising(P), events) + Is(Owing(P), queue[1])
  PROVE  Targeted'
<1>1. TypeInv /\ QueueOK /\ Handles(events)
  BY RaiseHandles DEF IInv
<1>2. PICK P \in Protocols : Speaks(P) /\ Balanced(P)
  BY DEF Targeted
<1>3. Speaks(P)'
  BY <1>1, <1>2, SpeaksStep
<1>4. queue' = << >> \/ Pair' = Pair
  BY <1>1, PairKept
<1>5. Balanced(P)'
  BY <1>2, <1>4, BalancedStep
<1>6. QED BY <1>2, <1>3, <1>5 DEF Targeted

\* Steps that raise nothing that counts, and are not asked to
LEMMA TargetedQuiet ==
  ASSUME IInv, CountsTyped, Levels, Targeted, queue # << >>,
         NEW events \in Seq(RaisedEvents), Raise(events), counts' = counts,
         queue[1].type \notin {"new_packet", "modbus_message", "item_seen"},
         << items'[Current'].sender, items'[Current'].receiver, items'[Current'].protocol >>
           = << items[Current].sender, items[Current].receiver, items[Current].protocol >>,
         \A j \in DOMAIN events : events[j].type # "item_seen"
  PROVE  Targeted'
<1>1. InPacket
  BY DEF InPacket
<1>2. << items'[Current'].sender, items'[Current'].receiver >> = Pair
  BY <1>1 DEF Pair
<1>3. ASSUME NEW P \in Protocols, Speaks(P)
      PROVE  /\ items'[Current'].protocol \in {None, P}
             /\ \A j \in DOMAIN events : Resembles(events[j], items'[Current'], P)
             /\ Count(Owing(P), events) + Is(Promising(P), queue[1])
                  <= Count(Promising(P), events) + Is(Owing(P), queue[1])
  <2>1. items'[Current'].protocol \in {None, P}
    BY <1>1, <1>3 DEF Speaks
  <2>2. \A j \in DOMAIN events : Resembles(events[j], items'[Current'], P)
    BY DEF Resembles
  <2>3. Is(Promising(P), queue[1]) = 0
    BY DEF Is, Promising
  <2>4. \A j \in DOMAIN events : events[j].type \in Raised
    BY DEF RaisedEvents, Raised
  <2>5. Places(Owing(P), events) = {}
    BY <2>4 DEF Places, Owing, Raised
  <2>6. Count(Owing(P), events) = 0
    BY <2>5, FS_EmptySet DEF Count
  <2>7. Count(Promising(P), events) \in Nat /\ Is(Owing(P), queue[1]) \in Nat
    BY CountIsNat DEF Is
  <2>8. QED BY <2>1, <2>2, <2>3, <2>6, <2>7
<1>4. QED BY <1>2, <1>3, TargetedStep

\* The counter's own steps and those of a packet, one by one
LEMMA MessageTargeted ==
  ASSUME IInv, CountsTyped, Levels, Targeted, NEW type \in Messages, Message(type)
  PROVE  Targeted'
<1> DEFINE pdu == queue[1].pdu
           old == items[Current]
<1>1. TypeInv /\ queue # << >> /\ Head(queue).type = type
  BY DEF IInv, Message, Event
<1>2. /\ Head(queue) = queue[1] /\ 1 \in DOMAIN queue /\ queue[1] \in Events /\ queue[1].type = type
      /\ InPacket /\ Current > 0 /\ Current \in Nat \ {0} /\ old \in Item
  BY <1>1, HeadEvent DEF Messages
<1>3. /\ type = "modbus_message" => pdu \in Modbus
      /\ type = "application_header" => pdu \in Dnp3
      /\ pdu \in Modbus \cup Dnp3
  BY <1>2, EventFields DEF Messages
<1>4. pdu.protocol = IF type = "modbus_message" THEN "Modbus" ELSE "DNP3"
  BY <1>3 DEF Messages, Modbus, Dnp3
<1>5. PICK d, s : d = Described(pdu) /\ s = [Described(pdu) EXCEPT !.target = None]
  OBVIOUS
<1>6. /\ d \in Item /\ s \in Item /\ d.sender = old.sender /\ d.receiver = old.receiver
      /\ d.protocol = pdu.protocol /\ s.protocol = d.protocol /\ s.target = None
  BY <1>2, <1>3, <1>5, DescribedItem
<1>7. s.sender = d.sender /\ s.receiver = d.receiver
  <2>1. s = [d EXCEPT !.target = None]
    BY <1>5
  <2>2. QED BY <1>6, <2>1 DEF Item
<1>8. items' = [items EXCEPT ![Current] = d] /\ Raise(<< ItemSeen(s) >>) /\ counts' = counts
  BY <1>2, <1>5 DEF Message, uncounted
<1>9. items'[Current'] = d
  BY <1>1, <1>2, <1>6, <1>8, CurrentSet
<1>10. PICK e : e = ItemSeen(s)
  OBVIOUS
<1>11. /\ e \in RaisedEvents /\ e.type = "item_seen" /\ e.item = s /\ e.ref = 0
  BY <1>6, <1>10, EventsRaised
<1>12. << e >> \in Seq(RaisedEvents) /\ DOMAIN << e >> = {1} /\ << e >>[1] = e
  BY <1>11, OneRaised
<1>13. << items'[Current'].sender, items'[Current'].receiver >> = Pair
  BY <1>2, <1>6, <1>9 DEF Pair
<1>14. ASSUME NEW P \in Protocols, Speaks(P)
       PROVE  /\ items'[Current'].protocol \in {None, P}
              /\ \A j \in DOMAIN << e >> : Resembles(<< e >>[j], items'[Current'], P)
              /\ Count(Owing(P), << e >>) + Is(Promising(P), queue[1])
                   <= Count(Promising(P), << e >>) + Is(Owing(P), queue[1])
  <2>1. pdu.protocol = P
    <3>1. /\ queue[1].type \in {"modbus_message", "detail"} => P = "Modbus"
          /\ queue[1].type \in Dissections \ {"modbus_message", "detail"} => P = "DNP3"
      BY <1>2, <1>14 DEF Speaks
    <3>2. QED BY <1>2, <1>4, <3>1 DEF Messages, Dissections
  <2>2. Resembles(e, d, P)
    BY <1>6, <1>7, <1>11, <2>1 DEF Resembles
  <2>3. e \notin Owing(P) /\ (P = "Modbus" => e \in Promising(P))
    BY <1>6, <1>11, <2>1 DEF Owing, Promising, Events
  <2>4. P # "Modbus" => queue[1] \notin Promising(P)
    BY DEF Promising
  <2>5. Count(Owing(P), << e >>) = 0 /\ Count(Promising(P), << e >>) = Is(Promising(P), e)
    BY <2>3, CountOne DEF Is
  <2>6. Is(Promising(P), queue[1]) <= Is(Promising(P), e)
    BY <2>3, <2>4 DEF Is
  <2>7. Is(Promising(P), queue[1]) \in Nat /\ Is(Promising(P), e) \in Nat /\ Is(Owing(P), queue[1]) \in Nat
    BY DEF Is
  <2>8. QED BY <1>6, <1>9, <1>12, <2>1, <2>2, <2>5, <2>6, <2>7
<1>15. QED
  <2>1. Raise(<< e >>)
    BY <1>8, <1>10
  <2>2. QED BY <1>1, <1>8, <1>12, <1>13, <1>14, <2>1, TargetedStep

LEMMA TargetTargeted ==
  ASSUME IInv, CountsTyped, Levels, Targeted, queue # << >>, queue[1].type \in Details,
         NEW t \in Targets, WithTarget(t), counts' = counts
  PROVE  Targeted'
<1> DEFINE old == items[Current]
<1>1. TypeInv
  BY DEF IInv
<1>2. /\ 1 \in DOMAIN queue /\ queue[1] \in Events /\ old \in Item
      /\ InPacket /\ Current > 0 /\ Current \in Nat \ {0}
  BY HeadEvent DEF Details
<1>3. /\ items' = [items EXCEPT ![Current].target = t]
      /\ Raise(<< SeenRef(Current), GenRef(Current) >>)
  BY DEF WithTarget
<1>4. PICK i : i = [old EXCEPT !.target = t]
  OBVIOUS
<1>5. items' = [items EXCEPT ![Current] = i] /\ i \in Item
  BY <1>1, <1>2, <1>3, <1>4, TargetItem
<1>6. i.sender = old.sender /\ i.receiver = old.receiver /\ i.protocol = old.protocol
  BY <1>2, <1>4 DEF Item
<1>7. items'[Current'] = i
  BY <1>1, <1>2, <1>5, CurrentSet
<1>8. PICK e, f : e = SeenRef(Current) /\ f = GenRef(Current)
  OBVIOUS
<1>9. /\ e \in RaisedEvents /\ e.type = "item_seen" /\ e.ref # 0
      /\ f \in RaisedEvents /\ f.type = "item_gen"
  BY <1>2, <1>8, EventsRaised
<1>10. << e, f >> \in Seq(RaisedEvents) /\ DOMAIN << e, f >> = {1, 2}
       /\ << e, f >>[1] = e /\ << e, f >>[2] = f
  BY <1>9, TwoRaised
<1>11. << items'[Current'].sender, items'[Current'].receiver >> = Pair
  BY <1>2, <1>6, <1>7 DEF Pair
<1>12. ASSUME NEW P \in Protocols, Speaks(P)
       PROVE  /\ items'[Current'].protocol \in {None, P}
              /\ \A j \in DOMAIN << e, f >> : Resembles(<< e, f >>[j], items'[Current'], P)
              /\ Count(Owing(P), << e, f >>) + Is(Promising(P), queue[1])
                   <= Count(Promising(P), << e, f >>) + Is(Owing(P), queue[1])
  <2>1. items'[Current'].protocol \in {None, P}
    BY <1>2, <1>6, <1>7, <1>12 DEF Speaks
  <2>2. \A j \in DOMAIN << e, f >> : Resembles(<< e, f >>[j], items'[Current'], P)
    BY <1>9, <1>10 DEF Resembles
  <2>3. Is(Promising(P), queue[1]) = 0
    BY DEF Is, Promising, Details
  <2>4. Count(Owing(P), << e, f >>) = Is(Owing(P), e) + Is(Owing(P), f)
    <3>1. << e >> \in Seq(RaisedEvents) /\ << f >> \in Seq(RaisedEvents)
      BY <1>9, OneRaised
    <3>2. Count(Owing(P), << e >> \o << f >>) = Count(Owing(P), << e >>) + Count(Owing(P), << f >>)
      BY <3>1, CountConcat
    <3>3. << e >> \o << f >> = << e, f >>
      BY Joined
    <3>4. QED BY <3>2, <3>3, CountOne
  <2>5. f \notin Owing(P)
    BY <1>9 DEF Owing
  <2>6. e \in Owing(P) => queue[1] \in Owing(P)
    <3>1. SUFFICES ASSUME P = "Modbus" PROVE queue[1] \in Owing(P)
      BY DEF Owing
    <3>2. queue[1].type \notin Dissections \ {"modbus_message", "detail"}
      BY <1>2, <1>12, <3>1 DEF Speaks
    <3>3. queue[1].type = "detail"
      BY <3>2 DEF Details, Dissections
    <3>4. QED BY <1>2, <3>1, <3>3 DEF Owing
  <2>7. Is(Owing(P), e) <= Is(Owing(P), queue[1]) /\ Is(Owing(P), f) = 0
    BY <2>5, <2>6 DEF Is
  <2>8. Count(Promising(P), << e, f >>) \in Nat /\ Is(Owing(P), queue[1]) \in Nat /\ Is(Owing(P), e) \in Nat
    BY <1>10, CountIsNat DEF Is
  <2>9. QED BY <2>1, <2>2, <2>3, <2>4, <2>7, <2>8
<1>13. QED
  <2>1. Raise(<< e, f >>)
    BY <1>3, <1>8
  <2>2. QED BY <1>10, <1>11, <1>12, <2>1, TargetedStep

\* An event that raises nothing and leaves the item as it is
LEMMA DropTargeted ==
  ASSUME IInv, CountsTyped, Levels, Targeted, queue # << >>, Raise(<< >>),
         items' = items, counts' = counts,
         queue[1].type \notin {"new_packet", "modbus_message", "item_seen"}
  PROVE  Targeted'
<1>1. Current' = Current
  BY DEF Current
<1>2. items'[Current'] = items[Current]
  BY <1>1
<1>3. QED BY <1>2, NoneRaised, TargetedQuiet

LEMMA NewPacketTargeted ==
  ASSUME IInv, CountsTyped, Levels, Targeted, NewPacket
  PROVE  Targeted'
<1> DEFINE p == queue[1].packet
<1>1. TypeInv /\ queue # << >> /\ Head(queue).type = "new_packet"
  BY DEF IInv, NewPacket, Event
<1>2. Head(queue) = queue[1] /\ queue[1] \in Events /\ queue[1].type = "new_packet"
  BY <1>1, HeadEvent
<1>3. ~InPacket /\ Current \in Nat
  BY <1>1, <1>2, CurrentItem DEF InPacket
<1>4. p.link \in Links /\ p.src \in Hosts /\ p.dst \in Hosts
  <2>1. p \in Packets
    BY <1>2, EventFields
  <2>2. QED BY <2>1, StatsAssumption
<1>5. PICK i : i = [link |-> p.link, sender |-> p.src, receiver |-> p.dst, protocol |-> None,
                    unit |-> None, func |-> None, is_response |-> FALSE, target |-> None]
  OBVIOUS
<1>6. /\ i \in Item /\ i.sender = p.src /\ i.receiver = p.dst
      /\ i.protocol = None /\ i.target = None
  BY <1>4, <1>5 DEF Item
<1>7. PICK gen, seen : gen = (IF wait THEN << GenRef(Current) >> ELSE << >>) /\ seen = ItemSeen(i)
  OBVIOUS
<1>8. items' = Append(items, i) /\ Raise(gen \o << seen >>) /\ counts' = counts
  BY <1>2, <1>5, <1>7 DEF NewPacket, uncounted
<1>9. items'[Current'] = i
  BY <1>1, <1>6, <1>8, CurrentAdded
<1>10. /\ seen \in RaisedEvents /\ seen.type = "item_seen" /\ seen.item = i /\ seen.ref = 0
  BY <1>6, <1>7, EventsRaised
<1>11. gen \in Seq(RaisedEvents) /\ \A j \in DOMAIN gen : gen[j].type = "item_gen"
  <2>1. CASE wait
    <3>1. GenRef(Current) \in RaisedEvents /\ GenRef(Current).type = "item_gen"
      BY <1>3, EventsRaised
    <3>2. gen = << GenRef(Current) >>
      BY <1>7, <2>1
    <3>3. QED BY <3>1, <3>2, OneRaised
  <2>2. CASE ~wait
    BY <1>7, <2>2, NoneRaised
  <2>3. QED BY <2>1, <2>2
<1>12. << seen >> \in Seq(RaisedEvents)
  BY <1>10, OneRaised
<1>13. PICK events : events = gen \o << seen >>
  OBVIOUS
<1>14. events \in Seq(RaisedEvents) /\ \A j \in DOMAIN events : events[j] = seen \/ events[j].type = "item_gen"
  <2>1. PICK R, b : R = RaisedEvents /\ b = << seen >>
    OBVIOUS
  <2>2. gen \in Seq(R) /\ b \in Seq(R) /\ Len(b) = 1 /\ b[1] = seen
    BY <1>11, <1>12, <2>1
  <2>3. /\ gen \o b \in Seq(R) /\ Len(gen \o b) = Len(gen) + Len(b)
        /\ \A j \in 1 .. Len(gen) + Len(b) : (gen \o b)[j] = IF j <= Len(gen) THEN gen[j] ELSE b[j - Len(gen)]
    BY <2>2, ConcatProperties
  <2>4. PICK n \in Nat : n = Len(gen) /\ DOMAIN gen = 1 .. n
    BY <2>2
  <2>5. DOMAIN events = 1 .. n + 1 /\ \A j \in 1 .. n + 1 : events[j] = IF j <= n THEN gen[j] ELSE b[j - n]
    BY <1>13, <2>1, <2>2, <2>3, <2>4
  <2>6. \A j \in 1 .. n + 1 : j \in 1 .. n \/ (~(j <= n) /\ j - n = 1)
    OBVIOUS
  <2>7. QED BY <1>11, <1>13, <2>1, <2>2, <2>3, <2>4, <2>5, <2>6
<1>15. << items'[Current'].sender, items'[Current'].receiver >> = Pair
  BY <1>3, <1>6, <1>9 DEF Pair
<1>16. ASSUME NEW P \in Protocols, Speaks(P)
       PROVE  /\ items'[Current'].protocol \in {None, P}
              /\ \A j \in DOMAIN events : Resembles(events[j], items'[Current'], P)
              /\ Count(Owing(P), events) + Is(Promising(P), queue[1])
                   <= Count(Promising(P), events) + Is(Owing(P), queue[1])
  <2>1. Resembles(seen, i, P)
    BY <1>6, <1>10 DEF Resembles
  <2>2. \A j \in DOMAIN events : Resembles(events[j], i, P)
    BY <1>14, <2>1 DEF Resembles
  <2>3. Is(Promising(P), queue[1]) = 0
    BY <1>2 DEF Is, Promising
  <2>4. Places(Owing(P), events) = {}
    BY <1>10, <1>14 DEF Places, Owing
  <2>5. Count(Owing(P), events) = 0
    BY <2>4, FS_EmptySet DEF Count
  <2>6. Count(Promising(P), events) \in Nat /\ Is(Owing(P), queue[1]) \in Nat
    BY <1>14, CountIsNat DEF Is
  <2>7. QED BY <1>6, <1>9, <2>2, <2>3, <2>5, <2>6
<1>17. QED BY <1>1, <1>8, <1>13, <1>14, <1>15, <1>16, TargetedStep

\* What counting an item adds to the messages and the targets of Modbus between two hosts
LEMMA ItemCovers ==
  ASSUME CountsTyped, Levels, NEW i \in Item, counts' = Plus(counts, ItemPaths(i)),
         NEW a \in Names, NEW b \in Names
  PROVE  LET p == << a, b, "Modbus" >>
             here == << a, b >> = << i.sender, i.receiver >> /\ i.protocol = "Modbus"
         IN  /\ At(counts', p) = At(counts, p) + (IF here /\ i.target = None THEN 1 ELSE 0)
             /\ Held(p, 6)' = Held(p, 6) + (IF here /\ i.target # None THEN 1 ELSE 0)
<1>1. PICK p : p = << a, b, "Modbus" >>
  OBVIOUS
<1>2. p \in Seq(Names) /\ Len(p) = 3
  BY <1>1, ModbusPath
<1>3. PICK f, ps, R : f = counts /\ ps = ItemPaths(i) /\ R = Beyond(p, 6)
  OBVIOUS
<1>4. f \in Counts /\ IsFiniteSet(DOMAIN f) /\ ps \in SUBSET Seq(Names) /\ counts' = Plus(f, ps)
  BY <1>3, ItemPathsTyped DEF CountsTyped, Levels
<1>5. i.protocol \in {"Modbus", "DNP3", None} /\ None # "Modbus"
  BY NoneIsNone DEF Item
<1>6. /\ Len(<< >>) = 0 /\ Len(<< i.sender >>) = 1 /\ Len(<< i.sender, i.receiver >>) = 2
      /\ Len(ProtocolPath(i)) = 3 /\ Len(UnitPath(i)) = 4 /\ Len(FunctionPath(i)) = 5
      /\ Len(TargetPath(i)) = 6 /\ SubSeq(TargetPath(i), 1, 3) = ProtocolPath(i)
      /\ MessagePaths(i) = {ProtocolPath(i), UnitPath(i), FunctionPath(i)}
  BY PathsAre
<1> DEFINE here == << a, b >> = << i.sender, i.receiver >> /\ i.protocol = "Modbus"
<1>7. p = ProtocolPath(i) <=> here
  BY <1>1 DEF ProtocolPath
<1>8. \A q \in ps : Len(q) = 6 <=> i.protocol # None /\ i.target # None /\ q = TargetPath(i)
  <2>1. CASE i.protocol = None
    <3>1. \A q \in ps : Len(q) \in {0, 1, 2}
      BY <1>3, <1>6, <2>1 DEF ItemPaths, PacketPaths
    <3>2. QED BY <2>1, <3>1
  <2>2. CASE i.protocol # None /\ i.target = None
    <3>1. \A q \in ps : Len(q) \in {3, 4, 5}
      BY <1>3, <1>6, <2>2 DEF ItemPaths
    <3>2. QED BY <2>2, <3>1
  <2>3. CASE i.protocol # None /\ i.target # None
    <3>1. ps = {TargetPath(i)}
      BY <1>3, <2>3 DEF ItemPaths
    <3>2. QED BY <1>6, <2>3, <3>1
  <2>4. QED BY <2>1, <2>2, <2>3
<1>9. p \in ps <=> here /\ i.target = None
  <2>1. CASE i.protocol = None
    <3>1. ps = PacketPaths(i)
      BY <1>3, <2>1 DEF ItemPaths
    <3>2. p \notin ps
      <4>1. \A q \in ps : Len(q) \in {0, 1, 2}
        BY <1>6, <3>1 DEF PacketPaths
      <4>2. 3 \notin {0, 1, 2}
        OBVIOUS
      <4>3. QED BY <1>2, <4>1, <4>2
    <3>3. QED BY <1>5, <2>1, <3>2
  <2>2. CASE i.protocol # None /\ i.target = None
    <3>1. ps = {ProtocolPath(i), UnitPath(i), FunctionPath(i)}
      BY <1>3, <1>6, <2>2 DEF ItemPaths
    <3>2. p # UnitPath(i) /\ p # FunctionPath(i)
      BY <1>2, <1>6
    <3>3. QED BY <1>7, <2>2, <3>1, <3>2
  <2>3. CASE i.protocol # None /\ i.target # None
    <3>1. ps = {TargetPath(i)}
      BY <1>3, <2>3 DEF ItemPaths
    <3>2. p # TargetPath(i)
      <4>1. Len(p) # Len(TargetPath(i))
        BY <1>2, <1>6
      <4>2. QED BY <4>1
    <3>3. QED BY <2>3, <3>1, <3>2
  <2>4. QED BY <2>1, <2>2, <2>3
<1>10. IF here /\ i.target # None THEN \E c : ps \cap R = {c} ELSE ps \cap R = {}
  <2>1. \A q \in ps : q \in R <=> Len(q) = 6 /\ SubSeq(q, 1, 3) = p
    BY <1>2, <1>3, <1>4 DEF Beyond
  <2>2. \A q \in ps : q \in R <=> here /\ i.target # None /\ q = TargetPath(i)
    <3>1. here => i.protocol # None
      BY <1>5
    <3>2. QED BY <1>6, <1>7, <1>8, <2>1, <3>1
  <2>3. here /\ i.target # None => TargetPath(i) \in ps
    BY <1>3, <1>5 DEF ItemPaths
  <2>4. here /\ i.target # None => ps \cap R = {TargetPath(i)}
    BY <2>2, <2>3
  <2>5. ~(here /\ i.target # None) => ps \cap R = {}
    BY <2>2
  <2>6. QED BY <2>4, <2>5
<1> HIDE DEF here
<1>11. At(counts', p) = At(counts, p) + (IF p \in ps THEN 1 ELSE 0)
  BY <1>3, <1>4, PlusAt
<1>12. /\ Sum(f, DOMAIN f \cap R) \in Nat
       /\ ps \cap R = {} => Sum(Plus(f, ps), DOMAIN Plus(f, ps) \cap R) = Sum(f, DOMAIN f \cap R)
       /\ \A c : ps \cap R = {c} =>
            Sum(Plus(f, ps), DOMAIN Plus(f, ps) \cap R) = Sum(f, DOMAIN f \cap R) + 1
  <2> HIDE <1>3
  <2>1. LET g == Plus(f, ps)
        IN  /\ Sum(f, DOMAIN f \cap R) \in Nat
            /\ ps \cap R = {} => Sum(g, DOMAIN g \cap R) = Sum(f, DOMAIN f \cap R)
            /\ \A c : ps \cap R = {c} => Sum(g, DOMAIN g \cap R) = Sum(f, DOMAIN f \cap R) + 1
    <3>1. f \in Counts /\ IsFiniteSet(DOMAIN f) /\ ps \in SUBSET Seq(Names)
      BY <1>4
    <3>2. QED BY <3>1, SumOfPlus
  <2>2. QED BY <2>1
<1>13. /\ Held(p, 6) = Sum(f, DOMAIN f \cap R)
       /\ Held(p, 6)' = Sum(Plus(f, ps), DOMAIN Plus(f, ps) \cap R)
  BY <1>3, <1>4 DEF Held
<1>14. Held(p, 6)' = Held(p, 6) + (IF here /\ i.target # None THEN 1 ELSE 0)
  <2>1. CASE here /\ i.target # None
    <3>1. PICK c : ps \cap R = {c}
      BY <1>10, <2>1
    <3>2. QED BY <1>12, <1>13, <2>1, <3>1
  <2>2. CASE ~(here /\ i.target # None)
    <3>1. ps \cap R = {}
      BY <1>10, <2>2
    <3>2. PICK n \in Nat : n = Sum(f, DOMAIN f \cap R)
      BY <1>12
    <3>3. Held(p, 6) = n /\ Held(p, 6)' = n
      BY <1>12, <1>13, <3>1, <3>2
    <3>4. QED BY <2>2, <3>3
  <2>3. QED BY <2>1, <2>2
<1>15. At(counts', p) = At(counts, p) + (IF here /\ i.target = None THEN 1 ELSE 0)
  BY <1>9, <1>11
<1>16. QED BY <1>1, <1>14, <1>15 DEF here

LEMMA CountItemTargeted ==
  ASSUME IInv, CountsTyped, Levels, Targeted, CountItem
  PROVE  Targeted'
<1>1. TypeInv /\ QueueOK /\ queue # << >> /\ Head(queue).type = "item_seen"
  BY DEF IInv, CountItem, Event
<1>2. /\ 1 \in DOMAIN queue /\ queue[1] \in Events /\ queue[1].type = "item_seen"
      /\ InPacket /\ items[Current] \in Item
  BY <1>1, HeadEvent
<1>3. PICK i \in Item : /\ i = IF queue[1].ref = 0 THEN queue[1].item ELSE items[Current]
                        /\ counts' = Plus(counts, ItemPaths(i))
  BY Counted
<1>4. Raise(<< >>) /\ items' = items
  BY DEF CountItem
<1>5. Current' = Current
  BY <1>4 DEF Current
<1>6. << >> \in Seq(RaisedEvents) /\ DOMAIN << >> = {}
  BY NoneRaised
<1>7. Handles(<< >>)
  BY <1>1, <1>4, <1>6, RaiseHandles
<1>8. PICK P \in Protocols : Speaks(P) /\ Balanced(P)
  BY DEF Targeted
<1>9. << items'[Current'].sender, items'[Current'].receiver >> = Pair
  BY <1>2, <1>4, <1>5 DEF Pair
<1>10. Speaks(P)'
  <2>1. items'[Current'].protocol \in {None, P}
    BY <1>2, <1>4, <1>5, <1>8 DEF Speaks
  <2>2. QED BY <1>1, <1>6, <1>7, <1>8, <1>9, <2>1, SpeaksStep
<1>11. queue' = << >> \/ Pair' = Pair
  BY <1>1, <1>7, <1>9, PairKept
<1>12. /\ << i.sender, i.receiver >> = Pair /\ i.protocol \in {None, P}
       /\ queue[1].ref = 0 => i.target = None
  <2>1. Resembles(queue[1], items[Current], P) /\ items[Current].protocol \in {None, P}
    BY <1>2, <1>8 DEF Speaks
  <2>2. Pair = << items[Current].sender, items[Current].receiver >>
    BY <1>2 DEF Pair
  <2>3. QED BY <1>2, <1>3, <2>1, <2>2 DEF Resembles
<1>13. PICK E, F : E = Owing(P) /\ F = Promising(P)
  OBVIOUS
<1>14. ASSUME NEW G
       PROVE  /\ Count(G, queue') + Is(G, queue[1]) = Count(G, queue)
              /\ Count(G, queue') \in Nat /\ Count(G, queue) \in Nat
  <2>1. /\ Count(G, queue') + Is(G, queue[1]) = Count(G, queue) + Count(G, << >>)
        /\ Count(G, queue') \in Nat /\ Count(G, queue) \in Nat
    BY <1>1, <1>4, <1>6, CountHandled
  <2>2. QED BY <2>1, CountNone
<1>15. PICK m2 \in Nat, n2 \in Nat : m2 = Count(E, queue') /\ n2 = Count(F, queue')
  BY <1>14
<1>16. PICK m \in Nat, n \in Nat : m = Count(E, queue) /\ n = Count(F, queue)
  BY <1>14
<1> DEFINE talks == i.protocol = "Modbus"
<1>17. /\ queue[1] \in E <=> P = "Modbus" /\ queue[1].ref # 0
       /\ queue[1] \in F <=> P = "Modbus" /\ queue[1].ref = 0 /\ talks
  BY <1>2, <1>3, <1>13 DEF Owing, Promising
<1>18. /\ m = m2 + (IF P = "Modbus" /\ queue[1].ref # 0 THEN 1 ELSE 0)
       /\ n = n2 + (IF P = "Modbus" /\ queue[1].ref = 0 /\ talks THEN 1 ELSE 0)
  <2>1. m2 + Is(E, queue[1]) = m /\ n2 + Is(F, queue[1]) = n
    BY <1>14, <1>15, <1>16
  <2>2. /\ Is(E, queue[1]) = IF P = "Modbus" /\ queue[1].ref # 0 THEN 1 ELSE 0
        /\ Is(F, queue[1]) = IF P = "Modbus" /\ queue[1].ref = 0 /\ talks THEN 1 ELSE 0
    BY <1>17 DEF Is
  <2>3. QED BY <2>1, <2>2
<1>19. queue' = << >> => m2 = 0 /\ n2 = 0
  BY <1>15, CountNone
<1>20. talks => P = "Modbus"
  BY <1>12, NoneIsNone
<1> HIDE DEF talks
<1>21. m2 + (IF talks /\ i.target # None THEN 1 ELSE 0) + n <= n2 + (IF talks /\ i.target = None THEN 1 ELSE 0) + m
  <2>1. CASE talks /\ queue[1].ref = 0
    <3>1. i.target = None /\ n = n2 + 1 /\ m = m2
      BY <1>12, <1>18, <1>20, <2>1
    <3>2. QED BY <2>1, <3>1
  <2>2. CASE talks /\ queue[1].ref # 0
    <3>1. n = n2 /\ m = m2 + 1
      BY <1>18, <1>20, <2>2
    <3>2. QED BY <2>2, <3>1
  <2>3. CASE ~talks
    <3>1. n = n2 /\ m >= m2
      BY <1>18, <2>3
    <3>2. QED BY <2>3, <3>1
  <2>4. QED BY <2>1, <2>2, <2>3
<1>22. ASSUME NEW a \in Names, NEW b \in Names
       PROVE  Covered(a, b, m2, n2)'
  <2>1. PICK p : p = << a, b, "Modbus" >>
    OBVIOUS
  <2>2. PICK h \in Nat, c \in Nat : h = Held(p, 6) /\ c = At(counts, p)
    BY HeldIsNat
  <2>3. PICK here \in BOOLEAN : here = (<< a, b >> = Pair)
    OBVIOUS
  <2>4. /\ At(counts', p) = c + (IF here /\ talks /\ i.target = None THEN 1 ELSE 0)
        /\ Held(p, 6)' = h + (IF here /\ talks /\ i.target # None THEN 1 ELSE 0)
    <3> DEFINE on == << a, b >> = << i.sender, i.receiver >> /\ i.protocol = "Modbus"
               q == << a, b, "Modbus" >>
    <3>1. /\ At(counts', q) = At(counts, q) + (IF on /\ i.target = None THEN 1 ELSE 0)
          /\ Held(q, 6)' = Held(q, 6) + (IF on /\ i.target # None THEN 1 ELSE 0)
      BY <1>3, ItemCovers
    <3>2. on <=> here /\ talks
      BY <1>12, <2>3 DEF talks
    <3> HIDE DEF on
    <3>3. /\ At(counts', p) = c + (IF on /\ i.target = None THEN 1 ELSE 0)
          /\ Held(p, 6)' = h + (IF on /\ i.target # None THEN 1 ELSE 0)
      BY <2>1, <2>2, <3>1
    <3>4. QED BY <3>2, <3>3
  <2>5. h + (IF here THEN m ELSE 0) <= c + (IF here THEN n ELSE 0)
    BY <1>8, <1>13, <1>16, <2>1, <2>2, <2>3 DEF Balanced, Covered
  <2>6. PICK h2, c2 : h2 = Held(p, 6)' /\ c2 = At(counts', p)
    OBVIOUS
  <2>7. h2 + (IF << a, b >> = Pair' THEN m2 ELSE 0) <= c2 + (IF << a, b >> = Pair' THEN n2 ELSE 0)
    <3>1. CASE here
      <4>1. h2 + m2 <= c2 + n2 /\ h2 \in Nat /\ c2 \in Nat
        BY <1>21, <2>4, <2>5, <2>6, <3>1
      <4>2. CASE queue' = << >>
        BY <1>19, <4>1, <4>2
      <4>3. CASE Pair' = Pair
        BY <2>3, <3>1, <4>1, <4>3
      <4>4. QED BY <1>11, <4>2, <4>3
    <3>2. CASE ~here
      <4>1. h2 <= c2 /\ h2 \in Nat /\ c2 \in Nat
        BY <2>4, <2>5, <2>6, <3>2
      <4>2. CASE queue' = << >>
        BY <1>19, <4>1, <4>2
      <4>3. CASE Pair' = Pair
        <5>1. << a, b >> # Pair'
          BY <2>3, <3>2, <4>3
        <5>2. h2 + 0 <= c2 + 0
          BY <4>1
        <5>3. QED BY <5>1, <5>2
      <4>4. QED BY <1>11, <4>2, <4>3
    <3>3. QED BY <3>1, <3>2
  <2>8. QED BY <2>1, <2>6, <2>7 DEF Covered
<1>23. Owing(P)' = E /\ Promising(P)' = F
  BY <1>13 DEF Owing, Promising
<1>24. Balanced(P)'
  <2>1. \A a, b \in Names : Covered(a, b, m2, n2)'
    BY <1>22
  <2>2. QED BY <1>15, <1>23, <2>1 DEF Balanced, Covered
<1>25. QED BY <1>8, <1>10, <1>24 DEF Targeted

\* The events of the messages of a packet whose protocol is P
Spoken(P) ==
  {s \in Seq(Events) :
     /\ \A i \in DOMAIN s :
          /\ s[i].type \in Dissections
          /\ s[i].type \in {"modbus_message", "detail"} => P = "Modbus"
          /\ s[i].type \in Dissections \ {"modbus_message", "detail"} => P = "DNP3"
     /\ Count(Owing(P), s) <= Count(Promising(P), s)}

LEMMA SpokenJoin ==
  ASSUME NEW P
  PROVE  Joinable(Spoken(P))
<1>1. << >> \in Spoken(P)
  <2>1. << >> \in Seq(Events) /\ DOMAIN << >> = {}
    OBVIOUS
  <2>2. Count(Owing(P), << >>) <= Count(Promising(P), << >>)
    BY CountNone
  <2>3. QED BY <2>1, <2>2 DEF Spoken
<1>2. ASSUME NEW a \in Spoken(P), NEW b \in Spoken(P)
      PROVE  a \o b \in Spoken(P)
  <2>1. PICK S : S = Events
    OBVIOUS
  <2>2. a \in Seq(S) /\ b \in Seq(S)
    BY <2>1 DEF Spoken
  <2>3. PICK m \in Nat, n \in Nat : m = Len(a) /\ n = Len(b) /\ DOMAIN a = 1 .. m /\ DOMAIN b = 1 .. n
    BY <2>2
  <2>4. /\ a \o b \in Seq(S) /\ DOMAIN (a \o b) = 1 .. m + n
        /\ \A i \in 1 .. m + n : (a \o b)[i] = IF i <= m THEN a[i] ELSE b[i - m]
    <3>1. /\ a \o b \in Seq(S) /\ Len(a \o b) = Len(a) + Len(b)
          /\ \A i \in 1 .. Len(a) + Len(b) : (a \o b)[i] = IF i <= Len(a) THEN a[i] ELSE b[i - Len(a)]
      BY <2>2, ConcatProperties
    <3>2. DOMAIN (a \o b) = 1 .. Len(a \o b)
      BY <3>1
    <3>3. QED BY <2>3, <3>1, <3>2
  <2>5. \A i \in 1 .. m + n : i \in 1 .. m \/ (~(i <= m) /\ i - m \in 1 .. n)
    OBVIOUS
  <2>6. ASSUME NEW i \in DOMAIN (a \o b)
        PROVE  (\E j \in DOMAIN a : (a \o b)[i] = a[j]) \/ (\E j \in DOMAIN b : (a \o b)[i] = b[j])
    <3>1. CASE i \in 1 .. m
      <4>1. i <= m
        BY <3>1
      <4>2. QED BY <2>3, <2>4, <3>1, <4>1
    <3>2. CASE ~(i <= m) /\ i - m \in 1 .. n
      BY <2>3, <2>4, <3>2
    <3>3. QED BY <2>4, <2>5, <3>1, <3>2
  <2>7. PICK E, F : E = Owing(P) /\ F = Promising(P)
    OBVIOUS
  <2>8. /\ Count(E, a \o b) = Count(E, a) + Count(E, b)
        /\ Count(F, a \o b) = Count(F, a) + Count(F, b)
        /\ Count(E, a) \in Nat /\ Count(E, b) \in Nat /\ Count(F, a) \in Nat /\ Count(F, b) \in Nat
    BY <2>2, CountConcat, CountIsNat
  <2>9. Count(E, a) <= Count(F, a) /\ Count(E, b) <= Count(F, b)
    BY <2>7 DEF Spoken
  <2>10. Count(E, a \o b) <= Count(F, a \o b)
    BY <2>8, <2>9
  <2>11. PICK c : c = a \o b
    OBVIOUS
  <2>12. \A i \in DOMAIN c : (\E j \in DOMAIN a : c[i] = a[j]) \/ (\E j \in DOMAIN b : c[i] = b[j])
    BY <2>6, <2>11
  <2>13. c \in Seq(Events) /\ Count(Owing(P), c) <= Count(Promising(P), c)
    BY <2>1, <2>4, <2>7, <2>10, <2>11
  <2>14. c \in Spoken(P)
    BY <2>12, <2>13 DEF Spoken
  <2>15. QED BY <2>11, <2>14
<1>3. QED BY <1>1, <1>2 DEF Joinable

LEMMA ModbusSpoken ==
  ASSUME NEW pdu \in Modbus
  PROVE  ModbusEvents(pdu) \in Spoken("Modbus")
<1>1. PICK a, b : a = MessageEvent("modbus_message", pdu) /\ b = MessageEvent("detail", pdu)
  OBVIOUS
<1>2. /\ a \in Events /\ a.type = "modbus_message" /\ b \in Events /\ b.type = "detail"
  BY <1>1 DEF MessageEvent, Events, Dissection, MessageEvents
<1>3. PICK E, F : E = Owing("Modbus") /\ F = Promising("Modbus")
  OBVIOUS
<1>4. a \notin E /\ a \in F /\ b \in E /\ b \notin F
  BY <1>2, <1>3 DEF Owing, Promising
<1>5. PICK S : S = Events
  OBVIOUS
<1>6. << a >> \in Seq(S) /\ << b >> \in Seq(S)
  BY <1>2, <1>5
<1>7. CASE pdu.detailed
  <2>1. ModbusEvents(pdu) = << a >> \o << b >>
    BY <1>1, <1>7 DEF ModbusEvents
  <2>2. PICK s : s = << a, b >>
    OBVIOUS
  <2>3. s = << a >> \o << b >> /\ s = ModbusEvents(pdu)
    BY <2>1, <2>2, Joined
  <2>4. s \in Seq(S) /\ DOMAIN s = {1, 2} /\ s[1] = a /\ s[2] = b
    <3>1. s \in Seq(S) /\ Len(s) = 2 /\ s[1] = a /\ s[2] = b
      BY <1>2, <1>5, <2>2
    <3>2. DOMAIN s = 1 .. 2 /\ 1 .. 2 = {1, 2}
      BY <3>1
    <3>3. QED BY <3>1, <3>2
  <2>5. Count(E, s) = Count(E, << a >>) + Count(E, << b >>) /\ Count(F, s) = Count(F, << a >>) + Count(F, << b >>)
    BY <1>6, <2>3, CountConcat
  <2>6. Count(E, s) <= Count(F, s)
    BY <1>4, <2>5, CountOne DEF Is
  <2>7. QED BY <1>2, <1>3, <1>5, <2>3, <2>4, <2>6 DEF Spoken, Dissections
<1>8. CASE ~pdu.detailed
  <2>1. PICK s : s = << a >>
    OBVIOUS
  <2>2. s = ModbusEvents(pdu) /\ s \in Seq(S) /\ DOMAIN s = {1} /\ s[1] = a
    BY <1>1, <1>6, <1>8, <2>1 DEF ModbusEvents
  <2>3. Count(E, s) <= Count(F, s)
    BY <1>4, <2>1, CountOne DEF Is
  <2>4. QED BY <1>2, <1>3, <1>5, <2>2, <2>3 DEF Spoken, Dissections
<1>9. QED BY <1>7, <1>8

LEMMA Dnp3Spoken ==
  ASSUME NEW pdu \in Dnp3
  PROVE  Dnp3Events(pdu) \in Spoken("DNP3")
<1> DEFINE D == {e \in Events : e.type \in Dissections \ {"modbus_message", "detail"}}
           groups == [i \in DOMAIN pdu.objects |-> ObjectEvents(pdu.objects[i])]
<1>1. /\ MessageEvent("header_block", pdu) \in D /\ MessageEvent("application_header", pdu) \in D
      /\ ObjectEventsOf \subseteq D
  BY DEF MessageEvent, Events, Dissection, MessageEvents, ObjectEventsOf, Dissections
<1>2. pdu.objects \in Seq(ObjectHeader)
  BY DEF Dnp3
<1>3. PICK A, B : A = ObjectEventsOf /\ B = D
  OBVIOUS
<1>4. groups \in Seq(Seq(B))
  <2>1. PICK n \in Nat : DOMAIN pdu.objects = 1 .. n
    BY <1>2
  <2>2. ASSUME NEW i \in 1 .. n PROVE ObjectEvents(pdu.objects[i]) \in Seq(B)
    <3>1. PICK q : q = ObjectEvents(pdu.objects[i])
      OBVIOUS
    <3>2. q \in Seq(A)
      BY <1>2, <1>3, <2>1, <3>1, ObjectsDissected
    <3>3. A \subseteq B
      BY <1>1, <1>3
    <3>4. q \in Seq(B)
      BY <3>2, <3>3
    <3>5. QED BY <3>1, <3>4
  <2>3. groups \in [1 .. n -> Seq(B)]
    BY <2>1, <2>2
  <2>4. QED BY <2>3
<1>5. PICK rest : rest = FlattenSeq(groups)
  OBVIOUS
<1> HIDE DEF groups, D
<1>6. rest \in Seq(B)
  <2>1. PICK G : G = Seq(B)
    OBVIOUS
  <2>2. Joinable(G) /\ groups \in Seq(G)
    BY <1>4, <2>1, SeqJoin
  <2>3. QED BY <1>5, <2>1, <2>2, Flattened
<1>7. PICK s : s = Dnp3Events(pdu)
  OBVIOUS
<1>8. s \in Seq(B)
  <2>1. << MessageEvent("header_block", pdu), MessageEvent("application_header", pdu) >> \in Seq(B)
    BY <1>1, <1>3
  <2>2. s = << MessageEvent("header_block", pdu), MessageEvent("application_header", pdu) >> \o rest
    BY <1>5, <1>7 DEF Dnp3Events, groups
  <2>3. QED BY <1>6, <2>1, <2>2
<1>9. \A i \in DOMAIN s : s[i] \in B
  BY <1>8
<1>10. s \in Seq(Events)
  <2>1. PICK S : S = Events
    OBVIOUS
  <2>2. B \subseteq S
    BY <1>3, <2>1 DEF D
  <2>3. s \in Seq(S)
    BY <1>8, <2>2
  <2>4. QED BY <2>1, <2>3
<1>11. Owing("DNP3") = {} /\ Promising("DNP3") = {}
  BY DEF Owing, Promising
<1>12. Count(Owing("DNP3"), s) <= Count(Promising("DNP3"), s)
  <2>1. Places({}, s) = {}
    BY DEF Places
  <2>2. QED BY <1>11, <2>1, FS_EmptySet DEF Count
<1>13. \A i \in DOMAIN s : s[i].type \in Dissections \ {"modbus_message", "detail"}
  BY <1>3, <1>9 DEF D
<1>14. s \in Spoken("DNP3")
  BY <1>10, <1>12, <1>13 DEF Spoken
<1>15. QED BY <1>7, <1>14

\* The messages of a packet have one protocol.
LEMMA PacketSpoken ==
  ASSUME NEW p \in Packets
  PROVE  \E P \in Protocols :
           FlattenSeq([i \in DOMAIN p.pdus |->
             IF p.pdus[i].protocol = "Modbus" THEN ModbusEvents(p.pdus[i])
                                             ELSE Dnp3Events(p.pdus[i])]) \in Spoken(P)
<1> DEFINE groups == [i \in DOMAIN p.pdus |->
                        IF p.pdus[i].protocol = "Modbus" THEN ModbusEvents(p.pdus[i])
                                                        ELSE Dnp3Events(p.pdus[i])]
<1>1. p.pdus \in Seq(Modbus \cup Dnp3)
  BY StatsAssumption
<1>2. PICK n \in Nat : DOMAIN p.pdus = 1 .. n
  BY <1>1
<1>3. \A i \in 1 .. n : p.pdus[i] \in Modbus \cup Dnp3
  BY <1>1, <1>2
<1>4. \E P \in Protocols : \A i \in 1 .. n : p.pdus[i].protocol = P
  <2>1. CASE n = 0
    <3>1. 1 .. n = {} /\ "Modbus" \in Protocols
      BY <2>1 DEF Protocols
    <3>2. QED BY <3>1
  <2>2. CASE n # 0
    <3>1. 1 \in 1 .. n
      BY <2>2
    <3>2. p.pdus[1].protocol \in Protocols
      BY <1>3, <3>1 DEF Modbus, Dnp3, Protocols
    <3>3. \A i \in 1 .. n : p.pdus[i].protocol = p.pdus[1].protocol
      BY <1>2, <3>1, ProtocolAssumption
    <3>4. QED BY <3>2, <3>3
  <2>3. QED BY <2>1, <2>2
<1>5. PICK P \in Protocols : \A i \in 1 .. n : p.pdus[i].protocol = P
  BY <1>4
<1>6. PICK G : G = Spoken(P)
  OBVIOUS
<1>7. ASSUME NEW i \in 1 .. n
      PROVE  (IF p.pdus[i].protocol = "Modbus" THEN ModbusEvents(p.pdus[i])
                                               ELSE Dnp3Events(p.pdus[i])) \in G
  <2>1. PICK pdu \in Modbus \cup Dnp3 : pdu = p.pdus[i]
    BY <1>3
  <2>2. pdu.protocol = P
    BY <1>5, <2>1
  <2>3. CASE pdu \in Modbus
    <3>1. P = "Modbus"
      BY <2>2, <2>3 DEF Modbus
    <3>2. QED BY <1>6, <2>1, <2>2, <2>3, <3>1, ModbusSpoken
  <2>4. CASE pdu \in Dnp3
    <3>1. P = "DNP3"
      BY <2>2, <2>4 DEF Dnp3
    <3>2. QED BY <1>6, <2>1, <2>2, <2>4, <3>1, Dnp3Spoken
  <2>5. QED BY <2>3, <2>4
<1>8. groups \in Seq(G)
  <2>1. groups \in [1 .. n -> G]
    BY <1>2, <1>7
  <2>2. QED BY <2>1
<1>9. Joinable(G)
  BY <1>6, SpokenJoin
<1> HIDE DEF groups
<1>10. FlattenSeq(groups) \in G
  BY <1>8, <1>9, Flattened
<1>11. QED BY <1>6, <1>10 DEF groups

LEMMA PacketTargeted ==
  ASSUME IInv, CountsTyped, Levels, Targeted, NEW p \in Packets, Packet(p)
  PROVE  Targeted'
<1>1. PICK s : s = FlattenSeq([i \in DOMAIN p.pdus |->
           IF p.pdus[i].protocol = "Modbus" THEN ModbusEvents(p.pdus[i])
                                           ELSE Dnp3Events(p.pdus[i])])
  OBVIOUS
<1>2. PICK new : new = [type |-> "new_packet", packet |-> p]
  OBVIOUS
<1>3. queue = << >> /\ queue' = << new >> \o s /\ counts' = counts
  BY <1>1, <1>2 DEF Packet
<1>4. PICK P \in Protocols : s \in Spoken(P)
  BY <1>1, PacketSpoken
<1>5. new \in Events /\ new.type = "new_packet"
  BY <1>2 DEF Events, PacketEvents
<1>6. PICK S, one, q : S = Events /\ one = << new >> /\ q = queue'
  OBVIOUS
<1>7. one \in Seq(S) /\ s \in Seq(S) /\ Len(one) = 1 /\ one[1] = new /\ q = one \o s
  BY <1>3, <1>4, <1>5, <1>6 DEF Spoken
<1>8. PICK n \in Nat : n = Len(s) /\ DOMAIN s = 1 .. n
  BY <1>7
<1>9. /\ q \in Seq(S) /\ DOMAIN q = 1 .. 1 + n /\ q[1] = new
      /\ \A i \in 1 .. 1 + n : i # 1 => q[i] = s[i - 1] /\ i - 1 \in 1 .. n
  <2>1. /\ one \o s \in Seq(S) /\ Len(one \o s) = Len(one) + Len(s)
        /\ \A i \in 1 .. Len(one) + Len(s) : (one \o s)[i] = IF i <= Len(one) THEN one[i] ELSE s[i - Len(one)]
    BY <1>7, ConcatProperties
  <2>2. DOMAIN q = 1 .. 1 + n /\ \A i \in 1 .. 1 + n : q[i] = IF i <= 1 THEN one[i] ELSE s[i - 1]
    BY <1>7, <1>8, <2>1
  <2>3. 1 \in 1 .. 1 + n /\ 1 <= 1 /\ \A i \in 1 .. 1 + n : i # 1 => ~(i <= 1) /\ i - 1 \in 1 .. n
    OBVIOUS
  <2>4. QED BY <1>7, <2>1, <2>2, <2>3
<1>10. ~InPacket'
  BY <1>5, <1>6, <1>9 DEF InPacket
<1>11. Speaks(P)'
  <2>1. ASSUME NEW i \in DOMAIN q
        PROVE  /\ q[i].type \in {"modbus_message", "detail"} => P = "Modbus"
               /\ q[i].type \in Dissections \ {"modbus_message", "detail"} => P = "DNP3"
               /\ q[i].type # "item_seen"
    <3>1. CASE i = 1
      BY <1>5, <1>9, <3>1 DEF Dissections
    <3>2. CASE i # 1
      <4>1. PICK k \in DOMAIN s : q[i] = s[k]
        BY <1>8, <1>9, <3>2
      <4>2. /\ s[k].type \in Dissections
            /\ s[k].type \in {"modbus_message", "detail"} => P = "Modbus"
            /\ s[k].type \in Dissections \ {"modbus_message", "detail"} => P = "DNP3"
        BY <1>4 DEF Spoken
      <4>3. "item_seen" \notin Dissections
        BY DEF Dissections
      <4>4. QED BY <4>1, <4>2, <4>3
    <3>3. QED BY <3>1, <3>2
  <2>2. QED BY <1>6, <1>10, <2>1 DEF Speaks, Resembles
<1>12. PICK E, F : E = Owing(P) /\ F = Promising(P)
  OBVIOUS
<1>13. /\ Count(E, q) = Is(E, new) + Count(E, s) /\ Count(F, q) = Is(F, new) + Count(F, s)
       /\ Count(E, s) \in Nat /\ Count(F, s) \in Nat
  <2>1. ASSUME NEW G PROVE Count(G, q) = Is(G, new) + Count(G, s) /\ Count(G, s) \in Nat
    <3>1. Count(G, one \o s) = Count(G, one) + Count(G, s)
      BY <1>7, CountConcat
    <3>2. QED BY <1>6, <1>7, <3>1, CountOne, CountIsNat
  <2>2. QED BY <2>1
<1>14. new \notin E /\ new \notin F
  BY <1>5, <1>12 DEF Owing, Promising
<1>15. Count(E, s) <= Count(F, s)
  BY <1>4, <1>12 DEF Spoken
<1>16. PICK m \in Nat, k \in Nat : m = Count(E, q) /\ k = Count(F, q) /\ m <= k
  BY <1>13, <1>14, <1>15 DEF Is
<1>17. ASSUME NEW a \in Names, NEW b \in Names
       PROVE  Covered(a, b, m, k)'
  <2>1. PICK path : path = << a, b, "Modbus" >>
    OBVIOUS
  <2>2. PICK h \in Nat, c \in Nat : h = Held(path, 6) /\ c = At(counts, path)
    BY HeldIsNat
  <2>3. Held(path, 6)' = h /\ At(counts', path) = c
    BY <1>3, <2>2 DEF Held
  <2>4. h <= c
    <3>1. PICK O \in Protocols : Balanced(O)
      BY DEF Targeted
    <3>2. Count(Owing(O), queue) = 0 /\ Count(Promising(O), queue) = 0
      BY <1>3, CountNone
    <3>3. h + (IF << a, b >> = Pair THEN 0 ELSE 0) <= c + (IF << a, b >> = Pair THEN 0 ELSE 0)
      BY <2>1, <2>2, <3>1, <3>2 DEF Balanced, Covered
    <3>4. QED BY <3>3
  <2>5. h + (IF << a, b >> = Pair' THEN m ELSE 0) <= c + (IF << a, b >> = Pair' THEN k ELSE 0)
    BY <1>16, <2>4
  <2>6. QED BY <2>1, <2>3, <2>5 DEF Covered
<1>18. Owing(P)' = E /\ Promising(P)' = F
  BY <1>12 DEF Owing, Promising
<1>19. Balanced(P)'
  <2>1. \A a, b \in Names : Covered(a, b, m, k)'
    BY <1>17
  <2>2. QED BY <1>6, <1>16, <1>18, <2>1 DEF Balanced, Covered
<1>20. QED BY <1>4, <1>11, <1>19 DEF Targeted

\* A new period, and the first one
LEMMA NothingCounted ==
  ASSUME counts = Nothing, queue = << >>
  PROVE  Levels /\ Targeted
<1>1. DOMAIN counts = {}
  BY DEF Nothing
<1>2. \A p, n : Held(p, n) = 0 /\ At(counts, p) = 0
  <2>1. SUFFICES ASSUME NEW p, NEW n PROVE Held(p, n) = 0 /\ At(counts, p) = 0
    OBVIOUS
  <2>2. DOMAIN counts \cap Beyond(p, n) = {}
    BY <1>1
  <2>3. QED BY <1>1, <2>2, SumEmpty DEF Held, At
<1>3. Levels
  BY <1>1, <1>2, FS_EmptySet DEF Levels
<1>4. "Modbus" \in Protocols /\ Speaks("Modbus")
  BY DEF Protocols, Speaks, InPacket
<1>5. PICK E, F : E = Owing("Modbus") /\ F = Promising("Modbus")
  OBVIOUS
<1>6. Count(E, queue) = 0 /\ Count(F, queue) = 0
  BY CountNone
<1>7. Balanced("Modbus")
  BY <1>2, <1>5, <1>6 DEF Balanced, Covered
<1>8. QED BY <1>3, <1>4, <1>7 DEF Targeted

\* The same of the state that a new period begins in
LEMMA NothingCountedNext ==
  ASSUME counts' = Nothing, queue' = << >>
  PROVE  Levels' /\ Targeted'
<1>1. DOMAIN counts' = {}
  BY DEF Nothing
<1>2. \A p, n : Held(p, n)' = 0 /\ At(counts', p) = 0
  <2>1. SUFFICES ASSUME NEW p, NEW n PROVE Held(p, n)' = 0 /\ At(counts', p) = 0
    OBVIOUS
  <2>2. DOMAIN counts' \cap Beyond(p, n) = {}
    BY <1>1
  <2>3. QED BY <1>1, <2>2, SumEmpty DEF Held, At
<1>3. Levels'
  BY <1>1, <1>2, FS_EmptySet DEF Levels
<1>4. "Modbus" \in Protocols /\ Speaks("Modbus")'
  BY DEF Protocols, Speaks, InPacket
<1>5. PICK E, F : E = Owing("Modbus") /\ F = Promising("Modbus")
  OBVIOUS
<1>6. Owing("Modbus")' = E /\ Promising("Modbus")' = F
  BY <1>5 DEF Owing, Promising
<1>7. Count(E, queue') = 0 /\ Count(F, queue') = 0
  BY CountNone
<1>8. Balanced("Modbus")'
  BY <1>2, <1>6, <1>7 DEF Balanced, Covered
<1>9. QED BY <1>3, <1>4, <1>8 DEF Targeted

LEMMA LevelsKept ==
  ASSUME Levels, counts' = counts
  PROVE  Levels'
BY DEF Levels, Held

LEMMA LevelsStep ==
  ASSUME IInv, CountsTyped, Levels, Targeted, [Next]_vars
  PROVE  Levels' /\ Targeted'
<1>1. ASSUME NEW p \in Packets, Packet(p) PROVE Levels' /\ Targeted'
  <2>1. counts' = counts
    BY <1>1 DEF Packet
  <2>2. QED BY <1>1, <2>1, PacketTargeted, LevelsKept
<1>2. CASE NewPacket
  <2>1. counts' = counts
    BY <1>2 DEF NewPacket, uncounted
  <2>2. QED BY <1>2, <2>1, NewPacketTargeted, LevelsKept
<1>3. ASSUME NEW type \in Messages, Message(type) PROVE Levels' /\ Targeted'
  <2>1. counts' = counts
    BY <1>3 DEF Message, uncounted
  <2>2. QED BY <1>3, <2>1, MessageTargeted, LevelsKept
<1>4. CASE ModbusMessage \/ ApplicationHeader
  BY <1>3, <1>4 DEF ModbusMessage, ApplicationHeader, Messages
<1>5. CASE ModbusRequest \/ ModbusResponse
  <2>1. queue # << >> /\ Head(queue).type = "detail" /\ counts' = counts
    BY <1>5 DEF ModbusRequest, ModbusResponse, Event, uncounted
  <2>2. queue[1].type = "detail" /\ queue[1].type \in Details /\ queue[1].pdu \in Modbus
        /\ Head(queue) = queue[1]
    BY <2>1, HeadEvent, EventFields DEF Details
  <2>3. tgt_table \in [DOMAIN tgt_table -> Targets]
    BY DEF IInv, TypeInv
  <2>4. \/ \E t \in Targets : WithTarget(t)
        \/ Raise(<< >>) /\ items' = items
    <3>1. CASE ModbusRequest
      <4>1. WithTarget(queue[1].pdu.target)
        BY <2>2, <3>1 DEF ModbusRequest
      <4>2. queue[1].pdu.target \in Targets
        BY <2>2 DEF Modbus
      <4>3. QED BY <4>1, <4>2
    <3>2. CASE ModbusResponse
      BY <2>3, <3>2 DEF ModbusResponse
    <3>3. QED BY <1>5, <3>1, <3>2
  <2>5. Targeted'
    BY <2>1, <2>2, <2>4, TargetTargeted, DropTargeted
  <2>6. QED BY <2>1, <2>5, LevelsKept
<1>6. CASE HeaderBlock
  <2>1. /\ queue # << >> /\ Head(queue).type = "header_block" /\ counts' = counts
        /\ Raise(<< >>) /\ TypeInv
    BY <1>6 DEF HeaderBlock, Event, uncounted, IInv
  <2>2. /\ Head(queue) = queue[1] /\ queue[1].type = "header_block" /\ queue[1].pdu \in Dnp3
        /\ Current > 0 /\ Current \in Nat \ {0} /\ items[Current] \in Item
    BY <2>1, HeadEvent, EventFields
  <2>3. PICK u \in UnitIds : items' = [items EXCEPT ![Current].unit = u]
    <3>1. [src |-> queue[1].pdu.src, dest |-> queue[1].pdu.dest] \in UnitIds
      BY <2>2 DEF Dnp3, UnitIds
    <3>2. QED BY <1>6, <2>2, <3>1 DEF HeaderBlock
  <2>4. PICK old, i : old = items[Current] /\ i = [old EXCEPT !.unit = u]
    OBVIOUS
  <2>5. i \in Item /\ i.sender = old.sender /\ i.receiver = old.receiver /\ i.protocol = old.protocol
    BY <2>2, <2>4 DEF Item
  <2>6. items' = [items EXCEPT ![Current] = i]
    BY <2>3, <2>4
  <2>7. items'[Current'] = i
    BY <2>1, <2>2, <2>5, <2>6, CurrentSet
  <2>8. << items'[Current'].sender, items'[Current'].receiver, items'[Current'].protocol >>
          = << items[Current].sender, items[Current].receiver, items[Current].protocol >>
    BY <2>4, <2>5, <2>7
  <2>9. Targeted'
    BY <2>1, <2>2, <2>8, NoneRaised, TargetedQuiet
  <2>10. QED BY <2>1, <2>9, LevelsKept
<1>7. CASE HandleObjectHeader \/ HandleObjectPrefix
  <2>1. /\ queue # << >> /\ queue[1].type \in {"object_header", "object_prefix"}
        /\ counts' = counts /\ ((\E t \in Targets : WithTarget(t)) \/ WithoutTarget)
    BY <1>7, ObjectTarget
  <2>2. CASE \E t \in Targets : WithTarget(t)
    BY <2>1, <2>2, TargetTargeted, LevelsKept DEF Details
  <2>3. CASE WithoutTarget
    BY <2>1, <2>3, DropTargeted, LevelsKept DEF WithoutTarget
  <2>4. QED BY <2>1, <2>2, <2>3
<1>8. CASE CountItem
  <2>1. PICK i \in Item : counts' = Plus(counts, ItemPaths(i))
    BY <1>8, Counted
  <2>2. QED BY <1>8, <2>1, CountItemTargeted, LevelsObserved
<1>9. CASE Collect
  BY <1>1, <1>2, <1>4, <1>5, <1>6, <1>7, <1>8, <1>9 DEF Collect
<1>10. CASE HandleItemGen
  <2>1. queue # << >> /\ Head(queue).type = "item_gen" /\ counts' = counts /\ items' = items
    BY <1>10 DEF HandleItemGen, Event, ItemGen
  <2>2. /\ Head(queue) = queue[1] /\ 1 \in DOMAIN queue /\ queue[1].type = "item_gen"
    BY <2>1, HeadEvent
  <2>3. queue[1].ref \in DOMAIN items
    BY <2>2, CurrentItem DEF IInv, QueueOK, Refers
  <2>4. PICK i \in Item : i = items[queue[1].ref] /\ Raise(Matches(i))
    BY <1>10, <2>2, <2>3, CurrentItem DEF HandleItemGen, ItemGen, IInv
  <2>5. PICK events : events = Matches(i)
    OBVIOUS
  <2>6. events \in Seq(RaisedEvents) /\ \A j \in DOMAIN events : events[j].type = "match"
    BY <2>5, MatchesRaised
  <2>7. Current' = Current
    BY <2>1 DEF Current
  <2>8. items'[Current'] = items[Current]
    BY <2>1, <2>7
  <2>9. Targeted'
    BY <2>1, <2>2, <2>4, <2>5, <2>6, <2>8, TargetedQuiet
  <2>10. QED BY <2>1, <2>9, LevelsKept
<1>11. CASE HandleMatch
  <2>1. /\ queue # << >> /\ Head(queue).type = "match" /\ counts' = counts /\ items' = items
        /\ Raise(<< >>)
    BY <1>11 DEF HandleMatch, Event, uncounted
  <2>2. queue[1].type = "match"
    BY <2>1, HeadEvent
  <2>3. QED BY <2>1, <2>2, DropTargeted, LevelsKept
<1>12. CASE EndPeriod
  <2>1. counts' = Nothing /\ queue = << >> /\ queue' = queue
    BY <1>12 DEF EndPeriod, FinishPeriod
  <2>2. counts' = Nothing /\ queue' = << >>
    BY <2>1
  <2>3. QED BY <2>2, NothingCountedNext
<1>13. CASE UNCHANGED vars
  <2>1. counts' = counts /\ queue' = queue /\ items' = items
    BY <1>13 DEF vars, statsVars
  <2>2. Current' = Current /\ InPacket' = InPacket
    BY <2>1 DEF Current, InPacket
  <2>3. Pair' = Pair
    BY <2>1, <2>2 DEF Pair
  <2>4. \A P : Owing(P)' = Owing(P) /\ Promising(P)' = Promising(P)
    BY DEF Owing, Promising
  <2>5. \A P : Speaks(P) => Speaks(P)'
    BY <2>1, <2>2 DEF Speaks
  <2>6. \A P : Balanced(P) => Balanced(P)'
    BY <2>1, <2>3, <2>4 DEF Balanced, Covered, Held
  <2>7. QED BY <2>1, <2>5, <2>6, LevelsKept DEF Targeted
<1>14. QED BY <1>9, <1>10, <1>11, <1>12, <1>13 DEF Next

\* The levels of the tree agree when no event is left (item_seen of stats_count.bro and
\* the handlers of stats_col*.bro): what is counted for a node is counted below it, and
\* no more targets than messages of Modbus are counted between two hosts.
THEOREM LevelsAgreeCorrect == Spec => []LevelsAgree
<1>1. Init => Levels /\ Targeted
  BY NothingCounted DEF Init, StatsInit
<1>2. /\ (IInv /\ CountsTyped) /\ (Levels /\ Targeted) /\ [Next]_vars => (Levels /\ Targeted)'
  BY LevelsStep
<1>3. IInv /\ CountsTyped /\ Levels /\ Targeted => LevelsAgree
  <2> SUFFICES ASSUME IInv, CountsTyped, Levels, Targeted, queue = << >>, NEW p \in DOMAIN counts
                 PROVE  /\ Attached(p)
                        /\ Len(p) \in {0, 1, 3, 4} => counts[p] = Total(Below(p, Len(p) + 1))
                        /\ Len(p) = 3 /\ p[3] = "Modbus" => Total(Below(p, 6)) <= counts[p]
    BY DEF LevelsAgree
  <2>2. p \in Seq(Names) /\ At(counts, p) = counts[p]
    BY CountsAre DEF CountsTyped, At
  <2>3. Attached(p)
    BY TreeIsWhole
  <2>4. ASSUME Len(p) \in {0, 1, 3, 4}
        PROVE  counts[p] = Total(Below(p, Len(p) + 1))
    <3>1. PICK n \in Nat : n = Len(p) + 1 /\ Len(p) <= n
      BY <2>4
    <3>2. Total(Below(p, n)) = Held(p, n)
      BY <2>2, <3>1, HeldIsTotal
    <3>3. QED BY <2>2, <2>4, <3>1, <3>2 DEF Levels
  <2>5. ASSUME Len(p) = 3, p[3] = "Modbus"
        PROVE  Total(Below(p, 6)) <= counts[p]
    <3>1. PICK a \in Names, b \in Names : a = p[1] /\ b = p[2]
      BY <2>2, <2>5
    <3>2. p = << a, b, "Modbus" >>
      <4>1. p = << p[1], p[2], p[3] >>
        BY <2>2, <2>5
      <4>2. QED BY <2>5, <3>1, <4>1
    <3>3. Total(Below(p, 6)) = Held(p, 6)
      <4>1. PICK n \in Nat : n = 6 /\ Len(p) <= n
        BY <2>5
      <4>2. Total(Below(p, n)) = Held(p, n)
        BY <2>2, <4>1, HeldIsTotal
      <4>3. QED BY <4>1, <4>2
    <3>4. PICK h \in Nat, c \in Nat : h = Held(p, 6) /\ c = At(counts, p)
      BY HeldIsNat
    <3>5. PICK O \in Protocols : Balanced(O)
      BY DEF Targeted
    <3>6. Count(Owing(O), queue) = 0 /\ Count(Promising(O), queue) = 0
      BY CountNone
    <3>7. h + (IF << a, b >> = Pair THEN 0 ELSE 0) <= c + (IF << a, b >> = Pair THEN 0 ELSE 0)
      BY <3>2, <3>4, <3>5, <3>6 DEF Balanced, Covered
    <3>8. QED BY <2>2, <3>3, <3>4, <3>7
  <2>6. QED BY <2>3, <2>4, <2>5
<1>4. QED BY <1>1, <1>2, <1>3, NodeInvariant, PTL DEF Spec

-----------------------------------------------------------------------------
(* Fractions *)

Fraction == Int \X (Nat \ {0})

LEMMA Products ==
  /\ \A m, n \in Nat \ {0} : m * n \in Nat \ {0}
  /\ \A i, j \in Int : i * j \in Int
BY SMTT(30)

LEMMA FractionOps ==
  ASSUME NEW a \in Fraction, NEW b \in Fraction, NEW n \in Nat \ {0}
  PROVE  /\ Sub(a, b) \in Fraction /\ Add(a, b) \in Fraction /\ Mul(a, b) \in Fraction
         /\ Over(a, n) \in Fraction
<1>1. PICK x \in Int, d \in Nat \ {0} : a = << x, d >>
  BY DEF Fraction
<1>2. PICK y \in Int, e \in Nat \ {0} : b = << y, e >>
  BY DEF Fraction
<1>3. /\ d * e \in Nat \ {0} /\ d * n \in Nat \ {0}
      /\ x * e \in Int /\ y * d \in Int /\ x * y \in Int
  BY Products
<1>4. PICK de \in Nat \ {0}, dn \in Nat \ {0}, xe \in Int, yd \in Int, xy \in Int :
        de = d * e /\ dn = d * n /\ xe = x * e /\ yd = y * d /\ xy = x * y
  BY <1>3
<1>5. /\ Sub(a, b) = << xe - yd, de >> /\ Add(a, b) = << xe + yd, de >>
      /\ Mul(a, b) = << xy, de >> /\ Over(a, n) = << x, dn >>
  BY <1>1, <1>2, <1>4 DEF Sub, Add, Mul, Over
<1>6. QED BY <1>5 DEF Fraction

LEMMA WholeIsFraction == ASSUME NEW n \in Int PROVE Frac(n) \in Fraction
BY DEF Frac, Fraction

-----------------------------------------------------------------------------
(* Welford's recurrence, over a queue *)

Acc == [n : Nat, mean : Fraction, m2 : Fraction]
NoAcc == [n |-> 0, mean |-> Frac(0), m2 |-> Frac(0)]
Accumulated(values) == FoldLeft(Welford, NoAcc, values)

LEMMA WelfordTyped ==
  ASSUME NEW acc \in Acc, NEW x \in Fraction
  PROVE  Welford(acc, x) \in Acc
<1>1. PICK k \in Nat, m \in Fraction, v \in Fraction : acc = [n |-> k, mean |-> m, m2 |-> v]
  BY DEF Acc
<1>2. k + 1 \in Nat \ {0}
  OBVIOUS
<1>3. PICK d \in Fraction : d = Sub(x, m)
  BY <1>2, FractionOps
<1>4. PICK o \in Fraction : o = Over(d, k + 1)
  BY <1>2, FractionOps
<1>5. PICK w \in Fraction : w = Add(m, o)
  BY <1>2, FractionOps
<1>6. PICK e \in Fraction : e = Sub(x, w)
  BY <1>2, FractionOps
<1>7. PICK f \in Fraction : f = Mul(d, e)
  BY <1>2, FractionOps
<1>8. PICK g \in Fraction : g = Add(v, f)
  BY <1>2, FractionOps
<1>9. Welford(acc, x) = [n |-> k + 1, mean |-> w, m2 |-> g]
  BY <1>1, <1>3, <1>4, <1>5, <1>6, <1>7, <1>8 DEF Welford
<1>10. QED BY <1>2, <1>9 DEF Acc

\* The largest of some of the numbers up to n
LEMMA MaxIn ==
  ASSUME NEW n \in Nat, NEW s \in SUBSET (1 .. n), s # {}
  PROVE  Max(s) \in s /\ \A x \in s : x <= Max(s)
<1> DEFINE gaps == {g \in Nat : \E x \in s : g = n - x}
<1>0. \A x \in s : x \in Nat /\ x <= n /\ n - x \in Nat
  BY SMT
<1>1. gaps \in SUBSET Nat /\ gaps # {}
  <2>1. PICK x \in s : TRUE
    OBVIOUS
  <2>2. n - x \in gaps
    BY <1>0
  <2>3. QED BY <2>2
<1>2. PICK g \in gaps : \A h \in gaps : g <= h
  BY <1>1, LeastNumber
<1>3. PICK x \in s : g = n - x
  OBVIOUS
<1>4. \A y \in s : y <= x
  <2>1. SUFFICES ASSUME NEW y \in s PROVE y <= x
    OBVIOUS
  <2>2. n - y \in gaps
    BY <1>0
  <2>3. n - x <= n - y
    BY <1>2, <1>3, <2>2
  <2>4. x \in Nat /\ y \in Nat
    BY <1>0
  <2>5. QED BY <2>3, <2>4
<1>5. Max(s) = CHOOSE m \in s : \A y \in s : m >= y
  BY DEF Max
<1>6. x \in s /\ \A y \in s : x >= y
  BY <1>3, <1>4
<1>7. Max(s) \in s /\ \A y \in s : Max(s) >= y
  BY <1>5, <1>6
<1>8. QED BY <1>7

Folding(S, V, base, step, ch) ==
  \E g \in [SUBSET S -> V] : \A s \in SUBSET S :
    g[s] = IF s = {} THEN base ELSE step[<< ch[s], g[s \ {ch[s]}] >>]

\* A fold over the sets of a finite set exists, whichever element of each is taken first.
LEMMA FoldExists ==
  ASSUME NEW S, IsFiniteSet(S), NEW V, NEW base \in V, NEW step \in [S \X V -> V],
         NEW ch, \A s \in SUBSET S : s # {} => ch[s] \in s
  PROVE  Folding(S, V, base, step, ch)
<1> DEFINE F == [SUBSET S -> V]
           up(g) == [s \in SUBSET S |-> IF s = {} THEN base ELSE step[<< ch[s], g[s \ {ch[s]}] >>]]
<1>1. ASSUME NEW g \in F PROVE up(g) \in F
  <2>1. ASSUME NEW s \in SUBSET S, s # {} PROVE step[<< ch[s], g[s \ {ch[s]}] >>] \in V
    <3>1. ch[s] \in S /\ g[s \ {ch[s]}] \in V
      BY <2>1
    <3>2. QED BY <3>1
  <2>2. QED BY <2>1
<1>2. PICK n \in Nat : n = Cardinality(S)
  BY FS_CardinalityType
<1> DEFINE ups == [x \in (1 .. n) \X F |-> up(x[2])]
           first == [s \in SUBSET S |-> base]
<1>3. ups \in [(1 .. n) \X F -> F] /\ first \in F
  <2> HIDE DEF up
  <2>1. first \in F
    OBVIOUS
  <2>2. QED BY <1>1, <2>1
<1>4. PICK h \in [0 .. n -> F] : h[0] = first /\ \A i \in 1 .. n : h[i] = up(h[i - 1])
  <2> HIDE DEF up, F
  <2>1. PICK e \in F, d \in [(1 .. n) \X F -> F] : e = first /\ d = ups
    BY <1>3
  <2> HIDE DEF ups, first
  <2>2. Recursion(F, e, n, d)
    BY RecursionExists
  <2>3. PICK h \in [0 .. n -> F] : h[0] = e /\ \A i \in 1 .. n : h[i] = d[<< i, h[i - 1] >>]
    BY <2>2 DEF Recursion
  <2>4. ASSUME NEW i \in 1 .. n PROVE h[i] = up(h[i - 1])
    <3>1. i - 1 \in 0 .. n
      OBVIOUS
    <3>2. h[i - 1] \in F
      BY <3>1
    <3>3. ups[<< i, h[i - 1] >>] = up(h[i - 1])
      BY <3>2 DEF ups
    <3>4. QED BY <2>1, <2>3, <3>3
  <2>5. QED BY <2>1, <2>3, <2>4
<1>5. \A s \in SUBSET S : IsFiniteSet(s) /\ Cardinality(s) \in 0 .. n
  <2>1. ASSUME NEW s \in SUBSET S PROVE IsFiniteSet(s) /\ Cardinality(s) \in 0 .. n
    <3>1. IsFiniteSet(s) /\ Cardinality(s) <= Cardinality(S)
      BY FS_Subset
    <3>2. Cardinality(s) \in Nat
      BY <3>1, FS_CardinalityType
    <3>3. QED BY <1>2, <3>1, <3>2
  <2>2. QED BY <2>1
<1> DEFINE g == [s \in SUBSET S |-> h[Cardinality(s)][s]]
<1>6. g \in F
  <2>1. ASSUME NEW s \in SUBSET S PROVE h[Cardinality(s)][s] \in V
    <3>1. PICK c \in 0 .. n : c = Cardinality(s)
      BY <1>5
    <3>2. h[c] \in F
      OBVIOUS
    <3>3. QED BY <3>1, <3>2
  <2>2. QED BY <2>1
<1>7. ASSUME NEW s \in SUBSET S
      PROVE  g[s] = IF s = {} THEN base ELSE step[<< ch[s], g[s \ {ch[s]}] >>]
  <2>1. CASE s = {}
    <3>1. g[s] = h[0][s]
      BY <2>1, FS_EmptySet
    <3>2. QED BY <1>4, <2>1, <3>1
  <2>2. CASE s # {}
    <3>1. PICK x : x = ch[s] /\ x \in s
      BY <2>2
    <3>2. PICK c \in 0 .. n : c = Cardinality(s)
      BY <1>5
    <3>3. Cardinality(s \ {x}) = c - 1 /\ s \ {x} \in SUBSET S
      BY <1>5, <3>1, <3>2, FS_RemoveElement
    <3>4. c \in 1 .. n
      BY <1>5, <3>3
    <3>5. g[s] = h[c][s] /\ g[s \ {x}] = h[c - 1][s \ {x}]
      BY <3>2, <3>3
    <3>6. h[c][s] = up(h[c - 1])[s]
      BY <1>4, <3>4
    <3>7. up(h[c - 1])[s] = step[<< x, h[c - 1][s \ {x}] >>]
      BY <2>2, <3>1
    <3>8. QED BY <2>2, <3>1, <3>5, <3>6, <3>7
  <2>3. QED BY <2>1, <2>2
<1> HIDE DEF g
<1>8. QED BY <1>6, <1>7 DEF Folding

LEMMA AccumulatedSteps ==
  ASSUME NEW S, S = Fraction, NEW q \in Seq(S), NEW n \in Nat, n = Len(q)
  PROVE  \E f \in [0 .. n -> Acc] :
           /\ f[0] = NoAcc /\ \A i \in 1 .. n : f[i] = Welford(f[i - 1], q[i])
           /\ Accumulated(q) = f[n]
<1> DEFINE D == 1 .. n
           step == [x \in D \X Acc |-> Welford(x[2], q[x[1]])]
           ch == [s \in SUBSET D |-> Max(s)]
           Folds(g) == g = [s \in SUBSET D |->
                              IF s = {} THEN NoAcc ELSE Welford(g[s \ {Max(s)}], q[Max(s)])]
           it == CHOOSE g : Folds(g)
<1>1. DOMAIN q = D /\ \A i \in D : q[i] \in Fraction
  OBVIOUS
<1>2. Accumulated(q) = it[D]
  BY <1>1 DEF Accumulated, FoldLeft, MapThenFoldSet
<1>3. NoAcc \in Acc
  BY WholeIsFraction DEF NoAcc, Acc
<1>4. \E g : Folds(g)
  <2>1. step \in [D \X Acc -> Acc]
    BY <1>1, WelfordTyped
  <2>2. \A s \in SUBSET D : s # {} => ch[s] \in s
    BY MaxIn
  <2>3. IsFiniteSet(D)
    BY FS_Interval
  <2>4. PICK V, C, base, d : V = Acc /\ C = ch /\ base = NoAcc /\ d = step
    OBVIOUS
  <2>10. base \in V /\ d \in [D \X V -> V]
    BY <1>3, <2>1, <2>4
  <2>5. \A s \in SUBSET D : s # {} => C[s] \in s
    BY <2>2, <2>4
  <2>6. PICK g \in [SUBSET D -> V] : \A s \in SUBSET D :
           g[s] = IF s = {} THEN base ELSE d[<< C[s], g[s \ {C[s]}] >>]
    <3> HIDE DEF D, ch, step
    <3>1. PICK T : T = D
      OBVIOUS
    <3>2. IsFiniteSet(T) /\ base \in V /\ d \in [T \X V -> V]
      BY <2>3, <2>10, <3>1
    <3>3. \A s \in SUBSET T : s # {} => C[s] \in s
      BY <2>5, <3>1
    <3>4. Folding(T, V, base, d, C)
      BY <3>2, <3>3, FoldExists
    <3>5. QED BY <3>1, <3>4 DEF Folding
  <2>7. ASSUME NEW s \in SUBSET D
        PROVE  g[s] = IF s = {} THEN NoAcc ELSE Welford(g[s \ {Max(s)}], q[Max(s)])
    <3>1. CASE s # {}
      <4>1. PICK m \in D : m = Max(s) /\ C[s] = m
        BY <2>2, <2>4, <3>1
      <4>2. PICK r \in SUBSET D : r = s \ {m}
        OBVIOUS
      <4>3. g[r] \in Acc
        BY <2>4
      <4>4. d[<< m, g[r] >>] = Welford(g[r], q[m])
        BY <2>4, <4>3
      <4>5. QED BY <2>6, <3>1, <4>1, <4>2, <4>4
    <3>2. QED BY <2>4, <2>6, <3>1
  <2>8. g = [s \in SUBSET D |-> IF s = {} THEN NoAcc ELSE Welford(g[s \ {Max(s)}], q[Max(s)])]
    <3> DEFINE h == [s \in SUBSET D |-> IF s = {} THEN NoAcc ELSE Welford(g[s \ {Max(s)}], q[Max(s)])]
    <3>1. DOMAIN g = SUBSET D /\ DOMAIN h = SUBSET D /\ \A s \in SUBSET D : g[s] = h[s]
      BY <2>7
    <3> HIDE DEF D
    <3>2. g = h
      BY <3>1
    <3>3. QED BY <3>2
  <2> HIDE DEF D
  <2>9. QED BY <2>8
<1>5. Folds(it)
  <2> HIDE DEF Folds
  <2>1. QED BY <1>4
<1> HIDE DEF it
<1>6. \A s \in SUBSET D :
        it[s] = IF s = {} THEN NoAcc ELSE Welford(it[s \ {Max(s)}], q[Max(s)])
  BY <1>5
<1> DEFINE f == [k \in 0 .. n |-> it[1 .. k]]
<1>7. f[0] = NoAcc
  <2>1. 1 .. 0 = {} /\ 0 \in 0 .. n
    OBVIOUS
  <2>2. QED BY <1>6, <2>1
<1>8. ASSUME NEW i \in 1 .. n PROVE f[i] = Welford(f[i - 1], q[i])
  <2>1. PICK s \in SUBSET D : s = 1 .. i
    OBVIOUS
  <2>2. i \in s /\ \A x \in s : x <= i
    BY <2>1
  <2>3. Max(s) = i
    <3>1. Max(s) \in s /\ i <= Max(s)
      BY <2>2, MaxIn
    <3>2. PICK m \in D : m = Max(s)
      BY <3>1
    <3>3. m <= i /\ i <= m
      BY <2>2, <3>1, <3>2
    <3>4. QED BY <3>2, <3>3
  <2>4. s \ {i} = 1 .. i - 1
    BY <2>1
  <2>5. it[s] = Welford(it[1 .. i - 1], q[i])
    BY <1>6, <2>2, <2>3, <2>4
  <2>6. i - 1 \in 0 .. n /\ i \in 0 .. n
    OBVIOUS
  <2>7. QED BY <2>1, <2>5, <2>6
<1> HIDE DEF f
<1>9. \A i \in 0 .. n : f[i] \in Acc
  <2> DEFINE bad == {i \in 0 .. n : f[i] \notin Acc}
  <2>1. SUFFICES ASSUME bad # {} PROVE FALSE
    OBVIOUS
  <2>2. PICK i \in bad : \A j \in bad : i <= j
    <3>1. \A num \in bad : num \in Nat
      OBVIOUS
    <3>2. QED BY <2>1, <3>1, LeastNumber
  <2>3. CASE i = 0
    BY <1>3, <1>7, <2>3
  <2>4. CASE i # 0
    <3>1. i \in 1 .. n /\ i - 1 \in 0 .. n /\ ~(i <= i - 1)
      BY <2>4
    <3>2. f[i - 1] \in Acc
      BY <2>2, <3>1
    <3>3. f[i] = Welford(f[i - 1], q[i]) /\ q[i] \in Fraction
      BY <1>1, <1>8, <3>1
    <3>4. QED BY <3>2, <3>3, WelfordTyped
  <2>5. QED BY <2>3, <2>4
<1>10. Accumulated(q) = f[n]
  BY <1>2 DEF f
<1>11. f \in [0 .. n -> Acc]
  BY <1>9 DEF f
<1>12. QED BY <1>7, <1>8, <1>10, <1>11

-----------------------------------------------------------------------------
(* What a fraction is worth *)

Value(x, a, d) == x[1] * d = a * x[2]

LEMMA Times ==
  /\ \A i, j \in Int : i * j = j * i
  /\ \A i, j, k \in Int : i * (j * k) = (i * j) * k
  /\ \A i, j, k \in Int : (i + j) * k = i * k + j * k
  /\ \A i, j, k \in Int : (i - j) * k = i * k - j * k
BY SMTT(30)

LEMMA Cancel == ASSUME NEW i \in Int, NEW j \in Int, NEW k \in Nat \ {0}, i * k = j * k PROVE i = j
BY SMTT(30)

LEMMA Swap4 ==
  ASSUME NEW i \in Int, NEW j \in Int, NEW k \in Int, NEW l \in Int
  PROVE  (i * j) * (k * l) = (i * k) * (j * l)
BY SMTT(30)

LEMMA ValueSub ==
  ASSUME NEW x \in Fraction, NEW y \in Fraction, NEW a \in Int, NEW b \in Int, NEW d \in Nat \ {0},
         Value(x, a, d), Value(y, b, d)
  PROVE  Value(Sub(x, y), a - b, d) /\ Value(Add(x, y), a + b, d)
<1>1. PICK p \in Int, q \in Nat \ {0}, r \in Int, s \in Nat \ {0} : x = << p, q >> /\ y = << r, s >>
  BY DEF Fraction
<1>2. p * d = a * q /\ r * d = b * s
  BY <1>1 DEF Value
<1>3. Sub(x, y) = << p * s - r * q, q * s >> /\ Add(x, y) = << p * s + r * q, q * s >>
  BY <1>1 DEF Sub, Add
<1>4. (p * s) * d = a * (q * s)
  <2>1. (p * s) * d = (p * d) * s
    BY SMTT(30)
  <2>2. a * (q * s) = (a * q) * s
    BY SMTT(30)
  <2>3. QED BY <1>2, <2>1, <2>2
<1>5. (r * q) * d = b * (q * s)
  <2>1. (r * q) * d = (r * d) * q
    BY SMTT(30)
  <2>2. b * (q * s) = (b * s) * q
    BY SMTT(30)
  <2>3. QED BY <1>2, <2>1, <2>2
<1>6. PICK ps \in Int, rq \in Int, qs \in Int : ps = p * s /\ rq = r * q /\ qs = q * s
  BY Products
<1>7. ps * d = a * qs /\ rq * d = b * qs
  BY <1>4, <1>5, <1>6
<1>8. (ps - rq) * d = (a - b) * qs /\ (ps + rq) * d = (a + b) * qs
  <2>1. (ps - rq) * d = ps * d - rq * d /\ (ps + rq) * d = ps * d + rq * d
    BY Times
  <2>2. (a - b) * qs = a * qs - b * qs /\ (a + b) * qs = a * qs + b * qs
    BY Times
  <2>3. QED BY <1>7, <2>1, <2>2
<1>9. QED BY <1>3, <1>6, <1>8 DEF Value

LEMMA ValueMul ==
  ASSUME NEW x \in Fraction, NEW y \in Fraction, NEW a \in Int, NEW b \in Int, NEW d \in Nat \ {0},
         NEW e \in Nat \ {0}, Value(x, a, d), Value(y, b, e)
  PROVE  Value(Mul(x, y), a * b, d * e)
<1>1. PICK p \in Int, q \in Nat \ {0}, r \in Int, s \in Nat \ {0} : x = << p, q >> /\ y = << r, s >>
  BY DEF Fraction
<1>2. p * d = a * q /\ r * e = b * s
  BY <1>1 DEF Value
<1>3. (p * r) * (d * e) = (p * d) * (r * e)
  BY Swap4
<1>4. (a * b) * (q * s) = (a * q) * (b * s)
  BY Swap4
<1>5. Mul(x, y) = << p * r, q * s >>
  BY <1>1 DEF Mul
<1>6. QED BY <1>2, <1>3, <1>4, <1>5 DEF Value

LEMMA ValueOver ==
  ASSUME NEW x \in Fraction, NEW a \in Int, NEW d \in Nat \ {0}, NEW n \in Nat \ {0}, Value(x, a, d)
  PROVE  Value(Over(x, n), a, d * n)
<1>1. PICK p \in Int, q \in Nat \ {0} : x = << p, q >>
  BY DEF Fraction
<1>2. p * d = a * q
  BY <1>1 DEF Value
<1>3. p * (d * n) = (p * d) * n /\ a * (q * n) = (a * q) * n
  BY Times
<1>4. Over(x, n) = << p, q * n >>
  BY <1>1 DEF Over
<1>5. QED BY <1>2, <1>3, <1>4 DEF Value

LEMMA ValueScale ==
  ASSUME NEW x \in Fraction, NEW a \in Int, NEW d \in Nat \ {0}, NEW n \in Nat \ {0}
  PROVE  Value(x, a, d) <=> Value(x, a * n, d * n)
<1>1. PICK p \in Int, q \in Nat \ {0} : x = << p, q >>
  BY DEF Fraction
<1>2. p * (d * n) = (p * d) * n
  BY Times
<1>3. (a * n) * q = (a * q) * n
  BY SMTT(30)
<1>4. PICK i \in Int, j \in Int : i = p * d /\ j = a * q
  BY Products
<1>5. i = j <=> i * n = j * n
  BY Cancel
<1>6. Value(x, a, d) <=> i = j
  BY <1>1, <1>4 DEF Value
<1>7. Value(x, a * n, d * n) <=> i * n = j * n
  BY <1>1, <1>2, <1>3, <1>4 DEF Value
<1>8. QED BY <1>5, <1>6, <1>7

LEMMA ValueEqual ==
  ASSUME NEW x \in Fraction, NEW y \in Fraction, NEW a \in Int, NEW d \in Nat \ {0},
         Value(x, a, d), Value(y, a, d)
  PROVE  Equal(x, y)
<1>1. PICK p \in Int, q \in Nat \ {0}, r \in Int, s \in Nat \ {0} : x = << p, q >> /\ y = << r, s >>
  BY DEF Fraction
<1>2. p * d = a * q /\ r * d = a * s
  BY <1>1 DEF Value
<1>3. (p * s) * d = (p * d) * s /\ (r * q) * d = (r * d) * q /\ (a * q) * s = (a * s) * q
  BY SMTT(30)
<1>4. PICK ps \in Int, rq \in Int : ps = p * s /\ rq = r * q
  BY Products
<1>5. ps = rq
  BY <1>2, <1>3, <1>4, Cancel
<1>6. QED BY <1>1, <1>4, <1>5 DEF Equal, Leq

LEMMA ValueWhole == ASSUME NEW n \in Int PROVE Value(Frac(n), n, 1) /\ Value(Frac(0), 0, n)
BY DEF Value, Frac

-----------------------------------------------------------------------------
(* The sums behind a mean and a deviation *)

\* The accumulator of k values with a denominator d: a is the sum of their numerators
\* and b that of the squares of these.
Stats(acc, k, a, b, d) ==
  IF k = 0 THEN acc = NoAcc /\ a = 0 /\ b = 0
  ELSE /\ acc \in Acc /\ acc.n = k
       /\ Value(acc.mean, a, k * d) /\ Value(acc.m2, k * b - a * a, k * (d * d))

\* The identity Welford's recurrence rests on
LEMMA WelfordIdentity ==
  ASSUME NEW k \in Int, NEW a \in Int, NEW b \in Int, NEW x \in Int
  PROVE  (k * b - a * a) * (k + 1) + (k * x - a) * (k * x - a)
           = ((k + 1) * (b + x * x) - (a + x) * (a + x)) * k
BY SMTT(60)

\* One more value
LEMMA WelfordStats ==
  ASSUME NEW acc, NEW k \in Nat, NEW a \in Int, NEW b \in Int, NEW d \in Nat \ {0},
         Stats(acc, k, a, b, d), NEW v \in Fraction, NEW x \in Int, Value(v, x, d)
  PROVE  Stats(Welford(acc, v), k + 1, a + x, b + x * x, d)
<1>1. PICK l \in Nat \ {0} : l = k + 1
  OBVIOUS
<1>2. PICK dd \in Nat \ {0}, ld \in Nat \ {0}, ldd \in Nat \ {0} :
        dd = d * d /\ ld = l * d /\ ldd = l * dd
  BY Products
<1>3. acc \in Acc /\ acc.n = k
  <2>1. CASE k = 0
    <3>1. NoAcc \in Acc /\ NoAcc.n = 0
      BY WholeIsFraction DEF NoAcc, Acc
    <3>2. QED BY <2>1, <3>1 DEF Stats
  <2>2. CASE k # 0
    BY <2>2 DEF Stats
  <2>3. QED BY <2>1, <2>2
<1>4. PICK m \in Fraction, w \in Fraction : acc = [n |-> k, mean |-> m, m2 |-> w]
  BY <1>3 DEF Acc
<1>5. PICK delta \in Fraction : delta = Sub(v, m)
  BY FractionOps
<1>6. PICK part \in Fraction : part = Over(delta, l)
  BY FractionOps
<1>7. PICK mean \in Fraction : mean = Add(m, part)
  BY FractionOps
<1>8. PICK rest \in Fraction : rest = Sub(v, mean)
  BY FractionOps
<1>9. PICK prod \in Fraction : prod = Mul(delta, rest)
  BY FractionOps
<1>10. PICK m2 \in Fraction : m2 = Add(w, prod)
  BY FractionOps
<1>11. PICK new \in Acc : new = Welford(acc, v)
  BY <1>3, WelfordTyped
<1>12. new = [n |-> l, mean |-> mean, m2 |-> m2]
  BY <1>1, <1>4, <1>5, <1>6, <1>7, <1>8, <1>9, <1>10, <1>11 DEF Welford
<1>13. PICK xx \in Int, ax \in Int, bx \in Int, ss \in Int, lb \in Int :
         xx = x * x /\ ax = a + x /\ bx = b + xx /\ ss = ax * ax /\ lb = l * bx
  BY Products
<1>14. Value(mean, ax, ld) /\ Value(m2, lb - ss, ldd)
  <2>1. CASE k = 0
    <3>1. m = Frac(0) /\ w = Frac(0) /\ a = 0 /\ b = 0 /\ l = 1
      BY <1>1, <1>4, <2>1 DEF Stats, NoAcc
    <3>2. Value(m, 0, d) /\ Value(w, 0, dd)
      BY <1>2, <3>1, ValueWhole
    <3>3. ld = d /\ ldd = dd /\ ax = x /\ lb = xx /\ ss = xx
      BY <1>2, <1>13, <3>1
    <3>4. Value(delta, x, d)
      <4>1. Value(delta, x - 0, d)
        BY <1>5, <3>2, ValueSub
      <4>2. QED BY <4>1
    <3>5. Value(part, x, d)
      <4>1. Value(part, x, d * l)
        BY <1>6, <3>4, ValueOver
      <4>2. d * l = d
        BY <3>1
      <4>3. QED BY <4>1, <4>2
    <3>6. Value(mean, x, d)
      <4>1. Value(mean, 0 + x, d)
        BY <1>7, <3>2, <3>5, ValueSub
      <4>2. QED BY <4>1
    <3>7. Value(rest, 0, d)
      <4>1. Value(rest, x - x, d)
        BY <1>8, <3>6, ValueSub
      <4>2. QED BY <4>1
    <3>8. Value(prod, 0, dd)
      <4>1. Value(prod, x * 0, d * d)
        BY <1>9, <3>4, <3>7, ValueMul
      <4>2. QED BY <1>2, <4>1
    <3>9. Value(m2, 0, dd)
      <4>1. Value(m2, 0 + 0, dd)
        BY <1>10, <3>2, <3>8, ValueSub
      <4>2. QED BY <4>1
    <3>10. lb - ss = 0
      BY <3>3
    <3>11. QED BY <3>3, <3>6, <3>9, <3>10
  <2>2. CASE k # 0
    <3>1. PICK j \in Nat \ {0} : j = k
      BY <2>2
    <3>2. PICK jd \in Nat \ {0}, jdd \in Nat \ {0}, jl \in Nat \ {0}, e \in Nat \ {0},
               jx \in Int, aa \in Int, jb \in Int :
            /\ jd = j * d /\ jdd = j * dd /\ jl = j * l /\ e = jl * d
            /\ jx = j * x /\ aa = a * a /\ jb = j * b
      BY Products
    <3>3. Value(m, a, jd) /\ Value(w, jb - aa, jdd)
      BY <1>2, <1>4, <2>2, <3>1, <3>2 DEF Stats
    <3>4. /\ jd * l = e /\ ld * j = e /\ d * jl = e /\ d * j = jd /\ d * l = ld
      <4>1. (j * d) * l = (j * l) * d /\ (l * d) * j = (j * l) * d /\ d * (j * l) = (j * l) * d
            /\ d * j = j * d /\ d * l = l * d
        BY SMTT(30)
      <4>2. QED BY <1>2, <3>2, <4>1
    <3>5. PICK diff \in Int : diff = jx - a
      OBVIOUS
    <3>6. Value(delta, diff, jd)
      <4>1. Value(v, jx, jd)
        <5>1. Value(v, x * j, d * j)
          BY ValueScale
        <5>2. x * j = jx
          BY <3>2, Times
        <5>3. QED BY <3>4, <5>1, <5>2
      <4>2. QED BY <1>5, <3>3, <3>5, <4>1, ValueSub
    <3>7. Value(part, diff, e)
      <4>1. Value(part, diff, jd * l)
        BY <1>6, <3>6, ValueOver
      <4>2. QED BY <3>4, <4>1
    <3>8. Value(mean, ax, ld)
      <4>1. PICK al \in Int : al = a * l
        BY Products
      <4>2. Value(m, al, e)
        <5>1. Value(m, a * l, jd * l)
          BY <3>3, ValueScale
        <5>2. QED BY <3>4, <4>1, <5>1
      <4>3. Value(mean, al + diff, e)
        BY <1>7, <3>7, <4>2, ValueSub
      <4>4. al + diff = ax * j
        <5>1. a * (j + 1) + (j * x - a) = (a + x) * j
          BY SMTT(30)
        <5>2. QED BY <1>1, <1>13, <3>1, <3>2, <3>5, <4>1, <5>1
      <4>5. Value(mean, ax * j, ld * j)
        BY <3>4, <4>3, <4>4
      <4>6. QED BY <4>5, ValueScale
    <3>9. Value(rest, diff, ld)
      <4>1. PICK xl \in Int : xl = x * l
        BY Products
      <4>2. Value(v, xl, ld)
        <5>1. Value(v, x * l, d * l)
          BY ValueScale
        <5>2. QED BY <3>4, <4>1, <5>1
      <4>3. Value(rest, xl - ax, ld)
        BY <1>8, <3>8, <4>2, ValueSub
      <4>4. xl - ax = diff
        <5>1. x * (j + 1) - (a + x) = j * x - a
          BY SMTT(30)
        <5>2. QED BY <1>1, <1>13, <3>1, <3>2, <3>5, <4>1, <5>1
      <4>5. QED BY <4>3, <4>4
    <3>10. PICK sq \in Int, f \in Nat \ {0} : sq = diff * diff /\ f = ldd * j
      BY Products
    <3>11. jd * ld = f /\ jdd * l = f
      <4>1. (j * d) * (l * d) = (l * (d * d)) * j /\ (j * (d * d)) * l = (l * (d * d)) * j
        BY SMTT(30)
      <4>2. QED BY <1>2, <3>2, <3>10, <4>1
    <3>12. Value(prod, sq, f)
      <4>1. Value(prod, diff * diff, jd * ld)
        BY <1>9, <3>6, <3>9, ValueMul
      <4>2. QED BY <3>10, <3>11, <4>1
    <3>13. PICK wl \in Int, i \in Int : wl = (jb - aa) * l /\ i = jb - aa
      BY Products
    <3>14. Value(w, wl, f)
      <4>1. Value(w, i * l, jdd * l)
        BY <3>3, <3>13, ValueScale
      <4>2. QED BY <3>11, <3>13, <4>1
    <3>15. Value(m2, wl + sq, f)
      BY <1>10, <3>12, <3>14, ValueSub
    <3>16. wl + sq = (lb - ss) * j
      <4>1. (j * b - a * a) * (j + 1) + (j * x - a) * (j * x - a)
              = ((j + 1) * (b + x * x) - (a + x) * (a + x)) * j
        BY WelfordIdentity
      <4>2. QED BY <1>1, <1>13, <3>1, <3>2, <3>5, <3>10, <3>13, <4>1
    <3>17. PICK y \in Int : y = lb - ss
      OBVIOUS
    <3>18. Value(m2, y * j, ldd * j)
      BY <3>10, <3>15, <3>16, <3>17
    <3>19. Value(m2, y, ldd)
      BY <3>18, ValueScale
    <3>20. QED BY <3>8, <3>17, <3>19
  <2>3. QED BY <2>1, <2>2
<1>15. QED
  <2>1. l # 0 /\ l * (b + x * x) - (a + x) * (a + x) = lb - ss /\ l * d = ld /\ l * (d * d) = ldd
    BY <1>2, <1>13
  <2>2. Stats(new, l, a + x, b + x * x, d)
    <3>1. new.n = l /\ new.mean = mean /\ new.m2 = m2 /\ a + x = ax
      BY <1>12, <1>13
    <3>2. QED BY <1>14, <2>1, <3>1 DEF Stats
  <2>3. QED BY <1>1, <1>11, <2>2

\* One more step
LEMMA AccumulatedAppend ==
  ASSUME NEW S, S = Fraction, NEW q \in Seq(S), NEW x \in S
  PROVE  Accumulated(Append(q, x)) = Welford(Accumulated(q), x) /\ Accumulated(q) \in Acc
<1>1. PICK n \in Nat : n = Len(q)
  OBVIOUS
<1>2. PICK r \in Seq(S) : r = Append(q, x)
  BY AppendProperties
<1>3. Len(r) = n + 1 /\ r[n + 1] = x /\ \A i \in 1 .. n : r[i] = q[i]
  BY <1>1, <1>2, AppendProperties
<1>4. PICK f \in [0 .. n -> Acc] : /\ f[0] = NoAcc /\ \A i \in 1 .. n : f[i] = Welford(f[i - 1], q[i])
                                   /\ Accumulated(q) = f[n]
  BY <1>1, AccumulatedSteps
<1>5. PICK g \in [0 .. n + 1 -> Acc] :
        /\ g[0] = NoAcc /\ \A i \in 1 .. n + 1 : g[i] = Welford(g[i - 1], r[i])
        /\ Accumulated(r) = g[n + 1]
  <2>1. PICK l \in Nat : l = n + 1
    OBVIOUS
  <2>2. Len(r) = l
    BY <1>3, <2>1
  <2>3. PICK g \in [0 .. l -> Acc] :
          /\ g[0] = NoAcc /\ \A i \in 1 .. l : g[i] = Welford(g[i - 1], r[i])
          /\ Accumulated(r) = g[l]
    BY <2>2, AccumulatedSteps
  <2>4. QED BY <2>1, <2>3
<1> DEFINE bad == {i \in 0 .. n : g[i] # f[i]}
<1>6. bad = {}
  <2>1. SUFFICES ASSUME bad # {} PROVE FALSE
    OBVIOUS
  <2>2. PICK i \in bad : \A j \in bad : i <= j
    <3>1. \A num \in bad : num \in Nat
      OBVIOUS
    <3>2. QED BY <2>1, <3>1, LeastNumber
  <2>3. i # 0
    BY <1>4, <1>5, <2>2
  <2>4. i \in 1 .. n /\ i \in 1 .. n + 1 /\ i - 1 \in 0 .. n /\ ~(i <= i - 1)
    BY <2>3
  <2>5. g[i - 1] = f[i - 1]
    BY <2>2, <2>4
  <2>6. g[i] = Welford(g[i - 1], r[i]) /\ f[i] = Welford(f[i - 1], q[i]) /\ r[i] = q[i]
    BY <1>3, <1>4, <1>5, <2>4
  <2>7. QED BY <2>2, <2>5, <2>6
<1>7. n \in 0 .. n /\ n + 1 \in 1 .. n + 1 /\ (n + 1) - 1 = n
  OBVIOUS
<1>8. g[n + 1] = Welford(g[n], r[n + 1]) /\ g[n] = f[n] /\ f[n] \in Acc
  <2>1. g[n + 1] = Welford(g[(n + 1) - 1], r[n + 1])
    BY <1>5, <1>7
  <2>2. g[n] = f[n] /\ f[n] \in Acc
    BY <1>6, <1>7
  <2>3. QED BY <1>7, <2>1, <2>2
<1>9. QED BY <1>2, <1>3, <1>4, <1>5, <1>8

LEMMA AccumulatedNone == Accumulated(<< >>) = NoAcc
<1>1. PICK S, q, n : S = Fraction /\ q = << >> /\ n = 0 /\ n \in Nat
  OBVIOUS
<1>2. q \in Seq(S) /\ n = Len(q)
  BY <1>1
<1>3. PICK f \in [0 .. n -> Acc] : f[0] = NoAcc /\ Accumulated(q) = f[n]
  BY <1>1, <1>2, AccumulatedSteps
<1>4. QED BY <1>1, <1>3

\* The sums of the first numbers of a, and of their squares
Sums(s, a, n) ==
  s[0] = 0 /\ (\A i \in 0 .. n : s[i] \in Int) /\ \A i \in 1 .. n : s[i] = s[i - 1] + a[i]
SquareSums(s, a, n) ==
  s[0] = 0 /\ (\A i \in 0 .. n : s[i] \in Int) /\ \A i \in 1 .. n : s[i] = s[i - 1] + a[i] * a[i]

\* What is accumulated of a queue is the sums of the first n numbers, over d, however
\* many zeros the queue lacks.
Totals(q, a, n, d) ==
  \A s, t : Sums(s, a, n) /\ SquareSums(t, a, n)
              => Stats(Accumulated(q), Len(q), s[n], t[n], d)

SumsStep(s, t, a, n) ==
  /\ Sums(s, a, n) /\ SquareSums(t, a, n)
  /\ s[n] \in Int /\ s[n + 1] = s[n] + a[n + 1]
  /\ t[n] \in Int /\ t[n + 1] = t[n] + a[n + 1] * a[n + 1]

LEMMA SumsOfFewer ==
  ASSUME NEW n \in Nat, NEW s, NEW a, NEW t, Sums(s, a, n + 1), SquareSums(t, a, n + 1)
  PROVE  SumsStep(s, t, a, n)
<1>1. \A i \in 0 .. n : i \in 0 .. n + 1
  OBVIOUS
<1>2. \A i \in 1 .. n : i \in 1 .. n + 1
  OBVIOUS
<1>3. n \in 0 .. n + 1 /\ n + 1 \in 1 .. n + 1 /\ (n + 1) - 1 = n
  OBVIOUS
<1>4. Sums(s, a, n) /\ SquareSums(t, a, n)
  BY <1>1, <1>2 DEF Sums, SquareSums
<1>5. s[n + 1] = s[(n + 1) - 1] + a[n + 1] /\ t[n + 1] = t[(n + 1) - 1] + a[n + 1] * a[n + 1]
  BY <1>3 DEF Sums, SquareSums
<1>6. s[n] \in Int /\ t[n] \in Int
  BY <1>3 DEF Sums, SquareSums
<1>7. QED BY <1>3, <1>4, <1>5, <1>6 DEF SumsStep

LEMMA TotalsSkip ==
  ASSUME NEW q, NEW a, NEW n \in Nat, NEW d, Totals(q, a, n, d)
  PROVE  a[n + 1] = 0 => Totals(q, a, n + 1, d)
<1>1. SUFFICES ASSUME NEW s, NEW t, Sums(s, a, n + 1), SquareSums(t, a, n + 1)
               PROVE  a[n + 1] = 0 => Stats(Accumulated(q), Len(q), s[n + 1], t[n + 1], d)
  BY DEF Totals
<1>2. SumsStep(s, t, a, n)
  BY <1>1, SumsOfFewer
<1>3. a[n + 1] = 0 => s[n + 1] = s[n] /\ t[n + 1] = t[n]
  BY <1>2 DEF SumsStep
<1>4. Stats(Accumulated(q), Len(q), s[n], t[n], d)
  BY <1>2 DEF Totals, SumsStep
<1>5. QED BY <1>3, <1>4

LEMMA TotalsPut ==
  ASSUME NEW S, S = Fraction, NEW q \in Seq(S), NEW a, NEW n \in Nat, NEW d \in Nat \ {0},
         Totals(q, a, n, d), NEW v \in S, a[n + 1] \in Int, Value(v, a[n + 1], d)
  PROVE  Totals(Append(q, v), a, n + 1, d)
<1>1. SUFFICES ASSUME NEW s, NEW t, Sums(s, a, n + 1), SquareSums(t, a, n + 1)
               PROVE  Stats(Accumulated(Append(q, v)), Len(Append(q, v)), s[n + 1], t[n + 1], d)
  BY DEF Totals
<1>2. SumsStep(s, t, a, n)
  BY <1>1, SumsOfFewer
<1>3. PICK k \in Nat, x \in Int, i \in Int, j \in Int :
        k = Len(q) /\ x = a[n + 1] /\ i = s[n] /\ j = t[n]
  BY <1>2 DEF SumsStep
<1>4. PICK acc : acc = Accumulated(q)
  OBVIOUS
<1>5. Stats(acc, k, i, j, d)
  BY <1>2, <1>3, <1>4 DEF Totals, SumsStep
<1>6. Stats(Welford(acc, v), k + 1, i + x, j + x * x, d)
  BY <1>3, <1>5, WelfordStats
<1>7. Accumulated(Append(q, v)) = Welford(acc, v) /\ Len(Append(q, v)) = k + 1
  BY <1>3, <1>4, AccumulatedAppend
<1>8. s[n + 1] = i + x /\ t[n + 1] = j + x * x
  BY <1>2, <1>3 DEF SumsStep
<1>9. QED BY <1>6, <1>7, <1>8

LEMMA TotalsZero ==
  ASSUME NEW S, S = Fraction, NEW q \in Seq(S), NEW a, NEW n \in Nat, NEW d \in Nat \ {0},
         Totals(q, a, n, d)
  PROVE  Totals(Append(q, Frac(0)), a, n, d)
<1>0. PICK v \in S : v = Frac(0)
  BY WholeIsFraction
<1>1. SUFFICES ASSUME NEW s, NEW t, Sums(s, a, n), SquareSums(t, a, n)
               PROVE  Stats(Accumulated(Append(q, v)), Len(Append(q, v)), s[n], t[n], d)
  BY <1>0 DEF Totals
<1>2. s[n] \in Int /\ t[n] \in Int
  <2>1. n \in 0 .. n
    OBVIOUS
  <2>2. QED BY <1>1, <2>1 DEF Sums, SquareSums
<1>3. PICK k \in Nat, i \in Int, j \in Int : k = Len(q) /\ i = s[n] /\ j = t[n]
  BY <1>2
<1>4. PICK acc : acc = Accumulated(q)
  OBVIOUS
<1>5. Stats(acc, k, i, j, d)
  BY <1>1, <1>3, <1>4 DEF Totals
<1>6. PICK x \in Int : x = 0 /\ Value(v, x, d)
  BY <1>0, ValueWhole
<1>7. Stats(Welford(acc, v), k + 1, i + x, j + x * x, d)
  BY <1>5, <1>6, WelfordStats
<1>8. Accumulated(Append(q, v)) = Welford(acc, v) /\ Len(Append(q, v)) = k + 1
  BY <1>3, <1>4, AccumulatedAppend
<1>9. i + x = s[n] /\ j + x * x = t[n]
  BY <1>3, <1>6
<1>10. QED BY <1>7, <1>8, <1>9

\* Padding
LEMMA TotalsPadded ==
  ASSUME NEW S, S = Fraction, NEW q \in Seq(S), NEW a, NEW n \in Nat, NEW d \in Nat \ {0},
         Totals(q, a, n, d), NEW m \in Nat, NEW z, z = [i \in 1 .. m |-> Frac(0)]
  PROVE  q \o z \in Seq(S) /\ Len(q \o z) = Len(q) + m /\ Totals(q \o z, a, n, d)
<1>1. PICK v \in S : v = Frac(0)
  BY WholeIsFraction
<1> DEFINE Zeros(i) == [j \in 1 .. i |-> v]
           bad == {i \in 0 .. m : ~Totals(q \o Zeros(i), a, n, d)}
<1>2. ASSUME NEW i \in Nat PROVE Zeros(i) \in Seq(S) /\ Len(Zeros(i)) = i
  OBVIOUS
<1>3. Totals(q \o Zeros(0), a, n, d)
  <2>1. Zeros(0) \in Seq(S) /\ Len(Zeros(0)) = 0
    BY <1>2
  <2>2. PICK y \in Seq(S) : y = Zeros(0) /\ Len(y) = 0
    BY <2>1
  <2>3. y = << >>
    BY <2>2, EmptySeq
  <2>4. q \o y = q
    BY <2>3
  <2>5. QED BY <2>2, <2>4
<1>4. ASSUME NEW i \in Nat, Totals(q \o Zeros(i), a, n, d)
      PROVE  Totals(q \o Zeros(i + 1), a, n, d)
  <2>1. PICK y \in Seq(S), w \in Seq(S) : y = Zeros(i) /\ w = Zeros(i + 1) /\ Len(y) = i /\ Len(w) = i + 1
    <3>1. i + 1 \in Nat
      OBVIOUS
    <3>2. QED BY <1>2, <3>1
  <2>2. w = Append(y, v)
    <3>1. /\ Append(y, v) \in Seq(S) /\ Len(Append(y, v)) = i + 1 /\ Append(y, v)[i + 1] = v
          /\ \A j \in 1 .. i : Append(y, v)[j] = y[j]
      BY <2>1, AppendProperties
    <3>2. PICK u \in Seq(S) : u = Append(y, v)
      BY <3>1
    <3>3. \A j \in 1 .. i + 1 : w[j] = v
      BY <2>1
    <3>4. \A j \in 1 .. i : y[j] = v
      BY <2>1
    <3>5. \A j \in 1 .. i + 1 : j \in 1 .. i \/ j = i + 1
      OBVIOUS
    <3>6. \A j \in 1 .. i + 1 : u[j] = w[j]
      BY <3>1, <3>2, <3>3, <3>4, <3>5
    <3>7. Len(u) = i + 1 /\ Len(w) = i + 1
      BY <2>1, <3>1, <3>2
    <3>8. u = w
      BY <3>6, <3>7, SeqEqual
    <3>9. QED BY <3>2, <3>8
  <2>3. q \o Append(y, v) = Append(q \o y, v)
    BY SMTT(30)
  <2>4. PICK r \in Seq(S) : r = q \o y
    <3>1. q \o y \in Seq(S)
      OBVIOUS
    <3>2. QED BY <3>1
  <2>5. Totals(Append(r, Frac(0)), a, n, d)
    BY <1>4, <2>1, <2>4, TotalsZero
  <2>6. QED BY <1>1, <2>1, <2>2, <2>3, <2>4, <2>5
<1> HIDE DEF Zeros
<1>5. bad = {}
  <2>1. SUFFICES ASSUME bad # {} PROVE FALSE
    OBVIOUS
  <2>2. PICK i \in bad : \A j \in bad : i <= j
    <3>1. \A num \in bad : num \in Nat
      OBVIOUS
    <3>2. QED BY <2>1, <3>1, LeastNumber
  <2>3. i # 0
    BY <1>3, <2>2
  <2>4. PICK j \in Nat : j = i - 1 /\ j \in 0 .. m /\ i = j + 1 /\ ~(i <= j)
    BY <2>3
  <2>5. Totals(q \o Zeros(j), a, n, d)
    BY <2>2, <2>4
  <2>6. QED BY <1>4, <2>2, <2>4, <2>5
<1>6. m \in 0 .. m
  OBVIOUS
<1>7. Totals(q \o Zeros(m), a, n, d)
  BY <1>5, <1>6
<1>8. z = Zeros(m)
  BY <1>1 DEF Zeros
<1>9. z \in Seq(S) /\ Len(z) = m
  BY <1>2, <1>8
<1>10. QED BY <1>7, <1>8, <1>9

-----------------------------------------------------------------------------
(* Sums over a set of periods *)

\* The sums of some numbers exist ...
LEMMA SumsExist ==
  ASSUME NEW n \in Nat, NEW b, \A k \in 1 .. n : b[k] \in Int
  PROVE  \E s : Sums(s, b, n)
<1>1. PICK V, base, step : /\ V = Int /\ base = 0
                           /\ step = [x \in (1 .. n) \X V |-> x[2] + b[x[1]]]
  OBVIOUS
<1>2. base \in V /\ step \in [(1 .. n) \X V -> V]
  BY <1>1
<1>3. Recursion(V, base, n, step)
  BY <1>2, RecursionExists
<1>4. PICK s \in [0 .. n -> V] : s[0] = base /\ \A i \in 1 .. n : s[i] = step[<< i, s[i - 1] >>]
  BY <1>3 DEF Recursion
<1>5. ASSUME NEW i \in 1 .. n PROVE s[i] = s[i - 1] + b[i]
  <2>1. i - 1 \in 0 .. n
    OBVIOUS
  <2>2. PICK j \in V : j = s[i - 1]
    BY <2>1
  <2>3. step[<< i, j >>] = j + b[i]
    BY <1>1
  <2>4. QED BY <1>4, <2>2, <2>3
<1>6. QED BY <1>1, <1>4, <1>5 DEF Sums

\* ... and those of numbers that differ in one place differ as much from there on.
LEMMA SumsDiffer ==
  ASSUME NEW n \in Nat, NEW x \in 1 .. n, NEW b, NEW c, NEW y \in Int, NEW s, NEW t,
         Sums(s, b, n), Sums(t, c, n), \A k \in 1 .. n : b[k] \in Int /\ c[k] \in Int,
         \A k \in 1 .. n : k # x => b[k] = c[k], b[x] = c[x] + y
  PROVE  s[n] = t[n] + y
<1> DEFINE Right(i) == s[i] = IF i < x THEN t[i] ELSE t[i] + y
           bad == {i \in 0 .. n : ~Right(i)}
<1>1. bad = {}
  <2>1. SUFFICES ASSUME bad # {} PROVE FALSE
    OBVIOUS
  <2>2. PICK i \in bad : \A j \in bad : i <= j
    <3>1. \A num \in bad : num \in Nat
      OBVIOUS
    <3>2. QED BY <2>1, <3>1, LeastNumber
  <2>3. i # 0
    <3>1. s[0] = 0 /\ t[0] = 0 /\ 0 < x
      BY DEF Sums
    <3>2. Right(0)
      BY <3>1
    <3>3. QED BY <2>2, <3>2
  <2>4. PICK j \in 0 .. n : j = i - 1 /\ i = j + 1 /\ i \in 1 .. n /\ ~(i <= j)
    BY <2>3
  <2>5. Right(j)
    BY <2>2, <2>4
  <2>6. s[i] = s[j] + b[i] /\ t[i] = t[j] + c[i] /\ s[j] \in Int /\ t[j] \in Int
    BY <2>4 DEF Sums
  <2>7. PICK p \in Int, q \in Int, e \in Int, f \in Int : p = s[j] /\ q = t[j] /\ e = b[i] /\ f = c[i]
    BY <2>4, <2>6
  <2>8. i # x => e = f
    BY <2>4, <2>7
  <2>9. i = x => e = f + y
    BY <2>7
  <2>10. p = IF j < x THEN q ELSE q + y
    BY <2>5, <2>7
  <2>11. p + e = IF i < x THEN q + f ELSE (q + f) + y
    BY <2>4, <2>8, <2>9, <2>10
  <2>12. Right(i)
    BY <2>6, <2>7, <2>11
  <2>13. QED BY <2>2, <2>12
<1>2. n \in 0 .. n /\ ~(n < x)
  OBVIOUS
<1>3. Right(n)
  BY <1>1, <1>2
<1>4. QED BY <1>2, <1>3

Masked(b, R, n) == [k \in 1 .. n |-> IF k \in R THEN b[k] ELSE 0]

FractionSum(f) == FoldFunction(Add, Frac(0), f)

\* The fold of a sum takes the elements of a set in some order.
FoldsBy(f, it, ch, S) ==
  /\ it \in [SUBSET S -> Fraction]
  /\ \A R \in SUBSET S : R # {} => ch[R] \in R
  /\ \A R \in SUBSET S : it[R] = IF R = {} THEN Frac(0) ELSE Add(f[ch[R]], it[R \ {ch[R]}])
  /\ FractionSum(f) = it[S]

LEMMA FractionFolds ==
  ASSUME NEW D, IsFiniteSet(D), NEW f \in [D -> Fraction]
  PROVE  \E it, ch : FoldsBy(f, it, ch, D)
<1> DEFINE step == [x \in D \X Fraction |-> Add(f[x[1]], x[2])]
           ch == [s \in SUBSET D |-> CHOOSE x \in s : TRUE]
           Folds(g) == g = [s \in SUBSET D |->
                              IF s = {} THEN Frac(0)
                              ELSE Add(f[CHOOSE x \in s : TRUE], g[s \ {CHOOSE x \in s : TRUE}])]
           it == CHOOSE g : Folds(g)
<1>1. DOMAIN f = D /\ \A i \in D : f[i] \in Fraction
  OBVIOUS
<1>2. FractionSum(f) = it[D]
  BY <1>1 DEF FractionSum, FoldFunction, FoldFunctionOnSet, MapThenFoldSet
<1>3. Frac(0) \in Fraction
  BY WholeIsFraction
<1>4. \E g : Folds(g) /\ g \in [SUBSET D -> Fraction]
  <2>1. step \in [D \X Fraction -> Fraction]
    <3>1. ASSUME NEW x \in D, NEW y \in Fraction PROVE Add(f[x], y) \in Fraction
      <4>1. f[x] \in Fraction /\ 1 \in Nat \ {0}
        OBVIOUS
      <4>2. QED BY <4>1, FractionOps
    <3>2. QED BY <3>1
  <2>2. \A s \in SUBSET D : s # {} => ch[s] \in s
    OBVIOUS
  <2>4. PICK V, C, base, d : V = Fraction /\ C = ch /\ base = Frac(0) /\ d = step
    OBVIOUS
  <2>10. base \in V /\ d \in [D \X V -> V]
    BY <1>3, <2>1, <2>4
  <2>5. \A s \in SUBSET D : s # {} => C[s] \in s
    BY <2>2, <2>4
  <2>6. PICK g \in [SUBSET D -> V] : \A s \in SUBSET D :
           g[s] = IF s = {} THEN base ELSE d[<< C[s], g[s \ {C[s]}] >>]
    <3> HIDE DEF ch, step
    <3>1. Folding(D, V, base, d, C)
      BY <2>5, <2>10, FoldExists
    <3>2. QED BY <3>1 DEF Folding
  <2>7. ASSUME NEW s \in SUBSET D
        PROVE  g[s] = IF s = {} THEN Frac(0)
                      ELSE Add(f[CHOOSE x \in s : TRUE], g[s \ {CHOOSE x \in s : TRUE}])
    <3>1. CASE s # {}
      <4>1. PICK m \in D : m = (CHOOSE x \in s : TRUE) /\ C[s] = m
        BY <2>2, <2>4, <3>1
      <4>2. PICK r \in SUBSET D : r = s \ {m}
        OBVIOUS
      <4>3. g[r] \in Fraction
        BY <2>4
      <4>4. d[<< m, g[r] >>] = Add(f[m], g[r])
        BY <2>4, <4>3
      <4>5. QED BY <2>6, <3>1, <4>1, <4>2, <4>4
    <3>2. QED BY <2>4, <2>6, <3>1
  <2>8. g = [s \in SUBSET D |-> IF s = {} THEN Frac(0)
                                ELSE Add(f[CHOOSE x \in s : TRUE], g[s \ {CHOOSE x \in s : TRUE}])]
    <3> DEFINE h == [s \in SUBSET D |-> IF s = {} THEN Frac(0)
                                ELSE Add(f[CHOOSE x \in s : TRUE], g[s \ {CHOOSE x \in s : TRUE}])]
    <3>1. DOMAIN g = SUBSET D /\ DOMAIN h = SUBSET D /\ \A s \in SUBSET D : g[s] = h[s]
      BY <2>7
    <3>2. g = h
      BY <3>1
    <3>3. QED BY <3>2
  <2>9. QED BY <2>4, <2>8
<1>5. Folds(it)
  <2> HIDE DEF Folds
  <2>1. QED BY <1>4
<1>6. it \in [SUBSET D -> Fraction]
  <2>1. PICK g : Folds(g) /\ g \in [SUBSET D -> Fraction]
    BY <1>4
  <2> DEFINE bad == {c \in Nat : \E s \in SUBSET D : Cardinality(s) = c /\ it[s] # g[s]}
  <2>2. bad = {}
    <3>1. SUFFICES ASSUME bad # {} PROVE FALSE
      OBVIOUS
    <3>2. PICK c \in bad : \A e \in bad : c <= e
      BY <3>1, LeastNumber
    <3>3. PICK s \in SUBSET D : Cardinality(s) = c /\ it[s] # g[s]
      BY <3>2
    <3> HIDE DEF it
    <3>4. s # {}
      BY <1>5, <2>1, <3>3
    <3>5. PICK m \in s : m = CHOOSE x \in s : TRUE
      BY <3>4
    <3>6. it[s] = Add(f[m], it[s \ {m}]) /\ g[s] = Add(f[m], g[s \ {m}])
      BY <1>5, <2>1, <3>4, <3>5
    <3>7. IsFiniteSet(s) /\ Cardinality(s \ {m}) = Cardinality(s) - 1 /\ s \ {m} \in SUBSET D
      BY FS_Subset, FS_RemoveElement
    <3>8. Cardinality(s \ {m}) \in Nat
      <4>1. IsFiniteSet(s \ {m})
        BY <3>7, FS_Subset
      <4>2. QED BY <4>1, FS_CardinalityType
    <3>9. c - 1 \in Nat /\ ~(c <= c - 1)
      BY <3>3, <3>7, <3>8
    <3>10. it[s \ {m}] = g[s \ {m}]
      BY <3>2, <3>3, <3>7, <3>9
    <3>11. QED BY <3>3, <3>6, <3>10
  <2>3. ASSUME NEW s \in SUBSET D PROVE it[s] = g[s]
    <3>1. IsFiniteSet(s)
      BY FS_Subset
    <3>2. Cardinality(s) \in Nat
      BY <3>1, FS_CardinalityType
    <3>3. QED BY <2>2, <3>2
  <2>4. DOMAIN it = SUBSET D /\ it = [s \in SUBSET D |-> it[s]]
    BY <1>5
  <2> HIDE DEF it
  <2>5. QED BY <2>1, <2>3, <2>4
<1> HIDE DEF it
<1>7. \A R \in SUBSET D : it[R] = IF R = {} THEN Frac(0) ELSE Add(f[ch[R]], it[R \ {ch[R]}])
  BY <1>5
<1>8. \A R \in SUBSET D : R # {} => ch[R] \in R
  OBVIOUS
<1> HIDE DEF ch
<1>9. FoldsBy(f, it, ch, D)
  BY <1>2, <1>6, <1>7, <1>8 DEF FoldsBy
<1>10. QED BY <1>9

\* A sum of fractions over a set of periods is that of their numerators, in any order.
LEMMA FoldSums ==
  ASSUME NEW n \in Nat, NEW D \in SUBSET (1 .. n), NEW f \in [D -> Fraction], NEW d \in Nat \ {0},
         NEW b, \A k \in 1 .. n : b[k] \in Int, \A k \in D : Value(f[k], b[k], d),
         \A k \in 1 .. n : k \notin D => b[k] = 0, NEW s, Sums(s, b, n)
  PROVE  FractionSum(f) \in Fraction /\ Value(FractionSum(f), s[n], d)
<1>1. IsFiniteSet(D)
  <2>1. IsFiniteSet(1 .. n)
    BY FS_Interval
  <2>2. QED BY <2>1, FS_Subset
<1>2. PICK it, ch : FoldsBy(f, it, ch, D)
  BY <1>1, FractionFolds
<1>3. /\ it \in [SUBSET D -> Fraction]
      /\ \A R \in SUBSET D : R # {} => ch[R] \in R
      /\ \A R \in SUBSET D : it[R] = IF R = {} THEN Frac(0) ELSE Add(f[ch[R]], it[R \ {ch[R]}])
      /\ FractionSum(f) = it[D]
  BY <1>2 DEF FoldsBy
<1>4. ASSUME NEW R PROVE \A k \in 1 .. n : Masked(b, R, n)[k] \in Int /\ Masked(b, R, n)[k] = IF k \in R THEN b[k] ELSE 0
  BY DEF Masked
<1> DEFINE Wrong(R) == \E t : Sums(t, Masked(b, R, n), n) /\ ~Value(it[R], t[n], d)
           bad == {c \in Nat : \E R \in SUBSET D : Cardinality(R) = c /\ Wrong(R)}
<1>5. bad = {}
  <2>1. SUFFICES ASSUME bad # {} PROVE FALSE
    OBVIOUS
  <2>2. PICK c \in bad : \A e \in bad : c <= e
    BY <2>1, LeastNumber
  <2>3. PICK R \in SUBSET D : Cardinality(R) = c /\ Wrong(R)
    BY <2>2
  <2>4. PICK t : Sums(t, Masked(b, R, n), n) /\ ~Value(it[R], t[n], d)
    BY <2>3
  <2>5. CASE R = {}
    <3>1. \A k \in 1 .. n : Masked(b, R, n)[k] = 0
      BY <1>4, <2>5
    <3> DEFINE off == {i \in 0 .. n : t[i] # 0}
    <3>2. off = {}
      <4>1. SUFFICES ASSUME off # {} PROVE FALSE
        OBVIOUS
      <4>2. PICK i \in off : \A j \in off : i <= j
        <5>1. \A num \in off : num \in Nat
          OBVIOUS
        <5>2. QED BY <4>1, <5>1, LeastNumber
      <4>3. i # 0
        BY <2>4, <4>2 DEF Sums
      <4>4. i \in 1 .. n /\ i - 1 \in 0 .. n /\ ~(i <= i - 1)
        BY <4>3
      <4>5. t[i - 1] = 0
        BY <4>2, <4>4
      <4>6. t[i] = t[i - 1] + Masked(b, R, n)[i]
        BY <2>4, <4>4 DEF Sums
      <4>7. t[i] = 0
        BY <3>1, <4>4, <4>5, <4>6
      <4>8. QED BY <4>2, <4>7
    <3>3. t[n] = 0
      <4>1. n \in 0 .. n
        OBVIOUS
      <4>2. QED BY <3>2, <4>1
    <3>4. it[R] = Frac(0)
      BY <1>3, <2>5
    <3>5. d \in Int
      OBVIOUS
    <3>6. Value(Frac(0), 0, d)
      BY <3>5, ValueWhole
    <3>7. QED BY <2>4, <3>3, <3>4, <3>6
  <2>6. CASE R # {}
    <3>1. PICK x \in R : x = ch[R]
      BY <1>3, <2>6
    <3>2. PICK Q \in SUBSET D : Q = R \ {x}
      OBVIOUS
    <3>3. x \in 1 .. n /\ x \in D
      BY <3>1
    <3>4. Cardinality(Q) \in Nat /\ ~(c <= Cardinality(Q))
      <4>1. IsFiniteSet(R) /\ IsFiniteSet(Q)
        BY <1>1, FS_Subset
      <4>2. Cardinality(Q) = Cardinality(R) - 1
        BY <3>1, <3>2, <4>1, FS_RemoveElement
      <4>3. Cardinality(Q) \in Nat /\ Cardinality(R) \in Nat
        BY <4>1, FS_CardinalityType
      <4>4. QED BY <2>3, <4>2, <4>3
    <3>5. ~Wrong(Q)
      BY <2>2, <3>4
    <3>6. PICK u : Sums(u, Masked(b, Q, n), n)
      BY <1>4, SumsExist
    <3>7. Value(it[Q], u[n], d)
      BY <3>5, <3>6
    <3>8. PICK B, C : B = Masked(b, R, n) /\ C = Masked(b, Q, n)
      OBVIOUS
    <3>9. PICK y \in Int : y = b[x]
      BY <3>3
    <3>10. /\ \A k \in 1 .. n : B[k] \in Int /\ C[k] \in Int
           /\ \A k \in 1 .. n : k # x => B[k] = C[k]
      BY <1>4, <3>2, <3>8
    <3>11. B[x] = C[x] + y
      <4>1. B[x] = b[x]
        BY <3>1, <3>3, <3>8 DEF Masked
      <4>2. x \notin Q
        BY <3>2
      <4>3. C[x] = 0
        BY <3>3, <3>8, <4>2 DEF Masked
      <4>4. QED BY <3>9, <4>1, <4>3
    <3>12. Sums(t, B, n) /\ Sums(u, C, n)
      BY <2>4, <3>6, <3>8
    <3>13. t[n] = u[n] + y
      BY <3>3, <3>10, <3>11, <3>12, SumsDiffer
    <3>14. PICK v \in Int : v = u[n]
      <4>1. n \in 0 .. n
        OBVIOUS
      <4>2. QED BY <3>6, <4>1 DEF Sums
    <3>15. PICK g \in Fraction, h \in Fraction : g = f[x] /\ h = it[Q]
      BY <1>3, <3>3
    <3>16. Value(g, y, d) /\ Value(h, v, d)
      BY <3>3, <3>7, <3>9, <3>14, <3>15
    <3>17. Value(Add(g, h), y + v, d)
      BY <3>16, ValueSub
    <3>18. it[R] = Add(g, h)
      BY <1>3, <2>6, <3>1, <3>2, <3>15
    <3>19. t[n] = y + v
      BY <3>9, <3>13, <3>14
    <3>20. QED BY <2>4, <3>17, <3>18, <3>19
  <2>7. QED BY <2>5, <2>6
<1>6. Cardinality(D) \in Nat
  BY <1>1, FS_CardinalityType
<1>7. ~Wrong(D)
  BY <1>5, <1>6
<1>8. Sums(s, Masked(b, D, n), n)
  <2>1. \A k \in 1 .. n : Masked(b, D, n)[k] = b[k]
    BY <1>4
  <2>2. QED BY <2>1 DEF Sums
<1>9. Value(it[D], s[n], d)
  BY <1>7, <1>8
<1>10. it[D] \in Fraction
  BY <1>3
<1>11. QED BY <1>3, <1>9, <1>10

\* The numerators, over one denominator, of the fractions of a set of periods
OneDenominator(f, D, a, n, d) ==
  \A k \in 1 .. n : /\ a[k] \in Int
                    /\ k \in D => Value(f[k], a[k], d)
                    /\ k \notin D => a[k] = 0

\* Fractions have a common denominator.
LEMMA CommonDenominator ==
  ASSUME NEW n \in Nat, NEW D, NEW f, \A k \in 1 .. n : k \in D => f[k] \in Fraction
  PROVE  \E a, d : d \in Nat \ {0} /\ OneDenominator(f, D, a, n, d)
<1> DEFINE Found(i) == \E a, d : d \in Nat \ {0} /\ OneDenominator(f, D, a, i, d)
           bad == {i \in 0 .. n : ~Found(i)}
<1>1. bad = {}
  <2>1. SUFFICES ASSUME bad # {} PROVE FALSE
    OBVIOUS
  <2>2. PICK i \in bad : \A j \in bad : i <= j
    <3>1. \A num \in bad : num \in Nat
      OBVIOUS
    <3>2. QED BY <2>1, <3>1, LeastNumber
  <2>3. i # 0
    <3>1. 1 \in Nat \ {0} /\ OneDenominator(f, D, << >>, 0, 1)
      BY DEF OneDenominator
    <3>2. Found(0)
      BY <3>1
    <3>3. QED BY <2>2, <3>2
  <2>4. PICK j \in 0 .. n : j = i - 1 /\ i = j + 1 /\ i \in 1 .. n /\ ~(i <= j)
    BY <2>3
  <2>5. Found(j)
    BY <2>2, <2>4
  <2>6. PICK a, d : d \in Nat \ {0} /\ OneDenominator(f, D, a, j, d)
    BY <2>5
  <2>7. \A k \in 1 .. i : k \in 1 .. j \/ k = i
    BY <2>4
  <2>8. i \notin 1 .. j
    BY <2>4
  <2>9. CASE i \notin D
    <3>1. PICK c : c = [k \in 1 .. i |-> IF k \in 1 .. j THEN a[k] ELSE 0]
      OBVIOUS
    <3>2. c[i] = 0 /\ \A k \in 1 .. j : c[k] = a[k]
      BY <2>4, <2>8, <3>1
    <3>3. OneDenominator(f, D, c, i, d)
      BY <2>6, <2>7, <2>9, <3>2 DEF OneDenominator
    <3>4. Found(i)
      BY <2>6, <3>3
    <3>5. QED BY <2>2, <3>4
  <2>10. CASE i \in D
    <3>1. PICK x \in Int, y \in Nat \ {0} : f[i] = << x, y >>
      BY <2>4, <2>10 DEF Fraction
    <3>2. PICK e \in Nat \ {0}, z \in Int : e = d * y /\ z = x * d
      BY <2>6, Products
    <3>3. PICK c : c = [k \in 1 .. i |-> IF k \in 1 .. j THEN a[k] * y ELSE z]
      OBVIOUS
    <3>4. c[i] = z /\ \A k \in 1 .. j : c[k] = a[k] * y
      BY <2>4, <2>8, <3>3
    <3>5. Value(f[i], z, e)
      <4>1. x * (d * y) = (x * d) * y
        BY <2>6, Times
      <4>2. QED BY <3>1, <3>2, <4>1 DEF Value
    <3>6. ASSUME NEW k \in 1 .. j
          PROVE  c[k] \in Int /\ (k \in D => Value(f[k], c[k], e)) /\ (k \notin D => c[k] = 0)
      <4>1. a[k] \in Int /\ (k \in D => Value(f[k], a[k], d)) /\ (k \notin D => a[k] = 0)
        BY <2>6 DEF OneDenominator
      <4>2. PICK u \in Int, v \in Int : u = a[k] /\ v = u * y
        BY <4>1, Products
      <4>3. c[k] = v
        BY <3>4, <4>2
      <4>4. k \in D => Value(f[k], v, e)
        <5>1. k \in D => f[k] \in Fraction
          BY <2>4
        <5>2. k \in D => Value(f[k], u * y, d * y)
          BY <2>6, <4>1, <4>2, <5>1, ValueScale
        <5>3. QED BY <3>2, <4>2, <5>2
      <4>5. k \notin D => v = 0
        BY <4>1, <4>2
      <4>6. QED BY <4>3, <4>4, <4>5
    <3>7. OneDenominator(f, D, c, i, e)
      BY <2>7, <2>10, <3>4, <3>5, <3>6 DEF OneDenominator
    <3>8. Found(i)
      BY <3>7
    <3>9. QED BY <2>2, <3>8
  <2>11. QED BY <2>9, <2>10
<1>2. n \in 0 .. n
  OBVIOUS
<1>3. QED BY <1>1, <1>2

\* The sums of the ones of a set count it.
LEMMA SumsCount ==
  ASSUME NEW n \in Nat, NEW D \in SUBSET (1 .. n), NEW b,
         \A k \in 1 .. n : b[k] = IF k \in D THEN 1 ELSE 0, NEW c, Sums(c, b, n)
  PROVE  c[n] = Cardinality(D)
<1> DEFINE Upto(i) == {k \in D : k <= i}
           bad == {i \in 0 .. n : c[i] # Cardinality(Upto(i))}
<1>1. IsFiniteSet(D)
  <2>1. IsFiniteSet(1 .. n)
    BY FS_Interval
  <2>2. QED BY <2>1, FS_Subset
<1>2. bad = {}
  <2>1. SUFFICES ASSUME bad # {} PROVE FALSE
    OBVIOUS
  <2>2. PICK i \in bad : \A j \in bad : i <= j
    <3>1. \A num \in bad : num \in Nat
      OBVIOUS
    <3>2. QED BY <2>1, <3>1, LeastNumber
  <2>3. i # 0
    <3>1. Upto(0) = {}
      <4>1. \A k \in D : ~(k <= 0)
        OBVIOUS
      <4>2. QED BY <4>1
    <3>2. c[0] = 0 /\ Cardinality(Upto(0)) = 0
      BY <3>1, FS_EmptySet DEF Sums
    <3>3. QED BY <2>2, <3>2
  <2>4. PICK j \in 0 .. n : j = i - 1 /\ i = j + 1 /\ i \in 1 .. n /\ ~(i <= j)
    BY <2>3
  <2>5. c[j] = Cardinality(Upto(j))
    BY <2>2, <2>4
  <2>6. c[i] = c[j] + b[i]
    BY <2>4 DEF Sums
  <2>7. PICK E : E = Upto(j)
    OBVIOUS
  <2>8. IsFiniteSet(E) /\ Cardinality(E) \in Nat
    <3>1. E \subseteq D
      BY <2>7
    <3>2. IsFiniteSet(E)
      BY <1>1, <3>1, FS_Subset
    <3>3. QED BY <3>2, FS_CardinalityType
  <2>9. CASE i \in D
    <3>1. Upto(i) = E \cup {i} /\ i \notin E
      <4>1. ~(i <= j) /\ i <= i /\ \A k \in D : k <= i <=> k <= j \/ k = i
        BY <2>4
      <4>2. QED BY <2>7, <2>9, <4>1
    <3>2. Cardinality(Upto(i)) = Cardinality(E) + 1
      BY <2>8, <3>1, FS_AddElement
    <3>3. b[i] = 1
      BY <2>4, <2>9
    <3>4. c[i] = Cardinality(Upto(i))
      BY <2>5, <2>6, <2>7, <3>2, <3>3
    <3>5. QED BY <2>2, <3>4
  <2>10. CASE i \notin D
    <3>1. Upto(i) = E
      <4>1. \A k \in D : k <= i <=> k <= j \/ k = i
        BY <2>4
      <4>2. QED BY <2>7, <2>10, <4>1
    <3>2. b[i] = 0
      BY <2>4, <2>10
    <3>3. c[i] = Cardinality(Upto(i))
      BY <2>5, <2>6, <2>7, <2>8, <3>1, <3>2
    <3>4. QED BY <2>2, <3>3
  <2>11. QED BY <2>9, <2>10
<1>3. n \in 0 .. n /\ Upto(n) = D
  <2>1. \A k \in D : k <= n
    OBVIOUS
  <2>2. Upto(n) = D
    BY <2>1
  <2>3. n \in 0 .. n
    OBVIOUS
  <2>4. QED BY <2>2, <2>3
<1>4. QED BY <1>2, <1>3

\* The squares of N times r numbers less A, of which q is the sum and p that of the squares
Deviated(N, A, p, q, r) == ((N * N) * p - 2 * (N * (A * q))) + r * (A * A)

OneDeviated(N, A, x, p, q, r) ==
  Deviated(N, A, p, q, r) + (N * x - A) * (N * x - A) = Deviated(N, A, p + x * x, q + x, r + 1)

LEMMA DeviationIdentity ==
  ASSUME NEW N \in Int, NEW A \in Int, NEW x \in Int, NEW p \in Int, NEW q \in Int, NEW r \in Int
  PROVE  OneDeviated(N, A, x, p, q, r)
<1>1. (((N * N) * p - 2 * (N * (A * q))) + r * (A * A)) + (N * x - A) * (N * x - A)
        = ((N * N) * (p + x * x) - 2 * (N * (A * (q + x)))) + (r + 1) * (A * A)
  BY SMTT(60)
<1>2. QED BY <1>1, Zenon DEF Deviated, OneDeviated

\* The squares of the deviations of N numbers from their mean, times N * N, add up to N
\* times what Welford's recurrence has.
LEMMA Deviations ==
  ASSUME NEW n \in Nat, NEW D \in SUBSET (1 .. n), NEW a, NEW b, NEW s, NEW t, NEW u,
         NEW A, NEW N, A = s[n], N = Cardinality(D),
         Sums(s, a, n), SquareSums(t, a, n), Sums(u, b, n), N \in Nat, A \in Int,
         \A k \in 1 .. n : a[k] \in Int /\ (k \notin D => a[k] = 0),
         \A k \in 1 .. n : b[k] = IF k \in D THEN (N * a[k] - A) * (N * a[k] - A) ELSE 0
  PROVE  u[n] = (N * t[n] - A * A) * N
<1>1. PICK o : o = [k \in 1 .. n |-> IF k \in D THEN 1 ELSE 0]
  OBVIOUS
<1>2. (\A k \in 1 .. n : o[k] \in Int) /\ \A k \in 1 .. n : o[k] = IF k \in D THEN 1 ELSE 0
  BY <1>1
<1>3. PICK c : Sums(c, o, n)
  BY <1>2, SumsExist
<1> DEFINE Right(i) == u[i] = Deviated(N, A, t[i], s[i], c[i])
           bad == {i \in 0 .. n : ~Right(i)}
<1>4. bad = {}
  <2>1. SUFFICES ASSUME bad # {} PROVE FALSE
    OBVIOUS
  <2>2. PICK i \in bad : \A j \in bad : i <= j
    <3>1. \A num \in bad : num \in Nat
      OBVIOUS
    <3>2. QED BY <2>1, <3>1, LeastNumber
  <2>3. i # 0
    <3>1. u[0] = 0 /\ t[0] = 0 /\ s[0] = 0 /\ c[0] = 0
      BY <1>3 DEF Sums, SquareSums
    <3>2. Deviated(N, A, 0, 0, 0) = 0
      <4>1. PICK x \in Int, y \in Int : x = N * N /\ y = A * A
        BY Products
      <4>2. x * 0 = 0 /\ A * 0 = 0 /\ N * 0 = 0 /\ 0 * y = 0
        BY SMTT(30)
      <4>3. QED BY <4>1, <4>2 DEF Deviated
    <3>3. Right(0)
      BY <3>1, <3>2
    <3>4. QED BY <2>2, <3>3
  <2>4. PICK j \in 0 .. n : j = i - 1 /\ i = j + 1 /\ i \in 1 .. n /\ ~(i <= j)
    BY <2>3
  <2>5. Right(j)
    BY <2>2, <2>4
  <2>6. /\ u[i] = u[j] + b[i] /\ s[i] = s[j] + a[i] /\ c[i] = c[j] + o[i]
        /\ t[i] = t[j] + a[i] * a[i]
        /\ u[j] \in Int /\ s[j] \in Int /\ c[j] \in Int /\ t[j] \in Int
    BY <1>3, <2>4 DEF Sums, SquareSums
  <2>7. PICK x \in Int, v \in Int, q \in Int, r \in Int, p \in Int :
          x = a[i] /\ v = u[j] /\ q = s[j] /\ r = c[j] /\ p = t[j]
    BY <2>4, <2>6
  <2>8. v = Deviated(N, A, p, q, r)
    BY <2>5, <2>7
  <2>9. CASE i \in D
    <3>1. PICK w \in Int, e \in Int, ee \in Int, y \in Int :
            w = N * x /\ e = w - A /\ ee = e * e /\ y = x * x
      <4>1. PICK w \in Int, y \in Int : w = N * x /\ y = x * x
        BY Products
      <4>2. PICK e \in Int, ee \in Int : e = w - A /\ ee = e * e
        BY Products
      <4>3. QED BY <4>1, <4>2
    <3>2. o[i] = 1 /\ b[i] = ee
      BY <1>2, <2>4, <2>7, <2>9, <3>1
    <3>3. Deviated(N, A, p, q, r) + ee = Deviated(N, A, p + y, q + x, r + 1)
      <4>1. N \in Int
        OBVIOUS
      <4>2. OneDeviated(N, A, x, p, q, r)
        BY <4>1, DeviationIdentity
      <4>3. e = N * x - A
        BY <3>1
      <4>4. QED BY <3>1, <4>2, <4>3, Zenon DEF OneDeviated
    <3>4. u[i] = v + ee /\ t[i] = p + y /\ s[i] = q + x /\ c[i] = r + 1
      BY <2>6, <2>7, <3>1, <3>2
    <3>5. Right(i)
      BY <2>8, <3>3, <3>4
    <3>6. QED BY <2>2, <3>5
  <2>10. CASE i \notin D
    <3>1. o[i] = 0 /\ b[i] = 0 /\ x = 0
      BY <1>2, <2>4, <2>7, <2>10
    <3>2. x * x = 0
      BY <3>1
    <3>3. u[i] = v /\ t[i] = p /\ s[i] = q /\ c[i] = r
      BY <2>6, <2>7, <3>1, <3>2
    <3>4. Right(i)
      BY <2>8, <3>3
    <3>5. QED BY <2>2, <3>4
  <2>11. QED BY <2>9, <2>10
<1>5. n \in 0 .. n
  OBVIOUS
<1>6. Right(n)
  BY <1>4, <1>5
<1>7. c[n] = N
  BY <1>2, <1>3, SumsCount
<1>8. PICK B \in Int : B = t[n]
  BY <1>5 DEF SquareSums
<1>9. ((N * N) * B - 2 * (N * (A * A))) + N * (A * A) = (N * B - A * A) * N
  BY SMTT(60)
<1>10. QED BY <1>6, <1>7, <1>8, <1>9 DEF Deviated

\* A field whose queue holds the fractions of a set of periods, and zeros, is averaged
\* into their mean ...
LEMMA MeanIsMean ==
  ASSUME NEW n \in Nat, NEW D \in SUBSET (1 .. n), NEW f \in [D -> Fraction], NEW d \in Nat \ {0},
         NEW a, OneDenominator(f, D, a, n, d), NEW N \in Nat \ {0}, N = Cardinality(D),
         NEW s, Sums(s, a, n), NEW A \in Int, A = s[n],
         NEW m \in Fraction, Value(m, A, N * d)
  PROVE  IsMean(m, f)
<1>1. PICK w \in Fraction : w = Frac(N) /\ Value(w, N, 1)
  BY WholeIsFraction, ValueWhole
<1>2. PICK e \in Nat \ {0}, g \in Int : e = N * d /\ g = A * N
  BY Products
<1>3. PICK y \in Fraction : y = Mul(m, w)
  BY <1>2, FractionOps
<1>4. Value(y, A * N, e * 1)
  <2>1. N \in Int /\ 1 \in Nat \ {0}
    OBVIOUS
  <2>2. QED BY <1>1, <1>2, <1>3, <2>1, ValueMul
<1>5. Value(y, A, d)
  <2>1. e * 1 = e /\ e = d * N
    BY <1>2, Times
  <2>2. Value(y, A * N, d * N)
    BY <1>4, <2>1
  <2>3. QED BY <2>2, ValueScale
<1>6. FractionSum(f) \in Fraction /\ Value(FractionSum(f), A, d)
  <2>1. /\ \A k \in 1 .. n : a[k] \in Int
        /\ \A k \in D : Value(f[k], a[k], d)
        /\ \A k \in 1 .. n : k \notin D => a[k] = 0
    BY DEF OneDenominator
  <2>2. QED BY <2>1, FoldSums
<1>7. PICK z \in Fraction : z = FractionSum(f) /\ Value(z, A, d)
  BY <1>6
<1>8. Equal(y, z)
  BY <1>5, <1>7, ValueEqual
<1>9. DOMAIN f = D
  OBVIOUS
<1>10. QED BY <1>1, <1>3, <1>7, <1>8, <1>9 DEF IsMean, FractionSum

\* ... and their variance.
LEMMA VarianceIsVariance ==
  ASSUME NEW n \in Nat, NEW D \in SUBSET (1 .. n), NEW f \in [D -> Fraction], NEW d \in Nat \ {0},
         NEW a, OneDenominator(f, D, a, n, d), NEW N \in Nat \ {0}, N = Cardinality(D),
         NEW s, Sums(s, a, n), NEW A \in Int, A = s[n],
         NEW t, SquareSums(t, a, n), NEW B \in Int, B = t[n],
         NEW m \in Fraction, Value(m, A, N * d),
         NEW w \in Fraction, Value(w, N * B - A * A, N * (d * d))
  PROVE  IsVariance(IF N > 1 THEN Over(w, N - 1) ELSE Frac(0), m, f)
<1>1. DOMAIN f = D
  OBVIOUS
<1>2. CASE N < 2
  <2>1. ~(N > 1)
    BY <1>2
  <2>2. Equal(Frac(0), Frac(0))
    BY DEF Equal, Leq, Frac
  <2>3. QED BY <1>1, <1>2, <2>1, <2>2 DEF IsVariance
<1>3. CASE ~(N < 2)
  <2>1. PICK M \in Nat \ {0} : M = N - 1 /\ N > 1
    BY <1>3
  <2>2. PICK dd \in Nat \ {0}, e \in Nat \ {0}, ee \in Nat \ {0}, h \in Nat \ {0}, v \in Int, vN \in Int :
          dd = d * d /\ e = N * d /\ ee = e * e /\ h = N * dd /\ v = N * B - A * A /\ vN = v * N
    <3>1. PICK i \in Int, j \in Int : i = N * B /\ j = A * A
      BY Products
    <3>2. PICK v \in Int : v = N * B - A * A
      BY <3>1
    <3>3. PICK dd \in Nat \ {0}, e \in Nat \ {0}, vN \in Int : dd = d * d /\ e = N * d /\ vN = v * N
      <4>1. d * d \in Nat \ {0} /\ N * d \in Nat \ {0} /\ N \in Int
        BY Products
      <4>2. v * N \in Int
        BY <4>1, Products
      <4>3. QED BY <4>1, <4>2, Zenon
    <3>4. PICK ee \in Nat \ {0}, h \in Nat \ {0} : ee = e * e /\ h = N * dd
      BY Products
    <3>5. QED BY <3>2, <3>3, <3>4
  <2>3. PICK o \in Fraction, y \in Fraction : o = Over(w, M) /\ y = Mul(o, Frac(M))
    <3>1. PICK o \in Fraction : o = Over(w, M)
      BY FractionOps
    <3>2. PICK c \in Fraction : c = Frac(M)
      BY WholeIsFraction
    <3>3. Mul(o, c) \in Fraction
      BY FractionOps
    <3>4. QED BY <3>1, <3>2, <3>3
  <2>4. Value(y, v, h)
    <3>1. Value(w, v, h)
      BY <2>2
    <3>2. PICK hM \in Nat \ {0}, vM \in Int : hM = h * M /\ vM = v * M
      BY Products
    <3>3. Value(o, v, hM)
      BY <2>3, <3>1, <3>2, ValueOver
    <3>4. PICK c \in Fraction : c = Frac(M) /\ Value(c, M, 1)
      BY WholeIsFraction, ValueWhole
    <3>5. Value(y, v * M, hM * 1)
      <4>1. M \in Int /\ 1 \in Nat \ {0}
        OBVIOUS
      <4>2. QED BY <2>3, <3>3, <3>4, <4>1, ValueMul
    <3>6. hM * 1 = h * M
      BY <3>2
    <3>7. Value(y, v * M, h * M)
      BY <3>5, <3>6
    <3>8. QED BY <3>7, ValueScale
  <2>5. PICK g : g = [k \in D |-> Mul(Sub(f[k], m), Sub(f[k], m))]
    OBVIOUS
  <2>6. PICK b : b = [k \in 1 .. n |-> IF k \in D THEN (N * a[k] - A) * (N * a[k] - A) ELSE 0]
    OBVIOUS
  <2>7. ASSUME NEW k \in D
        PROVE  g[k] \in Fraction /\ b[k] \in Int /\ Value(g[k], b[k], ee)
    <3>1. PICK x \in Int, i \in Fraction : x = a[k] /\ i = f[k] /\ Value(i, x, d)
      BY DEF OneDenominator
    <3>2. PICK Nx \in Int, z \in Int : Nx = N * x /\ z = Nx - A
      BY Products
    <3>3. Value(i, Nx, e)
      <4>1. Value(i, x * N, d * N)
        BY <3>1, ValueScale
      <4>2. x * N = Nx /\ d * N = e
        BY <2>2, <3>2, Times
      <4>3. QED BY <4>1, <4>2
    <3>4. PICK j \in Fraction : j = Sub(i, m)
      BY <2>1, FractionOps
    <3>5. Value(j, z, e)
      BY <2>2, <3>2, <3>3, <3>4, ValueSub
    <3>6. PICK l \in Fraction, zz \in Int : l = Mul(j, j) /\ zz = z * z
      BY <2>1, FractionOps, Products
    <3>7. Value(l, zz, ee)
      BY <2>2, <3>5, <3>6, ValueMul
    <3>8. g[k] = l
      BY <2>5, <3>1, <3>4, <3>6
    <3>9. b[k] = zz
      BY <2>6, <3>1, <3>2, <3>6
    <3>10. QED BY <3>6, <3>7, <3>8, <3>9
  <2>8. g \in [D -> Fraction]
    BY <2>5, <2>7
  <2>9. /\ \A k \in 1 .. n : b[k] \in Int
        /\ \A k \in 1 .. n : k \notin D => b[k] = 0
        /\ \A k \in 1 .. n : b[k] = IF k \in D THEN (N * a[k] - A) * (N * a[k] - A) ELSE 0
    <3>1. \A k \in 1 .. n : k \notin D => b[k] = 0
      BY <2>6
    <3>2. \A k \in 1 .. n : b[k] \in Int
      BY <2>7, <3>1
    <3>3. QED BY <2>6, <3>1, <3>2
  <2>10. PICK u : Sums(u, b, n)
    BY <2>9, SumsExist
  <2>11. u[n] = (N * t[n] - A * A) * N
    <3>1. \A k \in 1 .. n : a[k] \in Int /\ (k \notin D => a[k] = 0)
      BY DEF OneDenominator
    <3>2. N \in Nat
      OBVIOUS
    <3>3. QED BY <2>9, <2>10, <3>1, <3>2, Deviations
  <2>12. u[n] = vN
    BY <2>2, <2>11
  <2>13. PICK z \in Fraction : z = FractionSum(g) /\ Value(z, vN, ee)
    <3>1. \A k \in D : Value(g[k], b[k], ee)
      BY <2>7
    <3>2. FractionSum(g) \in Fraction /\ Value(FractionSum(g), u[n], ee)
      BY <2>8, <2>9, <2>10, <3>1, FoldSums
    <3>3. QED BY <2>12, <3>2
  <2>14. Value(z, v, h)
    <3>1. (N * d) * (N * d) = (N * (d * d)) * N
      BY SMTT(30)
    <3>2. ee = h * N
      BY <2>2, <3>1
    <3>3. Value(z, v * N, h * N)
      BY <2>2, <2>13, <3>2
    <3>4. QED BY <3>3, ValueScale
  <2>15. Equal(y, z)
    BY <2>4, <2>14, ValueEqual
  <2>16. Equal(Mul(o, Frac(Cardinality(DOMAIN f) - 1)),
               FoldFunction(Add, Frac(0), [k \in DOMAIN f |-> Mul(Sub(f[k], m), Sub(f[k], m))]))
    BY <1>1, <2>1, <2>3, <2>5, <2>13, <2>15 DEF FractionSum
  <2>17. ~(Cardinality(DOMAIN f) < 2) /\ (IF N > 1 THEN Over(w, N - 1) ELSE Frac(0)) = o
    BY <1>1, <1>3, <2>1, <2>3
  <2>18. QED BY <2>16, <2>17 DEF IsVariance
<1>4. QED BY <1>2, <1>3

-----------------------------------------------------------------------------
(* Averages *)

IsField(f) == f = [queue |-> f.queue, avg |-> f.avg, var |-> f.var]

LEMMA SquareSumsExist ==
  ASSUME NEW n \in Nat, NEW a, \A k \in 1 .. n : a[k] \in Int
  PROVE  \E t : SquareSums(t, a, n)
<1>1. PICK c : c = [k \in 1 .. n |-> a[k] * a[k]]
  OBVIOUS
<1>2. \A k \in 1 .. n : c[k] \in Int /\ c[k] = a[k] * a[k]
  BY <1>1, Products
<1>3. PICK t : Sums(t, c, n)
  BY <1>2, SumsExist
<1>4. SquareSums(t, a, n)
  BY <1>2, <1>3 DEF Sums, SquareSums
<1>5. QED BY <1>4

\* What cal_avg_std makes of N values over d, with the sum A and B that of the squares
AveragedOf(field, N, A, B, d) ==
  \E m, w :
    /\ m \in Fraction /\ Value(m, A, N * d) /\ Averaged(field).avg = m
    /\ w \in Fraction /\ Value(w, N * B - A * A, N * (d * d))
    /\ Averaged(field).var = IF N > 1 THEN Over(w, N - 1) ELSE Frac(0)

LEMMA AveragedSums ==
  ASSUME NEW n \in Nat, NEW d \in Nat \ {0}, NEW a, NEW N \in Nat \ {0},
         NEW q, N = Len(q), Totals(q, a, n, d), NEW field, IsField(field), field.queue = q,
         NEW s, Sums(s, a, n), NEW t, SquareSums(t, a, n)
  PROVE  s[n] \in Int /\ t[n] \in Int /\ AveragedOf(field, N, s[n], t[n], d)
<1>1. PICK A \in Int, B \in Int : A = s[n] /\ B = t[n]
  <2>1. n \in 0 .. n
    OBVIOUS
  <2>2. QED BY <2>1 DEF Sums, SquareSums
<1>2. PICK acc : acc = Accumulated(q)
  OBVIOUS
<1>3. Stats(acc, N, A, B, d)
  BY <1>1, <1>2 DEF Totals
<1>4. /\ acc \in Acc /\ acc.n = N
      /\ Value(acc.mean, A, N * d) /\ Value(acc.m2, N * B - A * A, N * (d * d))
  BY <1>3 DEF Stats
<1>5. PICK m \in Fraction, w \in Fraction : acc = [n |-> N, mean |-> m, m2 |-> w]
  BY <1>4 DEF Acc
<1>6. Value(m, A, N * d) /\ Value(w, N * B - A * A, N * (d * d))
  BY <1>4, <1>5
<1>7. PICK v : v = IF N > 1 THEN Over(w, N - 1) ELSE Frac(0)
  OBVIOUS
<1>8. Averaged(field).avg = m /\ Averaged(field).var = v
  <2>1. PICK b, c : field = [queue |-> q, avg |-> b, var |-> c]
    BY DEF IsField
  <2>2. Averaged(field)
          = [field EXCEPT !.avg = Accumulated(field.queue).mean,
                          !.var = IF Accumulated(field.queue).n > 1
                                  THEN Over(Accumulated(field.queue).m2, Accumulated(field.queue).n - 1)
                                  ELSE Frac(0)]
    BY DEF Averaged, Accumulated, NoAcc
  <2>3. acc.n = N /\ acc.mean = m /\ acc.m2 = w /\ Accumulated(field.queue) = acc
    BY <1>2, <1>5
  <2>4. Averaged(field) = [field EXCEPT !.avg = m, !.var = v]
    BY <1>7, <2>2, <2>3
  <2>5. QED BY <2>1, <2>4
<1>9. AveragedOf(field, N, A, B, d)
  BY <1>6, <1>7, <1>8 DEF AveragedOf
<1>10. QED BY <1>1, <1>9

\* What it makes of a queue that adds up to the fractions of a set of periods is their
\* mean and variance ...
LEMMA AveragedIs ==
  ASSUME NEW n \in Nat, NEW D \in SUBSET (1 .. n), NEW f \in [D -> Fraction], NEW d \in Nat \ {0},
         NEW a, OneDenominator(f, D, a, n, d), NEW N \in Nat \ {0}, N = Cardinality(D),
         NEW q, N = Len(q), Totals(q, a, n, d), NEW field, IsField(field), field.queue = q
  PROVE  /\ IsMean(Averaged(field).avg, f)
         /\ IsVariance(Averaged(field).var, Averaged(field).avg, f)
<1>1. \A k \in 1 .. n : a[k] \in Int
  BY DEF OneDenominator
<1>2. PICK s, t : Sums(s, a, n) /\ SquareSums(t, a, n)
  BY <1>1, SumsExist, SquareSumsExist
<1>3. PICK A \in Int, B \in Int : A = s[n] /\ B = t[n] /\ AveragedOf(field, N, A, B, d)
  BY <1>2, AveragedSums
<1>4. PICK m, w :
        /\ m \in Fraction /\ Value(m, A, N * d) /\ Averaged(field).avg = m
        /\ w \in Fraction /\ Value(w, N * B - A * A, N * (d * d))
        /\ Averaged(field).var = IF N > 1 THEN Over(w, N - 1) ELSE Frac(0)
  BY <1>3 DEF AveragedOf
<1>5. IsMean(m, f)
  BY <1>2, <1>3, <1>4, MeanIsMean
<1>6. IsVariance(IF N > 1 THEN Over(w, N - 1) ELSE Frac(0), m, f)
  BY <1>2, <1>3, <1>4, VarianceIsVariance
<1>7. QED BY <1>4, <1>5, <1>6

\* The same value
Same(a, b) == a[1] * b[2] = b[1] * a[2]

\* A field without deviation about y
Steady(field, y) ==
  \E m \in Fraction, d \in Nat \ {0} : field.avg = m /\ Same(m, y) /\ field.var = << 0, d >>

SumIs(s, n, x) == s[n] = n * x

LEMMA SumsOfSame ==
  ASSUME NEW n \in Nat, NEW b, NEW x \in Int, \A k \in 1 .. n : b[k] = x, NEW s, Sums(s, b, n)
  PROVE  SumIs(s, n, x)
<1> DEFINE bad == {i \in 0 .. n : s[i] # i * x}
<1>1. bad = {}
  <2>1. SUFFICES ASSUME bad # {} PROVE FALSE
    OBVIOUS
  <2>2. PICK i \in bad : \A j \in bad : i <= j
    <3>1. \A num \in bad : num \in Nat
      OBVIOUS
    <3>2. QED BY <2>1, <3>1, LeastNumber
  <2>3. i # 0
    BY <2>2 DEF Sums
  <2>4. PICK j \in 0 .. n : j = i - 1 /\ i = j + 1 /\ i \in 1 .. n /\ ~(i <= j)
    BY <2>3
  <2>5. s[j] = j * x /\ s[i] = s[j] + x
    BY <2>2, <2>4 DEF Sums
  <2>6. j * x + x = (j + 1) * x
    BY Times
  <2>7. QED BY <2>2, <2>4, <2>5, <2>6
<1>2. n \in 0 .. n
  OBVIOUS
<1>3. QED BY <1>1, <1>2 DEF SumIs

\* ... and of a queue of equal values that value, without deviation.
LEMMA SteadyAverage ==
  ASSUME NEW n \in Nat \ {0}, NEW d \in Nat \ {0}, NEW a, NEW x \in Int, \A k \in 1 .. n : a[k] = x,
         NEW q, n = Len(q), Totals(q, a, n, d), NEW field, IsField(field), field.queue = q,
         NEW y \in Fraction, Value(y, x, d)
  PROVE  Steady(Averaged(field), y)
<1>1. PICK N \in Nat : N = n
  OBVIOUS
<1>2. PICK s, t : Sums(s, a, N) /\ SquareSums(t, a, N)
  BY <1>1, SumsExist, SquareSumsExist
<1>3. PICK A \in Int, xx \in Int : A = n * x /\ xx = x * x
  BY Products
<1>4. PICK B \in Int, h \in Nat \ {0} : B = n * xx /\ h = n * (d * d)
  <2>1. PICK dd \in Nat \ {0} : dd = d * d
    BY Products
  <2>2. n * xx \in Int /\ n * dd \in Nat \ {0}
    BY Products
  <2>3. QED BY <2>1, <2>2
<1>5. s[N] = A
  <2>1. \A k \in 1 .. N : a[k] = x
    BY <1>1
  <2>2. SumIs(s, N, x)
    BY <1>2, <2>1, SumsOfSame
  <2>3. QED BY <1>1, <1>3, <2>2 DEF SumIs
<1>6. t[N] = B
  <2>1. PICK c : c = [k \in 1 .. N |-> xx]
    OBVIOUS
  <2>2. Sums(t, c, N)
    <3>1. \A k \in 1 .. N : a[k] * a[k] = c[k]
      BY <1>1, <1>3, <2>1
    <3>2. QED BY <1>2, <3>1 DEF Sums, SquareSums
  <2>3. \A k \in 1 .. N : c[k] = xx
    BY <2>1
  <2>4. SumIs(t, N, xx)
    BY <2>2, <2>3, SumsOfSame
  <2>5. QED BY <1>1, <1>4, <2>4 DEF SumIs
<1>7. AveragedOf(field, n, A, B, d)
  BY <1>1, <1>2, <1>5, <1>6, AveragedSums
<1>8. PICK m, w :
        /\ m \in Fraction /\ Value(m, A, n * d) /\ Averaged(field).avg = m
        /\ w \in Fraction /\ Value(w, n * B - A * A, n * (d * d))
        /\ Averaged(field).var = IF n > 1 THEN Over(w, n - 1) ELSE Frac(0)
  BY <1>7 DEF AveragedOf
<1>9. Same(m, y)
  <2>1. x * n = A /\ d * n = n * d
    BY <1>3, Times
  <2>2. Value(m, x, d)
    BY <1>8, <2>1, ValueScale
  <2>3. Equal(m, y)
    BY <1>8, <2>2, ValueEqual
  <2>4. PICK i \in Int, j \in Nat \ {0}, k \in Int, l \in Nat \ {0} : m = << i, j >> /\ y = << k, l >>
    <3>1. m \in Fraction
      BY <1>8
    <3>2. QED BY <3>1 DEF Fraction
  <2>5. PICK il \in Int, kj \in Int : il = i * l /\ kj = k * j
    BY Products
  <2>6. QED BY <2>3, <2>4, <2>5 DEF Equal, Leq, Same
<1>10. PICK c \in Nat \ {0} : w = << 0, c >>
  <2>1. n * (n * (x * x)) - (n * x) * (n * x) = 0
    BY SMTT(30)
  <2>2. n * B - A * A = 0
    BY <1>3, <1>4, <2>1
  <2>3. PICK i \in Int, c \in Nat \ {0} : w = << i, c >>
    BY <1>8 DEF Fraction
  <2>4. i * h = 0 * h
    <3>1. Value(w, 0, h)
      BY <1>4, <1>8, <2>2
    <3>2. 0 * c = 0 /\ 0 * h = 0
      OBVIOUS
    <3>3. QED BY <2>3, <3>1, <3>2 DEF Value
  <2>5. i = 0
    BY <2>4, Cancel
  <2>6. QED BY <2>3, <2>5
<1>11. PICK v \in Nat \ {0} : Averaged(field).var = << 0, v >>
  <2>1. CASE n > 1
    <3>1. PICK l \in Nat \ {0} : l = n - 1
      BY <2>1
    <3>2. PICK v \in Nat \ {0} : v = c * l
      BY Products
    <3>3. QED BY <1>8, <1>10, <2>1, <3>1, <3>2 DEF Over
  <2>2. CASE ~(n > 1)
    BY <1>8, <2>2 DEF Frac
  <2>3. QED BY <2>1, <2>2
<1>12. QED BY <1>8, <1>9, <1>11 DEF Steady

-----------------------------------------------------------------------------
(* Trees *)

\* The paths of a tree, each with the path of its parent
Grown(D) == D \in SUBSET Seq(Names) /\ << >> \in D /\ \A p \in D : p # << >> => Front(p) \in D

LEMMA FrontOfPrefix ==
  ASSUME NEW S, NEW p \in Seq(S), NEW m \in 1 .. Len(p)
  PROVE  /\ SubSeq(p, 1, m) # << >> /\ Front(SubSeq(p, 1, m)) = SubSeq(p, 1, m - 1)
         /\ SubSeq(p, 1, m) \in Seq(S) /\ Len(SubSeq(p, 1, m)) = m
<1>1. PICK n \in Nat : n = Len(p) /\ m \in 1 .. n /\ m \in Nat \ {0}
  OBVIOUS
<1>2. PICK l \in Nat : l = m - 1 /\ l <= n
  BY <1>1
<1>3. \A i \in 1 .. n : p[i] \in S
  BY <1>1, ElementOfSeq
<1>4. /\ SubSeq(p, 1, m) \in Seq(S) /\ Len(SubSeq(p, 1, m)) = m
      /\ \A i \in 1 .. m : SubSeq(p, 1, m)[i] = p[i]
  BY <1>1
<1>5. /\ SubSeq(p, 1, l) \in Seq(S) /\ Len(SubSeq(p, 1, l)) = l
      /\ \A i \in 1 .. l : SubSeq(p, 1, l)[i] = p[i]
  BY <1>1, <1>2
<1>6. PICK s \in Seq(S), r \in Seq(S) : s = SubSeq(p, 1, m) /\ r = SubSeq(p, 1, l)
  BY <1>4, <1>5
<1>7. s # << >>
  BY <1>1, <1>4, <1>6
<1>8. Front(s) \in Seq(S) /\ Len(Front(s)) = l /\ \A i \in 1 .. l : Front(s)[i] = p[i]
  <2>1. /\ Front(s) \in Seq(S) /\ Len(Front(s)) = Len(s) - 1
        /\ \A i \in 1 .. Len(s) - 1 : Front(s)[i] = s[i]
    BY <1>7, FrontOf
  <2>2. Len(s) = m /\ \A i \in 1 .. l : i \in 1 .. m
    BY <1>1, <1>2, <1>4, <1>6
  <2>3. QED BY <1>2, <1>4, <1>6, <2>1, <2>2
<1>9. Front(s) = r
  BY <1>5, <1>6, <1>8, SeqEqual
<1>10. QED BY <1>2, <1>4, <1>6, <1>7, <1>9

LEMMA PrefixIn ==
  ASSUME NEW D, Grown(D), NEW p \in D, NEW m \in 0 .. Len(p)
  PROVE  SubSeq(p, 1, m) \in D
<1>1. p \in Seq(Names) /\ Len(p) \in Nat
  BY DEF Grown
<1>2. PICK n \in Nat : n = Len(p)
  BY <1>1
<1> DEFINE bad == {k \in 0 .. n : SubSeq(p, 1, n - k) \notin D}
<1>3. bad = {}
  <2>1. SUFFICES ASSUME bad # {} PROVE FALSE
    OBVIOUS
  <2>2. PICK k \in bad : \A j \in bad : k <= j
    <3>1. \A num \in bad : num \in Nat
      OBVIOUS
    <3>2. QED BY <2>1, <3>1, LeastNumber
  <2>3. CASE k = 0
    <3>1. SubSeq(p, 1, n) = p
      BY <1>1, <1>2
    <3>2. n - 0 = n
      OBVIOUS
    <3>3. QED BY <2>2, <2>3, <3>1, <3>2
  <2>4. CASE k # 0
    <3>1. k - 1 \in 0 .. n /\ ~(k <= k - 1) /\ n - (k - 1) \in 1 .. n /\ (n - (k - 1)) - 1 = n - k
      BY <2>4
    <3>2. PICK l \in 1 .. n : l = n - (k - 1) /\ l - 1 = n - k
      BY <3>1
    <3>3. SubSeq(p, 1, l) \in D
      BY <2>2, <3>1, <3>2
    <3>4. SubSeq(p, 1, l) # << >> /\ Front(SubSeq(p, 1, l)) = SubSeq(p, 1, l - 1)
      BY <1>1, <1>2, FrontOfPrefix
    <3>5. SubSeq(p, 1, l - 1) \in D
      BY <3>3, <3>4 DEF Grown
    <3>6. QED BY <2>2, <3>2, <3>5
  <2>5. QED BY <2>3, <2>4
<1>4. n - m \in 0 .. n /\ n - (n - m) = m
  BY <1>2
<1>5. QED BY <1>2, <1>3, <1>4

\* The walk of two trees visits all that they have in common.
LEMMA CommonIs ==
  ASSUME Grown(DOMAIN normal_tree), NEW tree, Grown(Nodes(tree))
  PROVE  Common(tree) = DOMAIN normal_tree \cap Nodes(tree)
<1>1. ASSUME NEW p \in DOMAIN normal_tree \cap Nodes(tree), NEW n \in 0 .. Len(p)
      PROVE  SubSeq(p, 1, n) \in DOMAIN normal_tree \cap Nodes(tree)
  <2>1. PICK D, E : D = DOMAIN normal_tree /\ E = Nodes(tree)
    OBVIOUS
  <2>2. SubSeq(p, 1, n) \in D /\ SubSeq(p, 1, n) \in E
    BY <2>1, PrefixIn
  <2>3. QED BY <2>1, <2>2
<1>2. QED BY <1>1 DEF Common

\* On the way to a node of one tree there is one that the other tree does not have while
\* it has the parent, and only one, unless it has them all.
LEMMA OneOnTheWay ==
  ASSUME NEW D, Grown(D), NEW N, Grown(N), NEW p \in D
  PROVE  Cardinality({q \in Prefixes(p) : q \in D \ N /\ Front(q) \in D \cap N})
           = IF p \in N THEN 0 ELSE 1
<1> DEFINE F == {q \in Prefixes(p) : q \in D \ N /\ Front(q) \in D \cap N}
<1>1. p \in Seq(Names)
  BY DEF Grown
<1>2. PICK n \in Nat : n = Len(p)
  BY <1>1
<1>3. Prefixes(p) = {SubSeq(p, 1, l) : l \in 0 .. n}
  BY <1>2 DEF Prefixes
<1>4. CASE p \in N
  <2>1. \A q \in Prefixes(p) : q \in N
    <3>1. ASSUME NEW l \in 0 .. n PROVE SubSeq(p, 1, l) \in N
      BY <1>2, <1>4, PrefixIn
    <3>2. QED BY <1>3, <3>1
  <2>2. F = {}
    BY <2>1
  <2>3. QED BY <1>4, <2>2, FS_EmptySet
<1>5. CASE p \notin N
  <2> DEFINE out == {l \in 0 .. n : SubSeq(p, 1, l) \notin N}
  <2>1. n \in out
    <3>1. SubSeq(p, 1, n) = p /\ n \in 0 .. n
      BY <1>1, <1>2
    <3>2. QED BY <1>5, <3>1
  <2>2. PICK m \in out : \A l \in out : m <= l
    <3>1. \A num \in out : num \in Nat
      OBVIOUS
    <3>2. QED BY <2>1, <3>1, LeastNumber
  <2>3. m # 0
    <3>1. SubSeq(p, 1, 0) = << >>
      BY <1>1
    <3>2. QED BY <2>2, <3>1 DEF Grown
  <2>4. PICK k \in 1 .. n : k = m /\ k - 1 \in 0 .. n /\ k \in 0 .. n /\ ~(k <= k - 1)
    BY <2>3
  <2>5. PICK q : q = SubSeq(p, 1, k)
    OBVIOUS
  <2>6. q \in D /\ q \notin N /\ Front(q) \in D /\ Front(q) \in N /\ q \in Prefixes(p)
    <3>1. q \in D /\ SubSeq(p, 1, k - 1) \in D
      BY <1>2, <2>4, <2>5, PrefixIn
    <3>2. Front(q) = SubSeq(p, 1, k - 1)
      BY <1>1, <1>2, <2>4, <2>5, FrontOfPrefix
    <3>3. SubSeq(p, 1, k - 1) \in N
      BY <2>2, <2>4
    <3>4. QED BY <1>3, <2>2, <2>4, <2>5, <3>1, <3>2, <3>3
  <2>7. ASSUME NEW r \in F PROVE r = q
    <3>1. PICK l \in 0 .. n : r = SubSeq(p, 1, l)
      BY <1>3
    <3>2. l \in out
      BY <3>1
    <3>3. k <= l
      BY <2>2, <2>4, <3>2
    <3>4. CASE l = k
      BY <2>5, <3>1, <3>4
    <3>5. CASE l # k
      <4>1. l \in 1 .. n /\ k \in 0 .. l - 1 /\ k \in 1 .. l - 1 /\ l - 1 \in 1 .. n
        BY <2>4, <3>3, <3>5
      <4>2. Front(r) = SubSeq(p, 1, l - 1) /\ Front(r) \in N
        BY <1>1, <1>2, <3>1, <4>1, FrontOfPrefix
      <4>3. PICK j \in 1 .. n : j = l - 1 /\ k \in 0 .. j /\ k \in 1 .. j
        BY <4>1
      <4>4. PICK s \in Seq(Names) : s = SubSeq(p, 1, j) /\ Len(s) = j /\ s \in N
        BY <1>1, <1>2, <4>2, <4>3, FrontOfPrefix
      <4>5. SubSeq(s, 1, k) \in N
        BY <4>3, <4>4, PrefixIn
      <4>6. SubSeq(s, 1, k) = SubSeq(p, 1, k)
        <5>1. /\ Len(SubSeq(s, 1, k)) = k /\ SubSeq(s, 1, k) \in Seq(Names)
              /\ \A i \in 1 .. k : SubSeq(s, 1, k)[i] = s[i]
          BY <4>3, <4>4
        <5>2. /\ Len(SubSeq(p, 1, k)) = k /\ SubSeq(p, 1, k) \in Seq(Names)
              /\ \A i \in 1 .. k : SubSeq(p, 1, k)[i] = p[i]
          BY <1>1, <1>2
        <5>3. \A i \in 1 .. j : s[i] = p[i]
          BY <1>1, <1>2, <4>3, <4>4
        <5>4. \A i \in 1 .. k : i \in 1 .. j
          BY <4>3
        <5>5. PICK a \in Seq(Names), b \in Seq(Names) : a = SubSeq(s, 1, k) /\ b = SubSeq(p, 1, k)
          BY <5>1, <5>2
        <5>6. k \in Nat /\ Len(a) = k /\ Len(b) = k /\ \A i \in 1 .. k : a[i] = b[i]
          BY <5>1, <5>2, <5>3, <5>4, <5>5
        <5>7. a = b
          BY <5>6, SeqEqual
        <5>8. QED BY <5>5, <5>7
      <4>7. QED BY <2>5, <2>6, <4>5, <4>6
    <3>6. QED BY <3>4, <3>5
  <2>8. F = {q}
    BY <2>6, <2>7
  <2>9. QED BY <1>5, <2>8, FS_Singleton
<1>6. QED BY <1>4, <1>5

-----------------------------------------------------------------------------
(* The normal tree *)

\* What stats_count publishes
WholeTrees == {t \in [num : Counts, num_res : Tallies] :
                 Grown(Nodes(t)) /\ DOMAIN t.num_res \subseteq DOMAIN t.num}

IsNode(node) == IsField(node.num) /\ IsField(node.ratio)
NodeOf(T, p) == IF p \in DOMAIN T THEN T[p] ELSE NewNode

\* The periods that had the function
Having(trees, n, p) == {k \in 1 .. n : HasRatio(trees[k], p)}

\* Numbers are whole, and those of absent periods are zeros.
NumTotals(q, trees, n, p) ==
  /\ q \in Seq(Fraction) /\ Len(q) <= n
  /\ \A a : (\A k \in 1 .. n : a[k] = Num(trees[k], p)) => Totals(q, a, n, 1)

\* Numerators over d of the ratios, and zeros of the other periods
Numerators(a, trees, n, p, d) ==
  \A k \in 1 .. n : /\ a[k] \in Int
                    /\ HasRatio(trees[k], p) => Value(Ratio(trees[k], p), a[k], d)
                    /\ ~HasRatio(trees[k], p) => a[k] = 0

RatioTotals(q, trees, n, p) ==
  /\ q \in Seq(Fraction) /\ Len(q) = Cardinality(Having(trees, n, p))
  /\ \A a : \A d \in Nat \ {0} : Numerators(a, trees, n, p, d) => Totals(q, a, n, d)

\* A tree that has been given the first n of some trees
Gathered(T, trees, n) ==
  /\ DOMAIN T = {<< >>} \cup UNION {Nodes(trees[k]) : k \in 1 .. n}
  /\ \A p : /\ IsNode(NodeOf(T, p))
            /\ NumTotals(NodeOf(T, p).num.queue, trees, n, p)
            /\ RatioTotals(NodeOf(T, p).ratio.queue, trees, n, p)

Learned ==
  /\ periods \in Seq(WholeTrees) /\ current_period = Len(periods)
  /\ current_period < NumPeriod => Gathered(normal_tree, periods, current_period)
  /\ current_period >= NumPeriod =>
       \E T : Gathered(T, periods, NumPeriod) /\ normal_tree = CalculateTree(T)

\* A period that ends publishes a whole tree.
LEMMA TreePublished ==
  ASSUME IInv, CountsTyped, queue = << >>
  PROVE  Tree \in WholeTrees
<1>1. (\A p \in DOMAIN counts : Attached(p)) /\ Tree.num = counts
  BY TreeIsWhole
<1>2. Tree \in [num : Counts, num_res : Tallies]
  BY TreeTyped
<1>3. DOMAIN Tree.num_res \subseteq DOMAIN Tree.num
  <2>1. DOMAIN Tree.num_res \subseteq
          {p \in DOMAIN counts : \A q \in DOMAIN counts : Len(q) <= Len(p) => Attached(q)}
    BY DEF Tree
  <2>2. QED BY <1>1, <2>1
<1>4. Grown(Nodes(Tree))
  <2>1. Nodes(Tree) = DOMAIN counts \cup {<< >>}
    BY <1>1 DEF Nodes
  <2>2. DOMAIN counts \subseteq Seq(Names)
    BY CountsAre DEF CountsTyped
  <2>3. \A p \in DOMAIN counts : p # << >> => Front(p) \in DOMAIN counts
    BY <1>1 DEF Attached
  <2>4. << >> \in Seq(Names)
    OBVIOUS
  <2>5. QED BY <2>1, <2>2, <2>3, <2>4 DEF Grown
<1>5. QED BY <1>2, <1>3, <1>4 DEF WholeTrees

LEMMA TreeNumbers ==
  ASSUME NEW t \in WholeTrees, NEW p
  PROVE  /\ Num(t, p) \in Nat /\ (Num(t, p) # 0 <=> p \in DOMAIN t.num)
         /\ HasRatio(t, p) => Ratio(t, p) \in Fraction /\ p \in DOMAIN t.num
<1>1. t.num \in Counts /\ t.num_res \in Tallies /\ DOMAIN t.num_res \subseteq DOMAIN t.num
  BY DEF WholeTrees
<1>2. t.num \in [DOMAIN t.num -> Nat \ {0}] /\ t.num_res \in [DOMAIN t.num_res -> Nat]
  BY <1>1, CountsAre
<1>3. Num(t, p) \in Nat /\ (Num(t, p) # 0 <=> p \in DOMAIN t.num)
  BY <1>2 DEF Num
<1>4. HasRatio(t, p) => Ratio(t, p) \in Fraction /\ p \in DOMAIN t.num
  BY <1>1, <1>2 DEF HasRatio, Ratio, Fraction
<1>5. QED BY <1>3, <1>4

\* Before the training
LEMMA NoTotals ==
  ASSUME NEW trees, NEW p
  PROVE  NumTotals(<< >>, trees, 0, p) /\ RatioTotals(<< >>, trees, 0, p)
<1>1. PICK q : q = << >>
  OBVIOUS
<1>2. PICK S : S = Fraction
  OBVIOUS
<1>3. q \in Seq(S) /\ Len(q) = 0
  BY <1>1
<1>4. ASSUME NEW a, NEW d PROVE Totals(q, a, 0, d)
  <2>1. SUFFICES ASSUME NEW s, NEW t, Sums(s, a, 0), SquareSums(t, a, 0)
                 PROVE  Stats(Accumulated(q), Len(q), s[0], t[0], d)
    BY DEF Totals
  <2>2. s[0] = 0 /\ t[0] = 0
    BY <2>1 DEF Sums, SquareSums
  <2>3. Accumulated(q) = NoAcc
    BY <1>1, AccumulatedNone
  <2>4. QED BY <1>3, <2>2, <2>3 DEF Stats
<1>5. Having(trees, 0, p) = {}
  BY DEF Having
<1>6. Cardinality(Having(trees, 0, p)) = 0
  BY <1>5, FS_EmptySet
<1>7. QED BY <1>1, <1>2, <1>3, <1>4, <1>6 DEF NumTotals, RatioTotals

\* A period without the node
LEMMA NumTotalsSkip ==
  ASSUME NEW n \in Nat, NEW trees, NEW more, \A k \in 1 .. n : more[k] = trees[k], NEW p, NEW q,
         NumTotals(q, trees, n, p), Num(more[n + 1], p) = 0
  PROVE  NumTotals(q, more, n + 1, p)
<1>1. \A k \in 1 .. n : k \in 1 .. n + 1
  OBVIOUS
<1>2. n + 1 \in 1 .. n + 1
  OBVIOUS
<1>3. ASSUME NEW a, \A k \in 1 .. n + 1 : a[k] = Num(more[k], p)
      PROVE  Totals(q, a, n + 1, 1)
  <2>1. \A k \in 1 .. n : a[k] = Num(trees[k], p)
    BY <1>1, <1>3
  <2>2. Totals(q, a, n, 1)
    BY <2>1 DEF NumTotals
  <2>3. a[n + 1] = 0
    BY <1>2, <1>3
  <2>4. QED BY <2>2, <2>3, TotalsSkip
<1>4. q \in Seq(Fraction) /\ Len(q) <= n + 1
  <2>1. PICK S : S = Fraction
    OBVIOUS
  <2>2. q \in Seq(S) /\ Len(q) <= n
    BY <2>1 DEF NumTotals
  <2>3. Len(q) <= n + 1
    BY <2>2
  <2>4. QED BY <2>1, <2>2, <2>3
<1>5. QED BY <1>3, <1>4 DEF NumTotals

\* A period with it, before which a zero may be put in a queue that is short
LEMMA NumTotalsPut ==
  ASSUME NEW n \in Nat, NEW trees, NEW more, \A k \in 1 .. n : more[k] = trees[k], NEW p, NEW q,
         NumTotals(q, trees, n, p), NEW x \in Int, x = Num(more[n + 1], p), NEW r,
         r = q \/ (r = Append(q, Frac(0)) /\ Len(q) < n)
  PROVE  NumTotals(Append(r, Frac(x)), more, n + 1, p)
<1>1. \A k \in 1 .. n : k \in 1 .. n + 1
  OBVIOUS
<1>2. n + 1 \in 1 .. n + 1
  OBVIOUS
<1>3. PICK S : S = Fraction
  OBVIOUS
<1>4. PICK v \in S : v = Frac(x) /\ Value(v, x, 1)
  BY <1>3, WholeIsFraction, ValueWhole
<1>5. PICK d \in Nat \ {0} : d = 1
  OBVIOUS
<1>6. q \in Seq(S) /\ Len(q) <= n /\ Len(q) \in Nat
  BY <1>3 DEF NumTotals
<1>7. PICK z \in S : z = Frac(0)
  BY <1>3, WholeIsFraction
<1>8. r \in Seq(S) /\ Len(r) <= n /\ Len(r) \in Nat
  <2>1. CASE r = q
    BY <1>6, <2>1
  <2>2. CASE r = Append(q, Frac(0)) /\ Len(q) < n
    <3>1. Append(q, z) \in Seq(S) /\ Len(Append(q, z)) = Len(q) + 1
      BY <1>6, AppendProperties
    <3>2. QED BY <1>6, <1>7, <2>2, <3>1
  <2>3. QED BY <2>1, <2>2
<1>9. ASSUME NEW a, \A k \in 1 .. n + 1 : a[k] = Num(more[k], p)
      PROVE  Totals(Append(r, v), a, n + 1, d)
  <2>1. \A k \in 1 .. n : a[k] = Num(trees[k], p)
    BY <1>1, <1>9
  <2>2. Totals(q, a, n, d)
    BY <1>5, <2>1 DEF NumTotals
  <2>3. Totals(r, a, n, d)
    <3>1. CASE r = q
      BY <2>2, <3>1
    <3>2. CASE r = Append(q, Frac(0))
      BY <1>3, <1>6, <2>2, <3>2, TotalsZero
    <3>3. QED BY <3>1, <3>2
  <2>4. a[n + 1] = x
    BY <1>2, <1>9
  <2>5. a[n + 1] \in Int /\ Value(v, a[n + 1], d)
    BY <1>4, <1>5, <2>4
  <2>6. QED BY <1>3, <1>8, <2>3, <2>5, TotalsPut
<1>10. Append(r, v) \in Seq(Fraction) /\ Len(Append(r, v)) <= n + 1
  <2>1. Append(r, v) \in Seq(S) /\ Len(Append(r, v)) = Len(r) + 1
    BY <1>8, AppendProperties
  <2>2. QED BY <1>3, <1>8, <2>1
<1>11. QED BY <1>4, <1>5, <1>9, <1>10 DEF NumTotals

\* A period without the function
LEMMA RatioTotalsSkip ==
  ASSUME NEW n \in Nat, NEW trees, NEW more, \A k \in 1 .. n : more[k] = trees[k], NEW p, NEW q,
         RatioTotals(q, trees, n, p), ~HasRatio(more[n + 1], p)
  PROVE  RatioTotals(q, more, n + 1, p)
<1>1. \A k \in 1 .. n : k \in 1 .. n + 1
  OBVIOUS
<1>2. n + 1 \in 1 .. n + 1 /\ \A k \in 1 .. n + 1 : k \in 1 .. n \/ k = n + 1
  OBVIOUS
<1>3. ASSUME NEW a, NEW d \in Nat \ {0}, Numerators(a, more, n + 1, p, d)
      PROVE  Totals(q, a, n + 1, d)
  <2>1. Numerators(a, trees, n, p, d)
    BY <1>1, <1>3 DEF Numerators
  <2>2. Totals(q, a, n, d)
    BY <2>1 DEF RatioTotals
  <2>3. a[n + 1] = 0
    BY <1>2, <1>3 DEF Numerators
  <2>4. QED BY <2>2, <2>3, TotalsSkip
<1>4. Having(more, n + 1, p) = Having(trees, n, p)
  BY <1>1, <1>2 DEF Having
<1>5. QED BY <1>3, <1>4 DEF RatioTotals

LEMMA RatioTotalsPut ==
  ASSUME NEW n \in Nat, NEW trees, NEW more, \A k \in 1 .. n : more[k] = trees[k], NEW p, NEW q,
         RatioTotals(q, trees, n, p), HasRatio(more[n + 1], p), NEW v \in Fraction,
         v = Ratio(more[n + 1], p)
  PROVE  RatioTotals(Append(q, v), more, n + 1, p)
<1>1. \A k \in 1 .. n : k \in 1 .. n + 1
  OBVIOUS
<1>2. n + 1 \in 1 .. n + 1 /\ n + 1 \notin 1 .. n /\ \A k \in 1 .. n + 1 : k \in 1 .. n \/ k = n + 1
  OBVIOUS
<1>3. PICK S : S = Fraction
  OBVIOUS
<1>4. q \in Seq(S) /\ Len(q) = Cardinality(Having(trees, n, p))
  BY <1>3 DEF RatioTotals
<1>5. ASSUME NEW a, NEW d \in Nat \ {0}, Numerators(a, more, n + 1, p, d)
      PROVE  Totals(Append(q, v), a, n + 1, d)
  <2>1. Numerators(a, trees, n, p, d)
    BY <1>1, <1>5 DEF Numerators
  <2>2. Totals(q, a, n, d)
    BY <2>1 DEF RatioTotals
  <2>3. a[n + 1] \in Int /\ Value(v, a[n + 1], d)
    BY <1>2, <1>5 DEF Numerators
  <2>4. QED BY <1>3, <1>4, <2>2, <2>3, TotalsPut
<1>6. Having(more, n + 1, p) = Having(trees, n, p) \cup {n + 1}
  BY <1>1, <1>2 DEF Having
<1>7. IsFiniteSet(Having(trees, n, p)) /\ n + 1 \notin Having(trees, n, p)
  <2>1. Having(trees, n, p) \subseteq 1 .. n /\ IsFiniteSet(1 .. n)
    BY FS_Interval DEF Having
  <2>2. QED BY <1>2, <2>1, FS_Subset
<1>8. Cardinality(Having(more, n + 1, p)) = Cardinality(Having(trees, n, p)) + 1
  BY <1>6, <1>7, FS_AddElement
<1>9. Append(q, v) \in Seq(S) /\ Len(Append(q, v)) = Len(q) + 1
  BY <1>3, <1>4, AppendProperties
<1>10. QED BY <1>3, <1>4, <1>5, <1>8, <1>9 DEF RatioTotals

\* Nothing has been gathered at first.
LEMMA LearnedInit ==
  ASSUME Init
  PROVE  Learned
<1>1. periods = << >> /\ current_period = 0 /\ normal_tree = [p \in {<< >>} |-> NewNode]
  BY DEF Init, StatsInit, AnoInit
<1>2. Gathered(normal_tree, periods, 0)
  <2>1. DOMAIN normal_tree = {<< >>} /\ \A p : NodeOf(normal_tree, p) = NewNode
    BY <1>1 DEF NodeOf
  <2>2. IsNode(NewNode) /\ NewNode.num.queue = << >> /\ NewNode.ratio.queue = << >>
    BY DEF IsNode, IsField, NewNode, NewField
  <2>3. UNION {Nodes(periods[k]) : k \in 1 .. 0} = {}
    <3>1. 1 .. 0 = {}
      OBVIOUS
    <3>2. QED BY <3>1
  <2>4. QED BY <2>1, <2>2, <2>3, NoTotals DEF Gathered
<1>3. periods \in Seq(WholeTrees) /\ Len(periods) = 0
  BY <1>1
<1>4. NumPeriod \in Nat \ {0} /\ ~(0 >= NumPeriod)
  BY AnomalyAssumption
<1>5. Gathered(normal_tree, periods, current_period)
  BY <1>1, <1>2
<1>6. current_period = Len(periods) /\ ~(current_period >= NumPeriod)
  BY <1>1, <1>3, <1>4
<1>7. QED BY <1>3, <1>5, <1>6 DEF Learned

\* What a period puts in the queues of a node it has: first a zero, if the node has been
\* absent and the body of the `when` runs on the node itself (initialize_node).
Queued(node, new, tree, p, n) ==
  \E r : /\ r = node.num.queue \/ (r = Append(node.num.queue, Frac(0)) /\ Len(node.num.queue) < n)
         /\ new.num.queue = Append(r, Frac(Num(tree, p)))
         /\ new.ratio.queue = IF HasRatio(tree, p) THEN Append(node.ratio.queue, Ratio(tree, p))
                              ELSE node.ratio.queue

LEMMA NodeQueues ==
  ASSUME NEW node, IsNode(node), NEW tree, NEW p, NEW kept, NEW n \in Nat, current_period = n
  PROVE  /\ IsNode(InitializeNode(node, tree, p, kept))
         /\ Queued(node, InitializeNode(node, tree, p, kept), tree, p, n)
<1>1. PICK a, q, b, c : a = node.num /\ q = a.queue /\ b = a.avg /\ c = a.var
                        /\ a = [queue |-> q, avg |-> b, var |-> c]
  BY DEF IsNode, IsField
<1>2. PICK r, s, d, e : r = node.ratio /\ s = r.queue /\ d = r.avg /\ e = r.var
                        /\ r = [queue |-> s, avg |-> d, var |-> e]
  BY DEF IsNode, IsField
<1>3. PICK x, y, z : x = Frac(Num(tree, p)) /\ y = Ratio(tree, p) /\ z = Frac(0)
  OBVIOUS
<1>4. ASSUME NEW g, NEW h, NEW i, NEW v
      PROVE  Put([queue |-> g, avg |-> h, var |-> i], v) = [queue |-> Append(g, v), avg |-> h, var |-> i]
  <2>1. PICK f, w : f = [queue |-> g, avg |-> h, var |-> i] /\ w = Append(g, v)
    OBVIOUS
  <2>2. Put(f, v) = [f EXCEPT !.queue = Append(f.queue, v)]
    BY DEF Put
  <2>3. f.queue = g
    BY <2>1
  <2>4. Put(f, v) = [f EXCEPT !.queue = w]
    BY <2>1, <2>2, <2>3
  <2>5. [f EXCEPT !.queue = w] = [queue |-> w, avg |-> h, var |-> i]
    BY <2>1
  <2>6. QED BY <2>1, <2>4, <2>5
<1>5. /\ Put(a, x) = [queue |-> Append(q, x), avg |-> b, var |-> c]
      /\ Put(Put(a, z), x) = [queue |-> Append(Append(q, z), x), avg |-> b, var |-> c]
      /\ Put(r, y) = [queue |-> Append(s, y), avg |-> d, var |-> e]
  <2>1. Put(a, x) = [queue |-> Append(q, x), avg |-> b, var |-> c]
    BY <1>1, <1>4
  <2>2. Put(a, z) = [queue |-> Append(q, z), avg |-> b, var |-> c]
    BY <1>1, <1>4
  <2>3. Put(Put(a, z), x) = [queue |-> Append(Append(q, z), x), avg |-> b, var |-> c]
    BY <1>4, <2>2
  <2>4. Put(r, y) = [queue |-> Append(s, y), avg |-> d, var |-> e]
    BY <1>2, <1>4
  <2>5. QED BY <2>1, <2>3, <2>4
<1>6. PICK new : new = InitializeNode(node, tree, p, kept)
  OBVIOUS
<1>7. /\ new.num = IF kept /\ Len(q) < n THEN Put(Put(a, z), x) ELSE Put(a, x)
      /\ new.ratio = IF HasRatio(tree, p) THEN Put(r, y) ELSE r
  BY <1>1, <1>2, <1>3, <1>6 DEF InitializeNode
<1>8. \/ new.num.queue = Append(q, x)
      \/ new.num.queue = Append(Append(q, z), x) /\ Len(q) < n
  BY <1>5, <1>7
<1>9. new.ratio.queue = IF HasRatio(tree, p) THEN Append(s, y) ELSE s
  BY <1>2, <1>5, <1>7
<1>10. IsNode(new)
  BY <1>2, <1>5, <1>7 DEF IsNode, IsField
<1>11. QED BY <1>1, <1>2, <1>3, <1>6, <1>8, <1>9, <1>10 DEF Queued

\* What a period adds to the normal tree is its numbers and its ratios (initialize_node).
LEMMA TreeGathers ==
  ASSUME NEW n \in Nat, current_period = n, NEW trees \in Seq(WholeTrees), n = Len(trees),
         Gathered(normal_tree, trees, n), NEW tree \in WholeTrees, NEW kept
  PROVE  Gathered(InitializeTree(tree, kept), Append(trees, tree), n + 1)
<1>1. PICK T, U, more : T = normal_tree /\ U = InitializeTree(tree, kept) /\ more = Append(trees, tree)
  OBVIOUS
<1>2. more[n + 1] = tree /\ \A k \in 1 .. n : more[k] = trees[k]
  BY <1>1, AppendProperties
<1>3. /\ DOMAIN U = DOMAIN T \cup Nodes(tree)
      /\ \A p \in DOMAIN T \ Nodes(tree) : U[p] = T[p]
      /\ \A p \in Nodes(tree) : U[p] = InitializeNode(NodeOf(T, p), tree, p, kept)
  BY <1>1 DEF InitializeTree, NodeOf
<1>4. DOMAIN U = {<< >>} \cup UNION {Nodes(more[k]) : k \in 1 .. n + 1}
  <2>1. DOMAIN T = {<< >>} \cup UNION {Nodes(trees[k]) : k \in 1 .. n}
    BY <1>1 DEF Gathered
  <2>2. \A k \in 1 .. n + 1 : k \in 1 .. n \/ k = n + 1
    OBVIOUS
  <2>3. \A k \in 1 .. n : k \in 1 .. n + 1
    OBVIOUS
  <2>4. n + 1 \in 1 .. n + 1
    OBVIOUS
  <2>5. UNION {Nodes(more[k]) : k \in 1 .. n + 1} = (UNION {Nodes(trees[k]) : k \in 1 .. n}) \cup Nodes(tree)
    <3>1. ASSUME NEW p \in UNION {Nodes(more[k]) : k \in 1 .. n + 1}
          PROVE  p \in (UNION {Nodes(trees[k]) : k \in 1 .. n}) \cup Nodes(tree)
      <4>1. PICK k \in 1 .. n + 1 : p \in Nodes(more[k])
        OBVIOUS
      <4>2. CASE k = n + 1
        BY <1>2, <4>1, <4>2
      <4>3. CASE k \in 1 .. n
        BY <1>2, <4>1, <4>3
      <4>4. QED BY <2>2, <4>2, <4>3
    <3>2. ASSUME NEW p \in UNION {Nodes(trees[k]) : k \in 1 .. n}
          PROVE  p \in UNION {Nodes(more[k]) : k \in 1 .. n + 1}
      BY <1>2, <2>3
    <3>3. Nodes(tree) \subseteq UNION {Nodes(more[k]) : k \in 1 .. n + 1}
      BY <1>2, <2>4
    <3>4. QED BY <3>1, <3>2, <3>3
  <2>6. QED BY <1>3, <2>1, <2>5
<1>5. ASSUME NEW p
      PROVE  /\ IsNode(NodeOf(U, p))
             /\ NumTotals(NodeOf(U, p).num.queue, more, n + 1, p)
             /\ RatioTotals(NodeOf(U, p).ratio.queue, more, n + 1, p)
  <2>1. PICK node, q, s : node = NodeOf(T, p) /\ q = node.num.queue /\ s = node.ratio.queue
    OBVIOUS
  <2>2. IsNode(node)
    BY <1>1, <2>1 DEF Gathered
  <2>3. NumTotals(q, trees, n, p) /\ RatioTotals(s, trees, n, p)
    BY <1>1, <2>1 DEF Gathered
  <2>4. CASE p \notin Nodes(tree)
    <3>1. NodeOf(U, p) = node
      BY <1>3, <2>1, <2>4 DEF NodeOf
    <3>2. p \notin DOMAIN tree.num
      BY <2>4 DEF Nodes
    <3>3. Num(tree, p) = 0 /\ ~HasRatio(tree, p)
      BY <3>2 DEF Num, HasRatio, WholeTrees
    <3>4. NumTotals(q, more, n + 1, p)
      BY <1>2, <2>3, <3>3, NumTotalsSkip
    <3>5. RatioTotals(s, more, n + 1, p)
      BY <1>2, <2>3, <3>3, RatioTotalsSkip
    <3>6. QED BY <2>1, <2>2, <3>1, <3>4, <3>5
  <2>5. CASE p \in Nodes(tree)
    <3>1. PICK new : new = InitializeNode(node, tree, p, kept)
      OBVIOUS
    <3>2. NodeOf(U, p) = new /\ IsNode(new)
      BY <1>3, <2>1, <2>2, <2>5, <3>1, NodeQueues DEF NodeOf
    <3>3. PICK x \in Int : x = Num(tree, p)
      BY TreeNumbers
    <3>4. PICK r : /\ r = q \/ (r = Append(q, Frac(0)) /\ Len(q) < n)
                   /\ new.num.queue = Append(r, Frac(x))
                   /\ new.ratio.queue = IF HasRatio(tree, p) THEN Append(s, Ratio(tree, p)) ELSE s
      <4>1. Queued(node, new, tree, p, n)
        BY <2>2, <3>1, NodeQueues
      <4>2. QED BY <2>1, <3>3, <4>1 DEF Queued
    <3>5. NumTotals(Append(r, Frac(x)), more, n + 1, p)
      BY <1>2, <2>3, <3>3, <3>4, NumTotalsPut
    <3>6. CASE ~HasRatio(tree, p)
      <4>1. RatioTotals(s, more, n + 1, p)
        BY <1>2, <2>3, <3>6, RatioTotalsSkip
      <4>2. QED BY <3>2, <3>4, <3>5, <3>6, <4>1
    <3>7. CASE HasRatio(tree, p)
      <4>1. PICK v \in Fraction : v = Ratio(tree, p)
        BY <3>7, TreeNumbers
      <4>2. RatioTotals(Append(s, v), more, n + 1, p)
        BY <1>2, <2>3, <3>7, <4>1, RatioTotalsPut
      <4>3. QED BY <3>2, <3>4, <3>5, <3>7, <4>1, <4>2
    <3>8. QED BY <3>6, <3>7
  <2>6. QED BY <2>4, <2>5
<1>6. Gathered(U, more, n + 1)
  BY <1>4, <1>5 DEF Gathered
<1>7. QED BY <1>1, <1>6

\* A field is what cal_avg_std makes of N values whose numerators over d are in a.
AveragesOf(field, a, n, N, d) ==
  \E new, q : /\ IsField(new) /\ new.queue = q /\ Len(q) = N /\ Totals(q, a, n, d)
              /\ field = Averaged(new)

\* The number of a node is averaged over all the periods of the training ...
LEMMA NumberQueue ==
  ASSUME NEW n \in Nat \ {0}, n = NumPeriod, NEW trees, NEW T, Gathered(T, trees, n),
         NEW p \in DOMAIN T, NEW a, \A k \in 1 .. n : a[k] = Num(trees[k], p),
         NEW d \in Nat \ {0}, d = 1
  PROVE  AveragesOf(CalculateTree(T)[p].num, a, n, n, d)
<1>1. PICK S : S = Fraction
  OBVIOUS
<1>2. NodeOf(T, p) = T[p]
  BY DEF NodeOf
<1>3. PICK old, q, b, c : old = T[p].num /\ old = [queue |-> q, avg |-> b, var |-> c]
  BY <1>2 DEF Gathered, IsNode, IsField
<1>4. NumTotals(q, trees, n, p)
  <2>1. old.queue = q
    BY <1>3
  <2>2. QED BY <1>2, <1>3, <2>1 DEF Gathered
<1>5. q \in Seq(S) /\ Len(q) <= n /\ Len(q) \in Nat
  BY <1>1, <1>4 DEF NumTotals
<1>6. PICK m \in Nat : m = n - Len(q)
  BY <1>5
<1>7. PICK z : z = [i \in 1 .. m |-> Frac(0)]
  OBVIOUS
<1>8. Totals(q, a, n, d)
  BY <1>4 DEF NumTotals
<1>9. PICK r \in Seq(S) : r = q \o z /\ Len(r) = Len(q) + m /\ Totals(r, a, n, d)
  <2>1. n \in Nat
    OBVIOUS
  <2>2. q \o z \in Seq(S) /\ Len(q \o z) = Len(q) + m /\ Totals(q \o z, a, n, d)
    BY <1>1, <1>5, <1>7, <1>8, <2>1, TotalsPadded
  <2>3. QED BY <2>2
<1>10. Padded(q) = r /\ Len(r) = n
  BY <1>5, <1>6, <1>7, <1>9 DEF Padded
<1>11. PICK new : new = [queue |-> r, avg |-> b, var |-> c]
  OBVIOUS
<1>12. CalculateTree(T)[p].num = Averaged(new)
  <2>1. CalculateTree(T)[p].num = Averaged([T[p].num EXCEPT !.queue = Padded(@)])
    BY DEF CalculateTree
  <2>2. [old EXCEPT !.queue = Padded(@)] = [old EXCEPT !.queue = r]
    BY <1>3, <1>10
  <2>3. [old EXCEPT !.queue = r] = new
    BY <1>3, <1>11
  <2>4. QED BY <1>3, <2>1, <2>2, <2>3
<1>13. IsField(new) /\ new.queue = r
  BY <1>11 DEF IsField
<1>14. QED BY <1>9, <1>10, <1>12, <1>13 DEF AveragesOf

\* ... and its ratio over those that had the function.
LEMMA RatioQueue ==
  ASSUME NEW n \in Nat \ {0}, NEW trees, NEW T, Gathered(T, trees, n), NEW p \in DOMAIN T,
         NEW a, NEW d \in Nat \ {0}, Numerators(a, trees, n, p, d),
         NEW N, N = Cardinality(Having(trees, n, p))
  PROVE  AveragesOf(CalculateTree(T)[p].ratio, a, n, N, d)
<1>1. NodeOf(T, p) = T[p]
  BY DEF NodeOf
<1>2. PICK old, q : old = T[p].ratio /\ q = old.queue
  OBVIOUS
<1>3. IsField(old) /\ RatioTotals(q, trees, n, p)
  BY <1>1, <1>2 DEF Gathered, IsNode
<1>4. Len(q) = N /\ Totals(q, a, n, d)
  BY <1>3 DEF RatioTotals
<1>5. CalculateTree(T)[p].ratio = Averaged(old)
  BY <1>2 DEF CalculateTree
<1>6. QED BY <1>2, <1>3, <1>4, <1>5 DEF AveragesOf

\* A node that had the same number, or the same ratio, in every period of the training
\* has it as its average, and no deviation (calculate_tree).
LEMMA NumberRepeats ==
  ASSUME NEW n \in Nat \ {0}, n = NumPeriod, NEW trees, NEW T, Gathered(T, trees, n),
         NEW p \in DOMAIN T, NEW x \in Int, \A k \in 1 .. n : Num(trees[k], p) = x
  PROVE  Steady(CalculateTree(T)[p].num, Frac(x))
<1>1. PICK a : a = [k \in 1 .. n |-> x]
  OBVIOUS
<1>2. \A k \in 1 .. n : a[k] = x /\ a[k] = Num(trees[k], p)
  BY <1>1
<1>3. PICK d \in Nat \ {0} : d = 1
  OBVIOUS
<1>4. AveragesOf(CalculateTree(T)[p].num, a, n, n, d)
  BY <1>2, <1>3, NumberQueue
<1>5. PICK y \in Fraction : y = Frac(x) /\ Value(y, x, d)
  BY <1>3, WholeIsFraction, ValueWhole
<1>6. PICK new, q : /\ IsField(new) /\ new.queue = q /\ Len(q) = n /\ Totals(q, a, n, d)
                    /\ CalculateTree(T)[p].num = Averaged(new)
  BY <1>4 DEF AveragesOf
<1>7. Steady(Averaged(new), y)
  BY <1>2, <1>5, <1>6, SteadyAverage
<1>8. QED BY <1>5, <1>6, <1>7

LEMMA RatioRepeats ==
  ASSUME NEW n \in Nat \ {0}, NEW trees, NEW T, Gathered(T, trees, n),
         NEW p \in DOMAIN T, NEW y \in Fraction,
         \A k \in 1 .. n : HasRatio(trees[k], p), \A k \in 1 .. n : Ratio(trees[k], p) = y
  PROVE  Steady(CalculateTree(T)[p].ratio, y)
<1>1. PICK x \in Int, d \in Nat \ {0} : y = << x, d >>
  BY DEF Fraction
<1>2. PICK a : a = [k \in 1 .. n |-> x]
  OBVIOUS
<1>3. Value(y, x, d) /\ \A k \in 1 .. n : a[k] = x
  BY <1>1, <1>2 DEF Value
<1>4. Numerators(a, trees, n, p, d)
  BY <1>3 DEF Numerators
<1>5. Having(trees, n, p) = 1 .. n
  BY DEF Having
<1>6. Cardinality(Having(trees, n, p)) = n
  BY <1>5, FS_Interval
<1>7. AveragesOf(CalculateTree(T)[p].ratio, a, n, n, d)
  BY <1>4, <1>6, RatioQueue
<1>8. PICK new, q : /\ IsField(new) /\ new.queue = q /\ Len(q) = n /\ Totals(q, a, n, d)
                    /\ CalculateTree(T)[p].ratio = Averaged(new)
  BY <1>7 DEF AveragesOf
<1>9. Steady(Averaged(new), y)
  BY <1>3, <1>8, SteadyAverage
<1>10. QED BY <1>8, <1>9

\* In general it has the mean and the variance.
LEMMA NumberAveraged ==
  ASSUME NEW n \in Nat \ {0}, n = NumPeriod, NEW trees, \A k \in 1 .. n : trees[k] \in WholeTrees,
         NEW T, Gathered(T, trees, n), NEW p \in DOMAIN T,
         NEW field, field = CalculateTree(T)[p].num,
         NEW f, f = [k \in 1 .. n |-> Frac(Num(trees[k], p))]
  PROVE  IsMean(field.avg, f) /\ IsVariance(field.var, field.avg, f)
<1>1. PICK a : a = [k \in 1 .. n |-> Num(trees[k], p)]
  OBVIOUS
<1>2. \A k \in 1 .. n : a[k] \in Int /\ a[k] = Num(trees[k], p) /\ f[k] = Frac(a[k])
  <2>1. \A k \in 1 .. n : Num(trees[k], p) \in Nat
    BY TreeNumbers
  <2>2. QED BY <1>1, <2>1
<1>3. PICK d \in Nat \ {0} : d = 1
  OBVIOUS
<1>4. AveragesOf(field, a, n, n, d)
  BY <1>2, <1>3, NumberQueue
<1>5. PICK new, q : /\ IsField(new) /\ new.queue = q /\ Len(q) = n /\ Totals(q, a, n, d)
                    /\ field = Averaged(new)
  BY <1>4 DEF AveragesOf
<1>6. PICK D \in SUBSET (1 .. n) : D = 1 .. n
  OBVIOUS
<1>7. f \in [D -> Fraction] /\ OneDenominator(f, D, a, n, d)
  <2>1. \A k \in 1 .. n : f[k] \in Fraction /\ Value(f[k], a[k], d)
    BY <1>2, <1>3, WholeIsFraction, ValueWhole
  <2>2. QED BY <1>2, <1>6, <2>1 DEF OneDenominator
<1>8. Cardinality(D) = n
  BY <1>6, FS_Interval
<1>9. IsMean(Averaged(new).avg, f) /\ IsVariance(Averaged(new).var, Averaged(new).avg, f)
  <2>1. n \in Nat
    OBVIOUS
  <2>2. QED BY <1>5, <1>7, <1>8, <2>1, AveragedIs
<1>10. QED BY <1>5, <1>9

LEMMA RatioAveraged ==
  ASSUME NEW n \in Nat \ {0}, NEW trees, \A k \in 1 .. n : trees[k] \in WholeTrees,
         NEW T, Gathered(T, trees, n), NEW p \in DOMAIN T,
         NEW field, field = CalculateTree(T)[p].ratio,
         NEW D, D = Having(trees, n, p), D # {}, NEW f, f = [k \in D |-> Ratio(trees[k], p)]
  PROVE  IsMean(field.avg, f) /\ IsVariance(field.var, field.avg, f)
<1>1. PICK E \in SUBSET (1 .. n) : E = D
  BY DEF Having
<1>2. PICK N \in Nat \ {0} : N = Cardinality(E)
  <2>1. IsFiniteSet(1 .. n)
    BY FS_Interval
  <2>2. IsFiniteSet(E)
    BY <2>1, FS_Subset
  <2>3. Cardinality(E) \in Nat /\ Cardinality(E) # 0
    BY <1>1, <2>2, FS_CardinalityType, FS_EmptySet
  <2>4. QED BY <2>3
<1>3. \A k \in 1 .. n : k \in D <=> HasRatio(trees[k], p)
  BY DEF Having
<1>4. \A k \in E : f[k] = Ratio(trees[k], p) /\ f[k] \in Fraction
  BY <1>1, <1>3, TreeNumbers
<1>5. f \in [E -> Fraction]
  BY <1>1, <1>4
<1>6. n \in Nat /\ \A k \in 1 .. n : k \in E => f[k] \in Fraction
  BY <1>4
<1>7. PICK a, d : d \in Nat \ {0} /\ OneDenominator(f, E, a, n, d)
  BY <1>6, CommonDenominator
<1>8. Numerators(a, trees, n, p, d)
  BY <1>1, <1>3, <1>4, <1>7 DEF OneDenominator, Numerators
<1>9. AveragesOf(field, a, n, N, d)
  BY <1>1, <1>2, <1>7, <1>8, RatioQueue
<1>10. PICK new, q : /\ IsField(new) /\ new.queue = q /\ Len(q) = N /\ Totals(q, a, n, d)
                     /\ field = Averaged(new)
  BY <1>9 DEF AveragesOf
<1>11. IsMean(Averaged(new).avg, f) /\ IsVariance(Averaged(new).var, Averaged(new).avg, f)
  BY <1>2, <1>5, <1>6, <1>7, <1>10, AveragedIs
<1>12. QED BY <1>10, <1>11

\* The normal tree has the nodes of the training.
LEMMA TrainedNodes ==
  ASSUME NEW n \in Nat \ {0}, NEW trees, \A k \in 1 .. n : trees[k] \in WholeTrees,
         NEW T, Gathered(T, trees, n)
  PROVE  /\ DOMAIN CalculateTree(T) = DOMAIN T
         /\ DOMAIN T = UNION {Nodes(trees[k]) : k \in 1 .. n}
         /\ Grown(DOMAIN T)
<1>1. DOMAIN CalculateTree(T) = DOMAIN T
  BY DEF CalculateTree
<1>2. \A k \in 1 .. n : Grown(Nodes(trees[k]))
  BY DEF WholeTrees
<1>3. 1 \in 1 .. n
  OBVIOUS
<1>4. DOMAIN T = {<< >>} \cup (UNION {Nodes(trees[k]) : k \in 1 .. n})
  BY DEF Gathered
<1>5. << >> \in Nodes(trees[1])
  BY DEF Nodes
<1>6. DOMAIN T = UNION {Nodes(trees[k]) : k \in 1 .. n}
  BY <1>3, <1>4, <1>5
<1>7. Grown(DOMAIN T)
  <2>1. ASSUME NEW p \in DOMAIN T PROVE p \in Seq(Names) /\ (p # << >> => Front(p) \in DOMAIN T)
    <3>1. PICK k \in 1 .. n : p \in Nodes(trees[k])
      BY <1>6
    <3>2. p \in Seq(Names) /\ (p # << >> => Front(p) \in Nodes(trees[k]))
      BY <1>2, <3>1 DEF Grown
    <3>3. QED BY <1>6, <3>2
  <2>2. << >> \in DOMAIN T
    BY <1>4
  <2>3. QED BY <2>1, <2>2 DEF Grown
<1>8. QED BY <1>1, <1>6, <1>7

-----------------------------------------------------------------------------
(* Scores *)

\* A value at the mean is not outside the deviation ...
LEMMA SameIsInside ==
  ASSUME NEW field, NEW x \in Fraction, NEW m \in Fraction, NEW d \in Nat \ {0},
         field.avg = m, Same(m, x), field.var = << 0, d >>
  PROVE  ~Scores(field, x)
<1>1. PICK a \in Int, b \in Nat \ {0}, c \in Int, e \in Nat \ {0} : m = << a, b >> /\ x = << c, e >>
  BY DEF Fraction
<1>2. a * e = c * b
  BY <1>1 DEF Same
<1>3. PICK i \in Int, j \in Nat \ {0}, jj \in Nat \ {0} : i = c * b - a * e /\ j = e * b /\ jj = j * j /\ i = 0
  <2>1. PICK j \in Nat \ {0} : j = e * b
    BY Products
  <2>2. PICK jj \in Nat \ {0} : jj = j * j
    BY Products
  <2>3. c * b \in Int /\ a * e \in Int
    BY Products
  <2>4. c * b - a * e = 0
    BY <1>2, <2>3
  <2>5. QED BY <2>1, <2>2, <2>4
<1>4. Sub(x, m) = << i, j >>
  BY <1>1, <1>3 DEF Sub
<1>5. Distance2(field, x) = << 0, jj >>
  <2>1. Mul(<< i, j >>, << i, j >>) = << 0, jj >>
    BY <1>3 DEF Mul
  <2>2. QED BY <1>4, <2>1 DEF Distance2
<1>6. Leq(<< 0, jj >>, << 0, d >>)
  BY DEF Leq
<1>7. QED BY <1>5, <1>6 DEF Scores, Outside

\* ... and zero is, however high the threshold, if the mean is more and there is no
\* deviation.
LEMMA ZeroScores ==
  ASSUME NEW field, NEW c \in Nat \ {0}, NEW m \in Fraction, NEW d \in Nat \ {0},
         field.avg = m, Same(m, Frac(c)), field.var = << 0, d >>
  PROVE  Scores(field, Frac(0))
<1>1. PICK a \in Int, b \in Nat \ {0} : m = << a, b >>
  BY DEF Fraction
<1>2. PICK cb \in Nat \ {0} : cb = c * b
  BY Products
<1>3. a = cb
  <2>1. a * 1 = c * b
    BY <1>1 DEF Same, Frac
  <2>2. QED BY <1>2, <2>1
<1>4. PICK aa \in Nat \ {0}, bb \in Nat \ {0} : aa = a * a /\ bb = b * b
  BY <1>3, Products
<1>5. Sub(Frac(0), m) = << 0 - a, b >>
  <2>1. 0 * b - a * 1 = 0 - a /\ 1 * b = b
    OBVIOUS
  <2>2. QED BY <1>1, <2>1 DEF Sub, Frac
<1>6. Distance2(field, Frac(0)) = << aa, bb >>
  <2>1. (0 - a) * (0 - a) = a * a
    BY SMTT(30)
  <2>2. Mul(<< 0 - a, b >>, << 0 - a, b >>) = << aa, bb >>
    BY <1>4, <2>1 DEF Mul
  <2>3. QED BY <1>5, <2>2 DEF Distance2
<1>7. PICK ad \in Nat \ {0} : ad = aa * d
  BY Products
<1>8. ~Leq(<< aa, bb >>, << 0, d >>)
  <2>1. 0 * bb = 0 /\ ~(ad <= 0)
    BY <1>7
  <2>2. QED BY <1>7, <2>1 DEF Leq
<1>9. Leq(Mul(Frac(Threshold), << 0, d >>), << aa, bb >>)
  <2>1. Threshold * 0 = 0 /\ 1 * d = d /\ 0 * bb = 0 /\ 0 <= ad
    BY AnomalyAssumption
  <2>2. Mul(Frac(Threshold), << 0, d >>) = << 0, d >>
    BY <2>1 DEF Mul, Frac
  <2>3. Leq(<< 0, d >>, << aa, bb >>)
    BY <1>7, <2>1 DEF Leq
  <2>4. QED BY <2>2, <2>3
<1>10. QED BY <1>6, <1>8, <1>9 DEF Scores, Outside

-----------------------------------------------------------------------------
(* What a check reports *)

Report(k, p, desc) == [period |-> k, path |-> p, field |-> "", desc |-> desc]

LEMMA Checked ==
  ASSUME NEW tree
  PROVE  /\ \A a \in CheckTree(tree) : a.period = current_period + 1
         /\ \A a \in CheckTree(tree) : a.desc = "TRAFFIC_NEW" => a \in NewNodes(tree)
         /\ NewNodes(tree) \subseteq CheckTree(tree) /\ Disappeared(tree) \subseteq CheckTree(tree)
<1>1. ASSUME NEW p, NEW name, NEW field, NEW x, NEW a \in CheckField(p, name, field, x)
      PROVE  a.period = current_period + 1 /\ a.desc # "TRAFFIC_NEW"
  BY DEF CheckField, Anomaly, Direction
<1>2. ASSUME NEW p, NEW a \in CheckNode(tree, p)
      PROVE  a.period = current_period + 1 /\ a.desc # "TRAFFIC_NEW"
  <2>1. PICK num, ratio, x, y :
          CheckNode(tree, p) \subseteq CheckField(p, "number", num, x)
                                       \cup CheckField(p, "response_ratio", ratio, y)
    BY DEF CheckNode
  <2>2. a \in CheckField(p, "number", num, x) \/ a \in CheckField(p, "response_ratio", ratio, y)
    BY <2>1
  <2>3. QED BY <1>1, <2>2
<1>3. ASSUME NEW a \in NewNodes(tree) PROVE a.period = current_period + 1
  <2>1. PICK p : a = Anomaly(p, "", "TRAFFIC_NEW")
    BY DEF NewNodes
  <2>2. QED BY <2>1 DEF Anomaly
<1>4. ASSUME NEW a \in Disappeared(tree)
      PROVE  a.period = current_period + 1 /\ a.desc # "TRAFFIC_NEW"
  <2>1. PICK p : a = Anomaly(p, "", "TRAFFIC_DIS")
    BY DEF Disappeared
  <2>2. QED BY <2>1 DEF Anomaly
<1>5. CheckTree(tree) = (UNION {CheckNode(tree, p) : p \in Common(tree)})
                         \cup NewNodes(tree) \cup Disappeared(tree)
  BY DEF CheckTree
<1>6. \A a \in UNION {CheckNode(tree, p) : p \in Common(tree)} :
        a.period = current_period + 1 /\ a.desc # "TRAFFIC_NEW"
  BY <1>2
<1>7. QED BY <1>3, <1>4, <1>5, <1>6

\* A node is reported as new if the training had its parent and not the node.
LEMMA NewReported ==
  ASSUME Grown(DOMAIN normal_tree), NEW tree, Grown(Nodes(tree)), NEW q
  PROVE  Report(current_period + 1, q, "TRAFFIC_NEW") \in CheckTree(tree)
           <=> /\ q \in Nodes(tree) \ DOMAIN normal_tree
               /\ Front(q) \in Nodes(tree) \cap DOMAIN normal_tree
<1>1. PICK c, r : c = current_period + 1 /\ r = Report(c, q, "TRAFFIC_NEW")
  OBVIOUS
<1>2. r.path = q /\ r.desc = "TRAFFIC_NEW" /\ r = Anomaly(q, "", "TRAFFIC_NEW")
  BY <1>1 DEF Report, Anomaly
<1>3. \A p : Anomaly(p, "", "TRAFFIC_NEW").path = p
  BY DEF Anomaly
<1>4. r \in NewNodes(tree) <=> q \in Fringe(Nodes(tree), tree)
  BY <1>2, <1>3 DEF NewNodes
<1>5. Common(tree) = DOMAIN normal_tree \cap Nodes(tree)
  BY CommonIs
<1>6. q \in Fringe(Nodes(tree), tree) <=> /\ q \in Nodes(tree) \ DOMAIN normal_tree
                                          /\ Front(q) \in Nodes(tree) \cap DOMAIN normal_tree
  BY <1>5 DEF Fringe
<1>7. r \in CheckTree(tree) <=> r \in NewNodes(tree)
  BY <1>2, Checked
<1>8. QED BY <1>1, <1>4, <1>6, <1>7

\* After the training
LEMMA Baseline ==
  ASSUME Learned, current_period >= NumPeriod
  PROVE  \E n, T, N :
           /\ n \in Nat \ {0} /\ n = NumPeriod /\ Gathered(T, periods, n) /\ normal_tree = CalculateTree(T)
           /\ \A k \in 1 .. n : periods[k] \in WholeTrees
           /\ N = DOMAIN normal_tree /\ N = DOMAIN T /\ Grown(N)
           /\ N = UNION {Nodes(periods[k]) : k \in 1 .. n}
<1>1. PICK n \in Nat \ {0} : n = NumPeriod
  BY AnomalyAssumption
<1>2. PICK T : Gathered(T, periods, n) /\ normal_tree = CalculateTree(T)
  BY <1>1 DEF Learned
<1>3. \A k \in 1 .. n : periods[k] \in WholeTrees
  <2>1. PICK S : S = WholeTrees
    OBVIOUS
  <2>2. periods \in Seq(S) /\ current_period = Len(periods)
    BY <2>1 DEF Learned
  <2>3. PICK l \in Nat : l = Len(periods) /\ n <= l
    BY <1>1, <2>2
  <2>4. \A k \in 1 .. n : k \in 1 .. l
    BY <2>3
  <2>5. \A k \in 1 .. l : periods[k] \in S
    BY <2>2, <2>3, ElementOfSeq
  <2>6. QED BY <2>1, <2>4, <2>5
<1>4. /\ DOMAIN CalculateTree(T) = DOMAIN T
      /\ DOMAIN T = UNION {Nodes(periods[k]) : k \in 1 .. n}
      /\ Grown(DOMAIN T)
  BY <1>2, <1>3, TrainedNodes
<1>5. PICK N : N = DOMAIN T
  OBVIOUS
<1>6. N = DOMAIN normal_tree /\ Grown(N) /\ N = UNION {Nodes(periods[k]) : k \in 1 .. n}
  BY <1>2, <1>4, <1>5
<1>7. QED BY <1>1, <1>2, <1>3, <1>5, <1>6

\* A node that always had the same number is missed if its parent is not.
LEMMA GoneReported ==
  ASSUME Learned, current_period >= NumPeriod, NEW tree \in WholeTrees,
         NEW p \in DOMAIN normal_tree \ Nodes(tree), Front(p) \in Nodes(tree),
         \A k \in 1 .. NumPeriod : Num(periods[k], p) = Num(periods[1], p)
  PROVE  Report(current_period + 1, p, "TRAFFIC_DIS") \in CheckTree(tree)
<1>1. PICK n, T, N :
           /\ n \in Nat \ {0} /\ n = NumPeriod /\ Gathered(T, periods, n) /\ normal_tree = CalculateTree(T)
           /\ \A k \in 1 .. n : periods[k] \in WholeTrees
           /\ N = DOMAIN normal_tree /\ N = DOMAIN T /\ Grown(N)
           /\ N = UNION {Nodes(periods[k]) : k \in 1 .. n}
  BY Baseline
<1>2. PICK j \in 1 .. n : p \in Nodes(periods[j])
  BY <1>1
<1>3. p # << >>
  BY DEF Nodes
<1>4. PICK c : c = Num(periods[1], p)
  OBVIOUS
<1>5. \A k \in 1 .. n : Num(periods[k], p) = c
  BY <1>1, <1>4
<1>6. c \in Nat \ {0}
  <2>1. p \in DOMAIN periods[j].num
    BY <1>2, <1>3 DEF Nodes
  <2>2. Num(periods[j], p) \in Nat /\ Num(periods[j], p) # 0
    BY <1>1, <2>1, TreeNumbers
  <2>3. QED BY <1>5, <2>2
<1>7. \A k \in 1 .. n : p \in Nodes(periods[k]) /\ Num(periods[k], p) = c
  <2>1. ASSUME NEW k \in 1 .. n PROVE p \in Nodes(periods[k])
    <3>1. p \in DOMAIN periods[k].num
      BY <1>1, <1>5, <1>6, TreeNumbers
    <3>2. QED BY <3>1 DEF Nodes
  <2>2. QED BY <1>5, <2>1
<1>8. Steady(CalculateTree(T)[p].num, Frac(c))
  <2>1. c \in Int /\ p \in DOMAIN T
    BY <1>1, <1>6
  <2>2. QED BY <1>1, <1>7, <2>1, NumberRepeats
<1>9. PICK field : field = normal_tree[p].num
  OBVIOUS
<1>10. Scores(field, Frac(0))
  <2>1. PICK m \in Fraction, d \in Nat \ {0} :
          field.avg = m /\ Same(m, Frac(c)) /\ field.var = << 0, d >>
    BY <1>1, <1>8, <1>9 DEF Steady
  <2>2. QED BY <1>6, <2>1, ZeroScores
<1>11. Common(tree) = DOMAIN normal_tree \cap Nodes(tree)
  BY <1>1, CommonIs DEF WholeTrees
<1>12. p \in Fringe(DOMAIN normal_tree, tree)
  <2>1. Front(p) \in DOMAIN normal_tree
    BY <1>1, <1>3 DEF Grown
  <2>2. QED BY <1>11, <2>1 DEF Fringe
<1>13. Anomaly(p, "", "TRAFFIC_DIS") \in Disappeared(tree)
  BY <1>9, <1>10, <1>12 DEF Disappeared
<1>14. Report(current_period + 1, p, "TRAFFIC_DIS") = Anomaly(p, "", "TRAFFIC_DIS")
  BY DEF Report, Anomaly
<1>15. QED BY <1>13, <1>14, Checked

\* A period like all those of the training has nothing to report.
LEMMA RepeatReportsNothing ==
  ASSUME Learned, current_period >= NumPeriod, NEW tree \in WholeTrees,
         \A k \in 1 .. NumPeriod : periods[k] = tree
  PROVE  CheckTree(tree) = {}
<1>1. PICK n, T, N :
           /\ n \in Nat \ {0} /\ n = NumPeriod /\ Gathered(T, periods, n) /\ normal_tree = CalculateTree(T)
           /\ \A k \in 1 .. n : periods[k] \in WholeTrees
           /\ N = DOMAIN normal_tree /\ N = DOMAIN T /\ Grown(N)
           /\ N = UNION {Nodes(periods[k]) : k \in 1 .. n}
  BY Baseline
<1>2. \A k \in 1 .. n : periods[k] = tree
  BY <1>1
<1>3. N = Nodes(tree)
  <2>1. 1 \in 1 .. n
    BY <1>1
  <2>2. QED BY <1>1, <1>2, <2>1
<1>4. Common(tree) = N
  BY <1>1, <1>3, CommonIs
<1>5. NewNodes(tree) = {} /\ Disappeared(tree) = {}
  <2>1. Fringe(Nodes(tree), tree) = {} /\ Fringe(DOMAIN normal_tree, tree) = {}
    BY <1>1, <1>3, <1>4 DEF Fringe
  <2>2. QED BY <2>1 DEF NewNodes, Disappeared
<1>6. ASSUME NEW p \in N PROVE CheckNode(tree, p) = {}
  <2>1. PICK num, ratio : num = normal_tree[p].num /\ ratio = normal_tree[p].ratio
    OBVIOUS
  <2>2. ~Scores(num, Frac(Num(tree, p)))
    <3>1. PICK x \in Int : x = Num(tree, p)
      BY TreeNumbers
    <3>2. \A k \in 1 .. n : p \in Nodes(periods[k]) /\ Num(periods[k], p) = x
      BY <1>2, <1>3, <3>1
    <3>3. Steady(CalculateTree(T)[p].num, Frac(x))
      BY <1>1, <3>2, NumberRepeats
    <3>4. PICK m \in Fraction, d \in Nat \ {0} :
            num.avg = m /\ Same(m, Frac(x)) /\ num.var = << 0, d >>
      BY <1>1, <2>1, <3>3 DEF Steady
    <3>5. PICK y \in Fraction : y = Frac(x)
      BY WholeIsFraction
    <3>6. ~Scores(num, y)
      BY <3>4, <3>5, SameIsInside
    <3>7. QED BY <3>1, <3>5, <3>6
  <2>3. HasRatio(tree, p) => ~Scores(ratio, Ratio(tree, p))
    <3>1. SUFFICES ASSUME HasRatio(tree, p) PROVE ~Scores(ratio, Ratio(tree, p))
      OBVIOUS
    <3>2. PICK y \in Fraction : y = Ratio(tree, p)
      BY <3>1, TreeNumbers
    <3>3. /\ \A k \in 1 .. n : HasRatio(periods[k], p)
          /\ \A k \in 1 .. n : Ratio(periods[k], p) = y
      BY <1>2, <3>1, <3>2
    <3>4. Steady(CalculateTree(T)[p].ratio, y)
      <4>1. n \in Nat \ {0} /\ Gathered(T, periods, n) /\ p \in DOMAIN T
        BY <1>1
      <4>2. QED BY <3>3, <4>1, RatioRepeats
    <3>5. PICK m \in Fraction, d \in Nat \ {0} :
            ratio.avg = m /\ Same(m, y) /\ ratio.var = << 0, d >>
      BY <1>1, <2>1, <3>4 DEF Steady
    <3>6. ~Scores(ratio, y)
      BY <3>5, SameIsInside
    <3>7. QED BY <3>2, <3>6
  <2>4. CheckField(p, "number", num, Frac(Num(tree, p))) = {}
    BY <2>2 DEF CheckField
  <2>5. HasRatio(tree, p) => CheckField(p, "response_ratio", ratio, Ratio(tree, p)) = {}
    BY <2>3 DEF CheckField
  <2>6. QED BY <2>1, <2>4, <2>5 DEF CheckNode
<1>7. CheckTree(tree) = (UNION {CheckNode(tree, p) : p \in Common(tree)})
                         \cup NewNodes(tree) \cup Disappeared(tree)
  BY DEF CheckTree
<1>8. QED BY <1>4, <1>5, <1>6, <1>7

-----------------------------------------------------------------------------
(* What has been reported *)

\* A period like those of the training
Quiet(k) ==
  (\A j \in 1 .. NumPeriod : periods[j] = periods[k]) => \A a \in anomalies : a.period # k

NewTold(k) ==
  \A q : Report(k, q, "TRAFFIC_NEW") \in anomalies
           <=> /\ q \in Nodes(periods[k]) \ DOMAIN normal_tree
               /\ Front(q) \in Nodes(periods[k]) \cap DOMAIN normal_tree

GoneTold(k) ==
  \A p \in DOMAIN normal_tree \ Nodes(periods[k]) :
    /\ Front(p) \in Nodes(periods[k])
    /\ \A j \in 1 .. NumPeriod : Num(periods[j], p) = Num(periods[1], p)
    => Report(k, p, "TRAFFIC_DIS") \in anomalies

Told ==
  /\ \A a \in anomalies : a.period \in NumPeriod + 1 .. current_period
  /\ \A k \in NumPeriod + 1 .. current_period : Quiet(k) /\ NewTold(k) /\ GoneTold(k)

\* Only the first trees of a sequence have been gathered.
LEMMA GatheredKept ==
  ASSUME NEW n \in Nat, NEW T, NEW trees, NEW more, \A k \in 1 .. n : more[k] = trees[k],
         Gathered(T, trees, n)
  PROVE  Gathered(T, more, n)
<1>1. UNION {Nodes(more[k]) : k \in 1 .. n} = UNION {Nodes(trees[k]) : k \in 1 .. n}
  <2>1. ASSUME NEW p PROVE (\E k \in 1 .. n : p \in Nodes(more[k])) <=> \E k \in 1 .. n : p \in Nodes(trees[k])
    OBVIOUS
  <2>2. QED BY <2>1
<1>2. ASSUME NEW p, NEW q, NumTotals(q, trees, n, p) PROVE NumTotals(q, more, n, p)
  BY <1>2 DEF NumTotals
<1>3. ASSUME NEW p, NEW q, RatioTotals(q, trees, n, p) PROVE RatioTotals(q, more, n, p)
  <2>1. Having(more, n, p) = Having(trees, n, p)
    BY DEF Having
  <2>2. \A a, d : Numerators(a, more, n, p, d) => Numerators(a, trees, n, p, d)
    BY DEF Numerators
  <2>3. QED BY <1>3, <2>1, <2>2 DEF RatioTotals
<1>4. QED BY <1>1, <1>2, <1>3 DEF Gathered

\* A period of training is gathered, and reports nothing (initialize_node and
\* calculate_tree).
LEMMA TrainStep ==
  ASSUME Learned, Told, NEW t \in WholeTrees, Train(t), periods' = Append(periods, t)
  PROVE  Learned' /\ Told'
<1>1. PICK P, S : P = periods /\ S = WholeTrees
  OBVIOUS
<1>2. PICK n \in Nat : n = current_period /\ n = Len(P) /\ P \in Seq(S)
  BY <1>1 DEF Learned
<1>3. PICK m \in Nat \ {0} : m = NumPeriod
  BY AnomalyAssumption
<1>4. n < m /\ current_period' = n + 1 /\ anomalies' = anomalies
  BY <1>2, <1>3 DEF Train
<1>5. PICK kept \in BOOLEAN : normal_tree' = IF n + 1 = m THEN CalculateTree(InitializeTree(t, kept))
                                             ELSE InitializeTree(t, kept)
  BY <1>2, <1>3 DEF Train
<1>6. PICK U, more : U = InitializeTree(t, kept) /\ more = Append(P, t)
  OBVIOUS
<1>7. Gathered(U, more, n + 1)
  <2>1. Gathered(normal_tree, P, n)
    BY <1>1, <1>2, <1>3, <1>4 DEF Learned
  <2>2. QED BY <1>1, <1>2, <1>6, <2>1, TreeGathers
<1>8. periods' = more /\ more \in Seq(S) /\ Len(more) = n + 1
  BY <1>1, <1>2, <1>6, AppendProperties
<1>9. Learned'
  <2>1. periods' \in Seq(WholeTrees) /\ current_period' = Len(periods')
    BY <1>1, <1>4, <1>8
  <2>2. ASSUME n + 1 < m PROVE Gathered(normal_tree', more, n + 1)
    BY <1>5, <1>6, <1>7, <2>2
  <2>3. ASSUME n + 1 >= m PROVE Gathered(U, more, m) /\ normal_tree' = CalculateTree(U)
    <3>1. n + 1 = m
      BY <1>4, <2>3
    <3>2. QED BY <1>5, <1>6, <1>7, <3>1
  <2>4. QED BY <1>3, <1>4, <1>8, <2>1, <2>2, <2>3 DEF Learned
<1>10. Told'
  <2>1. m + 1 .. n = {} /\ m + 1 .. n + 1 = {}
    BY <1>4
  <2>2. \A a \in anomalies : FALSE
    BY <1>2, <1>3, <2>1 DEF Told
  <2>3. NumPeriod + 1 .. current_period' = {}
    BY <1>3, <1>4, <2>1
  <2>4. QED BY <1>4, <2>2, <2>3 DEF Told
<1>11. QED BY <1>9, <1>10

\* A later period changes neither what has been learned nor what has been reported of
\* the periods before, and is told of itself (check_tree).
LEMMA DetectStep ==
  ASSUME Learned, Told, NEW t \in WholeTrees, Detect(t), periods' = Append(periods, t)
  PROVE  Learned' /\ Told'
<1>1. PICK P, S, N : P = periods /\ S = WholeTrees /\ N = normal_tree
  OBVIOUS
<1>2. PICK n \in Nat : n = current_period /\ n = Len(P) /\ P \in Seq(S)
  BY <1>1 DEF Learned
<1>3. PICK m \in Nat \ {0} : m = NumPeriod
  BY AnomalyAssumption
<1>4. PICK A, C : A = anomalies /\ C = CheckTree(t)
  OBVIOUS
<1>5. /\ n >= m /\ current_period' = n + 1 /\ anomalies' = A \cup C /\ normal_tree' = N
  BY <1>1, <1>2, <1>3, <1>4 DEF Detect
<1>6. PICK more : more = Append(P, t)
  OBVIOUS
<1>7. /\ periods' = more /\ more \in Seq(S) /\ Len(more) = n + 1 /\ more[n + 1] = t
      /\ \A k \in 1 .. n : more[k] = P[k]
  BY <1>1, <1>2, <1>6, AppendProperties
<1>8. \A k \in 1 .. m : k \in 1 .. n /\ more[k] = P[k]
  BY <1>5, <1>7
<1>9. Learned'
  <2>1. periods' \in Seq(WholeTrees) /\ current_period' = Len(periods')
    BY <1>1, <1>5, <1>7
  <2>2. PICK T : Gathered(T, P, m) /\ N = CalculateTree(T)
    BY <1>1, <1>2, <1>3, <1>5 DEF Learned
  <2>3. Gathered(T, more, m)
    BY <1>8, <2>2, GatheredKept
  <2>4. ~(n + 1 < m)
    BY <1>5
  <2>5. QED BY <1>3, <1>5, <1>7, <2>1, <2>2, <2>3, <2>4 DEF Learned
<1>10. \A a \in C : a.period = n + 1
  BY <1>2, <1>4, Checked
<1>11. \A a \in A : a.period \in m + 1 .. n /\ a.period # n + 1
  <2>1. \A a \in A : a.period \in m + 1 .. n
    BY <1>2, <1>3, <1>4 DEF Told
  <2>2. \A k \in m + 1 .. n : k # n + 1
    OBVIOUS
  <2>3. QED BY <2>1, <2>2
<1>12. \A k, p, desc : Report(k, p, desc).period = k
  BY DEF Report
<1>13. ASSUME NEW k \in m + 1 .. n PROVE (Quiet(k) /\ NewTold(k) /\ GoneTold(k))'
  <2>1. k \in 1 .. n /\ k # n + 1
    OBVIOUS
  <2>2. more[k] = P[k]
    BY <1>7, <2>1
  <2>3. Quiet(k) /\ NewTold(k) /\ GoneTold(k)
    BY <1>2, <1>3 DEF Told
  <2>4. \A p, desc : Report(k, p, desc) \in A \cup C <=> Report(k, p, desc) \in A
    BY <1>10, <1>12, <2>1
  <2>5. Quiet(k)'
    <3>1. SUFFICES ASSUME \A j \in 1 .. m : more[j] = more[k], NEW a \in A \cup C PROVE a.period # k
      BY <1>3, <1>5, <1>7 DEF Quiet
    <3>2. \A j \in 1 .. m : P[j] = P[k]
      BY <1>8, <2>2, <3>1
    <3>3. a \in A => a.period # k
      BY <1>1, <1>3, <1>4, <2>3, <3>2 DEF Quiet
    <3>4. QED BY <1>10, <2>1, <3>1, <3>3
  <2>6. NewTold(k)'
    <3>1. \A q : Report(k, q, "TRAFFIC_NEW") \in A
                   <=> q \in Nodes(P[k]) \ DOMAIN N /\ Front(q) \in Nodes(P[k]) \cap DOMAIN N
      BY <1>1, <1>4, <2>3 DEF NewTold
    <3>2. \A q : Report(k, q, "TRAFFIC_NEW") \in A \cup C
                   <=> q \in Nodes(more[k]) \ DOMAIN N /\ Front(q) \in Nodes(more[k]) \cap DOMAIN N
      BY <2>2, <2>4, <3>1
    <3>3. QED BY <1>5, <1>7, <3>2 DEF NewTold
  <2>7. GoneTold(k)'
    <3>1. SUFFICES ASSUME NEW p \in DOMAIN N \ Nodes(more[k]), Front(p) \in Nodes(more[k]),
                          \A j \in 1 .. m : Num(more[j], p) = Num(more[1], p)
                   PROVE  Report(k, p, "TRAFFIC_DIS") \in A \cup C
      BY <1>3, <1>5, <1>7 DEF GoneTold
    <3>2. 1 \in 1 .. m
      OBVIOUS
    <3>3. \A j \in 1 .. m : Num(P[j], p) = Num(P[1], p)
      BY <1>8, <3>1, <3>2
    <3>4. Report(k, p, "TRAFFIC_DIS") \in A
      BY <1>1, <1>3, <1>4, <2>2, <2>3, <3>1, <3>3 DEF GoneTold
    <3>5. QED BY <3>4
  <2>8. QED BY <2>5, <2>6, <2>7
<1>14. PICK k \in Nat : k = n + 1
  OBVIOUS
<1>15. more[k] = t
  BY <1>7, <1>14
<1>16. \A p, desc : Report(k, p, desc) \in A \cup C <=> Report(k, p, desc) \in C
  BY <1>11, <1>12, <1>14
<1>17. Quiet(k)'
  <2>1. SUFFICES ASSUME \A j \in 1 .. m : more[j] = more[k], NEW a \in A \cup C PROVE a.period # k
    BY <1>3, <1>5, <1>7 DEF Quiet
  <2>2. \A j \in 1 .. m : P[j] = t
    BY <1>8, <1>15, <2>1
  <2>3. C = {}
    BY <1>1, <1>2, <1>3, <1>4, <1>5, <2>2, RepeatReportsNothing
  <2>4. QED BY <1>11, <1>14, <2>1, <2>3
<1>18. Grown(DOMAIN N) /\ Grown(Nodes(t))
  <2>1. Grown(DOMAIN normal_tree)
    BY <1>2, <1>3, <1>5, Baseline
  <2>2. QED BY <1>1, <2>1 DEF WholeTrees
<1>19. NewTold(k)'
  <2>1. ASSUME NEW q
        PROVE  Report(k, q, "TRAFFIC_NEW") \in C
                 <=> q \in Nodes(t) \ DOMAIN N /\ Front(q) \in Nodes(t) \cap DOMAIN N
    BY <1>1, <1>2, <1>4, <1>14, <1>18, NewReported
  <2>2. \A q : Report(k, q, "TRAFFIC_NEW") \in A \cup C
                 <=> q \in Nodes(more[k]) \ DOMAIN N /\ Front(q) \in Nodes(more[k]) \cap DOMAIN N
    BY <1>15, <1>16, <2>1
  <2>3. QED BY <1>5, <1>7, <2>2 DEF NewTold
<1>20. GoneTold(k)'
  <2>1. SUFFICES ASSUME NEW p \in DOMAIN N \ Nodes(more[k]), Front(p) \in Nodes(more[k]),
                        \A j \in 1 .. m : Num(more[j], p) = Num(more[1], p)
                 PROVE  Report(k, p, "TRAFFIC_DIS") \in A \cup C
    BY <1>3, <1>5, <1>7 DEF GoneTold
  <2>2. 1 \in 1 .. m
    OBVIOUS
  <2>3. \A j \in 1 .. m : Num(P[j], p) = Num(P[1], p)
    BY <1>8, <2>1, <2>2
  <2>4. Report(k, p, "TRAFFIC_DIS") \in C
    BY <1>1, <1>2, <1>3, <1>4, <1>5, <1>14, <1>15, <2>1, <2>3, GoneReported
  <2>5. QED BY <2>4
<1>21. Told'
  <2>1. \A a \in A \cup C : a.period \in m + 1 .. n + 1
    <3>1. n + 1 \in m + 1 .. n + 1 /\ \A i \in m + 1 .. n : i \in m + 1 .. n + 1
      BY <1>5
    <3>2. QED BY <1>10, <1>11, <3>1
  <2>2. \A i \in m + 1 .. n + 1 : i \in m + 1 .. n \/ i = k
    BY <1>14
  <2>3. ASSUME NEW i \in m + 1 .. n + 1 PROVE (Quiet(i) /\ NewTold(i) /\ GoneTold(i))'
    BY <1>13, <1>17, <1>19, <1>20, <2>2
  <2>4. QED BY <1>3, <1>5, <2>1, <2>3 DEF Told
<1>22. QED BY <1>9, <1>21

LEMMA ToldStep ==
  ASSUME IInv, CountsTyped, Learned, Told, [Next]_vars
  PROVE  Learned' /\ Told'
<1>1. ASSUME UNCHANGED << periods, current_period, normal_tree, anomalies >> PROVE Learned' /\ Told'
  <2>1. Learned'
    BY <1>1 DEF Learned
  <2>2. \A k : (Quiet(k) => Quiet(k)') /\ (NewTold(k) => NewTold(k)') /\ (GoneTold(k) => GoneTold(k)')
    BY <1>1 DEF Quiet, NewTold, GoneTold
  <2>3. Told'
    BY <1>1, <2>2 DEF Told
  <2>4. QED BY <2>1, <2>3
<1>2. CASE Collect /\ UNCHANGED << anoVars, idVars >>
  <2>1. periods' = periods
    BY <1>2 DEF Collect, Packet, NewPacket, ModbusMessage, Message, ModbusRequest, ModbusResponse,
                HeaderBlock, ApplicationHeader, HandleObjectHeader, HandleObjectPrefix, CountItem,
                uncounted
  <2>2. QED BY <1>1, <1>2, <2>1 DEF anoVars
<1>3. CASE HandleItemGen
  BY <1>1, <1>3 DEF HandleItemGen, ItemGen, anoVars
<1>4. CASE HandleMatch
  BY <1>1, <1>4 DEF HandleMatch, uncounted, anoVars
<1>5. CASE EndPeriod
  <2>1. queue = << >> /\ periods' = Append(periods, Tree) /\ (Train(Tree) \/ Detect(Tree))
    BY <1>5 DEF EndPeriod, FinishPeriod, ProcessFinish
  <2>2. PICK t \in WholeTrees : t = Tree
    BY <2>1, TreePublished
  <2>3. periods' = Append(periods, t) /\ (Train(t) \/ Detect(t))
    BY <2>1, <2>2
  <2>4. QED BY <2>3, TrainStep, DetectStep
<1>6. CASE UNCHANGED vars
  BY <1>1, <1>6 DEF vars, statsVars, anoVars
<1>7. QED BY <1>2, <1>3, <1>4, <1>5, <1>6 DEF Next

LEMMA ToldInit ==
  ASSUME Init
  PROVE  Told
<1>1. current_period = 0 /\ anomalies = {}
  BY DEF Init, AnoInit
<1>2. NumPeriod + 1 .. current_period = {}
  BY <1>1, AnomalyAssumption
<1>3. QED BY <1>1, <1>2 DEF Told

\* The periods the properties speak of
LEMMA TrainingIs ==
  ASSUME Learned, NEW k \in Detected
  PROVE  /\ k \in NumPeriod + 1 .. current_period /\ DOMAIN Training = 1 .. NumPeriod
         /\ \A j \in 1 .. NumPeriod : Training[j] = periods[j]
<1>1. PICK S : S = WholeTrees
  OBVIOUS
<1>2. PICK n \in Nat : n = current_period /\ n = Len(periods) /\ periods \in Seq(S)
  BY <1>1 DEF Learned
<1>3. PICK m \in Nat \ {0} : m = NumPeriod
  BY AnomalyAssumption
<1>4. k \in m + 1 .. n
  BY <1>2, <1>3 DEF Detected
<1>5. m <= n
  BY <1>4
<1>6. PICK s : s = SubSeq(periods, 1, m)
  OBVIOUS
<1>7. DOMAIN s = 1 .. m /\ \A j \in 1 .. m : s[j] = periods[j]
  BY <1>2, <1>5, <1>6
<1>8. QED BY <1>2, <1>3, <1>4, <1>6, <1>7 DEF Training

\* The normal tree has gathered the trees of the training, and what is logged of each
\* later period is what differs from them, while the tree and the log change under the
\* handler of process_finish only.
THEOREM ReportsTrue == Spec => [](Learned /\ Told)
<1>1. Init => Learned /\ Told
  BY LearnedInit, ToldInit
<1>2. (IInv /\ CountsTyped) /\ (Learned /\ Told) /\ [Next]_vars => (Learned /\ Told)'
  BY ToldStep
<1>3. QED BY <1>1, <1>2, NodeInvariant, PTL DEF Spec

\* A period that repeats the training, in every node and number, raises no alarm, of
\* whichever length the training is and whatever the threshold (check_tree and
\* cal_anomaly_score of anomaly_detect.bro).
THEOREM RepeatIsQuietCorrect == Spec => []RepeatIsQuiet
<1>1. Learned /\ Told => RepeatIsQuiet
  <2>1. SUFFICES ASSUME Learned, Told, NEW k \in Detected,
                        \A j \in DOMAIN Training : Training[j] = periods[k]
                 PROVE  \A a \in anomalies : a.period # k
    BY DEF RepeatIsQuiet
  <2>2. /\ k \in NumPeriod + 1 .. current_period /\ DOMAIN Training = 1 .. NumPeriod
        /\ \A j \in 1 .. NumPeriod : Training[j] = periods[j]
    BY <2>1, TrainingIs
  <2>3. Quiet(k)
    BY <2>1, <2>2 DEF Told
  <2>4. \A j \in 1 .. NumPeriod : periods[j] = periods[k]
    BY <2>1, <2>2
  <2>5. QED BY <2>3, <2>4 DEF Quiet
<1>2. QED BY <1>1, ReportsTrue, PTL

\* Each branch of a tree that the training had not is reported once, at the first node
\* that is new, and a node that is missing is reported if its number was always the
\* same and its parent is there (check_tree_level1 to 6, node_new and node_disappear of
\* anomaly_detect.bro).
THEOREM BranchesReportedCorrect == Spec => []BranchesReported
<1>1. Learned /\ Told => BranchesReported
  <2>1. SUFFICES ASSUME Learned, Told, NEW k \in Detected
                 PROVE  /\ \A p \in Nodes(periods[k]) :
                             Cardinality({q \in Prefixes(p) : Reported(k, q, "TRAFFIC_NEW")})
                               = IF p \in DOMAIN normal_tree THEN 0 ELSE 1
                        /\ \A p \in DOMAIN normal_tree \ Nodes(periods[k]) :
                             /\ Front(p) \in Nodes(periods[k])
                             /\ \A j \in DOMAIN Training : NumIn(j, p) = NumIn(1, p)
                             => Reported(k, p, "TRAFFIC_DIS")
    BY DEF BranchesReported
  <2>2. k \in NumPeriod + 1 .. current_period /\ DOMAIN Training = 1 .. NumPeriod
    BY <2>1, TrainingIs
  <2>3. NewTold(k) /\ GoneTold(k)
    BY <2>1, <2>2 DEF Told
  <2>4. \A p, desc : Reported(k, p, desc) <=> Report(k, p, desc) \in anomalies
    BY DEF Reported, Report
  <2>5. PICK D, N : D = Nodes(periods[k]) /\ N = DOMAIN normal_tree
    OBVIOUS
  <2>6. Grown(D) /\ Grown(N)
    <3>1. PICK m \in Nat \ {0}, n \in Nat : m = NumPeriod /\ n = current_period
      BY <2>1, AnomalyAssumption DEF Learned
    <3>2. k \in m + 1 .. n /\ n >= m /\ k \in 1 .. n
      BY <2>2, <3>1
    <3>3. Grown(N)
      BY <2>1, <2>5, <3>1, <3>2, Baseline
    <3>4. PICK S : S = WholeTrees
      OBVIOUS
    <3>5. periods[k] \in S
      BY <2>1, <3>1, <3>2, <3>4, ElementOfSeq DEF Learned
    <3>6. QED BY <2>5, <3>3, <3>4, <3>5 DEF WholeTrees
  <2>7. ASSUME NEW p \in D
        PROVE  Cardinality({q \in Prefixes(p) : Reported(k, q, "TRAFFIC_NEW")})
                 = IF p \in N THEN 0 ELSE 1
    <3>1. \A q : Reported(k, q, "TRAFFIC_NEW") <=> q \in D \ N /\ Front(q) \in D \cap N
      BY <2>3, <2>4, <2>5 DEF NewTold
    <3>2. {q \in Prefixes(p) : Reported(k, q, "TRAFFIC_NEW")}
            = {q \in Prefixes(p) : q \in D \ N /\ Front(q) \in D \cap N}
      BY <3>1
    <3>3. QED BY <2>6, <3>2, OneOnTheWay
  <2>8. ASSUME NEW p \in N \ D, Front(p) \in D,
               \A j \in DOMAIN Training : NumIn(j, p) = NumIn(1, p)
        PROVE  Reported(k, p, "TRAFFIC_DIS")
    <3>1. \A j : NumIn(j, p) = << Num(periods[j], p), 1 >>
      BY DEF NumIn, Frac
    <3>2. \A j \in 1 .. NumPeriod : Num(periods[j], p) = Num(periods[1], p)
      BY <2>2, <2>8, <3>1
    <3>3. QED BY <2>3, <2>4, <2>5, <2>8, <3>2 DEF GoneTold
  <2>9. QED BY <2>5, <2>7, <2>8
<1>2. QED BY <1>1, ReportsTrue, PTL

\* After the training the normal tree has the nodes of its periods, and each of them the
\* mean and the variance, by their definitions, of its number in all these periods and
\* of its ratio in those that had the function, although the averages are taken one
\* value at a time (initialize_node, cal_avg_std_node and cal_avg_std of
\* anomaly_detect.bro).
THEOREM BaselineIsTrainingCorrect == Spec => []BaselineIsTraining
<1>1. Learned /\ Told => BaselineIsTraining
  <2>1. SUFFICES ASSUME Learned, Told, Idle, current_period >= NumPeriod
                 PROVE  /\ DOMAIN normal_tree = UNION {Nodes(Training[k]) : k \in DOMAIN Training}
                        /\ \A p \in DOMAIN normal_tree :
                             LET node == normal_tree[p]
                                 num == [k \in DOMAIN Training |-> NumIn(k, p)]
                                 seen == {k \in DOMAIN Training : HasRatio(Training[k], p)}
                                 ratio == [k \in seen |-> Ratio(Training[k], p)]
                             IN  /\ IsMean(node.num.avg, num)
                                 /\ IsVariance(node.num.var, node.num.avg, num)
                                 /\ seen # {} => /\ IsMean(node.ratio.avg, ratio)
                                                 /\ IsVariance(node.ratio.var, node.ratio.avg, ratio)
    BY DEF BaselineIsTraining
  <2>2. PICK n \in Nat \ {0} : n = NumPeriod
    BY AnomalyAssumption
  <2>3. PICK S : S = WholeTrees
    OBVIOUS
  <2>4. PICK P, l : P = periods /\ P \in Seq(S) /\ l \in Nat /\ l = Len(P) /\ n <= l
    BY <2>1, <2>2, <2>3 DEF Learned
  <2>5. \A k \in 1 .. n : P[k] \in WholeTrees
    <3>1. \A k \in 1 .. n : k \in 1 .. l
      BY <2>4
    <3>2. QED BY <2>3, <2>4, <3>1, ElementOfSeq
  <2>6. PICK s : s = Training
    OBVIOUS
  <2>7. DOMAIN s = 1 .. n /\ \A k \in 1 .. n : s[k] = P[k]
    BY <2>2, <2>4, <2>6 DEF Training
  <2>8. PICK T : Gathered(T, P, n) /\ normal_tree = CalculateTree(T)
    BY <2>1, <2>2, <2>4 DEF Learned
  <2>9. /\ DOMAIN CalculateTree(T) = DOMAIN T
        /\ DOMAIN T = UNION {Nodes(P[k]) : k \in 1 .. n}
    BY <2>5, <2>8, TrainedNodes
  <2>10. DOMAIN normal_tree = UNION {Nodes(s[k]) : k \in DOMAIN s}
    <3>1. {Nodes(s[k]) : k \in DOMAIN s} = {Nodes(P[k]) : k \in 1 .. n}
      BY <2>7
    <3>2. QED BY <2>8, <2>9, <3>1
  <2>11. ASSUME NEW p \in DOMAIN normal_tree
         PROVE  LET node == normal_tree[p]
                    num == [k \in DOMAIN s |-> NumIn(k, p)]
                    seen == {k \in DOMAIN s : HasRatio(s[k], p)}
                    ratio == [k \in seen |-> Ratio(s[k], p)]
                IN  /\ IsMean(node.num.avg, num)
                    /\ IsVariance(node.num.var, node.num.avg, num)
                    /\ seen # {} => /\ IsMean(node.ratio.avg, ratio)
                                    /\ IsVariance(node.ratio.var, node.ratio.avg, ratio)
    <3>1. p \in DOMAIN T
      BY <2>8, <2>9
    <3>2. PICK c, r : c = normal_tree[p].num /\ r = normal_tree[p].ratio
      OBVIOUS
    <3>3. c = CalculateTree(T)[p].num /\ r = CalculateTree(T)[p].ratio
      BY <2>8, <3>2
    <3>4. PICK f : f = [k \in 1 .. n |-> Frac(Num(P[k], p))]
      OBVIOUS
    <3>5. f = [k \in DOMAIN s |-> NumIn(k, p)]
      BY <2>4, <2>7, <3>4 DEF NumIn
    <3>6. IsMean(c.avg, f) /\ IsVariance(c.var, c.avg, f)
      BY <2>2, <2>5, <2>8, <3>1, <3>3, <3>4, NumberAveraged
    <3>7. PICK D : D = Having(P, n, p)
      OBVIOUS
    <3>8. D = {k \in DOMAIN s : HasRatio(s[k], p)} /\ \A k \in D : s[k] = P[k]
      BY <2>7, <3>7 DEF Having
    <3>9. PICK g : g = [k \in D |-> Ratio(P[k], p)]
      OBVIOUS
    <3>10. g = [k \in D |-> Ratio(s[k], p)]
      BY <3>8, <3>9
    <3>11. D # {} => IsMean(r.avg, g) /\ IsVariance(r.var, r.avg, g)
      BY <2>5, <2>8, <3>1, <3>3, <3>7, <3>9, RatioAveraged
    <3>12. QED BY <3>2, <3>5, <3>6, <3>8, <3>10, <3>11
  <2>12. QED BY <2>6, <2>10, <2>11
<1>2. QED BY <1>1, ReportsTrue, PTL

=============================================================================
