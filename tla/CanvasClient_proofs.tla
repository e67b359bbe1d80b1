------------------------- MODULE CanvasClient_proofs -------------------------
(***************************************************************************)
(* What CanvasClient does for every finite set of icons and every bound:   *)
(* its types; and, unless a wound was taken, that a page at rest shows     *)
(* the room's doc (Converges), that nothing the room stamped for this      *)
(* device came from anyone but its user (IconsNeverEcho), and that no op   *)
(* waits for an ack that will not come (NoDeafIcon).                       *)
(***************************************************************************)
EXTENDS CanvasClient, FiniteSetTheorems, SequenceTheorems,
        WellFoundedInduction, TLAPS

-----------------------------------------------------------------------------
(* Sequences, and what is defined by recursion over them                   *)

LEMMA AppendFacts ==
    ASSUME NEW S, NEW s \in Seq(S), NEW x \in S
    PROVE  /\ Append(s, x) \in Seq(S)
           /\ Len(Append(s, x)) = Len(s) + 1
           /\ DOMAIN Append(s, x) = 1..(Len(s) + 1)
           /\ Append(s, x)[Len(s) + 1] = x
           /\ \A k \in 1..Len(s) : Append(s, x)[k] = s[k]
           /\ Append(s, x) # <<>>
  OBVIOUS

LEMMA TailFacts ==
    ASSUME NEW S, NEW s \in Seq(S), s # <<>>
    PROVE  /\ Tail(s) \in Seq(S)
           /\ Head(s) = s[1] /\ Head(s) \in S
           /\ Len(s) \in Nat \ {0}
           /\ DOMAIN s = 1..Len(s)
           /\ Len(Tail(s)) = Len(s) - 1
           /\ DOMAIN Tail(s) = 1..(Len(s) - 1)
           /\ \A k \in 1..(Len(s) - 1) : Tail(s)[k] = s[k + 1]
           /\ Tail(s) = <<>> <=> Len(s) = 1
  <1>1. /\ Tail(s) \in Seq(S)
        /\ Head(s) = s[1] /\ Head(s) \in S
        /\ Len(s) \in Nat \ {0}
        /\ DOMAIN s = 1..Len(s)
        /\ Len(Tail(s)) = Len(s) - 1
        /\ DOMAIN Tail(s) = 1..(Len(s) - 1)
        /\ \A k \in 1..(Len(s) - 1) : Tail(s)[k] = s[k + 1]
    OBVIOUS
  <1>2. Tail(s) = <<>> <=> Len(Tail(s)) = 0
    BY <1>1, EmptySeq
  <1> QED
    BY <1>1, <1>2

LEMMA SeqFacts ==
    ASSUME NEW S, NEW s \in Seq(S)
    PROVE  /\ Len(s) \in Nat /\ DOMAIN s = 1..Len(s)
           /\ s = <<>> <=> Len(s) = 0
           /\ \A k \in DOMAIN s : s[k] \in S
           /\ Range(s) \subseteq S
           /\ \A x \in Range(s) : \E k \in DOMAIN s : s[k] = x
           /\ \A k \in DOMAIN s : s[k] \in Range(s)
  BY DEF Range

LEMMA ConcatFacts ==
    ASSUME NEW S, NEW s \in Seq(S), NEW t \in Seq(S)
    PROVE  /\ s \o t \in Seq(S)
           /\ Len(s \o t) = Len(s) + Len(t)
           /\ DOMAIN (s \o t) = 1..(Len(s) + Len(t))
           /\ \A k \in 1..Len(s) : (s \o t)[k] = s[k]
           /\ \A k \in 1..Len(t) : (s \o t)[Len(s) + k] = t[k]
           /\ \A k \in (Len(s) + 1)..(Len(s) + Len(t)) : (s \o t)[k] = t[k - Len(s)]
  OBVIOUS

\* A set of naturals has a least element.
LEMMA Least ==
    ASSUME NEW T, T \subseteq Nat, T # {}
    PROVE  \E m \in T : \A n \in T : m <= n
  <1> DEFINE R == {ss \in Nat \X Nat : ss[1] < ss[2]}
  <1>1. IsWellFoundedOn(R, Nat)
    BY NatLessThanWellFounded DEF OpToRel
  <1>2. \E x \in T : \A y \in T : ~(<<y, x>> \in R)
    <2> HIDE DEF R
    <2> QED
      BY <1>1, WFMin
  <1>3. \A x, y \in Nat : ~(<<y, x>> \in R) => x <= y
    OBVIOUS
  <1> QED
    BY <1>2, <1>3

\* What holds at 0 and from each number to the next holds up to n.
LEMMA UpTo ==
    ASSUME NEW n \in Nat, NEW T, 0 \in T, \A k \in 1..n : k - 1 \in T => k \in T
    PROVE  \A k \in 0..n : k \in T
  <1> DEFINE F == {k \in 0..n : k \notin T}
  <1>1. ASSUME F # {} PROVE FALSE
    <2>1. PICK m \in F : \A k \in F : m <= k
      <3>1. F \subseteq Nat
        OBVIOUS
      <3> HIDE DEF F
      <3> QED
        BY <1>1, <3>1, Least
    <2>2. m # 0 /\ m \in 1..n
      BY <2>1
    <2>3. m - 1 \in T
      BY <2>1, <2>2
    <2> QED
      BY <2>1, <2>2, <2>3
  <1> QED
    BY <1>1

Unrolls(f, S, b, n, G) ==
    /\ f \in [0..n -> S]
    /\ f = [k \in 0..n |-> IF k = 0 THEN b ELSE G[<<f[k - 1], k>>]]

\* A step that stays in S can be taken n times.
LEMMA Unrolled ==
    ASSUME NEW S, NEW b \in S, NEW n \in Nat, NEW G \in [S \X (1..n) -> S]
    PROVE  \E f : Unrolls(f, S, b, n, G)
  <1> DEFINE T == {m \in 0..n : \E f : Unrolls(f, S, b, m, G)}
  <1>1. 0 \in T
    <2>1. Unrolls([k \in 0..0 |-> b], S, b, 0, G)
      BY DEF Unrolls
    <2> QED
      BY <2>1
  <1>2. ASSUME NEW m \in 1..n, m - 1 \in T PROVE m \in T
    <2>1. PICK g : Unrolls(g, S, b, m - 1, G)
      BY <1>2
    <2>2. g[m - 1] \in S /\ G[<<g[m - 1], m>>] \in S
      BY <2>1 DEF Unrolls
    <2> DEFINE h == [k \in 0..m |-> IF k < m THEN g[k] ELSE G[<<g[m - 1], m>>]]
    <2>3. h \in [0..m -> S]
      BY <2>1, <2>2 DEF Unrolls
    <2>4. ASSUME NEW k \in 0..m
          PROVE  h[k] = IF k = 0 THEN b ELSE G[<<h[k - 1], k>>]
      <3>1. CASE k = 0
        BY <2>1, <3>1 DEF Unrolls
      <3>2. CASE k # 0 /\ k < m
        <4>1. h[k] = g[k] /\ h[k - 1] = g[k - 1] /\ k \in 0..(m - 1)
          BY <3>2
        <4>2. g[k] = G[<<g[k - 1], k>>]
          BY <2>1, <3>2, <4>1 DEF Unrolls
        <4> QED
          BY <3>2, <4>1, <4>2
      <3>3. CASE k = m
        <4>1. m \in 0..m /\ m - 1 \in 0..m /\ m # 0 /\ ~(m < m) /\ m - 1 < m
          OBVIOUS
        <4>2. h[m] = G[<<g[m - 1], m>>] /\ h[m - 1] = g[m - 1]
          BY <4>1
        <4> QED
          BY <3>3, <4>1, <4>2
      <3> QED
        BY <3>1, <3>2, <3>3
    <2>5. Unrolls(h, S, b, m, G)
      <3>1. h = [k \in 0..m |-> h[k]]
        OBVIOUS
      <3> HIDE DEF h
      <3>2. [k \in 0..m |-> h[k]]
                = [k \in 0..m |-> IF k = 0 THEN b ELSE G[<<h[k - 1], k>>]]
        BY <2>4
      <3> QED
        BY <2>3, <3>1, <3>2 DEF Unrolls
    <2> QED
      BY <2>5
  <1>3. \A k \in 0..n : k \in T
    <2> HIDE DEF T
    <2> QED
      BY <1>1, <1>2, UpTo
  <1> QED
    BY <1>3

StepsBy(g, S, b, n, G) ==
    /\ g = [k \in 0..n |-> g[k]] /\ g[0] = b
    /\ \A k \in 1..n : g[k - 1] \in S => g[k] = G[<<g[k - 1], k>>]

\* A function by recursion from b is such an unrolling: all that is left to
\* show of one is that its steps are those of G.
LEMMA Recursive ==
    ASSUME NEW S, NEW b \in S, NEW n \in Nat, NEW G \in [S \X (1..n) -> S],
           NEW g, StepsBy(g, S, b, n, G)
    PROVE  g \in [0..n -> S]
  <1>0. /\ g = [k \in 0..n |-> g[k]] /\ g[0] = b
        /\ \A k \in 1..n : g[k - 1] \in S => g[k] = G[<<g[k - 1], k>>]
    BY DEF StepsBy
  <1> DEFINE T == {k \in 0..n : g[k] \in S}
  <1>1. \A k \in 0..n : k \in T
    <2>1. 0 \in T
      BY <1>0
    <2>2. ASSUME NEW k \in 1..n, k - 1 \in T PROVE k \in T
      <3>1. k - 1 \in 0..n /\ k \in 0..n /\ g[k - 1] \in S
        BY <2>2
      <3>2. g[k] = G[<<g[k - 1], k>>] /\ G[<<g[k - 1], k>>] \in S
        BY <1>0, <3>1
      <3> QED
        BY <3>1, <3>2
    <2> HIDE DEF T
    <2> QED
      BY <2>1, <2>2, UpTo
  <1>2. \A k \in 0..n : g[k] \in S
    BY <1>1
  <1> QED
    BY <1>0, <1>2

-----------------------------------------------------------------------------
(* Docs and ops                                                            *)

LEMMA ApplyType ==
    ASSUME NEW d \in Doc, NEW op \in OpValue
    PROVE  /\ Apply(d, op) \in Doc
           /\ \A i \in Icon : i # op.item => Apply(d, op)[i] = d[i]
           /\ Apply(d, op)[op.item] =
                CASE op.kind = "add" -> IF d[op.item] = Absent THEN op.val ELSE d[op.item]
                  [] op.kind = "set" -> IF d[op.item] # Absent THEN op.val ELSE Absent
                  [] op.kind = "remove" -> Absent
  <1>1. op.item \in Icon /\ op.val \in Val \cup {Absent} /\ op.kind \in {"add", "set", "remove"}
    BY DEF OpValue
  <1>2. \A v \in Val \cup {Absent} : /\ [d EXCEPT ![op.item] = v] \in Doc
                                     /\ [d EXCEPT ![op.item] = v][op.item] = v
                                     /\ \A i \in Icon : i # op.item => [d EXCEPT ![op.item] = v][i] = d[i]
    BY <1>1 DEF Doc
  <1>3. CASE op.kind = "add"
    BY <1>1, <1>2, <1>3 DEF Apply
  <1>4. CASE op.kind = "set"
    BY <1>1, <1>2, <1>4 DEF Apply
  <1>5. CASE op.kind = "remove"
    BY <1>1, <1>2, <1>5 DEF Apply
  <1> QED
    BY <1>1, <1>3, <1>4, <1>5

\* applyOpsToDoc, op by op.
LEMMA ApplyAllRun ==
    ASSUME NEW d \in Doc, NEW ops \in Seq(OpValue)
    PROVE  \E f \in [0..Len(ops) -> Doc] :
             /\ f[0] = d /\ f[Len(ops)] = ApplyAll(d, ops)
             /\ \A k \in 1..Len(ops) : f[k] = Apply(f[k - 1], ops[k])
  <1>1. Len(ops) \in Nat /\ \A k \in 1..Len(ops) : ops[k] \in OpValue
    BY SeqFacts
  <1> DEFINE n == Len(ops)
             G == [x \in Doc \X (1..n) |-> Apply(x[1], ops[x[2]])]
             Is(g) == g = [k \in 0..n |-> IF k = 0 THEN d ELSE Apply(g[k - 1], ops[k])]
             f == CHOOSE g : Is(g)
  <1>2. G \in [Doc \X (1..n) -> Doc]
    BY <1>1, ApplyType
  <1>3. \A x \in Doc, k \in 1..n : G[<<x, k>>] = Apply(x, ops[k])
    OBVIOUS
  <1>4. PICK h : Unrolls(h, Doc, d, n, G)
    <2> HIDE DEF G
    <2> QED
      BY <1>1, <1>2, Unrolled
  <1>5. Is(h)
    <2>1. h \in [0..n -> Doc] /\ h = [k \in 0..n |-> IF k = 0 THEN d ELSE G[<<h[k - 1], k>>]]
      BY <1>4 DEF Unrolls
    <2>2. ASSUME NEW k \in 0..n, k # 0 PROVE G[<<h[k - 1], k>>] = Apply(h[k - 1], ops[k])
      <3>1. k \in 1..n /\ k - 1 \in 0..n
        BY <1>1, <2>2
      <3>2. h[k - 1] \in Doc
        BY <2>1, <3>1
      <3> QED
        BY <1>3, <3>1, <3>2
    <2> HIDE DEF G
    <2> QED
      BY <2>1, <2>2
  <1>6. Is(f)
    BY <1>5
  <1> HIDE DEF f
  <1>7. f = [k \in 0..n |-> f[k]] /\ f[0] = d
    BY <1>1, <1>6
  <1>8. \A k \in 1..n : f[k - 1] \in Doc => f[k] = G[<<f[k - 1], k>>]
    BY <1>1, <1>3, <1>6
  <1>9. f \in [0..n -> Doc]
    <2>1. n \in Nat /\ d \in Doc
      BY <1>1
    <2>2. StepsBy(f, Doc, d, n, G)
      <3> HIDE DEF G, Is, n
      <3> QED
        BY <1>7, <1>8 DEF StepsBy
    <2> HIDE DEF G, Is, n
    <2> QED
      BY <1>2, <2>1, <2>2, Recursive
  <1>10. \A k \in 1..n : f[k] = Apply(f[k - 1], ops[k])
    BY <1>1, <1>6
  <1>11. f[n] = ApplyAll(d, ops)
    BY DEF ApplyAll, f
  <1> QED
    BY <1>7, <1>9, <1>10, <1>11

LEMMA MoveType ==
    ASSUME CanvasClientAssumption, NEW i \in Icon, NEW x \in Val \cup {Absent},
           NEW y \in Val \cup {Absent}, NEW n \in Nat
    PROVE  /\ Move(i, x, y, n) \in OpValue
           /\ Move(i, x, y, n).item = i /\ Move(i, x, y, n).val = y
           /\ Move(i, x, y, n).n = n /\ Move(i, x, y, n).seq = 0
           /\ Move(i, x, y, n).kind = IF x = Absent THEN "add"
                                      ELSE IF y = Absent THEN "remove" ELSE "set"
  BY DEF Move, OpValue

\* SetToSeq lists a finite set, each element once.
LEMMA SetToSeqFacts ==
    ASSUME NEW D, IsFiniteSet(D)
    PROVE  /\ SetToSeq(D) \in [1..Cardinality(D) -> D]
           /\ Cardinality(D) \in Nat
           /\ \A j, k \in 1..Cardinality(D) : SetToSeq(D)[j] = SetToSeq(D)[k] => j = k
           /\ \A i \in D : \E k \in 1..Cardinality(D) : SetToSeq(D)[k] = i
  <1> DEFINE c == Cardinality(D)
             f == SetToSeq(D)
  <1>1. c \in Nat /\ ExistsBijection(1..c, D)
    BY FS_CardinalityType
  <1>2. PICK g : g \in [1..c -> D] /\ IsInjective(g)
    BY <1>1 DEF ExistsBijection, Bijection, Injection
  <1>3. f \in [1..c -> D] /\ IsInjective(f)
    BY <1>2 DEF SetToSeq
  <1> HIDE DEF f
  <1>4. \A j, k \in 1..c : f[j] = f[k] => j = k
    BY <1>3 DEF IsInjective
  <1>5. f \in Injection(1..c, D)
    BY <1>3 DEF Injection
  <1>6. Cardinality(1..c) = c
    <2>1. Cardinality(1..c) = IF 1 > c THEN 0 ELSE c - 1 + 1
      BY <1>1, FS_Interval
    <2> QED
      BY <1>1, <2>1
  <1>7. f \in Surjection(1..c, D)
    BY <1>5, <1>6, FS_Injection
  <1>8. \A i \in D : \E k \in 1..c : f[k] = i
    BY <1>7 DEF Surjection
  <1> QED
    BY <1>1, <1>3, <1>4, <1>8 DEF f

Numbered(ops, n) == \A k \in DOMAIN ops : ops[k].n = n + k /\ ops[k].seq = 0

\* diffDocs: one op for each icon that differs, and no other.
LEMMA DiffFacts ==
    ASSUME CanvasClientAssumption, NEW a \in Doc, NEW b \in Doc, NEW n \in Nat
    PROVE  /\ Diff(a, b, n) \in Seq(OpValue)
           /\ \A k \in DOMAIN Diff(a, b, n) :
                \E i \in Icon : a[i] # b[i] /\ Diff(a, b, n)[k] = Move(i, a[i], b[i], n + k)
           /\ \A i \in Icon : a[i] # b[i] =>
                \E k \in DOMAIN Diff(a, b, n) : Diff(a, b, n)[k] = Move(i, a[i], b[i], n + k)
           /\ \A j, k \in DOMAIN Diff(a, b, n) :
                j # k => Diff(a, b, n)[j].item # Diff(a, b, n)[k].item
           /\ Diff(a, b, n) = <<>> <=> a = b
  <1> DEFINE D == {i \in Icon : a[i] # b[i]}
             c == Cardinality(D)
             m == SetToSeq(D)
             f == [k \in DOMAIN m |-> Move(m[k], a[m[k]], b[m[k]], n + k)]
  <1>1. IsFiniteSet(D)
    BY FS_Subset DEF CanvasClientAssumption
  <1>2. Diff(a, b, n) = f
    BY DEF Diff
  <1>3. /\ m \in [1..c -> D] /\ c \in Nat
        /\ \A j, k \in 1..c : m[j] = m[k] => j = k
        /\ \A i \in D : \E k \in 1..c : m[k] = i
    <2> HIDE DEF D
    <2> QED
      BY <1>1, SetToSeqFacts
  <1>4. \A i \in D : i \in Icon /\ a[i] # b[i]
    OBVIOUS
  <1>41. \A i \in Icon : a[i] \in Val \cup {Absent} /\ b[i] \in Val \cup {Absent}
    BY DEF Doc
  <1>42. \A i \in Icon : a[i] # b[i] => i \in D
    OBVIOUS
  <1>43. a = b <=> D = {}
    <2>1. ASSUME D = {} PROVE a = b
      <3>1. \A i \in Icon : a[i] = b[i]
        BY <2>1, <1>42
      <3> QED
        BY <3>1 DEF Doc
    <2> QED
      BY <2>1
  <1> HIDE DEF D, m, c
  <1>5. DOMAIN f = 1..c
    BY <1>3
  <1>6. ASSUME NEW k \in 1..c
        PROVE  /\ m[k] \in Icon /\ a[m[k]] # b[m[k]]
               /\ f[k] = Move(m[k], a[m[k]], b[m[k]], n + k)
               /\ f[k] \in OpValue /\ f[k].item = m[k]
    <2>1. m[k] \in D /\ n + k \in Nat
      BY <1>3
    <2>2. f[k] = Move(m[k], a[m[k]], b[m[k]], n + k)
      BY <1>5, <1>3
    <2> HIDE DEF f
    <2> QED
      BY <1>4, <1>41, <2>1, <2>2, MoveType
  <1> HIDE DEF f
  <1>7. f \in Seq(OpValue)
    <2>1. f = [k \in 1..c |-> f[k]]
      BY <1>5 DEF f
    <2>2. f \in [1..c -> OpValue]
      BY <1>6, <2>1
    <2> QED
      BY <1>3, <2>2
  <1>8. f = <<>> <=> a = b
    <2>1. Len(f) = c
      BY <1>3, <1>5, <1>7
    <2>2. f = <<>> <=> c = 0
      BY <1>7, <2>1, SeqFacts
    <2>3. c = 0 <=> D = {}
      BY <1>1, FS_EmptySet DEF c
    <2> QED
      BY <1>43, <2>2, <2>3
  <1>9. \A i \in Icon : a[i] # b[i] =>
                \E k \in DOMAIN f : f[k] = Move(i, a[i], b[i], n + k)
    <2> SUFFICES ASSUME NEW i \in Icon, a[i] # b[i]
                 PROVE  \E k \in DOMAIN f : f[k] = Move(i, a[i], b[i], n + k)
      OBVIOUS
    <2>1. PICK k \in 1..c : m[k] = i
      BY <1>3, <1>42
    <2> QED
      BY <1>5, <1>6, <2>1
  <1>10. \A j, k \in DOMAIN f : j # k => f[j].item # f[k].item
    BY <1>3, <1>5, <1>6
  <1>11. \A k \in DOMAIN f :
                \E i \in Icon : a[i] # b[i] /\ f[k] = Move(i, a[i], b[i], n + k)
    BY <1>5, <1>6
  <1> QED
    BY <1>2, <1>7, <1>8, <1>9, <1>10, <1>11

\* The same, as the code that ships the ops reads them.
LEMMA DiffOps ==
    ASSUME CanvasClientAssumption, NEW a \in Doc, NEW b \in Doc, NEW n \in Nat,
           NEW k \in DOMAIN Diff(a, b, n)
    PROVE  LET op == Diff(a, b, n)[k]
           IN  /\ op \in OpValue /\ op.n = n + k /\ op.seq = 0
               /\ op.item \in Icon /\ a[op.item] # b[op.item] /\ op.val = b[op.item]
               /\ op.kind = IF a[op.item] = Absent THEN "add"
                            ELSE IF b[op.item] = Absent THEN "remove" ELSE "set"
  <1>1. PICK i \in Icon : a[i] # b[i] /\ Diff(a, b, n)[k] = Move(i, a[i], b[i], n + k)
    BY DiffFacts
  <1>2. n + k \in Nat /\ a[i] \in Val \cup {Absent} /\ b[i] \in Val \cup {Absent}
    <2>1. Diff(a, b, n) \in Seq(OpValue)
      BY DiffFacts
    <2>2. k \in Nat
      BY <2>1, SeqFacts
    <2> QED
      BY <2>2 DEF Doc
  <1> QED
    BY <1>1, <1>2, MoveType

\* Applied to the doc it starts from, the difference yields the other doc.
LEMMA DiffApplied ==
    ASSUME CanvasClientAssumption, NEW a \in Doc, NEW b \in Doc, NEW n \in Nat
    PROVE  ApplyAll(a, Diff(a, b, n)) = b
  <1> DEFINE d == Diff(a, b, n)
             c == Len(d)
  <1>1. d \in Seq(OpValue)
    BY DiffFacts
  <1>2. c \in Nat /\ DOMAIN d = 1..c /\ \A k \in 1..c : d[k] \in OpValue
    <2> HIDE DEF d
    <2> QED
      BY <1>1, SeqFacts
  <1>3. PICK f \in [0..c -> Doc] : /\ f[0] = a /\ f[c] = ApplyAll(a, d)
                                   /\ \A k \in 1..c : f[k] = Apply(f[k - 1], d[k])
    <2> HIDE DEF d
    <2> QED
      BY <1>1, ApplyAllRun
  <1>4. \A k \in 1..c : /\ d[k].item \in Icon /\ a[d[k].item] # b[d[k].item]
                        /\ d[k].val = b[d[k].item]
                        /\ d[k].kind = IF a[d[k].item] = Absent THEN "add"
                                       ELSE IF b[d[k].item] = Absent THEN "remove" ELSE "set"
    BY <1>2, DiffOps
  <1>5. \A j, k \in 1..c : j # k => d[j].item # d[k].item
    <2>1. \A j, k \in DOMAIN d : j # k => d[j].item # d[k].item
      BY DiffFacts
    <2> HIDE DEF d
    <2> QED
      BY <1>2, <2>1
  <1>6. \A i \in Icon : a[i] # b[i] => \E k \in 1..c : d[k].item = i
    <2> SUFFICES ASSUME NEW i \in Icon, a[i] # b[i] PROVE \E k \in 1..c : d[k].item = i
      OBVIOUS
    <2>1. PICK k \in DOMAIN d : d[k] = Move(i, a[i], b[i], n + k)
      BY DiffFacts
    <2>2. d[k].item = i
      BY <2>1 DEF Move
    <2> QED
      BY <1>2, <2>2
  <1> HIDE DEF d, c
  \* after k ops the icons of those ops are done, the others as they were
  <1> DEFINE T == {k \in 0..c : \A i \in Icon :
                     f[k][i] = IF \E j \in 1..k : d[j].item = i THEN b[i] ELSE a[i]}
  <1>7. 0 \in T
    BY <1>2, <1>3
  <1>8. ASSUME NEW k \in 1..c, k - 1 \in T PROVE k \in T
    <2>1. k - 1 \in 0..c /\ f[k - 1] \in Doc /\ f[k] \in Doc /\ k \in 0..c
      BY <1>2, <1>3
    <2>2. \A i \in Icon :
            f[k - 1][i] = IF \E j \in 1..(k - 1) : d[j].item = i THEN b[i] ELSE a[i]
      BY <1>8
    <2>3. \A i \in Icon : i # d[k].item => f[k][i] = f[k - 1][i]
      BY <1>2, <1>3, <2>1, ApplyType
    <2>4. f[k][d[k].item] = b[d[k].item]
      <3>1. f[k - 1][d[k].item] = a[d[k].item]
        <4>1. ASSUME NEW j \in 1..(k - 1) PROVE d[j].item # d[k].item
          <5>1. j \in 1..c /\ j # k
            BY <1>2
          <5> QED
            BY <1>5, <5>1
        <4>2. d[k].item \in Icon
          BY <1>4
        <4> QED
          BY <2>2, <4>1, <4>2
      <3>2. d[k].kind \in {"add", "set", "remove"}
        BY <1>2 DEF OpValue
      <3> QED
        BY <1>2, <1>3, <1>4, <2>1, <3>1, <3>2, ApplyType
    <2>5. ASSUME NEW i \in Icon
          PROVE  f[k][i] = IF \E j \in 1..k : d[j].item = i THEN b[i] ELSE a[i]
      <3>1. CASE i = d[k].item
        BY <2>4, <3>1
      <3>2. CASE i # d[k].item
        <4>1. (\E j \in 1..k : d[j].item = i) <=> (\E j \in 1..(k - 1) : d[j].item = i)
          BY <3>2
        <4> QED
          BY <2>2, <2>3, <3>2, <4>1
      <3> QED
        BY <3>1, <3>2
    <2> QED
      BY <2>1, <2>5
  <1>9. c \in T
    <2>1. \A k \in 0..c : k \in T
      <3> HIDE DEF T
      <3> QED
        BY <1>2, <1>7, <1>8, UpTo
    <2> QED
      BY <1>2, <2>1
  <1>10. \A i \in Icon : f[c][i] = b[i]
    BY <1>6, <1>9
  <1>11. f[c] \in Doc
    BY <1>2, <1>3
  <1>12. f[c] = b
    BY <1>10, <1>11 DEF Doc
  <1> QED
    BY <1>3, <1>12 DEF d

-----------------------------------------------------------------------------
(* Pages, and what arrives at one                                          *)

Session == [phase : {"cold", "live", "inert"}, cursor : 0..Len(journal),
            baseline : Doc, pending : SUBSET OpValue, ids : SUBSET Nat, n : Nat]

PageType == [s : Session, w : Doc, seen : SUBSET (1..Len(journal)), wounds : SUBSET Wound]

\* Every op that waits can be told from a foreign one.
Pages == {p \in PageType : {q.n : q \in p.s.pending} \subseteq p.s.ids}

\* The rows of the journal, as values.
RowOps == {op \in OpValue : op.seq \in 1..Len(journal)}

LEMMA LaterFacts ==
    ASSUME NEW a \in Nat, NEW b \in Nat
    PROVE  /\ Later(a, b) \in {a, b} /\ Later(a, b) \in Nat
           /\ a <= Later(a, b) /\ b <= Later(a, b)
  BY DEF Later

LEMMA PageFields ==
    ASSUME NEW p \in Pages
    PROVE  /\ p \in PageType /\ p.s \in Session /\ p.w \in Doc
           /\ p.seen \subseteq 1..Len(journal) /\ p.wounds \subseteq Wound
           /\ p.s.phase \in {"cold", "live", "inert"} /\ p.s.cursor \in 0..Len(journal)
           /\ p.s.baseline \in Doc /\ p.s.pending \subseteq OpValue
           /\ p.s.ids \subseteq Nat /\ p.s.n \in Nat
           /\ \A q \in p.s.pending : q.n \in p.s.ids
  BY DEF Pages, PageType, Session

\* An ack takes the op off the list and leaves the docs alone.
LEMMA AckedFields ==
    ASSUME journal \in Seq(OpValue), NEW p \in Pages, NEW op \in RowOps
    PROVE  LET a == Acked(p, op)
           IN  /\ a \in Pages
               /\ a.w = p.w /\ a.wounds = p.wounds /\ a.seen = p.seen \cup {op.seq}
               /\ a.s.phase = p.s.phase /\ a.s.baseline = p.s.baseline /\ a.s.n = p.s.n
               /\ a.s.cursor = Later(p.s.cursor, op.seq)
               /\ a.s.ids = p.s.ids \ {op.n}
               /\ a.s.pending = {q \in p.s.pending : q.n # op.n}
  <1> DEFINE c == Later(p.s.cursor, op.seq)
             i == p.s.ids \ {op.n}
             w == {q \in p.s.pending : q.n # op.n}
             s == [p.s EXCEPT !.cursor = c, !.ids = i, !.pending = w]
             a == [p EXCEPT !.s = s, !.seen = p.seen \cup {op.seq}]
  <1>1. op.seq \in 1..Len(journal) /\ Len(journal) \in Nat
    BY DEF RowOps
  <1>2. p \in PageType /\ p.s \in Session
    BY PageFields
  <1>3. c \in 0..Len(journal)
    <2>1. p.s.cursor \in 0..Len(journal)
      BY PageFields
    <2> QED
      BY <1>1, <2>1 DEF Later
  <1>4. i \subseteq Nat /\ w \subseteq OpValue /\ \A q \in w : q.n \in i
    BY PageFields
  <1> HIDE DEF c, i, w
  <1>5. /\ s \in Session
        /\ s.phase = p.s.phase /\ s.baseline = p.s.baseline /\ s.n = p.s.n
        /\ s.cursor = c /\ s.ids = i /\ s.pending = w
    BY <1>2, <1>3, <1>4 DEF Session
  <1> HIDE DEF s
  <1>6. p.seen \cup {op.seq} \subseteq 1..Len(journal)
    BY <1>1, PageFields
  <1>7. /\ a \in PageType /\ a.s = s /\ a.w = p.w /\ a.wounds = p.wounds
        /\ a.seen = p.seen \cup {op.seq}
    BY <1>2, <1>5, <1>6 DEF PageType
  <1>8. a \in Pages
    BY <1>4, <1>5, <1>7 DEF Pages
  <1>9. Acked(p, op) = a
    BY DEF Acked, s, c, i, w
  <1> HIDE DEF a
  <1> QED
    BY <1>5, <1>7, <1>8, <1>9 DEF c, i, w

\* What another device did reaches the baseline, and the world unless covered.
LEMMA ForeignFields ==
    ASSUME journal \in Seq(OpValue), NEW p \in Pages, NEW op \in RowOps
    PROVE  LET f == Foreign(p, op)
           IN  /\ f \in Pages
               /\ f.s.phase = p.s.phase /\ f.s.n = p.s.n
               /\ f.s.ids = p.s.ids /\ f.s.pending = p.s.pending
               /\ f.s.cursor = Later(p.s.cursor, op.seq)
               /\ f.s.baseline = Apply(p.s.baseline, op)
               /\ f.w = IF Covered(p.s.pending, op) THEN p.w ELSE Apply(p.w, op)
               /\ f.seen = p.seen \cup {op.seq}
               /\ f.wounds = p.wounds \cup IF op.seq <= Top(p.seen) /\ f.w # p.w
                                           THEN {"stale"} ELSE {}
  <1> DEFINE c == Later(p.s.cursor, op.seq)
             b == Apply(p.s.baseline, op)
             s == [p.s EXCEPT !.cursor = c, !.baseline = b]
             h == [p EXCEPT !.s = s, !.seen = p.seen \cup {op.seq}]
             w == IF Covered(p.s.pending, op) THEN p.w ELSE Apply(p.w, op)
             g == [h EXCEPT !.w = w]
             x == p.wounds \cup IF op.seq <= Top(p.seen) /\ g.w # p.w THEN {"stale"} ELSE {}
             f == [g EXCEPT !.wounds = x]
  <1>1. op.seq \in 1..Len(journal) /\ Len(journal) \in Nat /\ op \in OpValue
    BY DEF RowOps
  <1>2. p \in PageType /\ p.s \in Session
    BY PageFields
  <1>3. c \in 0..Len(journal)
    <2>1. p.s.cursor \in 0..Len(journal)
      BY PageFields
    <2> QED
      BY <1>1, <2>1 DEF Later
  <1>4. b \in Doc /\ w \in Doc
    BY <1>1, PageFields, ApplyType
  <1>5. x \subseteq Wound
    BY PageFields DEF Wound
  <1> HIDE DEF c, b, w, x
  <1>6. /\ s \in Session
        /\ s.phase = p.s.phase /\ s.n = p.s.n /\ s.ids = p.s.ids /\ s.pending = p.s.pending
        /\ s.cursor = c /\ s.baseline = b
    BY <1>2, <1>3, <1>4 DEF Session
  <1> HIDE DEF s
  <1>7. p.seen \cup {op.seq} \subseteq 1..Len(journal)
    BY <1>1, PageFields
  <1>8. h \in PageType /\ h.s = s /\ h.w = p.w /\ h.wounds = p.wounds
        /\ h.seen = p.seen \cup {op.seq}
    BY <1>2, <1>6, <1>7 DEF PageType
  <1> HIDE DEF h
  <1>9. g \in PageType /\ g.s = s /\ g.w = w /\ g.wounds = p.wounds
        /\ g.seen = p.seen \cup {op.seq}
    BY <1>4, <1>8 DEF PageType
  <1>10. ToWorld(h, op) = [h EXCEPT !.w = Apply(p.w, op)]
    BY <1>8 DEF ToWorld
  <1>101. h = [h EXCEPT !.w = p.w]
    BY <1>8 DEF PageType
  <1>11. g = IF Covered(p.s.pending, op) THEN h ELSE ToWorld(h, op)
    BY <1>10, <1>101 DEF w
  <1>12. Foreign(p, op) = [g EXCEPT !.wounds = g.wounds \cup
            IF op.seq <= Top(p.seen) /\ g.w # p.w THEN {"stale"} ELSE {}]
    <2> DEFINE heard == [p EXCEPT !.s.cursor = Later(@, op.seq),
                                  !.s.baseline = Apply(@, op),
                                  !.seen = @ \cup {op.seq}]
               shown == IF Covered(p.s.pending, op) THEN heard ELSE ToWorld(heard, op)
    <2>1. heard = h
      BY DEF h, s, c, b
    <2>2. Foreign(p, op) = [shown EXCEPT !.wounds = shown.wounds \cup
            IF op.seq <= Top(p.seen) /\ shown.w # p.w THEN {"stale"} ELSE {}]
      BY DEF Foreign
    <2> HIDE DEF heard, g
    <2>3. shown = g
      BY <1>11, <2>1
    <2> QED
      BY <2>2, <2>3
  <1>13. Foreign(p, op) = f
    BY <1>9, <1>12 DEF x
  <1> HIDE DEF g
  <1>14. f \in PageType /\ f.s = s /\ f.w = w /\ f.wounds = x
         /\ f.seen = p.seen \cup {op.seq}
    BY <1>5, <1>9 DEF PageType
  <1>15. f \in Pages
    BY <1>6, <1>14, PageFields DEF Pages
  <1> HIDE DEF f
  <1> QED
    BY <1>6, <1>9, <1>13, <1>14, <1>15 DEF c, b, w, x

\* The answer of a POST acks like a frame, and leaves the docs alone.
LEMMA AckFrameFields ==
    ASSUME journal \in Seq(OpValue), NEW p \in Pages, NEW op \in RowOps
    PROVE  LET a == AckFrame(p, op)
           IN  /\ a \in Pages
               /\ a.w = p.w /\ a.seen = p.seen \cup {op.seq}
               /\ a.s.phase = p.s.phase /\ a.s.baseline = p.s.baseline /\ a.s.n = p.s.n
               /\ a.s.cursor = Later(p.s.cursor, op.seq)
               /\ a.s.ids = p.s.ids \ {op.n}
               /\ a.s.pending = {q \in p.s.pending : q.n # op.n}
               /\ a.wounds = p.wounds \cup IF (p.s.cursor + 1)..(op.seq - 1) \subseteq p.seen
                                           THEN {} ELSE {"jumped"}
  <1> DEFINE c == Later(p.s.cursor, op.seq)
             x == p.wounds \cup IF (p.s.cursor + 1)..(op.seq - 1) \subseteq p.seen
                                THEN {} ELSE {"jumped"}
             s == [p.s EXCEPT !.cursor = c]
             h == [p EXCEPT !.s = s, !.seen = p.seen \cup {op.seq}, !.wounds = x]
  <1>1. op.seq \in 1..Len(journal) /\ Len(journal) \in Nat
    BY DEF RowOps
  <1>2. p \in PageType /\ p.s \in Session
    BY PageFields
  <1>3. c \in 0..Len(journal) /\ Later(c, op.seq) = c
    <2>1. p.s.cursor \in 0..Len(journal)
      BY PageFields
    <2> QED
      BY <1>1, <2>1 DEF Later
  <1>4. x \subseteq Wound
    BY PageFields DEF Wound
  <1>5. AckFrame(p, op) = IF op.n \in p.s.ids THEN Acked(h, op) ELSE h
    <2> DEFINE heard == [p EXCEPT !.s.cursor = Later(@, op.seq),
                                  !.seen = @ \cup {op.seq},
                                  !.wounds = @ \cup IF (p.s.cursor + 1)..(op.seq - 1) \subseteq p.seen
                                                    THEN {} ELSE {"jumped"}]
    <2>1. heard = h
      OBVIOUS
    <2>2. AckFrame(p, op) = IF op.n \in p.s.ids THEN Acked(heard, op) ELSE heard
      BY DEF AckFrame
    <2> HIDE DEF heard, h
    <2> QED
      BY <2>1, <2>2
  <1> HIDE DEF c, x
  <1>6. /\ s \in Session
        /\ s.phase = p.s.phase /\ s.baseline = p.s.baseline /\ s.n = p.s.n
        /\ s.cursor = c /\ s.ids = p.s.ids /\ s.pending = p.s.pending
    BY <1>2, <1>3 DEF Session
  <1> HIDE DEF s
  <1>7. p.seen \cup {op.seq} \subseteq 1..Len(journal)
    BY <1>1, PageFields
  <1>8. /\ h \in PageType /\ h.s = s /\ h.w = p.w /\ h.wounds = x
        /\ h.seen = p.seen \cup {op.seq}
    BY <1>2, <1>4, <1>6, <1>7 DEF PageType
  <1>9. h \in Pages
    BY <1>6, <1>8, PageFields DEF Pages
  <1> HIDE DEF h
  <1>10. CASE op.n \in p.s.ids
    <2>1. AckFrame(p, op) = Acked(h, op)
      BY <1>5, <1>10
    <2> DEFINE a == Acked(h, op)
    <2>2. /\ a \in Pages
          /\ a.w = h.w /\ a.wounds = h.wounds /\ a.seen = h.seen \cup {op.seq}
          /\ a.s.phase = h.s.phase /\ a.s.baseline = h.s.baseline /\ a.s.n = h.s.n
          /\ a.s.cursor = Later(h.s.cursor, op.seq)
          /\ a.s.ids = h.s.ids \ {op.n}
          /\ a.s.pending = {q \in h.s.pending : q.n # op.n}
      BY <1>9, AckedFields
    <2> HIDE DEF a
    <2>3. h.seen \cup {op.seq} = p.seen \cup {op.seq}
      BY <1>8
    <2> QED
      BY <1>3, <1>6, <1>8, <2>1, <2>2, <2>3 DEF a, c, x
  <1>11. CASE op.n \notin p.s.ids
    <2>1. AckFrame(p, op) = h
      BY <1>5, <1>11
    <2>2. p.s.ids \ {op.n} = p.s.ids
      BY <1>11
    <2>3. {q \in p.s.pending : q.n # op.n} = p.s.pending
      BY <1>11, PageFields
    <2> QED
      BY <1>6, <1>8, <1>9, <2>1, <2>2, <2>3 DEF c, x
  <1> QED
    BY <1>10, <1>11

LEMMA IncomingType ==
    ASSUME journal \in Seq(OpValue), NEW p \in Pages, NEW op \in RowOps
    PROVE  /\ Incoming(p, op) \in Pages /\ AckFrame(p, op) \in Pages
           /\ Incoming(p, op).s.phase = p.s.phase /\ AckFrame(p, op).s.phase = p.s.phase
           /\ Incoming(p, op).s.n = p.s.n /\ AckFrame(p, op).s.n = p.s.n
           /\ p.wounds \subseteq Incoming(p, op).wounds
           /\ p.wounds \subseteq AckFrame(p, op).wounds
           /\ p.s.cursor <= Incoming(p, op).s.cursor
           /\ p.s.cursor <= AckFrame(p, op).s.cursor
  <1>1. p.s.cursor <= Later(p.s.cursor, op.seq)
    <2>1. p.s.cursor \in 0..Len(journal) /\ op.seq \in 1..Len(journal)
      BY PageFields DEF RowOps
    <2> QED
      BY <2>1 DEF Later
  <1>2. CASE op.n \in p.s.ids
    BY <1>1, <1>2, AckedFields, AckFrameFields DEF Incoming
  <1>3. CASE op.n \notin p.s.ids
    BY <1>1, <1>3, ForeignFields, AckFrameFields DEF Incoming
  <1> QED
    BY <1>2, <1>3

\* handleFrame's walk, op by op.
LEMMA IncomingRun ==
    ASSUME journal \in Seq(OpValue), NEW p \in Pages, NEW ops \in Seq(RowOps)
    PROVE  \E f \in [0..Len(ops) -> Pages] :
             /\ f[0] = p /\ f[Len(ops)] = IncomingAll(p, ops)
             /\ \A k \in 1..Len(ops) : f[k] = Incoming(f[k - 1], ops[k])
  <1>1. Len(ops) \in Nat /\ \A k \in 1..Len(ops) : ops[k] \in RowOps
    BY SeqFacts
  <1> DEFINE n == Len(ops)
             G == [x \in Pages \X (1..n) |-> Incoming(x[1], ops[x[2]])]
             Is(g) == g = [k \in 0..n |-> IF k = 0 THEN p ELSE Incoming(g[k - 1], ops[k])]
             f == CHOOSE g : Is(g)
  <1>2. G \in [Pages \X (1..n) -> Pages]
    BY <1>1, IncomingType
  <1>3. \A x \in Pages, k \in 1..n : G[<<x, k>>] = Incoming(x, ops[k])
    OBVIOUS
  <1>4. PICK h : Unrolls(h, Pages, p, n, G)
    <2> HIDE DEF G
    <2> QED
      BY <1>1, <1>2, Unrolled
  <1>5. Is(h)
    <2>1. h \in [0..n -> Pages] /\ h = [k \in 0..n |-> IF k = 0 THEN p ELSE G[<<h[k - 1], k>>]]
      BY <1>4 DEF Unrolls
    <2>2. ASSUME NEW k \in 0..n, k # 0 PROVE G[<<h[k - 1], k>>] = Incoming(h[k - 1], ops[k])
      <3>1. k \in 1..n /\ k - 1 \in 0..n
        BY <1>1, <2>2
      <3>2. h[k - 1] \in Pages
        BY <2>1, <3>1
      <3> QED
        BY <1>3, <3>1, <3>2
    <2> HIDE DEF G
    <2> QED
      BY <2>1, <2>2
  <1>6. Is(f)
    BY <1>5
  <1> HIDE DEF f
  <1>7. f = [k \in 0..n |-> f[k]] /\ f[0] = p
    BY <1>1, <1>6
  <1>8. \A k \in 1..n : f[k - 1] \in Pages => f[k] = G[<<f[k - 1], k>>]
    BY <1>1, <1>3, <1>6
  <1>9. f \in [0..n -> Pages]
    <2>1. n \in Nat /\ p \in Pages
      BY <1>1
    <2>2. StepsBy(f, Pages, p, n, G)
      <3> HIDE DEF G, Is, n
      <3> QED
        BY <1>7, <1>8 DEF StepsBy
    <2> HIDE DEF G, Is, n
    <2> QED
      BY <1>2, <2>1, <2>2, Recursive
  <1>10. \A k \in 1..n : f[k] = Incoming(f[k - 1], ops[k])
    BY <1>1, <1>6
  <1>11. f[n] = IncomingAll(p, ops)
    BY DEF IncomingAll, f
  <1> QED
    BY <1>7, <1>9, <1>10, <1>11

\* The walk over the answer of a POST, op by op.
LEMMA AckFrameRun ==
    ASSUME journal \in Seq(OpValue), NEW p \in Pages, NEW ops \in Seq(RowOps)
    PROVE  \E f \in [0..Len(ops) -> Pages] :
             /\ f[0] = p /\ f[Len(ops)] = AckFrameAll(p, ops)
             /\ \A k \in 1..Len(ops) : f[k] = AckFrame(f[k - 1], ops[k])
  <1>1. Len(ops) \in Nat /\ \A k \in 1..Len(ops) : ops[k] \in RowOps
    BY SeqFacts
  <1> DEFINE n == Len(ops)
             G == [x \in Pages \X (1..n) |-> AckFrame(x[1], ops[x[2]])]
             Is(g) == g = [k \in 0..n |-> IF k = 0 THEN p ELSE AckFrame(g[k - 1], ops[k])]
             f == CHOOSE g : Is(g)
  <1>2. G \in [Pages \X (1..n) -> Pages]
    BY <1>1, IncomingType
  <1>3. \A x \in Pages, k \in 1..n : G[<<x, k>>] = AckFrame(x, ops[k])
    OBVIOUS
  <1>4. PICK h : Unrolls(h, Pages, p, n, G)
    <2> HIDE DEF G
    <2> QED
      BY <1>1, <1>2, Unrolled
  <1>5. Is(h)
    <2>1. h \in [0..n -> Pages] /\ h = [k \in 0..n |-> IF k = 0 THEN p ELSE G[<<h[k - 1], k>>]]
      BY <1>4 DEF Unrolls
    <2>2. ASSUME NEW k \in 0..n, k # 0 PROVE G[<<h[k - 1], k>>] = AckFrame(h[k - 1], ops[k])
      <3>1. k \in 1..n /\ k - 1 \in 0..n
        BY <1>1, <2>2
      <3>2. h[k - 1] \in Pages
        BY <2>1, <3>1
      <3> QED
        BY <1>3, <3>1, <3>2
    <2> HIDE DEF G
    <2> QED
      BY <2>1, <2>2
  <1>6. Is(f)
    BY <1>5
  <1> HIDE DEF f
  <1>7. f = [k \in 0..n |-> f[k]] /\ f[0] = p
    BY <1>1, <1>6
  <1>8. \A k \in 1..n : f[k - 1] \in Pages => f[k] = G[<<f[k - 1], k>>]
    BY <1>1, <1>3, <1>6
  <1>9. f \in [0..n -> Pages]
    <2>1. n \in Nat /\ p \in Pages
      BY <1>1
    <2>2. StepsBy(f, Pages, p, n, G)
      <3> HIDE DEF G, Is, n
      <3> QED
        BY <1>7, <1>8 DEF StepsBy
    <2> HIDE DEF G, Is, n
    <2> QED
      BY <1>2, <2>1, <2>2, Recursive
  <1>10. \A k \in 1..n : f[k] = AckFrame(f[k - 1], ops[k])
    BY <1>1, <1>6
  <1>11. f[n] = AckFrameAll(p, ops)
    BY DEF AckFrameAll, f
  <1> QED
    BY <1>7, <1>9, <1>10, <1>11

-----------------------------------------------------------------------------
(* Types                                                                   *)

InJournal(ops) == \A k \in DOMAIN ops : ops[k].seq \in 1..Len(journal)

\* Whatever the room has answered it has stamped.
Stamped ==
    /\ \A k \in DOMAIN down : InJournal(down[k].ops)
    /\ \A p \in posts : p.done => InJournal(p.ops)
    /\ InJournal(read.ops)
    /\ read.seq \in 0..Len(journal)

\* A row carries its place in the journal as its seq.
Seqs == \A k \in DOMAIN journal : journal[k].seq = k

TInv == TypeOK /\ Stamped /\ Seqs

Frame == [error : BOOLEAN, ops : Seq(OpValue)]
Post == [ops : Seq(OpValue), done : BOOLEAN]
ReadType == [of : {"none", "adopt", "ops", "doc", "gotAdopt", "gotOps", "gotDoc"},
             doc : Doc, seq : Nat, ops : Seq(OpValue)]

\* The types, variable by variable.
LEMMA Types ==
    ASSUME TInv
    PROVE  /\ journal \in Seq(OpValue) /\ trim \in 0..Len(journal) /\ doc \in Doc
           /\ session \in Session /\ world \in Doc /\ Page \in Pages
           /\ conn \in {"none", "ladder", "connecting", "open"}
           /\ since \in 0..Len(journal) /\ up \in Seq(Seq(OpValue)) /\ down \in Seq(Frame)
           /\ posts \subseteq Post /\ read \in ReadType /\ dirty \subseteq Icon
           /\ used \subseteq Icon /\ typed \subseteq Icon \X (Val \cup {Absent})
           /\ seen \subseteq 1..Len(journal) /\ wounds \subseteq Wound
           /\ Len(journal) \in Nat /\ DOMAIN journal = 1..Len(journal)
           /\ \A k \in DOMAIN journal : journal[k] \in OpValue
           /\ edits \in Nat /\ others \in Nat /\ breaks \in Nat
  <1>1. TypeOK
    BY DEF TInv
  <1>2. Page \in Pages
    BY <1>1 DEF TypeOK, Page, Pages, PageType, Session
  <1>3. journal \in Seq(OpValue)
    BY <1>1 DEF TypeOK
  <1>4. session \in Session
    BY <1>1 DEF TypeOK, Session
  <1>5. edits \in Nat /\ others \in Nat /\ breaks \in Nat
    BY <1>1, CanvasClientAssumption DEF TypeOK, CanvasClientAssumption
  <1> QED
    BY <1>1, <1>2, <1>3, <1>4, <1>5, SeqFacts DEF TypeOK, Frame, Post, ReadType

LEMMA PageIs == Page.s = session /\ Page.w = world /\ Page.seen = seen /\ Page.wounds = wounds
  BY DEF Page

\* Ops whose seqs lie in the journal are rows.
LEMMA RowsOfJournal ==
    ASSUME NEW ops \in Seq(OpValue), InJournal(ops)
    PROVE  ops \in Seq(RowOps)
  <1>1. Len(ops) \in Nat /\ DOMAIN ops = 1..Len(ops) /\ \A k \in DOMAIN ops : ops[k] \in OpValue
    BY SeqFacts
  <1>2. \A k \in DOMAIN ops : ops[k] \in RowOps
    BY <1>1 DEF InJournal, RowOps
  <1> QED
    BY <1>1, <1>2, IsASeq

\* A page that is shown keeps the types.
LEMMA ShowTypes ==
    ASSUME TInv, NEW q \in Pages, Show(q), UNCHANGED journal
    PROVE  /\ session' \in Session' /\ world' \in Doc
           /\ seen' \subseteq 1..Len(journal)' /\ wounds' \subseteq Wound
           /\ {x.n : x \in session'.pending} \subseteq session'.ids
  BY DEF Show, Pages, PageType, Session

\* Stamping a batch numbers it on from the journal.
LEMMA StampFacts ==
    ASSUME journal \in Seq(OpValue), NEW ops \in Seq(OpValue)
    PROVE  /\ Stamp(ops) \in Seq(OpValue) /\ Len(Stamp(ops)) = Len(ops)
           /\ DOMAIN Stamp(ops) = DOMAIN ops
           /\ \A k \in DOMAIN ops :
                /\ Stamp(ops)[k] = [ops[k] EXCEPT !.seq = Len(journal) + k]
                /\ Stamp(ops)[k].seq = Len(journal) + k
                /\ Stamp(ops)[k].n = ops[k].n /\ Stamp(ops)[k].item = ops[k].item
                /\ Stamp(ops)[k].val = ops[k].val /\ Stamp(ops)[k].kind = ops[k].kind
  <1>1. /\ Len(ops) \in Nat /\ DOMAIN ops = 1..Len(ops)
        /\ \A k \in DOMAIN ops : ops[k] \in OpValue
    BY SeqFacts
  <1>2. Len(journal) \in Nat
    BY SeqFacts
  <1> DEFINE s == [k \in 1..Len(ops) |-> [ops[k] EXCEPT !.seq = Len(journal) + k]]
  <1>3. Stamp(ops) = s
    BY <1>1 DEF Stamp
  <1>4. ASSUME NEW k \in DOMAIN ops
        PROVE  /\ s[k] = [ops[k] EXCEPT !.seq = Len(journal) + k]
               /\ s[k] \in OpValue
               /\ s[k].seq = Len(journal) + k
               /\ s[k].n = ops[k].n /\ s[k].item = ops[k].item
               /\ s[k].val = ops[k].val /\ s[k].kind = ops[k].kind
    <2> PICK op \in OpValue : op = ops[k]
      BY <1>1
    <2>1. k \in 1..Len(ops) /\ Len(journal) + k \in Nat
      BY <1>1, <1>2
    <2>2. s[k] = [op EXCEPT !.seq = Len(journal) + k]
      BY <2>1
    <2> HIDE DEF s
    <2> QED
      BY <2>1, <2>2 DEF OpValue
  <1>5. s = [k \in 1..Len(ops) |-> s[k]]
    OBVIOUS
  <1> HIDE DEF s
  <1>6. s \in Seq(OpValue) /\ Len(s) = Len(ops) /\ DOMAIN s = DOMAIN ops
    <2>1. \A k \in 1..Len(ops) : s[k] \in OpValue
      BY <1>1, <1>4
    <2>2. s \in [1..Len(ops) -> OpValue]
      BY <1>5, <2>1
    <2> QED
      BY <1>1, <2>2
  <1> QED
    BY <1>3, <1>4, <1>6

\* A batch the room takes.
LEMMA TakeBatchFacts ==
    ASSUME TInv, NEW ops \in Seq(OpValue), TakeBatch(ops)
    PROVE  /\ journal' \in Seq(OpValue) /\ Len(journal') = Len(journal) + Len(ops)
           /\ Len(ops) \in Nat /\ Len(journal) \in Nat
           /\ \A k \in 1..Len(journal) : journal'[k] = journal[k]
           /\ \A k \in 1..Len(ops) : journal'[Len(journal) + k] = Stamp(ops)[k]
           /\ doc' \in Doc /\ doc' = ApplyAll(doc, ops)
           /\ wounds \subseteq wounds' /\ wounds' \subseteq Wound
           /\ used' = used \cup {o.item : o \in Range(ops)} /\ used' \subseteq Icon
           /\ down' = IF conn = "open"
                      THEN Append(down, [error |-> FALSE, ops |-> Stamp(ops)]) ELSE down
           /\ [error |-> FALSE, ops |-> Stamp(ops)] \in Frame
           /\ DOMAIN Stamp(ops) = 1..Len(ops)
           /\ \A k \in 1..Len(ops) : Stamp(ops)[k].seq \in 1..Len(journal')
           /\ breaks' = breaks
  <1>1. /\ journal \in Seq(OpValue) /\ doc \in Doc /\ used \subseteq Icon
        /\ wounds \subseteq Wound
    BY Types
  <1>2. Len(ops) \in Nat /\ Range(ops) \subseteq OpValue /\ DOMAIN ops = 1..Len(ops)
    BY SeqFacts
  <1>3. /\ journal' = journal \o Stamp(ops) /\ doc' = ApplyAll(doc, ops)
        /\ used' = used \cup {o.item : o \in Range(ops)} /\ breaks' = breaks
    BY DEF TakeBatch
  <1>4. wounds \subseteq wounds' /\ wounds' \subseteq Wound
    BY <1>1 DEF TakeBatch, Wound
  <1>5. /\ Stamp(ops) \in Seq(OpValue) /\ Len(Stamp(ops)) = Len(ops)
        /\ DOMAIN Stamp(ops) = 1..Len(ops)
        /\ \A k \in 1..Len(ops) : Stamp(ops)[k].seq = Len(journal) + k
    BY <1>1, <1>2, StampFacts
  <1>6. /\ journal' \in Seq(OpValue) /\ Len(journal') = Len(journal) + Len(ops)
        /\ Len(journal) \in Nat
        /\ \A k \in 1..Len(journal) : journal'[k] = journal[k]
        /\ \A k \in 1..Len(ops) : journal'[Len(journal) + k] = Stamp(ops)[k]
    <2> PICK t \in Seq(OpValue) : t = Stamp(ops)
      BY <1>5
    <2>1. Len(t) = Len(ops) /\ journal' = journal \o t /\ Len(journal) \in Nat
      BY <1>1, <1>3, <1>5, SeqFacts
    <2>2. /\ journal \o t \in Seq(OpValue)
          /\ Len(journal \o t) = Len(journal) + Len(t)
          /\ \A k \in 1..Len(journal) : (journal \o t)[k] = journal[k]
          /\ \A k \in 1..Len(t) : (journal \o t)[Len(journal) + k] = t[k]
      BY <1>1, ConcatFacts
    <2> QED
      BY <2>1, <2>2
  <1>7. doc' \in Doc
    <2>1. PICK f \in [0..Len(ops) -> Doc] : f[Len(ops)] = ApplyAll(doc, ops)
      BY <1>1, ApplyAllRun
    <2> QED
      BY <1>2, <1>3, <2>1
  <1>8. used' \subseteq Icon
    <2>1. \A o \in Range(ops) : o.item \in Icon
      BY <1>2 DEF OpValue
    <2> QED
      BY <1>1, <1>3, <2>1
  <1>9. \A k \in 1..Len(ops) : Stamp(ops)[k].seq \in 1..Len(journal')
    BY <1>2, <1>5, <1>6
  <1>10. [error |-> FALSE, ops |-> Stamp(ops)] \in Frame
    BY <1>5 DEF Frame
  <1>11. down' = IF conn = "open"
                 THEN Append(down, [error |-> FALSE, ops |-> Stamp(ops)]) ELSE down
    BY DEF TakeBatch, Broadcast
  <1> QED
    BY <1>2, <1>3, <1>4, <1>6, <1>7, <1>8, <1>9, <1>10, <1>11

\* What the room has answered stays stamped when the journal grows.
LEMMA StampedGrows ==
    ASSUME TInv, journal' \in Seq(OpValue), Len(journal) <= Len(journal')
    PROVE  /\ \A k \in DOMAIN down : \A j \in DOMAIN down[k].ops :
                down[k].ops[j].seq \in 1..Len(journal')
           /\ \A p \in posts : \A j \in DOMAIN p.ops : p.done => p.ops[j].seq \in 1..Len(journal')
           /\ \A j \in DOMAIN read.ops : read.ops[j].seq \in 1..Len(journal')
           /\ read.seq \in 0..Len(journal')
           /\ session \in Session' /\ since \in 0..Len(journal') /\ trim \in 0..Len(journal')
           /\ seen \subseteq 1..Len(journal')
  <1>1. Len(journal) \in Nat /\ Len(journal') \in Nat
    BY Types, SeqFacts
  <1>2. 1..Len(journal) \subseteq 1..Len(journal') /\ 0..Len(journal) \subseteq 0..Len(journal')
    BY <1>1
  <1>3. session \in Session' /\ since \in 0..Len(journal') /\ trim \in 0..Len(journal')
        /\ seen \subseteq 1..Len(journal')
    BY <1>2, Types DEF Session
  <1> QED
    BY <1>2, <1>3 DEF TInv, Stamped, InJournal

\* The types, reassembled.
TypesNext ==
    /\ journal' \in Seq(OpValue) /\ trim' \in 0..Len(journal') /\ doc' \in Doc
    /\ session' \in Session' /\ {p.n : p \in session'.pending} \subseteq session'.ids
    /\ world' \in Doc
    /\ conn' \in {"none", "ladder", "connecting", "open"}
    /\ since' \in 0..Len(journal') /\ up' \in Seq(Seq(OpValue)) /\ down' \in Seq(Frame)
    /\ posts' \subseteq Post /\ read' \in ReadType /\ dirty' \subseteq Icon
    /\ edits' \in 0..MaxEdits /\ others' \in 0..MaxOthers /\ breaks' \in 0..MaxBreaks
    /\ used' \subseteq Icon /\ typed' \subseteq Icon \X (Val \cup {Absent})
    /\ seen' \subseteq 1..Len(journal') /\ wounds' \subseteq Wound
    /\ \A k \in DOMAIN down' : \A j \in DOMAIN down'[k].ops :
         down'[k].ops[j].seq \in 1..Len(journal')
    /\ \A p \in posts' : \A j \in DOMAIN p.ops : p.done => p.ops[j].seq \in 1..Len(journal')
    /\ \A j \in DOMAIN read'.ops : read'.ops[j].seq \in 1..Len(journal')
    /\ read'.seq \in 0..Len(journal')
    /\ \A k \in 1..Len(journal') : journal'[k].seq = k

LEMMA Retyped ==
    ASSUME TypesNext
    PROVE  TInv'
  <1>1. TypeOK'
    BY DEF TypesNext, TypeOK, Session, Frame, Post, ReadType
  <1>2. Stamped'
    BY DEF TypesNext, Stamped, InJournal
  <1>3. Seqs'
    <2>1. DOMAIN journal' = 1..Len(journal')
      BY SeqFacts DEF TypesNext
    <2> QED
      BY <2>1 DEF TypesNext, Seqs
  <1> QED
    BY <1>1, <1>2, <1>3 DEF TInv

\* What a step that stays away from a variable leaves of its type.
LEMMA TypesNow ==
    ASSUME TInv
    PROVE  /\ journal \in Seq(OpValue) /\ trim \in 0..Len(journal) /\ doc \in Doc
           /\ session \in Session /\ {p.n : p \in session.pending} \subseteq session.ids
           /\ world \in Doc
           /\ conn \in {"none", "ladder", "connecting", "open"}
           /\ since \in 0..Len(journal) /\ up \in Seq(Seq(OpValue)) /\ down \in Seq(Frame)
           /\ posts \subseteq Post /\ read \in ReadType /\ dirty \subseteq Icon
           /\ edits \in 0..MaxEdits /\ others \in 0..MaxOthers /\ breaks \in 0..MaxBreaks
           /\ used \subseteq Icon /\ typed \subseteq Icon \X (Val \cup {Absent})
           /\ seen \subseteq 1..Len(journal) /\ wounds \subseteq Wound
           /\ \A k \in DOMAIN down : \A j \in DOMAIN down[k].ops :
                down[k].ops[j].seq \in 1..Len(journal)
           /\ \A p \in posts : \A j \in DOMAIN p.ops : p.done => p.ops[j].seq \in 1..Len(journal)
           /\ \A j \in DOMAIN read.ops : read.ops[j].seq \in 1..Len(journal)
           /\ read.seq \in 0..Len(journal)
           /\ \A k \in 1..Len(journal) : journal[k].seq = k
  <1>1. TypeOK /\ Stamped /\ Seqs
    BY DEF TInv
  <1>2. \A k \in 1..Len(journal) : journal[k].seq = k
    BY <1>1, Types DEF Seqs
  <1> QED
    BY <1>1, <1>2, Types DEF TypeOK, Stamped, InJournal

LEMMA SameSession == ASSUME UNCHANGED journal PROVE Session' = Session
  BY DEF Session

LEMMA NoReadType ==
    /\ NoRead \in ReadType /\ NoRead.ops = <<>> /\ NoRead.seq = 0
    /\ DOMAIN NoRead.ops = {}
  <1>1. Void \in Doc
    BY DEF Void, Doc
  <1>2. <<>> \in Seq(OpValue) /\ DOMAIN <<>> = {}
    BY EmptySeq
  <1> QED
    BY <1>1, <1>2 DEF NoRead, ReadType

LEMMA SubmitTypes ==
    ASSUME TInv, NEW ops \in Seq(OpValue), Submit(ops)
    PROVE  /\ up' \in Seq(Seq(OpValue)) /\ posts' \subseteq Post
           /\ \A p \in posts' : p.done => p \in posts
           /\ posts \subseteq posts'
  <1>1. up \in Seq(Seq(OpValue)) /\ posts \subseteq Post
    BY Types
  <1>2. CASE conn = "open"
    <2>1. Append(up, ops) \in Seq(Seq(OpValue))
      BY <1>1, AppendFacts
    <2> QED
      BY <1>1, <1>2, <2>1 DEF Submit
  <1>3. CASE conn # "open"
    <2>1. [ops |-> ops, done |-> FALSE] \in Post /\ ~[ops |-> ops, done |-> FALSE].done
      BY DEF Post
    <2>2. up' = up /\ posts' = posts \cup {[ops |-> ops, done |-> FALSE]}
      BY <1>3 DEF Submit
    <2> QED
      BY <1>1, <2>1, <2>2
  <1> QED
    BY <1>2, <1>3

\* The session after a batch was derived from it.
LEMMA DerivedTypes ==
    ASSUME TInv, NEW s \in Session, {q.n : q \in s.pending} \subseteq s.ids,
           NEW ops \in Seq(OpValue), NEW b \in Doc
    PROVE  LET t == [s EXCEPT !.baseline = b, !.n = @ + Len(ops),
                              !.pending = @ \cup Range(ops),
                              !.ids = @ \cup {o.n : o \in Range(ops)}]
           IN  t \in Session /\ {q.n : q \in t.pending} \subseteq t.ids
  <1>1. Range(ops) \subseteq OpValue /\ Len(ops) \in Nat
    BY SeqFacts
  <1>2. {o.n : o \in Range(ops)} \subseteq Nat
    BY <1>1 DEF OpValue
  <1> DEFINE w == s.pending \cup Range(ops)
             i == s.ids \cup {o.n : o \in Range(ops)}
             m == s.n + Len(ops)
             t == [s EXCEPT !.baseline = b, !.n = m, !.pending = w, !.ids = i]
  <1>3. w \subseteq OpValue /\ i \subseteq Nat /\ m \in Nat /\ \A q \in w : q.n \in i
    BY <1>1, <1>2 DEF Session
  <1> HIDE DEF w, i, m
  <1>4. t \in Session /\ t.pending = w /\ t.ids = i
    BY <1>3 DEF Session
  <1>5. {q.n : q \in t.pending} \subseteq t.ids
    <2> HIDE DEF t
    <2> QED
      BY <1>3, <1>4
  <1> QED
    BY <1>4, <1>5 DEF w, i, m

LEMMA SaveKeepsTypes ==
    ASSUME TInv, Save
    PROVE  TInv'
  <1>1. /\ session \in Session /\ session.baseline \in Doc /\ session.n \in Nat
        /\ world \in Doc
    BY Types DEF Session
  <1> DEFINE ops == Diff(session.baseline, world, session.n)
  <1>2. ops \in Seq(OpValue)
    BY <1>1, DiffFacts, CanvasClientAssumption
  <1>3. UNCHANGED <<journal, trim, doc, world, conn, since, down, read, edits, others,
                    breaks, used, typed, seen>> /\ dirty' = {}
    BY DEF Save, roomVars
  <1>4. wounds' \subseteq Wound
    BY Types DEF Save, Wound
  <1>5. session' \in Session /\ {p.n : p \in session'.pending} \subseteq session'.ids
        /\ up' \in Seq(Seq(OpValue)) /\ posts' \subseteq Post
        /\ \A p \in posts' : p.done => p \in posts
    <2>1. CASE session.phase # "live" \/ ops = <<>>
      BY <2>1, TypesNow DEF Save
    <2>2. CASE ~(session.phase # "live" \/ ops = <<>>)
      <3>1. session' = [session EXCEPT !.baseline = world, !.n = @ + Len(ops),
                                       !.pending = @ \cup Range(ops),
                                       !.ids = @ \cup {o.n : o \in Range(ops)}]
            /\ Submit(ops)
        BY <2>2 DEF Save
      <3>2. {p.n : p \in session.pending} \subseteq session.ids
        BY TypesNow
      <3> HIDE DEF ops
      <3>3. session' \in Session /\ {p.n : p \in session'.pending} \subseteq session'.ids
        BY <1>1, <1>2, <3>1, <3>2, DerivedTypes
      <3> QED
        BY <1>2, <3>1, <3>3, SubmitTypes
    <2> QED
      BY <2>1, <2>2
  <1> HIDE DEF ops
  <1>6. TypesNext
    BY <1>3, <1>4, <1>5, TypesNow, SameSession DEF TypesNext
  <1> QED
    BY <1>6, Retyped

LEMMA ActivateKeepsTypes ==
    ASSUME TInv, Activate
    PROVE  TInv'
  <1>1. UNCHANGED <<journal, trim, doc, session, world, conn, since, up, down, posts, dirty,
                    edits, others, breaks, used, typed, seen, wounds>>
    BY DEF Activate, roomVars, wire, history
  <1>2. read' \in ReadType /\ DOMAIN read'.ops = {} /\ read'.seq = 0
    <2>1. read' = [NoRead EXCEPT !.of = "adopt"]
      BY DEF Activate
    <2> QED
      BY <2>1, NoReadType DEF ReadType
  <1>3. TypesNext
    BY <1>1, <1>2, TypesNow, SameSession DEF TypesNext
  <1> QED
    BY <1>3, Retyped

\* The page an adoption starts from, and what its catch-up and its drift make
\* of it.
Adopted == [Page EXCEPT !.s.phase = "live", !.s.cursor = read.seq,
                        !.s.baseline = read.doc, !.seen = 1..read.seq]

LEMMA AdoptedFacts ==
    ASSUME TInv
    PROVE  /\ Adopted \in Pages
           /\ Adopted.s = [session EXCEPT !.phase = "live", !.cursor = read.seq,
                                          !.baseline = read.doc]
           /\ Adopted.s \in Session
           /\ Adopted.s.phase = "live" /\ Adopted.s.cursor = read.seq
           /\ Adopted.s.baseline = read.doc /\ Adopted.s.n = session.n
           /\ Adopted.s.ids = session.ids /\ Adopted.s.pending = session.pending
           /\ Adopted.w = world /\ Adopted.seen = 1..read.seq /\ Adopted.wounds = wounds
           /\ CaughtUp(Adopted, read.doc) = [Adopted EXCEPT !.w = read.doc]
           /\ [Adopted EXCEPT !.w = read.doc] \in Pages
           /\ Diff(read.doc, read.doc, session.n) = <<>>
  <1>1. /\ session \in Session /\ world \in Doc /\ read.doc \in Doc
        /\ read.seq \in 0..Len(journal) /\ Len(journal) \in Nat /\ Page \in PageType
        /\ seen \subseteq 1..Len(journal) /\ wounds \subseteq Wound
        /\ {p.n : p \in session.pending} \subseteq session.ids /\ session.n \in Nat
    BY TypesNow, Types, PageFields DEF ReadType, Session
  <1> DEFINE s == [session EXCEPT !.phase = "live", !.cursor = read.seq,
                                  !.baseline = read.doc]
             a == [s |-> s, w |-> world, seen |-> 1..read.seq, wounds |-> wounds]
  <1>2. Adopted = a
    <2>1. Adopted = [Page EXCEPT !.s = s, !.seen = 1..read.seq]
      BY PageIs DEF Adopted
    <2> QED
      BY <2>1 DEF Page
  <1>3. /\ s \in Session /\ s.phase = "live" /\ s.cursor = read.seq
        /\ s.baseline = read.doc /\ s.n = session.n /\ s.ids = session.ids
        /\ s.pending = session.pending
    BY <1>1 DEF Session
  <1> HIDE DEF s
  <1>4. 1..read.seq \subseteq 1..Len(journal)
    BY <1>1
  <1>5. /\ a \in Pages /\ a.s = s /\ a.w = world /\ a.seen = 1..read.seq
        /\ a.wounds = wounds
    BY <1>1, <1>3, <1>4 DEF Pages, PageType
  <1>6. [a EXCEPT !.w = read.doc] \in Pages
    BY <1>1, <1>3, <1>4 DEF Pages, PageType
  <1>7. CaughtUp(a, read.doc) = [a EXCEPT !.w = read.doc]
    <2>1. ApplyAll(world, Diff(world, read.doc, 0)) = read.doc
      BY <1>1, DiffApplied, CanvasClientAssumption
    <2> QED
      BY <1>5, <2>1 DEF CaughtUp
  <1>8. Diff(read.doc, read.doc, session.n) = <<>>
    <2>1. \A d \in Doc, n \in Nat : Diff(d, d, n) = <<>> <=> d = d
      BY DiffFacts, CanvasClientAssumption
    <2> QED
      BY <1>1, <2>1
  <1> HIDE DEF a
  <1> QED
    BY <1>2, <1>3, <1>5, <1>6, <1>7, <1>8 DEF s

\* The catch-up leaves no drift: an adoption ships nothing.
LEMMA AdoptStep ==
    ASSUME TInv, Adopt
    PROVE  /\ session' = [session EXCEPT !.phase = "live", !.cursor = read.seq,
                                         !.baseline = read.doc]
           /\ world' = read.doc /\ seen' = 1..read.seq
           /\ conn' = "connecting" /\ since' = read.seq /\ read' = NoRead
           /\ UNCHANGED <<journal, trim, doc, up, posts, down, dirty, edits, others, breaks,
                          used, typed, wounds>>
           /\ read.of = "gotAdopt"
  <1> DEFINE c == [Adopted EXCEPT !.w = read.doc]
             caught == CaughtUp(Adopted, read.doc)
             drift == Diff(read.doc, caught.w, session.n)
             shown == [caught EXCEPT !.s.n = @ + Len(drift),
                                     !.s.ids = @ \cup {o.n : o \in Range(drift)}]
  <1>1. /\ caught = c /\ Adopted \in Pages /\ c \in Pages
        /\ Diff(read.doc, read.doc, session.n) = <<>>
        /\ Adopted.s = [session EXCEPT !.phase = "live", !.cursor = read.seq,
                                       !.baseline = read.doc]
        /\ Adopted.s \in Session /\ Adopted.seen = 1..read.seq /\ Adopted.wounds = wounds
    BY AdoptedFacts
  <1>2. /\ c.w = read.doc /\ c.s = Adopted.s /\ c.seen = 1..read.seq /\ c.wounds = wounds
    BY <1>1 DEF Pages, PageType
  <1>3. drift = <<>>
    BY <1>1, <1>2
  <1>4. /\ Show(shown)
        /\ IF drift = <<>> THEN UNCHANGED <<up, posts>> ELSE Submit(drift)
        /\ conn' = "connecting" /\ since' = read.seq /\ read' = NoRead
        /\ UNCHANGED <<journal, trim, doc, down, dirty, edits, others, breaks, used, typed>>
        /\ read.of = "gotAdopt"
    BY DEF Adopt, Adopted, roomVars
  <1> HIDE DEF caught, drift
  <1>5. Len(drift) = 0 /\ {o.n : o \in Range(drift)} = {}
    <2>1. <<>> \in Seq({}) /\ Len(<<>>) = 0 /\ Range(<<>>) = {}
      BY EmptySeq DEF Range
    <2> QED
      BY <1>3, <2>1
  <1>6. shown = [c EXCEPT !.s = [c.s EXCEPT !.n = @ + 0, !.ids = @ \cup {}]]
    BY <1>1, <1>5
  <1> HIDE DEF shown, c
  <1>7. [c.s EXCEPT !.n = @ + 0, !.ids = @ \cup {}] = c.s
    <2> PICK s \in Session : s = c.s
      BY <1>1, <1>2
    <2>1. s.n \in Nat /\ s.n + 0 = s.n /\ s.ids \cup {} = s.ids
      BY DEF Session
    <2>2. [s EXCEPT !.n = s.n, !.ids = s.ids] = s
      BY DEF Session
    <2> QED
      BY <2>1, <2>2
  <1>8. shown.s = c.s /\ shown.w = c.w /\ shown.seen = c.seen /\ shown.wounds = c.wounds
    BY <1>1, <1>6, <1>7 DEF Pages, PageType
  <1> QED
    BY <1>1, <1>2, <1>3, <1>4, <1>8 DEF Show

LEMMA AdoptKeepsTypes ==
    ASSUME TInv, Adopt
    PROVE  TInv'
  <1>1. /\ session' \in Session /\ world' \in Doc /\ seen' \subseteq 1..Len(journal)
        /\ {p.n : p \in session'.pending} \subseteq session'.ids
        /\ since' \in 0..Len(journal)
    <2>1. read.seq \in 0..Len(journal) /\ read.doc \in Doc /\ Len(journal) \in Nat
      BY TypesNow, Types DEF ReadType
    <2>2. 1..read.seq \subseteq 1..Len(journal)
      BY <2>1
    <2>3. /\ Adopted.s = session' /\ Adopted.s \in Session
          /\ Adopted.s.ids = session.ids /\ Adopted.s.pending = session.pending
      BY AdoptStep, AdoptedFacts
    <2>4. {p.n : p \in session.pending} \subseteq session.ids
      BY TypesNow
    <2>5. /\ session' \in Session /\ session'.ids = session.ids
          /\ session'.pending = session.pending
      BY <2>3
    <2>6. world' = read.doc /\ seen' = 1..read.seq /\ since' = read.seq
      BY AdoptStep
    <2> QED
      BY <2>1, <2>2, <2>4, <2>5, <2>6
  <1>2. /\ conn' = "connecting" /\ read' = NoRead
        /\ UNCHANGED <<journal, trim, doc, up, posts, down, dirty, edits, others, breaks,
                       used, typed, wounds>>
    BY AdoptStep
  <1>3. TypesNext
    BY <1>1, <1>2, TypesNow, NoReadType, SameSession DEF TypesNext
  <1> QED
    BY <1>3, Retyped

\* A rebase ends with nothing pending.
LEMMA Cleared ==
    ASSUME journal \in Seq(OpValue), NEW p \in Pages
    PROVE  [p EXCEPT !.s.pending = {}, !.s.ids = {}] \in Pages
  <1> DEFINE s == [p.s EXCEPT !.pending = {}, !.ids = {}]
  <1>1. p \in PageType /\ p.s \in Session
    BY PageFields
  <1>2. s \in Session /\ s.pending = {}
    BY <1>1 DEF Session
  <1> HIDE DEF s
  <1>3. [p EXCEPT !.s = s] \in PageType /\ [p EXCEPT !.s = s].s = s
    BY <1>1, <1>2 DEF PageType
  <1>4. [p EXCEPT !.s = s] \in Pages
    BY <1>2, <1>3 DEF Pages
  <1> QED
    BY <1>4 DEF s

LEMMA RebaseOpsKeepsTypes ==
    ASSUME TInv, RebaseOps
    PROVE  TInv'
  <1>1. UNCHANGED <<journal, trim, doc, conn, since, up, down, posts, dirty, edits, others,
                    breaks, used, typed>> /\ read' = NoRead
    BY DEF RebaseOps, roomVars, wire
  <1>2. read.ops \in Seq(RowOps)
    <2>1. read.ops \in Seq(OpValue) /\ InJournal(read.ops)
      BY Types DEF TInv, Stamped, ReadType
    <2> QED
      BY <2>1, RowsOfJournal
  <1>3. IncomingAll(Page, read.ops) \in Pages
    <2>1. Page \in Pages /\ journal \in Seq(OpValue) /\ Len(read.ops) \in Nat
      BY <1>2, Types, SeqFacts
    <2>2. PICK f \in [0..Len(read.ops) -> Pages] :
              f[Len(read.ops)] = IncomingAll(Page, read.ops)
      BY <1>2, <2>1, IncomingRun
    <2> QED
      BY <2>1, <2>2
  <1> DEFINE q == [IncomingAll(Page, read.ops) EXCEPT !.s.pending = {}, !.s.ids = {}]
  <1>4. q \in Pages
    BY <1>3, Types, Cleared
  <1>5. Show(q)
    BY DEF RebaseOps
  <1>6. /\ session' \in Session' /\ world' \in Doc
        /\ seen' \subseteq 1..Len(journal)' /\ wounds' \subseteq Wound
        /\ {x.n : x \in session'.pending} \subseteq session'.ids
    <2> HIDE DEF q
    <2> QED
      BY <1>1, <1>4, <1>5, ShowTypes
  <1>7. TypesNext
    BY <1>1, <1>6, TypesNow, NoReadType DEF TypesNext
  <1> QED
    BY <1>7, Retyped

LEMMA RebaseSnapshotKeepsTypes ==
    ASSUME TInv, RebaseSnapshot
    PROVE  TInv'
  <1>1. UNCHANGED <<journal, trim, doc, conn, since, up, down, posts, dirty, edits, others,
                    breaks, used, typed>> /\ read' = NoRead
    BY DEF RebaseSnapshot, roomVars, wire
  <1> DEFINE c == IF read.seq = 0 THEN session.cursor ELSE read.seq
             s == [session EXCEPT !.cursor = c, !.baseline = read.doc, !.pending = {}, !.ids = {}]
             p == [Page EXCEPT !.s = s, !.seen = Page.seen \cup 1..read.seq]
             lit == [Page EXCEPT !.s.cursor = IF read.seq = 0 THEN @ ELSE read.seq,
                                 !.s.baseline = read.doc,
                                 !.s.pending = {}, !.s.ids = {},
                                 !.seen = @ \cup 1..read.seq]
  <1>2. /\ session \in Session /\ read.doc \in Doc /\ read.seq \in 0..Len(journal)
        /\ Len(journal) \in Nat /\ Page \in PageType /\ seen \subseteq 1..Len(journal)
    BY TypesNow, Types, PageFields DEF ReadType
  <1>3. s \in Session /\ s.pending = {}
    <2>1. c \in 0..Len(journal)
      BY <1>2 DEF Session
    <2> HIDE DEF c
    <2> QED
      BY <1>2, <2>1 DEF Session
  <1>4. lit = p
    BY PageIs
  <1> HIDE DEF s, lit
  <1>5. Page.seen \cup 1..read.seq \subseteq 1..Len(journal)
    <2>1. 1..read.seq \subseteq 1..Len(journal)
      BY <1>2
    <2> QED
      BY <1>2, <2>1, PageIs
  <1>6. p \in PageType /\ p.s = s
    BY <1>2, <1>3, <1>5 DEF PageType
  <1>7. p \in Pages
    BY <1>3, <1>6 DEF Pages
  <1> HIDE DEF p
  <1> DEFINE q == [p EXCEPT !.w = ApplyAll(p.w, Diff(p.w, read.doc, 0))]
  <1>8. ApplyAll(p.w, Diff(p.w, read.doc, 0)) = read.doc
    BY <1>2, <1>6, DiffApplied, CanvasClientAssumption DEF PageType
  <1>9. q \in Pages
    <2>1. [p EXCEPT !.w = read.doc] \in Pages
      BY <1>2, <1>7 DEF Pages, PageType
    <2> QED
      BY <1>8, <2>1
  <1>10. Show(q)
    <2>1. Show(CaughtUp(lit, read.doc))
      BY DEF RebaseSnapshot, lit
    <2> QED
      BY <1>4, <2>1 DEF CaughtUp
  <1>11. /\ session' \in Session' /\ world' \in Doc
        /\ seen' \subseteq 1..Len(journal)' /\ wounds' \subseteq Wound
        /\ {x.n : x \in session'.pending} \subseteq session'.ids
    <2> HIDE DEF q
    <2> QED
      BY <1>1, <1>9, <1>10, ShowTypes
  <1>12. TypesNext
    BY <1>1, <1>11, TypesNow, NoReadType DEF TypesNext
  <1> QED
    BY <1>12, Retyped

\* A part of the journal is a sequence of rows.
LEMMA PartOfJournal ==
    ASSUME TInv, NEW a \in Nat \ {0}
    PROVE  LET r == SubSeq(journal, a, Len(journal))
           IN  /\ r \in Seq(OpValue)
               /\ Len(r) = IF a <= Len(journal) THEN Len(journal) - a + 1 ELSE 0
               /\ DOMAIN r = 1..Len(r) /\ Len(r) \in Nat
               /\ \A k \in DOMAIN r : /\ r[k] = journal[a + k - 1]
                                      /\ a + k - 1 \in DOMAIN journal
  <1> PICK j \in Seq(OpValue) : j = journal
    BY Types
  <1> DEFINE r == SubSeq(j, a, Len(j))
  <1>1. Len(j) \in Nat /\ DOMAIN j = 1..Len(j)
    BY SeqFacts
  <1>2. r \in Seq(OpValue)
    BY <1>1
  <1>3. Len(r) = IF a <= Len(j) THEN Len(j) - a + 1 ELSE 0
    BY <1>1
  <1>4. \A k \in 1..Len(r) : r[k] = j[a + k - 1]
    BY <1>1, <1>3
  <1>5. \A k \in 1..Len(r) : a + k - 1 \in 1..Len(j)
    BY <1>1, <1>3
  <1> HIDE DEF r
  <1>6. DOMAIN r = 1..Len(r) /\ Len(r) \in Nat
    BY <1>2, SeqFacts
  <1> QED
    BY <1>1, <1>2, <1>3, <1>4, <1>5, <1>6 DEF r

LEMMA ServeReadKeepsTypes ==
    ASSUME TInv, ServeRead
    PROVE  TInv'
  <1>1. UNCHANGED <<journal, trim, doc, session, world, conn, since, up, down, posts, dirty,
                    edits, others, breaks, used, typed, seen, wounds>>
    BY DEF ServeRead, roomVars, wire, history
  <1>2. /\ read' \in ReadType /\ read'.seq \in 0..Len(journal)
        /\ \A j \in DOMAIN read'.ops : read'.ops[j].seq \in 1..Len(journal)
    <2>1. /\ doc \in Doc /\ Len(journal) \in Nat /\ read.seq \in 0..Len(journal)
          /\ trim \in 0..Len(journal) /\ DOMAIN journal = 1..Len(journal)
      BY TypesNow, Types
    <2>2. CASE read.of \in {"adopt", "doc"}
      <3>1. PICK of \in {"gotAdopt", "gotDoc"} :
                read' = [NoRead EXCEPT !.of = of, !.doc = doc, !.seq = Len(journal)]
        BY <2>2 DEF ServeRead
      <3>2. read' \in ReadType /\ read'.ops = NoRead.ops /\ read'.seq = Len(journal)
        BY <2>1, <3>1, NoReadType DEF ReadType
      <3> QED
        BY <2>1, <3>2, NoReadType
    <2>3. CASE read.of = "ops" /\ read' = [NoRead EXCEPT !.of = "doc"]
      BY <2>1, <2>3, NoReadType DEF ReadType
    <2>4. CASE read.of = "ops" /\ read' = [NoRead EXCEPT !.of = "gotOps",
                        !.ops = SubSeq(journal, Later(read.seq, trim + 1), Len(journal))]
      <3> DEFINE a == Later(read.seq, trim + 1)
                 r == SubSeq(journal, a, Len(journal))
      <3>1. a \in Nat \ {0}
        BY <2>1 DEF Later
      <3> HIDE DEF a
      <3>2. r \in Seq(OpValue) /\ \A k \in DOMAIN r : /\ r[k] = journal[a + k - 1]
                                                    /\ a + k - 1 \in DOMAIN journal
        BY <3>1, PartOfJournal
      <3> HIDE DEF r
      <3>3. \A k \in DOMAIN r : r[k].seq \in 1..Len(journal)
        BY <2>1, <3>2 DEF TInv, Seqs
      <3>4. read' = [NoRead EXCEPT !.of = "gotOps", !.ops = r]
        BY <2>4 DEF a, r
      <3>5. read' \in ReadType /\ read'.ops = r /\ read'.seq = 0
        BY <3>2, <3>4, NoReadType DEF ReadType
      <3> QED
        BY <2>1, <3>3, <3>5
    <2> QED
      BY <2>2, <2>3, <2>4 DEF ServeRead
  <1>3. TypesNext
    BY <1>1, <1>2, TypesNow, SameSession DEF TypesNext
  <1> QED
    BY <1>3, Retyped

LEMMA ReadFailsKeepsTypes ==
    ASSUME TInv, ReadFails
    PROVE  TInv'
  <1>1. UNCHANGED <<journal, trim, doc, world, conn, since, up, down, posts, dirty,
                    edits, others, used, typed, seen, wounds>> /\ read' = NoRead
    BY DEF ReadFails, roomVars, wire, history
  <1>2. breaks' \in 0..MaxBreaks
    BY TypesNow, CanvasClientAssumption DEF ReadFails, CanvasClientAssumption
  <1>3. session' \in Session /\ {p.n : p \in session'.pending} \subseteq session'.ids
    <2>1. session \in Session /\ {p.n : p \in session.pending} \subseteq session.ids
      BY TypesNow
    <2>2. CASE session' = session
      BY <2>1, <2>2
    <2>3. CASE session' = [session EXCEPT !.phase = "inert"]
      <3>1. session' \in Session /\ session'.pending = session.pending
            /\ session'.ids = session.ids
        BY <2>1, <2>3 DEF Session
      <3> QED
        BY <2>1, <3>1
    <2> QED
      BY <2>2, <2>3 DEF ReadFails
  <1>4. TypesNext
    BY <1>1, <1>2, <1>3, TypesNow, NoReadType, SameSession DEF TypesNext
  <1> QED
    BY <1>4, Retyped

\* What a join replays.
LEMMA JoinStep ==
    ASSUME TInv, Join
    PROVE  LET a == Later(since, trim) + 1
               r == SubSeq(journal, a, Len(journal))
           IN  /\ a \in Nat \ {0} /\ r \in Seq(OpValue)
               /\ Len(r) = Len(journal) - Later(since, trim)
               /\ Later(since, trim) \in 0..Len(journal)
               /\ \A k \in DOMAIN r : /\ r[k] = journal[Later(since, trim) + k]
                                      /\ Later(since, trim) + k \in DOMAIN journal
               /\ r = <<>> <=> Later(since, trim) = Len(journal)
               /\ down' = IF r = <<>> THEN <<>> ELSE <<[error |-> FALSE, ops |-> r]>>
               /\ [error |-> FALSE, ops |-> r] \in Frame
  <1> DEFINE b == Later(since, trim)
             a == b + 1
             r == SubSeq(journal, a, Len(journal))
  <1>1. since \in 0..Len(journal) /\ trim \in 0..Len(journal) /\ Len(journal) \in Nat
    BY Types
  <1>2. b \in 0..Len(journal)
    BY <1>1 DEF Later
  <1>3. down' = IF r = <<>> THEN <<>> ELSE <<[error |-> FALSE, ops |-> r]>>
    BY DEF Join
  <1> HIDE DEF b
  <1>4. a \in Nat \ {0}
    BY <1>1, <1>2
  <1>5. /\ r \in Seq(OpValue)
        /\ Len(r) = IF a <= Len(journal) THEN Len(journal) - a + 1 ELSE 0
        /\ DOMAIN r = 1..Len(r) /\ Len(r) \in Nat
        /\ \A k \in DOMAIN r : r[k] = journal[a + k - 1] /\ a + k - 1 \in DOMAIN journal
    BY <1>4, PartOfJournal
  <1> HIDE DEF r
  <1>6. Len(r) = Len(journal) - b
    BY <1>1, <1>2, <1>5
  <1>7. \A k \in DOMAIN r : r[k] = journal[b + k] /\ b + k \in DOMAIN journal
    <2> SUFFICES ASSUME NEW k \in DOMAIN r
                 PROVE  r[k] = journal[b + k] /\ b + k \in DOMAIN journal
      OBVIOUS
    <2>1. a + k - 1 = b + k
      BY <1>2, <1>5
    <2> QED
      BY <1>5, <2>1
  <1>8. r = <<>> <=> b = Len(journal)
    BY <1>1, <1>2, <1>5, <1>6, SeqFacts
  <1>9. [error |-> FALSE, ops |-> r] \in Frame
    BY <1>5 DEF Frame
  <1> QED
    BY <1>2, <1>3, <1>4, <1>5, <1>6, <1>7, <1>8, <1>9 DEF r, b

LEMMA JoinKeepsTypes ==
    ASSUME TInv, Join
    PROVE  TInv'
  <1>1. UNCHANGED <<journal, trim, doc, session, world, up, posts, read, dirty,
                    edits, others, breaks, used, typed, seen>>
        /\ conn' = "open" /\ since' = 0
    BY DEF Join, roomVars
  <1>2. wounds' \subseteq Wound
    BY Types DEF Join, Wound
  <1> DEFINE r == SubSeq(journal, Later(since, trim) + 1, Len(journal))
             f == [error |-> FALSE, ops |-> r]
  <1>3. /\ r \in Seq(OpValue) /\ f \in Frame
        /\ \A k \in DOMAIN r : r[k] = journal[Later(since, trim) + k]
                               /\ Later(since, trim) + k \in DOMAIN journal
        /\ down' = IF r = <<>> THEN <<>> ELSE <<f>>
    BY JoinStep
  <1>4. DOMAIN journal = 1..Len(journal) /\ Len(journal) \in Nat
    BY Types
  <1>5. f.ops = r
    OBVIOUS
  <1> HIDE DEF r, f
  <1>6. \A k \in DOMAIN r : r[k].seq \in 1..Len(journal)
    BY <1>3, <1>4 DEF TInv, Seqs
  <1>7. /\ down' \in Seq(Frame)
        /\ \A k \in DOMAIN down' : \A j \in DOMAIN down'[k].ops :
              down'[k].ops[j].seq \in 1..Len(journal)
    <2>1. CASE down' = <<>>
      BY <2>1
    <2>2. CASE down' = <<f>>
      <3>1. <<f>> \in Seq(Frame) /\ DOMAIN <<f>> = {1} /\ <<f>>[1] = f
        BY <1>3
      <3> QED
        BY <1>5, <1>6, <2>2, <3>1
    <2> QED
      BY <1>3, <2>1, <2>2
  <1>8. TypesNext
    BY <1>1, <1>2, <1>4, <1>7, TypesNow, SameSession DEF TypesNext
  <1> QED
    BY <1>8, Retyped

LEMMA DropKeepsTypes ==
    ASSUME TInv, Drop
    PROVE  TInv'
  <1>1. UNCHANGED <<journal, trim, doc, session, world, since, posts, read, dirty,
                    edits, others, used, typed, seen>>
        /\ conn' = "ladder" /\ up' = <<>> /\ down' = <<>>
    BY DEF Drop, roomVars
  <1>2. wounds' \subseteq Wound
    BY Types DEF Drop, Wound
  <1>3. breaks' \in 0..MaxBreaks
    BY TypesNow, CanvasClientAssumption DEF Drop, CanvasClientAssumption
  <1>4. up' \in Seq(Seq(OpValue)) /\ down' \in Seq(Frame) /\ DOMAIN down' = {}
    BY <1>1
  <1>5. TypesNext
    BY <1>1, <1>2, <1>3, <1>4, TypesNow, SameSession DEF TypesNext
  <1> QED
    BY <1>5, Retyped

LEMMA LadderFiresKeepsTypes ==
    ASSUME TInv, LadderFires
    PROVE  TInv'
  <1>1. UNCHANGED <<journal, trim, doc, session, world, up, down, posts, read, dirty,
                    edits, others, breaks, used, typed, seen, wounds>>
        /\ conn' = "connecting" /\ since' = session.cursor
    BY DEF LadderFires, roomVars, history
  <1>2. since' \in 0..Len(journal)
    BY <1>1, Types DEF Session
  <1>3. TypesNext
    BY <1>1, <1>2, TypesNow, SameSession DEF TypesNext
  <1> QED
    BY <1>3, Retyped

LEMMA TailDown ==
    ASSUME TInv, down # <<>>
    PROVE  /\ Tail(down) \in Seq(Frame) /\ Head(down) = down[1] /\ down[1] \in Frame
           /\ DOMAIN down = 1..Len(down) /\ Len(down) \in Nat \ {0}
           /\ 1 \in DOMAIN down
           /\ DOMAIN Tail(down) = 1..(Len(down) - 1)
           /\ Len(Tail(down)) = Len(down) - 1
           /\ \A k \in 1..(Len(down) - 1) : Tail(down)[k] = down[k + 1] /\ k + 1 \in DOMAIN down
           /\ Tail(down) = <<>> <=> Len(down) = 1
           /\ down[1].ops \in Seq(OpValue)
           /\ down[1].ops \in Seq(RowOps)
  <1>1. down \in Seq(Frame)
    BY Types
  <1>2. /\ Tail(down) \in Seq(Frame) /\ Head(down) = down[1] /\ down[1] \in Frame
        /\ DOMAIN down = 1..Len(down) /\ Len(down) \in Nat \ {0}
        /\ DOMAIN Tail(down) = 1..(Len(down) - 1)
        /\ Len(Tail(down)) = Len(down) - 1
        /\ \A k \in 1..(Len(down) - 1) : Tail(down)[k] = down[k + 1]
        /\ Tail(down) = <<>> <=> Len(down) = 1
    BY <1>1, TailFacts
  <1>3. down[1].ops \in Seq(OpValue) /\ 1 \in DOMAIN down
    BY <1>2 DEF Frame
  <1>4. InJournal(down[1].ops)
    BY <1>3 DEF TInv, Stamped
  <1>5. \A k \in 1..(Len(down) - 1) : k + 1 \in DOMAIN down
    BY <1>2
  <1> QED
    BY <1>2, <1>3, <1>4, <1>5, RowsOfJournal

LEMMA ReceiveKeepsTypes ==
    ASSUME TInv, Receive
    PROVE  TInv'
  <1>1. UNCHANGED <<journal, trim, doc, conn, since, up, posts, dirty, edits, others, breaks,
                    used, typed>> /\ down # <<>> /\ down' = Tail(down)
    BY DEF Receive, roomVars
  <1>2. /\ down' \in Seq(Frame)
        /\ \A k \in DOMAIN down' : \A j \in DOMAIN down'[k].ops :
              down'[k].ops[j].seq \in 1..Len(journal)
    <2>1. \A k \in DOMAIN down : \A j \in DOMAIN down[k].ops :
                down[k].ops[j].seq \in 1..Len(journal)
      BY TypesNow
    <2>2. /\ down' \in Seq(Frame) /\ DOMAIN down' = 1..(Len(down) - 1)
          /\ \A k \in 1..(Len(down) - 1) : down'[k] = down[k + 1] /\ k + 1 \in DOMAIN down
      BY <1>1, TailDown
    <2> QED
      BY <2>1, <2>2
  <1>3. CASE Head(down).error
    <2>1. /\ read' = [NoRead EXCEPT !.of = "ops", !.seq = session.cursor]
          /\ UNCHANGED <<session, world, seen, wounds>>
      BY <1>3 DEF Receive
    <2>2. session.cursor \in 0..Len(journal) /\ Len(journal) \in Nat
      BY Types DEF Session
    <2>3. read' \in ReadType /\ DOMAIN read'.ops = {} /\ read'.seq \in 0..Len(journal)
      <3> PICK c \in Nat : c = session.cursor
        BY <2>2
      <3>1. read' \in ReadType /\ read'.ops = NoRead.ops /\ read'.seq = c
        BY <2>1, NoReadType DEF ReadType
      <3> QED
        BY <2>2, <3>1, NoReadType
    <2>4. TypesNext
      BY <1>1, <1>2, <2>1, <2>3, TypesNow, SameSession DEF TypesNext
    <2> QED
      BY <2>4, Retyped
  <1>4. CASE ~Head(down).error
    <2>1. Show(IncomingAll(Page, Head(down).ops)) /\ read' = read
      BY <1>4 DEF Receive
    <2>2. Page \in Pages /\ journal \in Seq(OpValue) /\ down[1].ops \in Seq(RowOps)
          /\ Head(down) = down[1] /\ Len(down[1].ops) \in Nat
      BY <1>1, Types, TailDown, SeqFacts
    <2>3. PICK f \in [0..Len(down[1].ops) -> Pages] :
              f[Len(down[1].ops)] = IncomingAll(Page, down[1].ops)
      BY <2>2, IncomingRun
    <2>4. IncomingAll(Page, Head(down).ops) \in Pages
      BY <2>2, <2>3
    <2>5. /\ session' \in Session' /\ world' \in Doc
          /\ seen' \subseteq 1..Len(journal)' /\ wounds' \subseteq Wound
          /\ {x.n : x \in session'.pending} \subseteq session'.ids
      BY <1>1, <2>1, <2>4, ShowTypes
    <2>6. TypesNext
      BY <1>1, <1>2, <2>1, <2>5, TypesNow DEF TypesNext
    <2> QED
      BY <2>6, Retyped
  <1> QED
    BY <1>3, <1>4

\* A batch that is taken keeps the types, wherever it came from.
LEMMA TakenTypes ==
    ASSUME TInv, NEW ops \in Seq(OpValue), TakeBatch(ops),
           UNCHANGED <<trim, session, world, conn, since, read, dirty, edits, typed, seen>>,
           up' \in Seq(Seq(OpValue)), posts' \subseteq Post, others' \in 0..MaxOthers,
           \A p \in posts' : p.done => p \in posts \/ p.ops = Stamp(ops)
    PROVE  TInv'
  <1> DEFINE f == [error |-> FALSE, ops |-> Stamp(ops)]
  <1>1. /\ journal' \in Seq(OpValue) /\ Len(journal') = Len(journal) + Len(ops)
        /\ Len(ops) \in Nat /\ Len(journal) \in Nat
        /\ \A k \in 1..Len(journal) : journal'[k] = journal[k]
        /\ \A k \in 1..Len(ops) : journal'[Len(journal) + k] = Stamp(ops)[k]
        /\ doc' \in Doc /\ wounds' \subseteq Wound /\ used' \subseteq Icon
        /\ DOMAIN Stamp(ops) = 1..Len(ops)
        /\ \A k \in 1..Len(ops) : Stamp(ops)[k].seq \in 1..Len(journal')
        /\ breaks' = breaks
    BY TakeBatchFacts
  <1>2. f \in Frame /\ f.ops = Stamp(ops)
        /\ down' = IF conn = "open" THEN Append(down, f) ELSE down
    BY TakeBatchFacts
  <1> HIDE DEF f
  <1>3. Len(journal) <= Len(journal')
    BY <1>1
  <1>4. /\ \A k \in DOMAIN down : \A j \in DOMAIN down[k].ops :
                down[k].ops[j].seq \in 1..Len(journal')
        /\ \A p \in posts : \A j \in DOMAIN p.ops : p.done => p.ops[j].seq \in 1..Len(journal')
        /\ \A j \in DOMAIN read.ops : read.ops[j].seq \in 1..Len(journal')
        /\ read.seq \in 0..Len(journal')
        /\ session \in Session' /\ since \in 0..Len(journal') /\ trim \in 0..Len(journal')
        /\ seen \subseteq 1..Len(journal')
    BY <1>1, <1>3, StampedGrows
  <1>5. /\ down' \in Seq(Frame)
        /\ \A k \in DOMAIN down' : \A j \in DOMAIN down'[k].ops :
              down'[k].ops[j].seq \in 1..Len(journal')
    <2>0. down \in Seq(Frame) /\ DOMAIN down = 1..Len(down) /\ Len(down) \in Nat
      BY Types, SeqFacts
    <2>1. CASE conn = "open"
      <3>1. down' = Append(down, f)
        BY <1>2, <2>1
      <3>2. /\ down' \in Seq(Frame) /\ DOMAIN down' = 1..(Len(down) + 1)
            /\ down'[Len(down) + 1] = f /\ \A k \in 1..Len(down) : down'[k] = down[k]
        BY <1>2, <2>0, <3>1, AppendFacts
      <3>3. ASSUME NEW k \in DOMAIN down' 
            PROVE  \A j \in DOMAIN down'[k].ops : down'[k].ops[j].seq \in 1..Len(journal')
        <4>1. CASE k \in 1..Len(down)
          BY <1>4, <2>0, <3>2, <4>1
        <4>2. CASE k = Len(down) + 1
          BY <1>1, <1>2, <3>2, <4>2
        <4> QED
          BY <2>0, <3>2, <4>1, <4>2
      <3> QED
        BY <3>2, <3>3
    <2>2. CASE conn # "open"
      BY <1>2, <1>4, <2>0, <2>2
    <2> QED
      BY <2>1, <2>2
  <1>6. \A p \in posts' : \A j \in DOMAIN p.ops : p.done => p.ops[j].seq \in 1..Len(journal')
    BY <1>1, <1>4
  <1>7. \A k \in 1..Len(journal') : journal'[k].seq = k
    <2> SUFFICES ASSUME NEW k \in 1..Len(journal') PROVE journal'[k].seq = k
      OBVIOUS
    <2>1. CASE k \in 1..Len(journal)
      BY <1>1, <2>1, TypesNow
    <2>2. CASE k \notin 1..Len(journal)
      <3>1. PICK j \in 1..Len(ops) : Len(journal) + j = k
        <4>1. k - Len(journal) \in 1..Len(ops) /\ Len(journal) + (k - Len(journal)) = k
          BY <1>1, <2>2
        <4> QED
          BY <4>1
      <3>2. j \in DOMAIN ops /\ journal \in Seq(OpValue)
        BY Types, SeqFacts
      <3>3. Stamp(ops)[j].seq = Len(journal) + j
        BY <3>2, StampFacts
      <3>4. journal'[Len(journal) + j] = Stamp(ops)[j]
        BY <1>1
      <3> QED
        BY <3>1, <3>3, <3>4
    <2> QED
      BY <2>1, <2>2
  <1>8. TypesNext
    BY <1>1, <1>4, <1>5, <1>6, <1>7, TypesNow DEF TypesNext
  <1> QED
    BY <1>8, Retyped

LEMMA RefuseTypes ==
    ASSUME TInv, Refuse
    PROVE  /\ breaks' \in 0..MaxBreaks /\ wounds' \subseteq Wound
           /\ UNCHANGED <<journal, doc, used>>
  <1>1. breaks' \in 0..MaxBreaks
    BY TypesNow, CanvasClientAssumption DEF Refuse, CanvasClientAssumption
  <1> QED
    BY <1>1, Types DEF Refuse, Wound

LEMMA TailUp ==
    ASSUME TInv, up # <<>>
    PROVE  /\ Tail(up) \in Seq(Seq(OpValue)) /\ Head(up) = up[1] /\ up[1] \in Seq(OpValue)
           /\ DOMAIN up = 1..Len(up) /\ Len(up) \in Nat \ {0} /\ 1 \in DOMAIN up
           /\ DOMAIN Tail(up) = 1..(Len(up) - 1)
           /\ \A k \in 1..(Len(up) - 1) : Tail(up)[k] = up[k + 1] /\ k + 1 \in DOMAIN up
  <1>1. up \in Seq(Seq(OpValue))
    BY Types
  <1>2. /\ Tail(up) \in Seq(Seq(OpValue)) /\ Head(up) = up[1] /\ Head(up) \in Seq(OpValue)
        /\ DOMAIN up = 1..Len(up) /\ Len(up) \in Nat \ {0}
        /\ DOMAIN Tail(up) = 1..(Len(up) - 1)
        /\ \A k \in 1..(Len(up) - 1) : Tail(up)[k] = up[k + 1]
    BY <1>1, TailFacts
  <1>3. 1 \in DOMAIN up /\ \A k \in 1..(Len(up) - 1) : k + 1 \in DOMAIN up
    BY <1>2
  <1> QED
    BY <1>2, <1>3

LEMMA TakeFrameKeepsTypes ==
    ASSUME TInv, TakeFrame
    PROVE  TInv'
  <1>1. UNCHANGED <<trim, session, world, conn, since, posts, read, dirty,
                    edits, others, typed, seen>> /\ up # <<>> /\ up' = Tail(up)
    BY DEF TakeFrame
  <1>2. up' \in Seq(Seq(OpValue)) /\ Head(up) \in Seq(OpValue)
    BY <1>1, TailUp
  <1>3. CASE TakeBatch(Head(up))
    BY <1>1, <1>2, <1>3, TakenTypes, TypesNow
  <1>4. CASE Refuse /\ Broadcast([error |-> TRUE, ops |-> <<>>])
    <2> DEFINE f == [error |-> TRUE, ops |-> <<>>]
    <2>1. f \in Frame /\ f.ops = <<>> /\ DOMAIN f.ops = {}
      BY DEF Frame
    <2>2. down' = IF conn = "open" THEN Append(down, f) ELSE down
      BY <1>4 DEF Broadcast
    <2> HIDE DEF f
    <2>3. /\ down' \in Seq(Frame)
          /\ \A k \in DOMAIN down' : \A j \in DOMAIN down'[k].ops :
                down'[k].ops[j].seq \in 1..Len(journal)
      <3>0. down \in Seq(Frame) /\ DOMAIN down = 1..Len(down) /\ Len(down) \in Nat
        BY Types, SeqFacts
      <3>1. CASE conn = "open"
        <4>1. down' = Append(down, f)
          BY <2>2, <3>1
        <4>2. /\ down' \in Seq(Frame) /\ DOMAIN down' = 1..(Len(down) + 1)
              /\ down'[Len(down) + 1] = f /\ \A k \in 1..Len(down) : down'[k] = down[k]
          BY <2>1, <3>0, <4>1, AppendFacts
        <4>3. ASSUME NEW k \in DOMAIN down' 
              PROVE  \A j \in DOMAIN down'[k].ops : down'[k].ops[j].seq \in 1..Len(journal)
          <5>1. CASE k \in 1..Len(down)
            BY <3>0, <4>2, <5>1, TypesNow
          <5>2. CASE k = Len(down) + 1
            BY <2>1, <4>2, <5>2
          <5> QED
            BY <3>0, <4>2, <5>1, <5>2
        <4> QED
          BY <4>2, <4>3
      <3>2. CASE conn # "open"
        BY <2>2, <3>2, TypesNow
      <3> QED
        BY <3>1, <3>2
    <2>4. TypesNext
      BY <1>1, <1>2, <1>4, <2>3, RefuseTypes, TypesNow, SameSession DEF TypesNext
    <2> QED
      BY <2>4, Retyped
  <1> QED
    BY <1>3, <1>4 DEF TakeFrame

LEMMA TakePostKeepsTypes ==
    ASSUME TInv, TakePost
    PROVE  TInv'
  <1>1. UNCHANGED <<trim, session, world, conn, since, up, read, dirty,
                    edits, others, typed, seen>>
    BY DEF TakePost
  <1>2. PICK p \in posts :
          /\ ~p.done
          /\ \/ /\ posts' = (posts \ {p}) \cup {[ops |-> Stamp(p.ops), done |-> TRUE]}
                /\ TakeBatch(p.ops)
             \/ Refuse /\ posts' = posts \ {p} /\ UNCHANGED down
    BY DEF TakePost
  <1>3. posts \subseteq Post /\ p.ops \in Seq(OpValue)
    BY Types DEF Post
  <1>4. CASE /\ posts' = (posts \ {p}) \cup {[ops |-> Stamp(p.ops), done |-> TRUE]}
             /\ TakeBatch(p.ops)
    <2> DEFINE q == [ops |-> Stamp(p.ops), done |-> TRUE]
    <2>1. q \in Post /\ q.ops = Stamp(p.ops)
      BY <1>3, Types, StampFacts DEF Post
    <2> HIDE DEF q
    <2>2. posts' = (posts \ {p}) \cup {q}
      BY <1>4 DEF q
    <2>3. posts' \subseteq Post /\ \A x \in posts' : x.done => x \in posts \/ x.ops = Stamp(p.ops)
      BY <1>3, <2>1, <2>2
    <2> QED
      BY <1>1, <1>3, <1>4, <2>3, TakenTypes, TypesNow
  <1>5. CASE Refuse /\ posts' = posts \ {p} /\ UNCHANGED down
    <2>1. TypesNext
      BY <1>1, <1>3, <1>5, RefuseTypes, TypesNow, SameSession DEF TypesNext
    <2> QED
      BY <2>1, Retyped
  <1> QED
    BY <1>2, <1>4, <1>5

LEMMA PostAnsweredKeepsTypes ==
    ASSUME TInv, PostAnswered
    PROVE  TInv'
  <1>1. PICK p \in posts : /\ p.done /\ posts' = posts \ {p}
                           /\ Show(AckFrameAll(Page, p.ops))
                           /\ UNCHANGED <<journal, trim, doc, conn, since, up, down, read, dirty,
                                          edits, others, breaks, used, typed>>
    BY DEF PostAnswered, roomVars, wire
  <1>2. p.ops \in Seq(RowOps) /\ Len(p.ops) \in Nat
    <2>1. p.ops \in Seq(OpValue) /\ InJournal(p.ops)
      BY <1>1, Types DEF TInv, Stamped, Post
    <2> QED
      BY <2>1, RowsOfJournal, SeqFacts
  <1>3. Page \in Pages /\ journal \in Seq(OpValue)
    BY Types
  <1>4. PICK f \in [0..Len(p.ops) -> Pages] : f[Len(p.ops)] = AckFrameAll(Page, p.ops)
    BY <1>2, <1>3, AckFrameRun
  <1>5. AckFrameAll(Page, p.ops) \in Pages
    BY <1>2, <1>4
  <1>6. /\ session' \in Session' /\ world' \in Doc
        /\ seen' \subseteq 1..Len(journal)' /\ wounds' \subseteq Wound
        /\ {x.n : x \in session'.pending} \subseteq session'.ids
    BY <1>1, <1>5, ShowTypes
  <1>7. TypesNext
    BY <1>1, <1>6, TypesNow DEF TypesNext
  <1> QED
    BY <1>7, Retyped

LEMMA PostFailsKeepsTypes ==
    ASSUME TInv, PostFails
    PROVE  TInv'
  <1>1. PICK p \in posts : /\ posts' = posts \ {p}
                           /\ wounds' = wounds \cup IF p.done THEN {} ELSE {"lost"}
                           /\ UNCHANGED <<journal, trim, doc, session, world, conn, since, up,
                                          down, read, dirty, edits, others, used, typed, seen>>
    BY DEF PostFails, roomVars, wire
  <1>2. wounds' \subseteq Wound
    BY <1>1, Types DEF Wound
  <1>3. breaks' \in 0..MaxBreaks
    BY TypesNow, CanvasClientAssumption DEF PostFails, CanvasClientAssumption
  <1>4. TypesNext
    BY <1>1, <1>2, <1>3, TypesNow, SameSession DEF TypesNext
  <1> QED
    BY <1>4, Retyped

LEMMA TrimKeepsTypes ==
    ASSUME TInv, Trim
    PROVE  TInv'
  <1>1. UNCHANGED <<journal, doc, session, world, conn, since, up, down, posts, read, dirty,
                    edits, others, breaks, used, typed, seen, wounds>>
        /\ trim' = Len(journal)
    BY DEF Trim, wire, history
  <1>2. trim' \in 0..Len(journal')
    BY <1>1, Types
  <1>3. TypesNext
    BY <1>1, <1>2, TypesNow, SameSession DEF TypesNext
  <1> QED
    BY <1>3, Retyped

LEMMA OthersKeepsTypes ==
    ASSUME TInv, Others
    PROVE  TInv'
  <1>1. UNCHANGED <<trim, session, world, conn, since, up, posts, read, dirty,
                    edits, typed, seen>>
    BY DEF Others
  <1>2. PICK i \in Icon, v \in Val \cup {Absent} :
          LET op == [kind |-> IF i \notin used THEN "add"
                              ELSE IF v = Absent THEN "remove" ELSE "set",
                     item |-> i, val |-> v, n |-> 0, seq |-> 0]
          IN  /\ i \notin used => v # Absent /\ i \notin Minted
              /\ TakeBatch(<<op>>)
    BY DEF Others
  <1> DEFINE op == [kind |-> IF i \notin used THEN "add"
                              ELSE IF v = Absent THEN "remove" ELSE "set",
                     item |-> i, val |-> v, n |-> 0, seq |-> 0]
  <1>3. op \in OpValue
    BY DEF OpValue
  <1>4. TakeBatch(<<op>>)
    BY <1>2
  <1> HIDE DEF op
  <1>5. <<op>> \in Seq(OpValue)
    BY <1>3
  <1>6. others' \in 0..MaxOthers
    BY TypesNow, CanvasClientAssumption DEF Others, CanvasClientAssumption
  <1> QED
    BY <1>1, <1>4, <1>5, <1>6, TakenTypes, TypesNow

LEMMA EditKeepsTypes ==
    ASSUME TInv, Edit
    PROVE  TInv'
  <1>1. UNCHANGED <<journal, trim, doc, session, conn, since, up, down, posts, read, others,
                    breaks, used, seen, wounds>>
    BY DEF Edit, roomVars, wire
  <1>2. PICK i \in Icon, v \in Val \cup {Absent} :
          /\ world' = [world EXCEPT ![i] = v]
          /\ dirty' = dirty \cup {i}
          /\ typed' = typed \cup {<<i, v>>}
    BY DEF Edit
  <1>3. /\ world' \in Doc /\ dirty' \subseteq Icon
        /\ typed' \subseteq Icon \X (Val \cup {Absent})
    BY <1>2, Types DEF Doc
  <1>4. edits' \in 0..MaxEdits
    BY TypesNow, CanvasClientAssumption DEF Edit, CanvasClientAssumption
  <1>5. TypesNext
    BY <1>1, <1>3, <1>4, TypesNow, SameSession DEF TypesNext
  <1> QED
    BY <1>5, Retyped

LEMMA StutterKeepsTypes ==
    ASSUME TInv, UNCHANGED vars
    PROVE  TInv'
  <1>1. TypesNext
    BY TypesNow, SameSession DEF TypesNext, vars
  <1> QED
    BY <1>1, Retyped

LEMMA InitTypes ==
    ASSUME Init
    PROVE  TInv
  <1>1. CanvasClientAssumption
    BY CanvasClientAssumption
  <1>2. Void \in Doc
    BY DEF Void, Doc
  <1>3. doc \in Doc /\ used \subseteq Icon
    BY <1>1 DEF Init, Doc, CanvasClientAssumption
  <1>4. session.pending = {} /\ {p.n : p \in session.pending} = {}
    BY DEF Init, Born
  <1>5. /\ session \in [phase : {"cold", "live", "inert"}, cursor : 0..0,
                    baseline : Doc, pending : SUBSET OpValue, ids : SUBSET Nat, n : Nat]
    BY <1>2 DEF Init, Born
  <1>6. /\ journal = <<>> /\ Len(journal) = 0 /\ DOMAIN journal = {} /\ journal \in Seq(OpValue)
        /\ up \in Seq(Seq(OpValue)) /\ down \in Seq(Frame) /\ DOMAIN down = {}
    BY DEF Init
  <1>7. read \in ReadType /\ DOMAIN read.ops = {} /\ read.seq = 0
    BY NoReadType DEF Init
  <1>8. edits \in 0..MaxEdits /\ others \in 0..MaxOthers /\ breaks \in 0..MaxBreaks
    BY <1>1 DEF Init, CanvasClientAssumption
  <1>9. /\ trim = 0 /\ since = 0 /\ world = Void /\ conn = "none" /\ posts = {} /\ dirty = {}
        /\ typed = {} /\ seen = {} /\ wounds = {}
    BY DEF Init
  <1>10. TypeOK
    BY <1>2, <1>3, <1>4, <1>5, <1>6, <1>7, <1>8, <1>9 DEF TypeOK, Frame, ReadType
  <1>11. Stamped
    BY <1>6, <1>7, <1>9 DEF Stamped, InJournal
  <1>12. Seqs
    BY <1>6 DEF Seqs
  <1> QED
    BY <1>10, <1>11, <1>12 DEF TInv

LEMMA NextKeepsTypes ==
    ASSUME TInv, [Next]_vars
    PROVE  TInv'
  BY SaveKeepsTypes, ActivateKeepsTypes, AdoptKeepsTypes, RebaseOpsKeepsTypes,
     RebaseSnapshotKeepsTypes, ServeReadKeepsTypes, ReadFailsKeepsTypes, JoinKeepsTypes,
     DropKeepsTypes, LadderFiresKeepsTypes, ReceiveKeepsTypes, TakeFrameKeepsTypes,
     TakePostKeepsTypes, PostAnsweredKeepsTypes, PostFailsKeepsTypes, TrimKeepsTypes,
     OthersKeepsTypes, EditKeepsTypes, StutterKeepsTypes
  DEF Next, SessionNext, RoomNext

LEMMA TypesHold == Spec => []TInv
  <1>1. Init => TInv
    BY InitTypes
  <1>2. TInv /\ [Next]_vars => TInv'
    BY NextKeepsTypes
  <1> QED
    BY <1>1, <1>2, PTL DEF Spec

\* Whatever the user, the others, the room and the network do, every variable
\* stays in its type; in particular the cursor and what the page believes to
\* have seen never leave the journal, and every pending op is one the session
\* would know as its own (SharedDocSession's pending and pendingById).
THEOREM TypeCorrect == Spec => []TypeOK
  <1>1. TInv => TypeOK
    BY DEF TInv
  <1> QED
    BY <1>1, TypesHold, PTL

-----------------------------------------------------------------------------
(* The unwounded session: what holds of the room's side of it              *)

\* An op as it was sent.
Bare(op) == [op EXCEPT !.seq = 0]

\* The ops of this device the room has not read yet.
Sent == {p \in posts : ~p.done}
Flying == (UNION {Range(up[k]) : k \in DOMAIN up}) \cup (UNION {Range(p.ops) : p \in Sent})

\* A batch of diffDocs: one op per icon, numbered upwards.
IsBatch(ops) ==
    /\ ops # <<>>
    /\ \A k \in DOMAIN ops : /\ ops[k].n \in 1..session.n /\ ops[k].seq = 0
                             /\ ops[k].kind = "remove" <=> ops[k].val = Absent
    /\ \A j, k \in DOMAIN ops : j < k => ops[j].n < ops[k].n /\ ops[j].item # ops[k].item

Apart(a, b) == \A j \in DOMAIN a, k \in DOMAIN b : a[j].n # b[k].n

\* What is under way to the room: batches, no op in two of them and none that
\* the room has stamped already.
Outgoing ==
    /\ \A k \in DOMAIN up : IsBatch(up[k])
    /\ \A p \in Sent : IsBatch(p.ops)
    /\ \A j, k \in DOMAIN up : j # k => Apart(up[j], up[k])
    /\ \A k \in DOMAIN up, p \in Sent : Apart(up[k], p.ops)
    /\ \A p, q \in Sent : p # q => Apart(p.ops, q.ops)
    /\ \A u \in Flying, k \in DOMAIN journal : journal[k].n # u.n
    /\ conn # "open" => up = <<>>

\* The rows of the journal: this device's in the order it numbered them.
Rows ==
    /\ \A k \in DOMAIN journal : /\ journal[k].n \in 0..session.n
                                 /\ journal[k].item \in used
                                 /\ journal[k].kind = "remove" <=> journal[k].val = Absent
    /\ \A j, k \in DOMAIN journal :
           j < k /\ journal[j].n > 0 /\ journal[k].n > 0 => journal[j].n < journal[k].n

\* The docs the room has had: R[k] is the doc after k rows.
Docs(R) ==
    /\ R \in [0..Len(journal) -> Doc]
    /\ \A k \in 1..Len(journal) : R[k] = Apply(R[k - 1], journal[k])
    /\ R[Len(journal)] = doc
    /\ \A k \in 0..Len(journal), i \in Icon : R[k][i] # Absent => i \in used

\* An add is the first the room hears of an icon, a remove the last it makes
\* of it.
Lives(R) ==
    \A s \in DOMAIN journal :
        /\ journal[s].kind = "add" =>
               \A k \in 0..(s - 1) : /\ R[k][journal[s].item] = Absent
                                     /\ k > 0 => journal[k].item # journal[s].item
        /\ journal[s].kind = "remove" =>
               \A k \in s..Len(journal) : R[k][journal[s].item] = Absent

\* Whatever is said in this device's name its user made.
OwnWords ==
    /\ \A u \in Flying : <<u.item, u.val>> \in typed
    /\ \A k \in DOMAIN journal :
           journal[k].n > 0 => <<journal[k].item, journal[k].val>> \in typed

\* An add under way is the first of its icon, unless it will come too late.
AddsAreFresh ==
    \A u \in Flying : u.kind = "add" =>
        /\ u.item \in used => \E k \in DOMAIN journal : journal[k].n > u.n
        /\ \A k \in DOMAIN journal : journal[k].item = u.item => journal[k].kind # "add"

\* The rows of journal J after row k.
Continues(J, ops, k) == \A j \in DOMAIN ops : k + j \in DOMAIN J /\ ops[j] = J[k + j]

\* A frame with them.
Follows(J, f, k) == ~f.error /\ f.ops # <<>> /\ Continues(J, f.ops, k)

\* Frames that lead from row c, or an earlier one, on to the end of J.
Leads(J, frames, c) ==
    \E from \in [DOMAIN frames -> Nat] :
        /\ from[1] <= c
        /\ \A j \in DOMAIN frames : Follows(J, frames[j], from[j])
        /\ \A j \in DOMAIN frames :
             from[j] + Len(frames[j].ops) = IF j = Len(frames) THEN Len(J) ELSE from[j + 1]

\* The frames of an open socket: from a row the page has heard, or the next
\* one, on to the end of the journal.
Arriving ==
    /\ conn # "open" => down = <<>>
    /\ conn = "open" /\ down = <<>> => session.cursor = Len(journal)
    /\ down # <<>> => Leads(journal, down, session.cursor)

\* What the other doors have answered.
Answered(R) ==
    /\ since <= session.cursor
    /\ \A p \in posts : p.done =>
           \A j \in DOMAIN p.ops : p.ops[j] = journal[p.ops[j].seq] /\ p.ops[j].n > 0
    /\ read.of \in {"none", "adopt", "gotAdopt"}
    /\ read.of # "none" => session.phase = "cold"
    /\ read.of = "gotAdopt" => read.doc = R[read.seq]

\* Before an adoption, or after one that failed, nothing has happened.
Asleep ==
    session.phase # "live" =>
        /\ session.cursor = 0 /\ session.baseline = Void
        /\ session.pending = {} /\ session.ids = {}
        /\ up = <<>> /\ posts = {} /\ conn = "none" /\ seen = {}
        /\ \A k \in DOMAIN journal : journal[k].n = 0

RoomOK(R) ==
    /\ Outgoing /\ Rows /\ Docs(R) /\ Lives(R) /\ OwnWords /\ AddsAreFresh
    /\ Arriving /\ Answered(R) /\ Asleep

-----------------------------------------------------------------------------
(* ... and of a page p                                                     *)

OnIcon(p, i) == {q \in p.s.pending : q.item = i}

\* The ops that wait for their ack: under way, or stamped and not heard.
Waiting(p) ==
    /\ p.seen = 1..p.s.cursor
    /\ p.s.ids = {q.n : q \in p.s.pending}
    /\ p.s.pending = Flying \cup
         {Bare(journal[k]) : k \in {x \in DOMAIN journal : journal[x].n > 0 /\ x > p.s.cursor}}

\* An icon the baseline lacks and the world has is news to everyone.
Fresh(p, i) ==
    p.s.baseline[i] = Absent /\ p.w[i] # Absent => i \notin used /\ OnIcon(p, i) = {}

\* Where the world has left the baseline its user made it so.
Meant(p, i) == p.w[i] # p.s.baseline[i] => <<i, p.w[i]>> \in typed

Known(p, i) ==
    p.s.baseline[i] # Absent \/ p.w[i] # Absent => i \in used \cup Minted

\* What the ops that wait say of the icon.
Spoken(p, i) ==
    \A q \in OnIcon(p, i) :
        \/ p.w[i] = Absent /\ p.s.baseline[i] = Absent
        \/ q.kind # "remove" /\ <<i, p.w[i]>> \in typed

\* Of one icon an add can only be the first word, a remove only the last.
Sorted(p, i) ==
    \A x, y \in OnIcon(p, i) : x.n < y.n => x.kind # "remove" /\ y.kind # "add"

\* The page knows nothing of an icon whose add it has yet to hear.
Unheard(p, i) ==
    \A k \in DOMAIN journal :
        k > p.s.cursor /\ journal[k].kind = "add" /\ journal[k].n = 0 /\ journal[k].item = i
        => i \notin Minted /\ p.w[i] = Absent /\ p.s.baseline[i] = Absent

IconOK(p, i) ==
    /\ Fresh(p, i) /\ Meant(p, i) /\ Known(p, i)
    /\ Spoken(p, i) /\ Sorted(p, i) /\ Unheard(p, i)

\* The icon will be gone once the ops that wait are on top of the doc heard.
Gone(R, p, i) ==
    \/ \E q \in OnIcon(p, i) : q.kind = "remove"
    \/ R[p.s.cursor][i] = Absent /\ \A q \in OnIcon(p, i) : q.kind # "add"

\* Baseline and world are that doc: the baseline as to which icons there are,
\* the world, but for what the user has just touched, as to their values.
Agrees(R, p, i) ==
    /\ p.s.baseline[i] = Absent <=> Gone(R, p, i)
    /\ i \notin dirty =>
         /\ Gone(R, p, i) => p.w[i] = Absent
         /\ ~Gone(R, p, i) /\ OnIcon(p, i) = {} => p.w[i] = R[p.s.cursor][i]
         /\ ~Gone(R, p, i) => \A q \in OnIcon(p, i) :
              (\A x \in OnIcon(p, i) : x.n <= q.n) => p.w[i] = q.val

\* The room has taken no op before an older one of this device.
Orderly == \A u \in Flying, k \in DOMAIN journal : journal[k].n < u.n

PageOK(R, p) ==
    /\ Waiting(p)
    /\ \A i \in Icon : IconOK(p, i)
    /\ Orderly /\ p.s.phase = "live" => \A i \in Icon : Agrees(R, p, i)

Sound == wounds = {} => \E R \in [0..Len(journal) -> Doc] : RoomOK(R) /\ PageOK(R, Page)

-----------------------------------------------------------------------------
(* What the invariant says of one op                                       *)

LEMMA TopIs == ASSUME NEW c \in Nat PROVE Top(1..c) = c
  <1>1. CASE c = 0
    BY <1>1 DEF Top
  <1>2. CASE c # 0
    <2>1. c \in 1..c /\ \A j \in 1..c : j <= c
      BY <1>2
    <2> DEFINE k == CHOOSE k \in 1..c : \A j \in 1..c : j <= k
    <2>2. k \in 1..c /\ \A j \in 1..c : j <= k
      BY <2>1
    <2>3. k = c
      BY <2>1, <2>2
    <2>4. 1..c # {}
      BY <2>1
    <2> QED
      BY <2>3, <2>4 DEF Top
  <1> QED
    BY <1>1, <1>2

LEMMA OpFields ==
    ASSUME NEW op \in OpValue
    PROVE  /\ op.kind \in {"add", "set", "remove"} /\ op.item \in Icon
           /\ op.val \in Val \cup {Absent} /\ op.n \in Nat /\ op.seq \in Nat
  BY DEF OpValue

LEMMA BareFacts ==
    ASSUME NEW op \in OpValue
    PROVE  /\ Bare(op) \in OpValue
           /\ Bare(op).kind = op.kind /\ Bare(op).item = op.item /\ Bare(op).val = op.val
           /\ Bare(op).n = op.n /\ Bare(op).seq = 0
           /\ op.seq = 0 => Bare(op) = op
           /\ \A s \in Nat : Bare([op EXCEPT !.seq = s]) = Bare(op)
  BY DEF Bare, OpValue

LEMMA FlyingIs ==
    ASSUME NEW u
    PROVE  u \in Flying <=> \/ \E k \in DOMAIN up : \E j \in DOMAIN up[k] : u = up[k][j]
                            \/ \E p \in Sent : \E j \in DOMAIN p.ops : u = p.ops[j]
  BY DEF Flying, Range

LEMMA FlyingFacts ==
    ASSUME TInv, Outgoing, NEW u \in Flying
    PROVE  /\ u \in OpValue /\ u.n \in 1..session.n /\ u.seq = 0
           /\ u.kind = "remove" <=> u.val = Absent
           /\ \A k \in DOMAIN journal : journal[k].n # u.n
  <1>1. CASE \E k \in DOMAIN up : \E j \in DOMAIN up[k] : u = up[k][j]
    <2>1. PICK k \in DOMAIN up : \E j \in DOMAIN up[k] : u = up[k][j]
      BY <1>1
    <2>2. PICK j \in DOMAIN up[k] : u = up[k][j]
      BY <2>1
    <2>3. up[k] \in Seq(OpValue)
      BY Types, SeqFacts
    <2>4. u \in OpValue
      BY <2>2, <2>3, SeqFacts
    <2>5. IsBatch(up[k])
      BY DEF Outgoing
    <2> QED
      BY <2>2, <2>4, <2>5 DEF IsBatch, Outgoing
  <1>2. CASE \E p \in Sent : \E j \in DOMAIN p.ops : u = p.ops[j]
    <2>1. PICK p \in Sent : \E j \in DOMAIN p.ops : u = p.ops[j]
      BY <1>2
    <2>2. PICK j \in DOMAIN p.ops : u = p.ops[j]
      BY <2>1
    <2>3. p.ops \in Seq(OpValue)
      BY Types DEF Sent, Post
    <2>4. u \in OpValue
      BY <2>2, <2>3, SeqFacts
    <2>5. IsBatch(p.ops)
      BY DEF Outgoing
    <2> QED
      BY <2>2, <2>4, <2>5 DEF IsBatch, Outgoing
  <1> QED
    BY <1>1, <1>2, FlyingIs

\* A row of the journal.
LEMMA RowFacts ==
    ASSUME TInv, Rows, NEW s \in 1..Len(journal)
    PROVE  /\ journal[s] \in OpValue /\ journal[s] \in RowOps /\ journal[s].seq = s
           /\ journal[s].kind \in {"add", "set", "remove"} /\ journal[s].item \in Icon
           /\ journal[s].val \in Val \cup {Absent} /\ journal[s].n \in 0..session.n
           /\ journal[s].item \in used
           /\ journal[s].kind = "remove" <=> journal[s].val = Absent
           /\ s \in Nat /\ session.n \in Nat /\ Len(journal) \in Nat
  <1>1. DOMAIN journal = 1..Len(journal) /\ journal[s] \in OpValue /\ Len(journal) \in Nat
    BY Types
  <1>2. journal[s].seq = s
    BY TypesNow
  <1>3. session.n \in Nat
    BY Types DEF Session
  <1> QED
    BY <1>1, <1>2, <1>3, OpFields DEF Rows, RowOps

\* The docs before and after a row.
LEMMA DocFacts ==
    ASSUME TInv, NEW R, Rows, Docs(R), NEW s \in 1..Len(journal)
    PROVE  /\ R[s - 1] \in Doc /\ R[s] \in Doc /\ s - 1 \in 0..Len(journal)
           /\ \A i \in Icon : i # journal[s].item => R[s][i] = R[s - 1][i]
           /\ R[s][journal[s].item] =
                CASE journal[s].kind = "add" ->
                       IF R[s - 1][journal[s].item] = Absent THEN journal[s].val
                       ELSE R[s - 1][journal[s].item]
                  [] journal[s].kind = "set" ->
                       IF R[s - 1][journal[s].item] # Absent THEN journal[s].val ELSE Absent
                  [] journal[s].kind = "remove" -> Absent
  <1>1. Len(journal) \in Nat /\ s - 1 \in 0..Len(journal) /\ s \in 0..Len(journal)
    BY Types
  <1>2. R[s - 1] \in Doc /\ R[s] \in Doc /\ R[s] = Apply(R[s - 1], journal[s])
    BY <1>1 DEF Docs
  <1> PICK op \in OpValue : op = journal[s]
    BY RowFacts
  <1> PICK d \in Doc : d = R[s - 1]
    BY <1>2
  <1>3. R[s] = Apply(d, op)
    BY <1>2
  <1>4. /\ \A i \in Icon : i # op.item => Apply(d, op)[i] = d[i]
        /\ Apply(d, op)[op.item] =
                CASE op.kind = "add" -> IF d[op.item] = Absent THEN op.val ELSE d[op.item]
                  [] op.kind = "set" -> IF d[op.item] # Absent THEN op.val ELSE Absent
                  [] op.kind = "remove" -> Absent
    BY ApplyType
  <1> QED
    BY <1>1, <1>2, <1>3, <1>4

LEMMA MintedBy == ASSUME NEW i, NEW v, <<i, v>> \in typed PROVE i \in Minted
  BY DEF Minted

\* An op that waits is under way, or stamped and not heard.
LEMMA PendingCases ==
    ASSUME TInv, Outgoing, Rows, OwnWords, NEW p, Waiting(p), NEW x \in p.s.pending
    PROVE  /\ x \in OpValue /\ <<x.item, x.val>> \in typed /\ x.item \in Minted
           /\ x.n \in 1..session.n
           /\ \/ x \in Flying /\ \A k \in 1..Len(journal) : journal[k].n # x.n
              \/ \E k \in 1..Len(journal) :
                   /\ k > p.s.cursor /\ x = Bare(journal[k]) /\ journal[k].n > 0
                   /\ x.n = journal[k].n /\ x.item = journal[k].item
                   /\ x.val = journal[k].val /\ x.kind = journal[k].kind
  <1>1. DOMAIN journal = 1..Len(journal)
    BY Types
  <1>2. CASE x \in Flying
    <2>1. /\ x \in OpValue /\ x.n \in 1..session.n
          /\ \A k \in DOMAIN journal : journal[k].n # x.n
      BY <1>2, FlyingFacts
    <2>2. <<x.item, x.val>> \in typed
      BY <1>2 DEF OwnWords
    <2> QED
      BY <1>1, <1>2, <2>1, <2>2, MintedBy
  <1>3. CASE x \notin Flying
    <2>1. PICK k \in DOMAIN journal : k > p.s.cursor /\ journal[k].n > 0 /\ x = Bare(journal[k])
      BY <1>3 DEF Waiting
    <2>2. /\ journal[k] \in OpValue /\ journal[k].n \in 0..session.n /\ session.n \in Nat
      BY <1>1, RowFacts
    <2>3. <<journal[k].item, journal[k].val>> \in typed
      BY <2>1 DEF OwnWords
    <2>4. /\ x \in OpValue /\ x.n = journal[k].n /\ x.item = journal[k].item
          /\ x.val = journal[k].val /\ x.kind = journal[k].kind
      BY <2>1, <2>2, BareFacts
    <2>5. x.n \in 1..session.n
      BY <2>1, <2>2, <2>4
    <2> QED
      BY <1>1, <2>1, <2>3, <2>4, <2>5, MintedBy
  <1> QED
    BY <1>2, <1>3

\* After a row about an icon no add of it comes.
LEMMA NoAddComes ==
    ASSUME TInv, NEW R, Lives(R), NEW s \in 1..Len(journal), NEW k \in 1..Len(journal),
           s < k, journal[k].item = journal[s].item
    PROVE  journal[k].kind # "add"
  <1>1. s \in 0..(k - 1) /\ s > 0 /\ DOMAIN journal = 1..Len(journal)
    BY Types
  <1> QED
    BY <1>1 DEF Lives

-----------------------------------------------------------------------------
(* A page hears one row                                                    *)

\* A page that knows what the invariant asks of it.
Knows(R, p) == TInv /\ RoomOK(R) /\ p \in Pages /\ PageOK(R, p)

LEMMA IconKept ==
    ASSUME TInv, NEW p, NEW q, NEW i, IconOK(p, i),
           q.w[i] = p.w[i], q.s.baseline[i] = p.s.baseline[i],
           OnIcon(q, i) \subseteq OnIcon(p, i),
           p.s.cursor \in Nat, q.s.cursor \in Nat, p.s.cursor <= q.s.cursor
    PROVE  IconOK(q, i)
  <1>1. Fresh(q, i) /\ Meant(q, i) /\ Known(q, i)
    BY DEF IconOK, Fresh, Meant, Known
  <1>2. Spoken(q, i) /\ Sorted(q, i)
    BY DEF IconOK, Spoken, Sorted
  <1>3. Unheard(q, i)
    <2>1. DOMAIN journal \subseteq Nat
      BY Types
    <2>2. \A k \in DOMAIN journal : k > q.s.cursor => k > p.s.cursor
      BY <2>1
    <2> QED
      BY <2>2 DEF IconOK, Unheard
  <1> QED
    BY <1>1, <1>2, <1>3 DEF IconOK

LEMMA AgreesKept ==
    ASSUME NEW R, NEW p, NEW q, NEW i, Agrees(R, p, i),
           q.w[i] = p.w[i], q.s.baseline[i] = p.s.baseline[i],
           OnIcon(q, i) = OnIcon(p, i),
           R[q.s.cursor][i] = R[p.s.cursor][i]
    PROVE  Agrees(R, q, i)
  <1>1. Gone(R, q, i) <=> Gone(R, p, i)
    BY DEF Gone
  <1> QED
    BY <1>1 DEF Agrees

\* No add waits for an icon of a row that was heard, unless it comes too late.
LEMMA NoAddWaits ==
    ASSUME NEW R, NEW p, Knows(R, p), NEW s \in 1..Len(journal),
           s <= p.s.cursor + 1, s <= p.s.cursor \/ journal[s].n = 0,
           NEW x \in OnIcon(p, journal[s].item), x.kind = "add"
    PROVE  ~Orderly /\ journal[s].kind # "add"
  <1>1. /\ TInv /\ Outgoing /\ Rows /\ OwnWords /\ Waiting(p) /\ Lives(R) /\ AddsAreFresh
        /\ DOMAIN journal = 1..Len(journal) /\ Len(journal) \in Nat /\ p.s.cursor \in Nat
    BY Types, PageFields DEF Knows, RoomOK, PageOK
  <1>2. x \in p.s.pending /\ x.item = journal[s].item
    BY DEF OnIcon
  <1>3. CASE x \in Flying
    <2>1. journal[s].item \in used
      BY <1>1, RowFacts
    <2>2. PICK k \in DOMAIN journal : journal[k].n > x.n
      BY <1>1, <1>2, <1>3, <2>1 DEF AddsAreFresh
    <2>3. journal[k].n \in Nat /\ x.n \in Nat
      BY <1>1, <1>3, <2>2, RowFacts, FlyingFacts
    <2>4. ~Orderly
      BY <1>3, <2>2, <2>3 DEF Orderly
    <2>5. journal[s].kind # "add"
      BY <1>1, <1>2, <1>3 DEF AddsAreFresh
    <2> QED
      BY <2>4, <2>5
  <1>4. CASE x \notin Flying
    <2>1. PICK k \in 1..Len(journal) :
              /\ k > p.s.cursor /\ journal[k].n > 0
              /\ x.item = journal[k].item /\ x.kind = journal[k].kind
      BY <1>1, <1>2, <1>4, PendingCases
    <2>2. s < k
      BY <1>1, <2>1
    <2> QED
      BY <1>1, <1>2, <2>1, <2>2, NoAddComes
  <1> QED
    BY <1>3, <1>4

\* Nothing waits for an icon that this device has not made up or touched.
LEMMA QuietIcon ==
    ASSUME NEW R, NEW p, Knows(R, p), NEW i \in Icon, i \notin Minted
    PROVE  OnIcon(p, i) = {}
  <1>1. TInv /\ Outgoing /\ Rows /\ OwnWords /\ Waiting(p)
    BY DEF Knows, RoomOK, PageOK
  <1>2. \A x \in p.s.pending : x.item \in Minted
    BY <1>1, PendingCases
  <1> QED
    BY <1>2 DEF OnIcon

\* What row s leaves of the news.
LEMMA UnheardNow ==
    ASSUME NEW R, TInv, Lives(R), NEW s \in 1..Len(journal), NEW q,
           q.s.cursor \in Nat, s <= q.s.cursor
    PROVE  Unheard(q, journal[s].item)
  <1>1. DOMAIN journal = 1..Len(journal)
    BY Types
  <1> SUFFICES ASSUME NEW k \in DOMAIN journal, k > q.s.cursor, journal[k].kind = "add",
                      journal[k].item = journal[s].item
               PROVE  FALSE
    BY DEF Unheard
  <1>2. s < k
    BY <1>1
  <1> QED
    BY <1>1, <1>2, NoAddComes

Heard(p, q, s) ==
    /\ q \in Pages /\ q.s.cursor = s /\ q.seen = p.seen \cup {s}
    /\ q.s.phase = p.s.phase /\ q.s.n = p.s.n
    /\ s \in 1..Len(journal) /\ s = p.s.cursor + 1

\* Another's row, just after the last one heard.
HeardForeign(p, q, s) ==
    /\ Heard(p, q, s) /\ journal[s].n = 0
    /\ q.s.ids = p.s.ids /\ q.s.pending = p.s.pending
    /\ q.s.baseline = Apply(p.s.baseline, journal[s])
    /\ q.w = IF Covered(p.s.pending, journal[s]) THEN p.w ELSE Apply(p.w, journal[s])

\* One of this device's rows.
HeardOwn(p, q, s) ==
    /\ Heard(p, q, s) /\ journal[s].n > 0
    /\ q.s.ids = p.s.ids \ {journal[s].n}
    /\ q.s.pending = {x \in p.s.pending : x.n # journal[s].n}
    /\ q.s.baseline = p.s.baseline /\ q.w = p.w

\* A row heard before.
HeardAgain(p, q, s) ==
    /\ q \in Pages /\ q.s.cursor = p.s.cursor /\ q.seen = p.seen
    /\ q.s.phase = p.s.phase /\ q.s.n = p.s.n
    /\ s \in 1..Len(journal) /\ s <= p.s.cursor
    /\ q.s.ids = p.s.ids /\ q.s.pending = p.s.pending
    /\ q.s.baseline = Apply(p.s.baseline, journal[s])
    /\ q.w = p.w
    /\ q.w = IF Covered(p.s.pending, journal[s]) THEN p.w ELSE Apply(p.w, journal[s])

\* The values of the icon of a row, before and after.
LEMMA HeardValues ==
    ASSUME NEW R, NEW p, Knows(R, p), NEW s \in 1..Len(journal)
    PROVE  /\ \A i \in Icon : i # journal[s].item =>
                /\ Apply(p.s.baseline, journal[s])[i] = p.s.baseline[i]
                /\ Apply(p.w, journal[s])[i] = p.w[i]
           /\ journal[s].kind = "add" =>
                /\ p.s.baseline[journal[s].item] = Absent =>
                     Apply(p.s.baseline, journal[s])[journal[s].item] = journal[s].val
                /\ p.s.baseline[journal[s].item] # Absent =>
                     Apply(p.s.baseline, journal[s])[journal[s].item] = p.s.baseline[journal[s].item]
                /\ p.w[journal[s].item] = Absent =>
                     Apply(p.w, journal[s])[journal[s].item] = journal[s].val
           /\ journal[s].kind = "set" =>
                /\ p.s.baseline[journal[s].item] # Absent =>
                     Apply(p.s.baseline, journal[s])[journal[s].item] = journal[s].val
                /\ p.s.baseline[journal[s].item] = Absent =>
                     Apply(p.s.baseline, journal[s])[journal[s].item] = Absent
                /\ p.w[journal[s].item] # Absent =>
                     Apply(p.w, journal[s])[journal[s].item] = journal[s].val
                /\ p.w[journal[s].item] = Absent =>
                     Apply(p.w, journal[s])[journal[s].item] = Absent
           /\ journal[s].kind = "remove" =>
                /\ Apply(p.s.baseline, journal[s])[journal[s].item] = Absent
                /\ Apply(p.w, journal[s])[journal[s].item] = Absent
  <1>1. TInv /\ Rows /\ p \in Pages
    BY DEF Knows, RoomOK
  <1> PICK op \in OpValue : op = journal[s]
    BY <1>1, RowFacts
  <1>2. p.w \in Doc /\ p.s.baseline \in Doc
    BY <1>1, PageFields
  <1> PICK w \in Doc : w = p.w
    BY <1>2
  <1> PICK b \in Doc : b = p.s.baseline
    BY <1>2
  <1>3. ASSUME NEW d \in Doc
        PROVE  /\ \A i \in Icon : i # op.item => Apply(d, op)[i] = d[i]
               /\ op.kind = "add" => Apply(d, op)[op.item] =
                                       IF d[op.item] = Absent THEN op.val ELSE d[op.item]
               /\ op.kind = "set" => Apply(d, op)[op.item] =
                                       IF d[op.item] # Absent THEN op.val ELSE Absent
               /\ op.kind = "remove" => Apply(d, op)[op.item] = Absent
    BY ApplyType
  <1> QED
    BY <1>3

\* Whether a row of another is covered, icon by icon.
LEMMA CoveredIs ==
    ASSUME NEW p, NEW op
    PROVE  Covered(p.s.pending, op) <=>
             \E x \in OnIcon(p, op.item) :
                 x.kind = op.kind \/ (op.kind = "set" /\ x.kind = "add")
  BY DEF Covered, OnIcon

\* What all rows have in common.
LEMMA HeardCommon ==
    ASSUME NEW R, NEW p, Knows(R, p), NEW s \in 1..Len(journal)
    PROVE  /\ TInv /\ Outgoing /\ Rows /\ Docs(R) /\ Lives(R) /\ OwnWords /\ AddsAreFresh
           /\ Waiting(p) /\ p \in Pages /\ p.s.cursor \in Nat /\ s \in Nat
           /\ DOMAIN journal = 1..Len(journal) /\ Len(journal) \in Nat
           /\ journal[s].item \in Icon /\ journal[s].item \in used
           /\ journal[s].kind \in {"add", "set", "remove"} /\ journal[s].n \in Nat
           /\ journal[s].val = Absent <=> journal[s].kind = "remove"
           /\ \A i \in Icon : IconOK(p, i)
           /\ Orderly /\ p.s.phase = "live" => \A i \in Icon : Agrees(R, p, i)
           /\ \A x \in p.s.pending : x.kind \in {"add", "set", "remove"} /\ x.n \in Nat
           /\ p.s.cursor <= Len(journal)
  <1>1. /\ TInv /\ Outgoing /\ Rows /\ Docs(R) /\ Lives(R) /\ OwnWords /\ AddsAreFresh
        /\ Waiting(p) /\ p \in Pages /\ \A i \in Icon : IconOK(p, i)
        /\ Orderly /\ p.s.phase = "live" => \A i \in Icon : Agrees(R, p, i)
    BY DEF Knows, RoomOK, PageOK
  <1>2. p.s.cursor \in 0..Len(journal) /\ p.s.pending \subseteq OpValue
    BY <1>1, PageFields
  <1>3. \A x \in p.s.pending : x.kind \in {"add", "set", "remove"} /\ x.n \in Nat
    BY <1>2, OpFields
  <1>4. /\ DOMAIN journal = 1..Len(journal) /\ Len(journal) \in Nat /\ s \in Nat
        /\ p.s.cursor \in Nat /\ p.s.cursor <= Len(journal)
    BY <1>1, <1>2, Types
  <1>5. /\ journal[s].item \in Icon /\ journal[s].item \in used /\ journal[s].n \in Nat
        /\ journal[s].kind \in {"add", "set", "remove"}
        /\ journal[s].val = Absent <=> journal[s].kind = "remove"
    BY <1>1, RowFacts
  <1> QED
    BY <1>1, <1>3, <1>4, <1>5

\* Another's row keeps what is known of its icon.
LEMMA ForeignIcon ==
    ASSUME NEW R, NEW p, Knows(R, p), NEW q, NEW s, HeardForeign(p, q, s),
           NEW i, i = journal[s].item
    PROVE  IconOK(q, i) /\ (Orderly /\ p.s.phase = "live" => Agrees(R, q, i))
  <1> DEFINE op == journal[s]
             O == OnIcon(p, i)
             b == p.s.baseline[i]
             w == p.w[i]
  <1>1. /\ s \in 1..Len(journal) /\ s = p.s.cursor + 1 /\ q.s.cursor = s /\ op.n = 0
        /\ OnIcon(q, i) = O /\ q.s.phase = p.s.phase
    BY DEF HeardForeign, Heard, OnIcon
  <1>2. /\ TInv /\ Rows /\ Docs(R) /\ Lives(R)
        /\ p.s.cursor \in Nat /\ s \in Nat /\ i \in Icon /\ i \in used
        /\ op.kind \in {"add", "set", "remove"}
        /\ op.val = Absent <=> op.kind = "remove"
        /\ IconOK(p, i)
        /\ Orderly /\ p.s.phase = "live" => Agrees(R, p, i)
        /\ \A x \in O : x.kind \in {"add", "set", "remove"}
        /\ DOMAIN journal = 1..Len(journal)
    BY <1>1, HeardCommon DEF OnIcon
  <1>3. Unheard(q, i) /\ Known(q, i)
    <2>1. Unheard(q, i)
      BY <1>1, <1>2, UnheardNow
    <2> QED
      BY <1>2, <2>1 DEF Known
  <1>4. Sorted(q, i)
    BY <1>1, <1>2 DEF IconOK, Sorted
  <1>5. b = Absent => w = Absent
    BY <1>2 DEF IconOK, Fresh
  <1>6. Covered(p.s.pending, op) <=>
             \E x \in O : x.kind = op.kind \/ (op.kind = "set" /\ x.kind = "add")
    BY CoveredIs
  <1>7. /\ q.s.baseline[i] = Apply(p.s.baseline, op)[i]
        /\ Covered(p.s.pending, op) => q.w[i] = w
        /\ ~Covered(p.s.pending, op) => q.w[i] = Apply(p.w, op)[i]
    BY DEF HeardForeign
  <1> DEFINE b1 == Apply(p.s.baseline, op)[i]
             w1 == Apply(p.w, op)[i]
  <1>12. /\ op.kind = "add" => /\ b = Absent => b1 = op.val
                               /\ w = Absent => w1 = op.val
         /\ op.kind = "set" => /\ b # Absent => b1 = op.val
                               /\ b = Absent => b1 = Absent
                               /\ w # Absent => w1 = op.val
                               /\ w = Absent => w1 = Absent
         /\ op.kind = "remove" => b1 = Absent /\ w1 = Absent
    BY <1>1, HeardValues
  <1>8. /\ s - 1 = p.s.cursor
        /\ op.kind = "add" => R[s - 1][i] = Absent /\ R[s][i] = op.val
        /\ op.kind = "set" => /\ R[s - 1][i] # Absent => R[s][i] = op.val
                              /\ R[s - 1][i] = Absent => R[s][i] = Absent
        /\ op.kind = "remove" => R[s][i] = Absent
    <2>1. op.kind = "add" => R[s - 1][i] = Absent
      <3>1. s - 1 \in 0..(s - 1)
        BY <1>1, <1>2
      <3> QED
        BY <1>1, <1>2, <3>1 DEF Lives
    <2>2. s - 1 = p.s.cursor
      BY <1>1, <1>2
    <2> QED
      BY <1>1, <1>2, <2>1, <2>2, DocFacts
  <1>9. CASE op.kind = "add"
    <2>1. i \notin Minted /\ w = Absent /\ b = Absent
      <3>1. s > p.s.cursor /\ s \in DOMAIN journal
        BY <1>1, <1>2
      <3> QED
        BY <1>1, <1>2, <1>9, <3>1 DEF IconOK, Unheard
    <2>2. O = {}
      BY <1>2, <2>1, QuietIcon
    <2>3. q.s.baseline[i] = op.val /\ q.w[i] = op.val /\ op.val # Absent
      BY <1>1, <1>2, <1>6, <1>7, <1>9, <2>1, <2>2, <1>12
    <2>4. Fresh(q, i) /\ Meant(q, i) /\ Spoken(q, i)
      BY <1>1, <2>2, <2>3 DEF Fresh, Meant, Spoken
    <2>5. ~Gone(R, q, i) /\ R[s][i] = op.val
      BY <1>1, <1>8, <1>9, <2>2, <2>3 DEF Gone
    <2>6. Agrees(R, q, i)
      BY <1>1, <2>2, <2>3, <2>5 DEF Agrees
    <2> QED
      BY <1>3, <1>4, <2>4, <2>6 DEF IconOK
  <1>10. CASE op.kind = "set"
    <2>1. /\ b # Absent => q.s.baseline[i] = op.val
          /\ b = Absent => q.s.baseline[i] = Absent
          /\ op.val # Absent
      BY <1>1, <1>2, <1>7, <1>10, <1>12
    <2>2. (R[s][i] = Absent) <=> (R[p.s.cursor][i] = Absent)
      BY <1>8, <1>10, <2>1
    <2>3. Gone(R, q, i) <=> Gone(R, p, i)
      BY <1>1, <2>2 DEF Gone
    <2>4. CASE Covered(p.s.pending, op)
      <3>1. q.w[i] = w
        BY <1>7, <2>4
      <3>2. PICK x \in O : x.kind = "set" \/ x.kind = "add"
        BY <1>6, <1>10, <2>4
      <3>3. b # Absent => <<i, w>> \in typed
        BY <1>2, <3>2 DEF IconOK, Spoken
      <3>4. Fresh(q, i) /\ Meant(q, i)
        BY <1>5, <2>1, <3>1, <3>3 DEF Fresh, Meant
      <3>5. Spoken(q, i)
        BY <1>1, <1>2, <2>1, <3>1 DEF IconOK, Spoken
      <3>6. ASSUME Orderly, p.s.phase = "live" PROVE Agrees(R, q, i)
        <4>1. Agrees(R, p, i)
          BY <1>2, <3>6
        <4>2. q.s.baseline[i] = Absent <=> Gone(R, q, i)
          BY <2>1, <2>3, <4>1 DEF Agrees
        <4>3. OnIcon(q, i) # {}
          BY <1>1, <3>2
        <4> QED
          BY <1>1, <2>3, <3>1, <4>1, <4>2, <4>3 DEF Agrees
      <3> QED
        BY <1>3, <1>4, <3>4, <3>5, <3>6 DEF IconOK
    <2>5. CASE ~Covered(p.s.pending, op)
      <3>1. /\ w # Absent => q.w[i] = op.val
            /\ w = Absent => q.w[i] = Absent
        BY <1>1, <1>7, <1>10, <2>5, <1>12
      <3>2. \A x \in O : x.kind = "remove"
        BY <1>2, <1>6, <1>10, <2>5
      <3>3. Fresh(q, i)
        BY <1>5, <2>1, <3>1 DEF Fresh
      <3>4. Meant(q, i)
        BY <1>2, <1>5, <2>1, <3>1 DEF IconOK, Meant
      <3>5. Spoken(q, i)
        <4>1. \A x \in O : w = Absent /\ b = Absent
          BY <1>2, <3>2 DEF IconOK, Spoken
        <4> QED
          BY <1>1, <2>1, <3>1, <4>1 DEF Spoken
      <3>6. ASSUME Orderly, p.s.phase = "live" PROVE Agrees(R, q, i)
        <4>1. Agrees(R, p, i)
          BY <1>2, <3>6
        <4>2. q.s.baseline[i] = Absent <=> Gone(R, q, i)
          BY <2>1, <2>3, <4>1 DEF Agrees
        <4>3. CASE Gone(R, p, i)
          BY <1>1, <2>3, <3>1, <4>1, <4>2, <4>3 DEF Agrees
        <4>4. CASE ~Gone(R, p, i)
          <5>1. O = {} /\ R[p.s.cursor][i] # Absent
            BY <3>2, <4>4 DEF Gone
          <5>2. i \notin dirty => w # Absent
            BY <4>1, <4>4, <5>1 DEF Agrees
          <5>3. R[s][i] = op.val
            BY <1>8, <1>10, <5>1
          <5> QED
            BY <1>1, <2>3, <3>1, <4>2, <4>4, <5>1, <5>2, <5>3 DEF Agrees
        <4> QED
          BY <4>3, <4>4
      <3> QED
        BY <1>3, <1>4, <3>3, <3>4, <3>5, <3>6 DEF IconOK
    <2> QED
      BY <2>4, <2>5
  <1>11. CASE op.kind = "remove"
    <2>1. q.s.baseline[i] = Absent
      BY <1>1, <1>7, <1>11, <1>12
    <2>2. q.w[i] = Absent
      <3>1. CASE Covered(p.s.pending, op)
        <4>1. PICK x \in O : x.kind = "remove"
          BY <1>6, <1>11, <3>1
        <4>2. w = Absent
          BY <1>2, <4>1 DEF IconOK, Spoken
        <4> QED
          BY <1>7, <3>1, <4>2
      <3>2. CASE ~Covered(p.s.pending, op)
        BY <1>1, <1>7, <1>11, <3>2, <1>12
      <3> QED
        BY <3>1, <3>2
    <2>3. Fresh(q, i) /\ Meant(q, i) /\ Spoken(q, i)
      BY <2>1, <2>2 DEF Fresh, Meant, Spoken
    <2>4. ASSUME Orderly PROVE Agrees(R, q, i)
      <3>1. \A x \in O : x.kind # "add"
        BY <1>1, <1>2, <2>4, NoAddWaits
      <3>2. Gone(R, q, i)
        BY <1>1, <1>8, <1>11, <3>1 DEF Gone
      <3> QED
        BY <2>1, <2>2, <3>2 DEF Agrees
    <2> QED
      BY <1>3, <1>4, <2>3, <2>4 DEF IconOK
  <1> QED
    BY <1>2, <1>9, <1>10, <1>11

\* A number names one op.
LEMMA SameNumber ==
    ASSUME NEW R, NEW p, Knows(R, p), NEW s \in 1..Len(journal), journal[s].n > 0,
           NEW x \in p.s.pending, x.n = journal[s].n
    PROVE  x = Bare(journal[s]) /\ s > p.s.cursor
  <1>1. /\ TInv /\ Outgoing /\ Rows /\ OwnWords /\ Waiting(p)
        /\ DOMAIN journal = 1..Len(journal)
    BY HeardCommon
  <1>2. x \notin Flying
    BY <1>1, FlyingFacts
  <1>3. PICK k \in 1..Len(journal) : /\ k > p.s.cursor /\ x = Bare(journal[k])
                                     /\ journal[k].n > 0 /\ x.n = journal[k].n
    BY <1>1, <1>2, PendingCases
  <1>4. k = s
    <2>1. journal[k].n \in Nat /\ journal[s].n \in Nat
      BY <1>1, RowFacts
    <2>2. k < s => journal[k].n < journal[s].n
      BY <1>1, <1>3 DEF Rows
    <2>3. s < k => journal[s].n < journal[k].n
      BY <1>1, <1>3 DEF Rows
    <2>4. k \in Nat /\ s \in Nat
      BY <1>1
    <2> QED
      BY <1>3, <2>1, <2>2, <2>3, <2>4
  <1> QED
    BY <1>3, <1>4

\* The device's next row is the oldest op that waits.
LEMMA OldestWaits ==
    ASSUME NEW R, NEW p, Knows(R, p), NEW s \in 1..Len(journal), journal[s].n > 0,
           s = p.s.cursor + 1
    PROVE  /\ Bare(journal[s]) \in p.s.pending
           /\ Bare(journal[s]).n = journal[s].n /\ Bare(journal[s]).item = journal[s].item
           /\ Bare(journal[s]).kind = journal[s].kind /\ Bare(journal[s]).val = journal[s].val
           /\ Orderly => \A x \in p.s.pending : x # Bare(journal[s]) => journal[s].n < x.n
  <1>1. /\ TInv /\ Outgoing /\ Rows /\ OwnWords /\ Waiting(p)
        /\ DOMAIN journal = 1..Len(journal) /\ p.s.cursor \in Nat
    BY HeardCommon
  <1>2. s > p.s.cursor
    BY <1>1
  <1>3. Bare(journal[s]) \in p.s.pending
    BY <1>1, <1>2 DEF Waiting
  <1>4. /\ Bare(journal[s]).n = journal[s].n /\ Bare(journal[s]).item = journal[s].item
        /\ Bare(journal[s]).kind = journal[s].kind /\ Bare(journal[s]).val = journal[s].val
    <2>1. journal[s] \in OpValue
      BY <1>1, RowFacts
    <2> QED
      BY <2>1, BareFacts
  <1>5. ASSUME Orderly, NEW x \in p.s.pending, x # Bare(journal[s])
        PROVE  journal[s].n < x.n
    <2>1. CASE x \in Flying
      BY <1>1, <1>5, <2>1 DEF Orderly
    <2>2. CASE x \notin Flying
      <3>1. PICK k \in 1..Len(journal) : /\ k > p.s.cursor /\ x = Bare(journal[k])
                                         /\ journal[k].n > 0 /\ x.n = journal[k].n
        BY <1>1, <2>2, PendingCases
      <3>2. k # s
        BY <1>5, <3>1
      <3>3. s < k
        BY <1>1, <3>1, <3>2
      <3> QED
        BY <1>1, <3>1, <3>3 DEF Rows
    <2> QED
      BY <2>1, <2>2
  <1> QED
    BY <1>3, <1>4, <1>5

\* An ack leaves the page as it was, but for what waits.
LEMMA OwnIcon ==
    ASSUME NEW R, NEW p, Knows(R, p), NEW q, NEW s, HeardOwn(p, q, s),
           Orderly, p.s.phase = "live", NEW i, i = journal[s].item
    PROVE  Agrees(R, q, i)
  <1> DEFINE op == journal[s]
             o == Bare(op)
             P == OnIcon(p, i)
             Q == OnIcon(q, i)
             b == p.s.baseline[i]
             w == p.w[i]
  <1>1. /\ s \in 1..Len(journal) /\ s = p.s.cursor + 1 /\ q.s.cursor = s /\ op.n > 0
        /\ q.s.pending = {x \in p.s.pending : x.n # op.n}
        /\ q.w = p.w /\ q.s.baseline = p.s.baseline
    BY DEF HeardOwn, Heard
  <1>2. /\ TInv /\ Rows /\ Docs(R) /\ Lives(R)
        /\ p.s.cursor \in Nat /\ s \in Nat /\ i \in Icon
        /\ op.kind \in {"add", "set", "remove"} /\ op.n \in Nat
        /\ op.val = Absent <=> op.kind = "remove"
        /\ IconOK(p, i) /\ Agrees(R, p, i)
        /\ \A x \in P : x.kind \in {"add", "set", "remove"} /\ x.n \in Nat
        /\ DOMAIN journal = 1..Len(journal)
    BY <1>1, HeardCommon DEF OnIcon
  <1>3. /\ o \in P /\ o.n = op.n /\ o.kind = op.kind /\ o.val = op.val
        /\ \A x \in P : x # o => op.n < x.n
    BY <1>1, OldestWaits DEF OnIcon
  <1>4. Q = P \ {o}
    <2>1. \A x \in P : x.n # op.n <=> x # o
      BY <1>2, <1>3
    <2>2. Q = {x \in P : x.n # op.n}
      BY <1>1 DEF OnIcon
    <2> QED
      BY <2>1, <2>2
  <1>5. \A x \in Q : o.kind # "remove" /\ x.kind # "add"
    <2>1. \A x \in Q : o \in P /\ x \in P /\ o.n < x.n
      BY <1>3, <1>4
    <2> QED
      BY <1>2, <2>1 DEF IconOK, Sorted
  <1>6. /\ s - 1 = p.s.cursor
        /\ op.kind = "add" => R[s - 1][i] = Absent /\ R[s][i] = op.val
        /\ op.kind = "set" => /\ R[s - 1][i] # Absent => R[s][i] = op.val
                              /\ R[s - 1][i] = Absent => R[s][i] = Absent
        /\ op.kind = "remove" => R[s][i] = Absent
    <2>1. op.kind = "add" => R[s - 1][i] = Absent
      <3>1. s - 1 \in 0..(s - 1)
        BY <1>1, <1>2
      <3> QED
        BY <1>1, <1>2, <3>1 DEF Lives
    <2>2. s - 1 = p.s.cursor
      BY <1>1, <1>2
    <2> QED
      BY <1>1, <1>2, <2>1, <2>2, DocFacts
  <1> HIDE DEF op, o, P, Q
  <1>7. Gone(R, p, i) <=> \/ \E x \in P : x.kind = "remove"
                          \/ R[s - 1][i] = Absent /\ \A x \in P : x.kind # "add"
    BY <1>6 DEF Gone, P
  <1>8. Gone(R, q, i) <=> \/ \E x \in Q : x.kind = "remove"
                          \/ R[s][i] = Absent /\ \A x \in Q : x.kind # "add"
    BY <1>1 DEF Gone, Q
  <1>9. Gone(R, q, i) <=> Gone(R, p, i)
    <2>1. CASE op.kind = "add"
      BY <1>2, <1>3, <1>4, <1>6, <1>7, <1>8, <2>1
    <2>2. CASE op.kind = "set"
      BY <1>2, <1>3, <1>4, <1>5, <1>6, <1>7, <1>8, <2>2
    <2>3. CASE op.kind = "remove"
      BY <1>3, <1>4, <1>5, <1>6, <1>7, <1>8, <2>3
    <2> QED
      BY <1>2, <2>1, <2>2, <2>3
  <1>10. b = Absent <=> Gone(R, q, i)
    BY <1>2, <1>9 DEF Agrees
  <1>11. ASSUME i \notin dirty, ~Gone(R, q, i), Q = {} PROVE w = R[s][i]
    <2>1. P = {o}
      BY <1>3, <1>4, <1>11
    <2>2. \A x \in P : x.n <= o.n
      BY <1>2, <1>3, <2>1
    <2>3. w = op.val
      BY <1>2, <1>3, <1>9, <1>11, <2>2 DEF Agrees, P
    <2>4. R[s][i] = op.val
      <3>1. op.kind # "remove"
        BY <1>3, <1>7, <1>9, <1>11
      <3>2. op.kind = "set" => R[s - 1][i] # Absent
        BY <1>3, <1>7, <1>9, <1>11, <2>1
      <3> QED
        BY <1>2, <1>6, <3>1, <3>2
    <2> QED
      BY <2>3, <2>4
  <1>12. ASSUME i \notin dirty, ~Gone(R, q, i), NEW x \in Q, \A y \in Q : y.n <= x.n
         PROVE  w = x.val
    <2>1. x \in P /\ x # o /\ o.n < x.n /\ o.n \in Nat /\ x.n \in Nat
      BY <1>2, <1>3, <1>4
    <2>2. \A y \in P : y.n <= x.n
      BY <1>4, <1>12, <2>1
    <2> QED
      BY <1>2, <1>9, <1>12, <2>1, <2>2 DEF Agrees, P
  <1>13. i \notin dirty /\ Gone(R, q, i) => w = Absent
    BY <1>2, <1>9 DEF Agrees
  <1> QED
    BY <1>1, <1>10, <1>11, <1>12, <1>13 DEF Agrees, Q

\* A row heard twice changes nothing that counts.
LEMMA AgainIcon ==
    ASSUME NEW R, NEW p, Knows(R, p), NEW q, NEW s, HeardAgain(p, q, s),
           NEW i, i = journal[s].item
    PROVE  IconOK(q, i) /\ (Orderly /\ p.s.phase = "live" => Agrees(R, q, i))
  <1> DEFINE op == journal[s]
             O == OnIcon(p, i)
             b == p.s.baseline[i]
             w == p.w[i]
             b1 == Apply(p.s.baseline, op)[i]
             w1 == Apply(p.w, op)[i]
  <1>1. /\ s \in 1..Len(journal) /\ s <= p.s.cursor /\ q.s.cursor = p.s.cursor
        /\ OnIcon(q, i) = O /\ q.s.phase = p.s.phase /\ q.w[i] = w /\ q.s.baseline[i] = b1
        /\ ~Covered(p.s.pending, op) => w1 = w
    BY DEF HeardAgain, OnIcon
  <1>2. /\ TInv /\ Rows /\ Docs(R) /\ Lives(R)
        /\ p.s.cursor \in Nat /\ s \in Nat /\ i \in Icon /\ i \in used
        /\ op.kind \in {"add", "set", "remove"}
        /\ op.val = Absent <=> op.kind = "remove"
        /\ IconOK(p, i)
        /\ Orderly /\ p.s.phase = "live" => Agrees(R, p, i)
        /\ \A x \in O : x.kind \in {"add", "set", "remove"}
        /\ DOMAIN journal = 1..Len(journal) /\ Len(journal) \in Nat
        /\ p.s.cursor <= Len(journal)
    BY <1>1, HeardCommon DEF OnIcon
  <1>3. Unheard(q, i) /\ Known(q, i) /\ Sorted(q, i)
    <2>1. Unheard(q, i)
      BY <1>1, <1>2, UnheardNow
    <2> QED
      BY <1>1, <1>2, <2>1 DEF Known, IconOK, Sorted
  <1>4. b = Absent => w = Absent
    BY <1>2 DEF IconOK, Fresh
  <1>5. Covered(p.s.pending, op) <=>
             \E x \in O : x.kind = op.kind \/ (op.kind = "set" /\ x.kind = "add")
    BY CoveredIs
  <1>6. /\ op.kind = "add" => /\ b = Absent => b1 = op.val
                              /\ b # Absent => b1 = b
                              /\ w = Absent => w1 = op.val
        /\ op.kind = "set" => /\ b # Absent => b1 = op.val
                              /\ b = Absent => b1 = Absent
                              /\ w # Absent => w1 = op.val
                              /\ w = Absent => w1 = Absent
        /\ op.kind = "remove" => b1 = Absent /\ w1 = Absent
    BY <1>1, HeardValues
  <1>7. \A x \in O : x.kind = "add" => ~Orderly /\ op.kind # "add"
    <2>1. s <= p.s.cursor + 1
      BY <1>1, <1>2
    <2> QED
      BY <1>1, <2>1, NoAddWaits
  <1>8. Gone(R, q, i) <=> Gone(R, p, i)
    BY <1>1 DEF Gone
  <1>9. CASE b1 = b
    <2>1. Fresh(q, i) /\ Meant(q, i) /\ Spoken(q, i)
      BY <1>1, <1>2, <1>9 DEF IconOK, Fresh, Meant, Spoken
    <2>2. ASSUME Orderly, p.s.phase = "live" PROVE Agrees(R, q, i)
      BY <1>1, <1>2, <1>8, <1>9, <2>2 DEF Agrees
    <2> QED
      BY <1>3, <2>1, <2>2 DEF IconOK
  <1>10. CASE op.kind = "add"
    <2>1. b # Absent
      <3> SUFFICES ASSUME b = Absent PROVE FALSE
        OBVIOUS
      <3>1. w = Absent /\ w1 = op.val /\ op.val # Absent
        BY <1>2, <1>4, <1>6, <1>10
      <3>2. Covered(p.s.pending, op)
        BY <1>1, <3>1
      <3> QED
        BY <1>5, <1>7, <1>10, <3>2
    <2> QED
      BY <1>6, <1>9, <1>10, <2>1
  <1>11. CASE op.kind = "set" /\ b # Absent
    <2>1. b1 = op.val /\ op.val # Absent
      BY <1>2, <1>6, <1>11
    <2>2. ASSUME w # op.val PROVE <<i, w>> \in typed
      <3>1. CASE Covered(p.s.pending, op)
        <4>1. O # {}
          BY <1>5, <3>1
        <4> QED
          BY <1>2, <1>11, <4>1 DEF IconOK, Spoken
      <3>2. CASE ~Covered(p.s.pending, op)
        <4>1. w = Absent
          BY <1>1, <1>6, <1>11, <2>2, <3>2
        <4> QED
          BY <1>2, <1>11, <4>1 DEF IconOK, Meant
      <3> QED
        BY <3>1, <3>2
    <2>3. Fresh(q, i) /\ Meant(q, i)
      BY <1>1, <2>1, <2>2 DEF Fresh, Meant
    <2>4. Spoken(q, i)
      BY <1>1, <1>2, <1>11 DEF IconOK, Spoken
    <2>5. ASSUME Orderly, p.s.phase = "live" PROVE Agrees(R, q, i)
      BY <1>1, <1>2, <1>8, <1>11, <2>1, <2>5 DEF Agrees
    <2> QED
      BY <1>3, <2>3, <2>4, <2>5 DEF IconOK
  <1>12. CASE op.kind = "remove" /\ b # Absent
    <2>1. w = Absent /\ b1 = Absent
      <3>1. ~Covered(p.s.pending, op)
        BY <1>2, <1>5, <1>12 DEF IconOK, Spoken
      <3> QED
        BY <1>1, <1>6, <1>12, <3>1
    <2>2. Fresh(q, i) /\ Meant(q, i) /\ Spoken(q, i)
      BY <1>1, <2>1 DEF Fresh, Meant, Spoken
    <2>3. ASSUME Orderly, p.s.phase = "live" PROVE Agrees(R, q, i)
      <3>1. R[p.s.cursor][i] = Absent
        <4>1. p.s.cursor \in s..Len(journal)
          BY <1>1, <1>2
        <4> QED
          BY <1>1, <1>2, <1>12, <4>1 DEF Lives
      <3>2. Gone(R, p, i)
        BY <1>7, <2>3, <3>1 DEF Gone
      <3> QED
        BY <1>2, <1>12, <2>3, <3>2 DEF Agrees
    <2> QED
      BY <1>3, <2>2, <2>3 DEF IconOK
  <1> QED
    BY <1>2, <1>6, <1>9, <1>10, <1>11, <1>12

LEMMA NextSeen ==
    ASSUME NEW c \in Nat
    PROVE  1..c \cup {c + 1} = 1..(c + 1)
  OBVIOUS

\* The next row, from another: all of the page's part of the invariant.
LEMMA ForeignHeard ==
    ASSUME NEW R, NEW p, Knows(R, p), NEW q, NEW s, HeardForeign(p, q, s)
    PROVE  PageOK(R, q)
  <1>1. /\ s \in 1..Len(journal) /\ s = p.s.cursor + 1 /\ q.s.cursor = s /\ journal[s].n = 0
        /\ q.s.pending = p.s.pending /\ q.s.ids = p.s.ids /\ q.seen = p.seen \cup {s}
        /\ q.s.phase = p.s.phase
    BY DEF HeardForeign, Heard
  <1>2. /\ TInv /\ Rows /\ Docs(R) /\ Waiting(p) /\ p.s.cursor \in Nat /\ s \in Nat
        /\ DOMAIN journal = 1..Len(journal) /\ \A i \in Icon : IconOK(p, i)
        /\ Orderly /\ p.s.phase = "live" => \A i \in Icon : Agrees(R, p, i)
    BY <1>1, HeardCommon
  <1>3. Waiting(q)
    <2>1. q.seen = 1..q.s.cursor
      BY <1>1, <1>2, NextSeen DEF Waiting
    <2>2. \A x \in DOMAIN journal : journal[x].n > 0 =>
              (x > q.s.cursor <=> x > p.s.cursor)
      BY <1>1, <1>2
    <2>3. {x \in DOMAIN journal : journal[x].n > 0 /\ x > q.s.cursor}
            = {x \in DOMAIN journal : journal[x].n > 0 /\ x > p.s.cursor}
      BY <2>2
    <2> QED
      BY <1>1, <1>2, <2>1, <2>3 DEF Waiting
  <1>4. ASSUME NEW i \in Icon, i # journal[s].item
        PROVE  IconOK(q, i) /\ (Orderly /\ p.s.phase = "live" => Agrees(R, q, i))
    <2>1. q.w[i] = p.w[i] /\ q.s.baseline[i] = p.s.baseline[i] /\ OnIcon(q, i) = OnIcon(p, i)
      BY <1>1, <1>4, HeardValues DEF HeardForeign, OnIcon
    <2>2. R[q.s.cursor][i] = R[p.s.cursor][i]
      <3>1. s - 1 = p.s.cursor
        BY <1>1, <1>2
      <3> QED
        BY <1>1, <1>2, <1>4, <3>1, DocFacts
    <2>3. IconOK(q, i)
      <3>1. p.s.cursor <= q.s.cursor /\ q.s.cursor \in Nat
        BY <1>1, <1>2
      <3> QED
        BY <1>2, <2>1, <3>1, IconKept
    <2> QED
      BY <1>2, <2>1, <2>2, <2>3, AgreesKept
  <1>5. \A i \in Icon : IconOK(q, i) /\ (Orderly /\ p.s.phase = "live" => Agrees(R, q, i))
    BY <1>4, ForeignIcon
  <1> QED
    BY <1>1, <1>3, <1>5 DEF PageOK

\* The next row, an ack.
LEMMA OwnHeard ==
    ASSUME NEW R, NEW p, Knows(R, p), NEW q, NEW s, HeardOwn(p, q, s)
    PROVE  PageOK(R, q)
  <1>1. /\ s \in 1..Len(journal) /\ s = p.s.cursor + 1 /\ q.s.cursor = s /\ journal[s].n > 0
        /\ q.s.pending = {x \in p.s.pending : x.n # journal[s].n}
        /\ q.s.ids = p.s.ids \ {journal[s].n} /\ q.seen = p.seen \cup {s}
        /\ q.s.phase = p.s.phase /\ q.w = p.w /\ q.s.baseline = p.s.baseline
    BY DEF HeardOwn, Heard
  <1>2. /\ TInv /\ Outgoing /\ Rows /\ Docs(R) /\ Waiting(p) /\ p.s.cursor \in Nat /\ s \in Nat
        /\ DOMAIN journal = 1..Len(journal) /\ \A i \in Icon : IconOK(p, i)
        /\ Orderly /\ p.s.phase = "live" => \A i \in Icon : Agrees(R, p, i)
    BY <1>1, HeardCommon
  <1>3. \A x \in p.s.pending : x.n = journal[s].n => x = Bare(journal[s])
    BY <1>1, SameNumber
  <1>4. Bare(journal[s]).n = journal[s].n /\ Bare(journal[s]).item = journal[s].item
    BY <1>1, OldestWaits
  <1>5. Waiting(q)
    <2>1. q.seen = 1..q.s.cursor
      BY <1>1, <1>2, NextSeen DEF Waiting
    <2>2. q.s.ids = {x.n : x \in q.s.pending}
      BY <1>1, <1>2 DEF Waiting
    <2> DEFINE Old == {x \in DOMAIN journal : journal[x].n > 0 /\ x > p.s.cursor}
               New == {x \in DOMAIN journal : journal[x].n > 0 /\ x > q.s.cursor}
    <2>3. Old = New \cup {s} /\ s \notin New
      BY <1>1, <1>2
    <2>4. p.s.pending = Flying \cup {Bare(journal[k]) : k \in Old}
      BY <1>2 DEF Waiting
    <2>5. \A x \in Flying : x.n # journal[s].n
      BY <1>1, <1>2, FlyingFacts
    <2>6. \A k \in New : Bare(journal[k]).n # journal[s].n
      <3> SUFFICES ASSUME NEW k \in New PROVE Bare(journal[k]).n # journal[s].n
        OBVIOUS
      <3>1. k \in 1..Len(journal) /\ journal[k].n > 0 /\ s < k
        BY <1>1, <1>2
      <3>2. journal[s].n < journal[k].n
        BY <1>1, <1>2, <3>1 DEF Rows
      <3>3. Bare(journal[k]).n = journal[k].n /\ journal[k].n \in Nat /\ journal[s].n \in Nat
        BY <1>1, <1>2, <3>1, RowFacts, BareFacts
      <3> QED
        BY <3>2, <3>3
    <2> HIDE DEF Old, New
    <2>7. q.s.pending = Flying \cup {Bare(journal[k]) : k \in New}
      BY <1>1, <1>4, <2>3, <2>4, <2>5, <2>6
    <2> QED
      BY <2>1, <2>2, <2>7 DEF Waiting, New
  <1>6. \A i \in Icon : IconOK(q, i)
    <2> SUFFICES ASSUME NEW i \in Icon PROVE IconOK(q, i)
      OBVIOUS
    <2>1. OnIcon(q, i) \subseteq OnIcon(p, i) /\ q.w[i] = p.w[i]
          /\ q.s.baseline[i] = p.s.baseline[i]
      BY <1>1 DEF OnIcon
    <2>2. p.s.cursor <= q.s.cursor /\ q.s.cursor \in Nat
      BY <1>1, <1>2
    <2> QED
      BY <1>2, <2>1, <2>2, IconKept
  <1>7. ASSUME Orderly, p.s.phase = "live", NEW i \in Icon PROVE Agrees(R, q, i)
    <2>1. CASE i = journal[s].item
      BY <1>7, <2>1, OwnIcon
    <2>2. CASE i # journal[s].item
      <3>1. OnIcon(q, i) = OnIcon(p, i)
        BY <1>1, <1>3, <1>4, <2>2 DEF OnIcon
      <3>2. R[q.s.cursor][i] = R[p.s.cursor][i]
        <4>1. s - 1 = p.s.cursor
          BY <1>1, <1>2
        <4> QED
          BY <1>1, <1>2, <2>2, <4>1, DocFacts
      <3>3. q.w[i] = p.w[i] /\ q.s.baseline[i] = p.s.baseline[i] /\ Agrees(R, p, i)
        BY <1>1, <1>2, <1>7
      <3> QED
        BY <3>1, <3>2, <3>3, AgreesKept
    <2> QED
      BY <2>1, <2>2
  <1> QED
    BY <1>1, <1>5, <1>6, <1>7 DEF PageOK

\* A row once more.
LEMMA AgainHeard ==
    ASSUME NEW R, NEW p, Knows(R, p), NEW q, NEW s, HeardAgain(p, q, s)
    PROVE  PageOK(R, q)
  <1>1. /\ s \in 1..Len(journal) /\ q.s.cursor = p.s.cursor
        /\ q.s.pending = p.s.pending /\ q.s.ids = p.s.ids /\ q.seen = p.seen
        /\ q.s.phase = p.s.phase /\ q.w = p.w
    BY DEF HeardAgain
  <1>2. /\ TInv /\ Waiting(p) /\ p.s.cursor \in Nat /\ \A i \in Icon : IconOK(p, i)
        /\ Orderly /\ p.s.phase = "live" => \A i \in Icon : Agrees(R, p, i)
    BY <1>1, HeardCommon
  <1>3. Waiting(q)
    BY <1>1, <1>2 DEF Waiting
  <1>4. ASSUME NEW i \in Icon, i # journal[s].item
        PROVE  IconOK(q, i) /\ (Orderly /\ p.s.phase = "live" => Agrees(R, q, i))
    <2>1. q.w[i] = p.w[i] /\ q.s.baseline[i] = p.s.baseline[i] /\ OnIcon(q, i) = OnIcon(p, i)
      BY <1>1, <1>4, HeardValues DEF HeardAgain, OnIcon
    <2>2. R[q.s.cursor][i] = R[p.s.cursor][i]
      BY <1>1
    <2>3. IconOK(q, i)
      <3>1. p.s.cursor <= q.s.cursor /\ q.s.cursor \in Nat
        BY <1>1, <1>2
      <3> QED
        BY <1>2, <2>1, <3>1, IconKept
    <2> QED
      BY <1>2, <2>1, <2>2, <2>3, AgreesKept
  <1>5. \A i \in Icon : IconOK(q, i) /\ (Orderly /\ p.s.phase = "live" => Agrees(R, q, i))
    BY <1>4, AgainIcon
  <1> QED
    BY <1>1, <1>3, <1>5 DEF PageOK

\* handleFrame hears a row that is not ahead of the next one.
LEMMA IncomingKeeps ==
    ASSUME NEW R, NEW p, Knows(R, p), NEW s \in 1..Len(journal), s <= p.s.cursor + 1,
           Incoming(p, journal[s]).wounds = {}
    PROVE  /\ Knows(R, Incoming(p, journal[s]))
           /\ Incoming(p, journal[s]).s.cursor = Later(p.s.cursor, s)
  <1> DEFINE op == journal[s]
             q == Incoming(p, op)
  <1>1. /\ TInv /\ Rows /\ p \in Pages /\ Waiting(p) /\ p.s.cursor \in Nat /\ s \in Nat
        /\ DOMAIN journal = 1..Len(journal) /\ op.n \in Nat
    BY HeardCommon
  <1>2. op \in RowOps /\ op.seq = s /\ journal \in Seq(OpValue)
    BY <1>1, RowFacts, Types
  <1>3. Top(p.seen) = p.s.cursor
    BY <1>1, TopIs DEF Waiting
  <1>4. CASE op.n \in p.s.ids
    <2>1. PICK x \in p.s.pending : x.n = op.n
      BY <1>1, <1>4 DEF Waiting
    <2>2. op.n > 0
      <3>1. x.n \in 1..session.n
        BY <2>1, <1>1, HeardCommon, PendingCases
      <3>2. session.n \in Nat
        BY <1>1, RowFacts
      <3> QED
        BY <2>1, <3>1, <3>2
    <2>3. s > p.s.cursor
      BY <2>1, <2>2, SameNumber
    <2>4. s = p.s.cursor + 1 /\ Later(p.s.cursor, s) = s
      BY <1>1, <2>3 DEF Later
    <2>5. /\ q \in Pages /\ q.w = p.w /\ q.seen = p.seen \cup {s}
          /\ q.s.phase = p.s.phase /\ q.s.baseline = p.s.baseline /\ q.s.n = p.s.n
          /\ q.s.cursor = s /\ q.s.ids = p.s.ids \ {op.n}
          /\ q.s.pending = {y \in p.s.pending : y.n # op.n}
      BY <1>1, <1>2, <1>4, <2>4, AckedFields DEF Incoming
    <2>6. HeardOwn(p, q, s)
      BY <2>2, <2>4, <2>5 DEF HeardOwn, Heard
    <2> QED
      BY <2>4, <2>5, <2>6, OwnHeard DEF Knows
  <1>5. CASE op.n \notin p.s.ids
    <2>1. /\ q \in Pages /\ q.s.phase = p.s.phase /\ q.s.n = p.s.n
          /\ q.s.ids = p.s.ids /\ q.s.pending = p.s.pending
          /\ q.s.cursor = Later(p.s.cursor, s)
          /\ q.s.baseline = Apply(p.s.baseline, op)
          /\ q.w = IF Covered(p.s.pending, op) THEN p.w ELSE Apply(p.w, op)
          /\ q.seen = p.seen \cup {s}
          /\ q.wounds = p.wounds \cup IF s <= Top(p.seen) /\ q.w # p.w THEN {"stale"} ELSE {}
      BY <1>1, <1>2, <1>5, ForeignFields DEF Incoming
    <2>2. CASE s = p.s.cursor + 1
      <3>1. op.n = 0
        <4> SUFFICES ASSUME op.n > 0 PROVE FALSE
          BY <1>1
        <4>1. Bare(op) \in p.s.pending /\ Bare(op).n = op.n
          BY <2>2, OldestWaits
        <4> QED
          BY <1>1, <1>5, <4>1 DEF Waiting
      <3>2. Later(p.s.cursor, s) = s
        BY <1>1, <2>2 DEF Later
      <3>3. HeardForeign(p, q, s)
        BY <2>1, <2>2, <3>1, <3>2 DEF HeardForeign, Heard
      <3> QED
        BY <2>1, <3>3, ForeignHeard DEF Knows
    <2>3. CASE s <= p.s.cursor
      <3>1. q.w = p.w
        <4>1. s <= Top(p.seen) => q.w = p.w
          BY <2>1
        <4> QED
          BY <1>3, <2>3, <4>1
      <3>2. Later(p.s.cursor, s) = p.s.cursor /\ p.seen \cup {s} = p.seen
        BY <1>1, <2>3 DEF Later, Waiting
      <3>3. HeardAgain(p, q, s)
        BY <2>1, <2>3, <3>1, <3>2 DEF HeardAgain
      <3> QED
        BY <2>1, <3>3, AgainHeard DEF Knows
    <2> QED
      BY <1>1, <2>2, <2>3
  <1> QED
    BY <1>4, <1>5

\* The answer of a POST acks a row that is not ahead of the next one.
LEMMA AckFrameKeeps ==
    ASSUME NEW R, NEW p, Knows(R, p), NEW s \in 1..Len(journal), journal[s].n > 0,
           AckFrame(p, journal[s]).wounds = {}
    PROVE  Knows(R, AckFrame(p, journal[s]))
  <1> DEFINE op == journal[s]
             q == AckFrame(p, op)
  <1>1. /\ TInv /\ RoomOK(R) /\ Rows /\ p \in Pages /\ Waiting(p) /\ p.s.cursor \in Nat
        /\ s \in Nat /\ DOMAIN journal = 1..Len(journal) /\ PageOK(R, p)
    BY HeardCommon DEF Knows
  <1>2. op \in RowOps /\ op.seq = s /\ journal \in Seq(OpValue)
    BY <1>1, RowFacts, Types
  <1>3. /\ q \in Pages
        /\ q.w = p.w /\ q.seen = p.seen \cup {s}
        /\ q.s.phase = p.s.phase /\ q.s.baseline = p.s.baseline /\ q.s.n = p.s.n
        /\ q.s.cursor = Later(p.s.cursor, s)
        /\ q.s.ids = p.s.ids \ {op.n}
        /\ q.s.pending = {x \in p.s.pending : x.n # op.n}
        /\ q.wounds = p.wounds \cup IF (p.s.cursor + 1)..(s - 1) \subseteq p.seen
                                    THEN {} ELSE {"jumped"}
    <2> PICK o \in RowOps : o = op
      BY <1>2
    <2> DEFINE a == AckFrame(p, o)
    <2>1. /\ a \in Pages
          /\ a.w = p.w /\ a.seen = p.seen \cup {o.seq}
          /\ a.s.phase = p.s.phase /\ a.s.baseline = p.s.baseline /\ a.s.n = p.s.n
          /\ a.s.cursor = Later(p.s.cursor, o.seq)
          /\ a.s.ids = p.s.ids \ {o.n}
          /\ a.s.pending = {x \in p.s.pending : x.n # o.n}
          /\ a.wounds = p.wounds \cup IF (p.s.cursor + 1)..(o.seq - 1) \subseteq p.seen
                                      THEN {} ELSE {"jumped"}
      BY <1>1, <1>2, AckFrameFields
    <2>2. o.seq = s /\ o = op /\ q = a
      BY <1>2
    <2> HIDE DEF op, q, a
    <2> QED
      BY <2>1, <2>2
  <1>4. s <= p.s.cursor + 1
    <2>1. (p.s.cursor + 1)..(s - 1) \subseteq p.seen
      BY <1>3
    <2>2. s > p.s.cursor + 1 => p.s.cursor + 1 \in (p.s.cursor + 1)..(s - 1)
      BY <1>1
    <2>3. p.s.cursor + 1 \notin p.seen
      BY <1>1 DEF Waiting
    <2> QED
      BY <1>1, <2>1, <2>2, <2>3
  <1>5. CASE s = p.s.cursor + 1
    <2>1. Later(p.s.cursor, s) = s
      BY <1>1, <1>5 DEF Later
    <2>2. HeardOwn(p, q, s)
      BY <1>3, <1>5, <2>1 DEF HeardOwn, Heard
    <2> QED
      BY <1>1, <1>3, <2>2, OwnHeard DEF Knows
  <1>6. CASE s <= p.s.cursor
    <2>1. \A x \in p.s.pending : x.n # op.n
      BY <1>1, <1>6, SameNumber
    <2>2. q.s.pending = p.s.pending /\ q.s.ids = p.s.ids
      BY <1>1, <1>3, <2>1 DEF Waiting
    <2>3. q.s.cursor = p.s.cursor /\ q.seen = p.seen
      BY <1>1, <1>3, <1>6 DEF Later, Waiting
    <2>4. \A i \in Icon : OnIcon(q, i) = OnIcon(p, i)
      BY <2>2 DEF OnIcon
    <2>5. \A i \in Icon : IconOK(q, i)
      BY <1>1, <1>3, <2>3, <2>4, IconKept DEF PageOK
    <2>6. Orderly /\ q.s.phase = "live" => \A i \in Icon : Agrees(R, q, i)
      BY <1>1, <1>3, <2>3, <2>4, AgreesKept DEF PageOK
    <2>7. Waiting(q)
      BY <1>1, <2>2, <2>3 DEF Waiting
    <2> QED
      BY <1>1, <1>3, <2>5, <2>6, <2>7 DEF Knows, PageOK
  <1> QED
    BY <1>1, <1>4, <1>5, <1>6

\* What grows along a walk, and is empty at its end, was empty all along.
LEMMA NeverWounded ==
    ASSUME NEW n \in Nat, NEW f,
           \A k \in 1..n : f[k - 1].wounds \subseteq f[k].wounds, f[n].wounds = {}
    PROVE  \A k \in 0..n : f[k].wounds = {}
  <1> DEFINE T == {k \in 0..n : f[n - k].wounds = {}}
  <1>1. 0 \in T
    OBVIOUS
  <1>2. ASSUME NEW k \in 1..n, k - 1 \in T PROVE k \in T
    <2>1. n - (k - 1) \in 1..n /\ (n - (k - 1)) - 1 = n - k
      OBVIOUS
    <2>2. f[n - (k - 1)].wounds = {}
      BY <1>2
    <2>3. f[n - k].wounds = {}
      BY <2>1, <2>2
    <2> QED
      BY <2>3
  <1> HIDE DEF T
  <1>3. \A k \in 0..n : k \in T
    BY <1>1, <1>2, UpTo
  <1>4. ASSUME NEW k \in 0..n PROVE f[k].wounds = {}
    <2>1. n - k \in 0..n /\ n - (n - k) = k
      OBVIOUS
    <2> QED
      BY <1>3, <2>1 DEF T
  <1> QED
    BY <1>4

\* A whole frame, from a row heard or the next one.
LEMMA FrameKeeps ==
    ASSUME NEW R, NEW p, Knows(R, p), NEW ops \in Seq(RowOps), NEW from \in Nat,
           from <= p.s.cursor,
           Continues(journal, ops, from),
           IncomingAll(p, ops).wounds = {}
    PROVE  /\ Knows(R, IncomingAll(p, ops))
           /\ IncomingAll(p, ops).s.cursor = Later(p.s.cursor, from + Len(ops))
           /\ IncomingAll(p, ops).s.phase = p.s.phase /\ IncomingAll(p, ops).s.n = p.s.n
  <1> DEFINE n == Len(ops)
             c == p.s.cursor
  <1>1. /\ journal \in Seq(OpValue) /\ p \in Pages /\ c \in Nat
        /\ n \in Nat /\ DOMAIN ops = 1..n /\ DOMAIN journal = 1..Len(journal)
        /\ \A k \in 1..n : ops[k] \in RowOps
    <2>1. p \in Pages /\ journal \in Seq(OpValue) /\ DOMAIN journal = 1..Len(journal)
      BY Types DEF Knows
    <2>2. c \in Nat
      BY <2>1, PageFields
    <2> QED
      BY <2>1, <2>2, SeqFacts
  <1> PICK f \in [0..Len(ops) -> Pages] :
             /\ f[0] = p /\ f[Len(ops)] = IncomingAll(p, ops)
             /\ \A k \in 1..Len(ops) : f[k] = Incoming(f[k - 1], ops[k])
    BY <1>1, IncomingRun
  <1>2. \A k \in 1..n : k - 1 \in 0..n /\ k \in 0..n /\ f[k - 1] \in Pages
    BY <1>1
  <1>3. \A k \in 1..n : f[k - 1].wounds \subseteq f[k].wounds
    BY <1>1, <1>2, IncomingType
  <1>4. \A k \in 0..n : f[k].wounds = {}
    BY <1>1, <1>3, NeverWounded
  <1> DEFINE T == {k \in 0..n : /\ Knows(R, f[k]) /\ f[k].s.cursor = Later(c, from + k)
                                /\ f[k].s.phase = p.s.phase /\ f[k].s.n = p.s.n}
  <1>5. 0 \in T
    BY <1>1 DEF Later
  <1>6. ASSUME NEW k \in 1..n, k - 1 \in T PROVE k \in T
    <2>1. /\ Knows(R, f[k - 1]) /\ f[k - 1].s.cursor = Later(c, from + (k - 1))
          /\ f[k - 1].s.phase = p.s.phase /\ f[k - 1].s.n = p.s.n
      BY <1>6
    <2> HIDE DEF T
    <2>2. from + k \in 1..Len(journal) /\ ops[k] = journal[from + k]
      BY <1>1 DEF Continues
    <2>3. from + k <= f[k - 1].s.cursor + 1
      BY <1>1, <2>1 DEF Later
    <2>4. f[k] = Incoming(f[k - 1], journal[from + k]) /\ f[k].wounds = {}
      BY <1>2, <1>4, <2>2
    <2>5. Knows(R, f[k]) /\ f[k].s.cursor = Later(f[k - 1].s.cursor, from + k)
      BY <2>1, <2>2, <2>3, <2>4, IncomingKeeps
    <2>6. f[k].s.phase = p.s.phase /\ f[k].s.n = p.s.n
      <3> PICK x \in Pages : x = f[k - 1]
        BY <1>2
      <3> PICK o \in RowOps : o = ops[k]
        BY <1>1
      <3>1. f[k] = Incoming(x, o)
        OBVIOUS
      <3>2. Incoming(x, o).s.phase = x.s.phase /\ Incoming(x, o).s.n = x.s.n
        BY <1>1, IncomingType
      <3> QED
        BY <2>1, <3>1, <3>2
    <2>7. Later(f[k - 1].s.cursor, from + k) = Later(c, from + k)
      BY <1>1, <2>1 DEF Later
    <2> QED
      BY <1>2, <2>5, <2>6, <2>7 DEF T
  <1> HIDE DEF T
  <1>7. n \in T
    <2>1. \A k \in 0..n : k \in T
      BY <1>1, <1>5, <1>6, UpTo
    <2>2. n \in 0..n
      BY <1>1
    <2> QED
      BY <2>1, <2>2
  <1> QED
    BY <1>7 DEF T

\* A whole answer.
LEMMA AnswerKeeps ==
    ASSUME NEW R, NEW p, Knows(R, p), NEW ops \in Seq(RowOps),
           \A j \in DOMAIN ops : ops[j] = journal[ops[j].seq] /\ ops[j].n > 0,
           AckFrameAll(p, ops).wounds = {}
    PROVE  /\ Knows(R, AckFrameAll(p, ops))
           /\ p.s.cursor <= AckFrameAll(p, ops).s.cursor
           /\ AckFrameAll(p, ops).s.phase = p.s.phase /\ AckFrameAll(p, ops).s.n = p.s.n
  <1> DEFINE n == Len(ops)
             c == p.s.cursor
  <1>1. /\ journal \in Seq(OpValue) /\ p \in Pages /\ c \in Nat
        /\ n \in Nat /\ DOMAIN ops = 1..n
        /\ \A k \in 1..n : ops[k] \in RowOps /\ ops[k].seq \in 1..Len(journal)
    <2>1. p \in Pages /\ journal \in Seq(OpValue)
      BY Types DEF Knows
    <2>2. c \in Nat
      BY <2>1, PageFields
    <2>3. n \in Nat /\ DOMAIN ops = 1..n /\ \A k \in 1..n : ops[k] \in RowOps
      BY SeqFacts
    <2> QED
      BY <2>1, <2>2, <2>3 DEF RowOps
  <1> PICK f \in [0..Len(ops) -> Pages] :
             /\ f[0] = p /\ f[Len(ops)] = AckFrameAll(p, ops)
             /\ \A k \in 1..Len(ops) : f[k] = AckFrame(f[k - 1], ops[k])
    BY <1>1, AckFrameRun
  <1>2. \A k \in 1..n : k - 1 \in 0..n /\ k \in 0..n /\ f[k - 1] \in Pages /\ f[k] \in Pages
    BY <1>1
  <1>3. \A k \in 1..n : f[k - 1].wounds \subseteq f[k].wounds
    BY <1>1, <1>2, IncomingType
  <1>4. \A k \in 0..n : f[k].wounds = {}
    BY <1>1, <1>3, NeverWounded
  <1> DEFINE T == {k \in 0..n : /\ Knows(R, f[k]) /\ c <= f[k].s.cursor
                                /\ f[k].s.phase = p.s.phase /\ f[k].s.n = p.s.n}
  <1>5. 0 \in T
    BY <1>1
  <1>6. ASSUME NEW k \in 1..n, k - 1 \in T PROVE k \in T
    <2>1. /\ Knows(R, f[k - 1]) /\ c <= f[k - 1].s.cursor
          /\ f[k - 1].s.phase = p.s.phase /\ f[k - 1].s.n = p.s.n
      BY <1>6
    <2> HIDE DEF T
    <2> DEFINE s == ops[k].seq
    <2>2. s \in 1..Len(journal) /\ ops[k] = journal[s] /\ journal[s].n > 0
      BY <1>1
    <2>3. f[k] = AckFrame(f[k - 1], journal[s]) /\ f[k].wounds = {}
      BY <1>2, <1>4, <2>2
    <2>4. Knows(R, f[k])
      <3> HIDE DEF s
      <3>1. AckFrame(f[k - 1], journal[s]).wounds = {}
        BY <2>3
      <3>2. Knows(R, AckFrame(f[k - 1], journal[s]))
        BY <2>1, <2>2, <3>1, AckFrameKeeps
      <3> QED
        BY <2>3, <3>2
    <2>5. /\ f[k].s.phase = p.s.phase /\ f[k].s.n = p.s.n
          /\ f[k - 1].s.cursor <= f[k].s.cursor
      <3> PICK x \in Pages : x = f[k - 1]
        BY <1>2
      <3> PICK o \in RowOps : o = ops[k]
        BY <1>1
      <3>1. f[k] = AckFrame(x, o)
        OBVIOUS
      <3>2. /\ AckFrame(x, o).s.phase = x.s.phase /\ AckFrame(x, o).s.n = x.s.n
            /\ x.s.cursor <= AckFrame(x, o).s.cursor
        BY <1>1, IncomingType
      <3> QED
        BY <2>1, <3>1, <3>2
    <2>6. f[k - 1].s.cursor \in Nat /\ f[k].s.cursor \in Nat
      BY <1>2, PageFields
    <2>7. c <= f[k].s.cursor
      BY <1>1, <2>1, <2>5, <2>6
    <2> QED
      BY <1>2, <2>4, <2>5, <2>7 DEF T
  <1> HIDE DEF T
  <1>7. n \in T
    <2>1. \A k \in 0..n : k \in T
      BY <1>1, <1>5, <1>6, UpTo
    <2>2. n \in 0..n
      BY <1>1
    <2> QED
      BY <2>1, <2>2
  <1> QED
    BY <1>7 DEF T

-----------------------------------------------------------------------------
(* Steps that leave the journal alone                                      *)

\* The facts one at a time.
LEMMA SoundParts ==
    ASSUME NEW R, TInv, RoomOK(R), PageOK(R, Page)
    PROVE  /\ Outgoing /\ Rows /\ Docs(R) /\ Lives(R) /\ OwnWords /\ AddsAreFresh
           /\ Arriving /\ Answered(R) /\ Asleep
           /\ Waiting(Page) /\ \A i \in Icon : IconOK(Page, i)
           /\ Orderly /\ session.phase = "live" => \A i \in Icon : Agrees(R, Page, i)
           /\ Knows(R, Page)
           /\ session.cursor \in 0..Len(journal) /\ session.n \in Nat
           /\ Len(journal) \in Nat /\ DOMAIN journal = 1..Len(journal)
           /\ Page.s = session /\ Page.w = world /\ Page.seen = seen /\ Page.wounds = wounds
           /\ seen = 1..session.cursor
  <1>1. Page \in Pages /\ session \in Session /\ DOMAIN journal = 1..Len(journal)
    BY Types
  <1>2. session.cursor \in 0..Len(journal) /\ session.n \in Nat /\ Len(journal) \in Nat
    BY <1>1, Types DEF Session
  <1>3. Page.s = session /\ Page.w = world /\ Page.seen = seen /\ Page.wounds = wounds
    BY PageIs
  <1>4. Waiting(Page)
    BY DEF PageOK
  <1> QED
    BY <1>1, <1>2, <1>3, <1>4 DEF RoomOK, PageOK, Knows, Waiting

LEMMA Resounds ==
    ASSUME NEW R, R \in [0..Len(journal') -> Doc],
           Outgoing', Rows', Docs(R)', Lives(R)', OwnWords', AddsAreFresh',
           Arriving', Answered(R)', Asleep', PageOK(R, Page)'
    PROVE  Sound'
  <1>1. RoomOK(R)'
    BY DEF RoomOK
  <1> QED
    BY <1>1 DEF Sound

\* A page that is shown.
LEMMA PageShown ==
    ASSUME NEW q \in Pages, Show(q)
    PROVE  /\ Page' = q /\ session' = q.s /\ world' = q.w
           /\ seen' = q.seen /\ wounds' = q.wounds
  <1>1. q = [s |-> q.s, w |-> q.w, seen |-> q.seen, wounds |-> q.wounds]
    BY DEF Pages, PageType
  <1> QED
    BY <1>1 DEF Show, Page

\* What is known of a page does not depend on the rest.
LEMMA PageStays ==
    ASSUME NEW R, NEW q, PageOK(R, q), Page' = q,
           UNCHANGED <<journal, typed, used>>, Flying' = Flying,
           dirty' = dirty \/ q.s.phase # "live"
    PROVE  PageOK(R, Page)'
  <1>1. Minted' = Minted
    BY DEF Minted
  <1>2. Waiting(Page)'
    BY DEF PageOK, Waiting
  <1>3. ASSUME NEW i \in Icon PROVE IconOK(Page, i)'
    <2>1. IconOK(q, i)
      BY DEF PageOK
    <2>2. OnIcon(Page, i)' = OnIcon(q, i)
      BY DEF OnIcon
    <2> QED
      BY <1>1, <2>1, <2>2 DEF IconOK, Fresh, Meant, Known, Spoken, Sorted, Unheard
  <1>4. Orderly' <=> Orderly
    BY DEF Orderly
  <1>5. ASSUME NEW i \in Icon, Agrees(R, q, i), dirty' = dirty PROVE Agrees(R, Page, i)'
    <2>1. OnIcon(Page, i)' = OnIcon(q, i)
      BY DEF OnIcon
    <2>2. Gone(R, Page, i)' <=> Gone(R, q, i)
      BY <2>1 DEF Gone
    <2> QED
      BY <1>5, <2>1, <2>2 DEF Agrees
  <1> QED
    BY <1>2, <1>3, <1>4, <1>5 DEF PageOK

LEMMA PageUntouched ==
    ASSUME NEW R, PageOK(R, Page), wounds' = wounds,
           UNCHANGED <<session, world, seen, journal, typed, used, dirty>>, Flying' = Flying
    PROVE  PageOK(R, Page)'
  <1>1. Page' = Page
    BY DEF Page
  <1> QED
    BY <1>1, PageStays

\* The journal and what is said about it.
LEMMA RoomStays ==
    ASSUME NEW R, RoomOK(R), UNCHANGED <<journal, doc, used, typed>>, Flying' = Flying,
           session'.n = session.n
    PROVE  Rows' /\ Docs(R)' /\ Lives(R)' /\ OwnWords' /\ AddsAreFresh'
           /\ R \in [0..Len(journal') -> Doc]
  <1>1. Rows'
    BY DEF RoomOK, Rows
  <1>2. Docs(R)' /\ R \in [0..Len(journal') -> Doc]
    BY DEF RoomOK, Docs
  <1>3. Lives(R)'
    BY DEF RoomOK, Lives
  <1>4. OwnWords' /\ AddsAreFresh'
    BY DEF RoomOK, OwnWords, AddsAreFresh
  <1> QED
    BY <1>1, <1>2, <1>3, <1>4

LEMMA OutgoingStays ==
    ASSUME Outgoing, UNCHANGED <<up, journal>>, Sent' = Sent, session'.n = session.n,
           conn' # "open" => up = <<>>
    PROVE  Outgoing' /\ Flying' = Flying
  <1>1. Flying' = Flying
    BY DEF Flying
  <1>2. \A ops : IsBatch(ops)' <=> IsBatch(ops)
    BY DEF IsBatch
  <1>3. /\ \A k \in DOMAIN up : IsBatch(up[k])
        /\ \A p \in Sent : IsBatch(p.ops)
    BY DEF Outgoing
  <1> QED
    BY <1>1, <1>2, <1>3 DEF Outgoing, Apart

LEMMA ArrivingStays ==
    ASSUME Arriving, UNCHANGED <<journal, down>>, session'.cursor = session.cursor,
           (conn' = "open") = (conn = "open")
    PROVE  Arriving'
  BY DEF Arriving

LEMMA ActivateSounds ==
    ASSUME TInv, NEW R, RoomOK(R), PageOK(R, Page), Activate
    PROVE  Sound'
  <1>1. /\ UNCHANGED <<journal, trim, doc, session, world, conn, since, up, down, posts,
                       dirty, used, typed, seen, wounds>>
        /\ session.phase = "cold" /\ read'.of = "adopt"
    BY DEF Activate, roomVars, wire, history, NoRead
  <1>2. Sent' = Sent
    BY <1>1 DEF Sent
  <1>3. Outgoing' /\ Flying' = Flying
    BY <1>1, <1>2, OutgoingStays, SoundParts DEF Outgoing
  <1>4. /\ Rows' /\ Docs(R)' /\ Lives(R)' /\ OwnWords' /\ AddsAreFresh'
        /\ R \in [0..Len(journal') -> Doc]
    BY <1>1, <1>3, RoomStays
  <1>5. Arriving'
    BY <1>1, SoundParts, ArrivingStays
  <1>6. Answered(R)'
    BY <1>1, SoundParts DEF Answered
  <1>7. Asleep'
    BY <1>1, SoundParts DEF Asleep
  <1>8. PageOK(R, Page)'
    BY <1>1, <1>3, PageUntouched
  <1> QED
    BY <1>3, <1>4, <1>5, <1>6, <1>7, <1>8, Resounds

LEMMA ServeReadSounds ==
    ASSUME TInv, NEW R, RoomOK(R), PageOK(R, Page), ServeRead
    PROVE  Sound'
  <1>1. UNCHANGED <<journal, trim, doc, session, world, conn, since, up, down, posts,
                    dirty, used, typed, seen, wounds>>
    BY DEF ServeRead, roomVars, wire, history
  <1>2. Sent' = Sent
    BY <1>1 DEF Sent
  <1>3. Outgoing' /\ Flying' = Flying
    BY <1>1, <1>2, OutgoingStays, SoundParts DEF Outgoing
  <1>4. /\ Rows' /\ Docs(R)' /\ Lives(R)' /\ OwnWords' /\ AddsAreFresh'
        /\ R \in [0..Len(journal') -> Doc]
    BY <1>1, <1>3, RoomStays
  <1>5. Arriving'
    BY <1>1, SoundParts, ArrivingStays
  <1>6. Answered(R)'
    <2>1. Answered(R) /\ R[Len(journal)] = doc
      BY SoundParts DEF Docs
    <2>2. read.of = "adopt"
      BY <2>1 DEF ServeRead, Answered
    <2>3. read'.of = "gotAdopt" /\ read'.doc = doc /\ read'.seq = Len(journal)
      BY <2>2 DEF ServeRead, NoRead
    <2> QED
      BY <1>1, <2>1, <2>2, <2>3 DEF Answered
  <1>7. Asleep'
    BY <1>1, SoundParts DEF Asleep
  <1>8. PageOK(R, Page)'
    BY <1>1, <1>3, PageUntouched
  <1> QED
    BY <1>3, <1>4, <1>5, <1>6, <1>7, <1>8, Resounds

\* An adoption that failed: the session was cold and stays asleep.
LEMMA ReadFailsSounds ==
    ASSUME TInv, NEW R, RoomOK(R), PageOK(R, Page), ReadFails
    PROVE  Sound'
  <1>1. /\ UNCHANGED <<journal, trim, doc, world, conn, since, up, down, posts,
                       dirty, used, typed, seen, wounds>>
        /\ read'.of = "none"
        /\ session' = [session EXCEPT !.phase = "inert"]
        /\ session.phase = "cold"
    <2>1. read.of \in {"adopt", "gotAdopt"} /\ session.phase = "cold"
      BY SoundParts DEF ReadFails, Answered
    <2> QED
      BY <2>1 DEF ReadFails, roomVars, wire, history, NoRead
  <1>2. /\ session'.n = session.n /\ session'.cursor = session.cursor
        /\ session'.phase = "inert" /\ session'.baseline = session.baseline
        /\ session'.pending = session.pending /\ session'.ids = session.ids
    BY <1>1, Types DEF Session
  <1>3. Sent' = Sent
    BY <1>1 DEF Sent
  <1>4. Outgoing' /\ Flying' = Flying
    BY <1>1, <1>2, <1>3, OutgoingStays, SoundParts DEF Outgoing
  <1>5. /\ Rows' /\ Docs(R)' /\ Lives(R)' /\ OwnWords' /\ AddsAreFresh'
        /\ R \in [0..Len(journal') -> Doc]
    BY <1>1, <1>2, <1>4, RoomStays
  <1>6. Arriving'
    BY <1>1, <1>2, SoundParts, ArrivingStays
  <1>7. Answered(R)'
    BY <1>1, <1>2, SoundParts DEF Answered
  <1>8. Asleep'
    BY <1>1, <1>2, SoundParts DEF Asleep
  <1>9. PageOK(R, Page)'
    <2> DEFINE q == [Page EXCEPT !.s = session']
    <2>1. /\ q.s = session' /\ q.w = world /\ q.seen = seen /\ q.wounds = wounds
          /\ Page' = q
      BY <1>1 DEF Page
    <2> HIDE DEF q
    <2>2. Waiting(q)
      BY <1>2, <2>1, SoundParts DEF Waiting
    <2>3. \A i \in Icon : OnIcon(q, i) = OnIcon(Page, i)
      BY <1>2, <2>1, SoundParts DEF OnIcon
    <2>4. ASSUME NEW i \in Icon PROVE IconOK(q, i)
      <3>1. session.cursor \in Nat /\ IconOK(Page, i)
        BY SoundParts
      <3> QED
        BY <1>2, <2>1, <2>3, <3>1, PageIs, IconKept
    <2>5. PageOK(R, q)
      BY <1>2, <2>1, <2>2, <2>4 DEF PageOK
    <2> QED
      BY <1>1, <1>4, <2>1, <2>5, PageStays
  <1> QED
    BY <1>4, <1>5, <1>6, <1>7, <1>8, <1>9, Resounds

LEMMA LadderFiresSounds ==
    ASSUME TInv, NEW R, RoomOK(R), PageOK(R, Page), LadderFires
    PROVE  Sound'
  <1>1. /\ UNCHANGED <<journal, trim, doc, session, world, up, down, posts, read,
                       dirty, used, typed, seen, wounds>>
        /\ conn = "ladder" /\ conn' = "connecting" /\ since' = session.cursor
    BY DEF LadderFires, roomVars, history
  <1>2. Sent' = Sent
    BY <1>1 DEF Sent
  <1>3. Outgoing' /\ Flying' = Flying
    BY <1>1, <1>2, OutgoingStays, SoundParts DEF Outgoing
  <1>4. /\ Rows' /\ Docs(R)' /\ Lives(R)' /\ OwnWords' /\ AddsAreFresh'
        /\ R \in [0..Len(journal') -> Doc]
    BY <1>1, <1>3, RoomStays
  <1>5. Arriving'
    BY <1>1, SoundParts, ArrivingStays
  <1>6. Answered(R)'
    BY <1>1, SoundParts DEF Answered
  <1>7. Asleep'
    BY <1>1, SoundParts DEF Asleep
  <1>8. PageOK(R, Page)'
    BY <1>1, <1>3, PageUntouched
  <1> QED
    BY <1>3, <1>4, <1>5, <1>6, <1>7, <1>8, Resounds

\* Nothing the invariant speaks of changes.
LEMMA IdleSounds ==
    ASSUME TInv, NEW R, RoomOK(R), PageOK(R, Page),
           UNCHANGED <<journal, doc, session, world, conn, since, up, down, posts, read,
                       dirty, used, typed, seen, wounds>>
    PROVE  Sound'
  <1>1. Sent' = Sent
    BY DEF Sent
  <1>2. Outgoing' /\ Flying' = Flying
    BY <1>1, OutgoingStays, SoundParts DEF Outgoing
  <1>3. /\ Rows' /\ Docs(R)' /\ Lives(R)' /\ OwnWords' /\ AddsAreFresh'
        /\ R \in [0..Len(journal') -> Doc]
    BY <1>2, RoomStays
  <1>4. Arriving'
    BY SoundParts, ArrivingStays
  <1>5. Answered(R)'
    BY SoundParts DEF Answered
  <1>6. Asleep'
    BY SoundParts DEF Asleep
  <1>7. PageOK(R, Page)'
    BY <1>2, PageUntouched
  <1> QED
    BY <1>2, <1>3, <1>4, <1>5, <1>6, <1>7, Resounds

\* A socket that drops with nothing on its way up.
LEMMA DropSounds ==
    ASSUME TInv, NEW R, RoomOK(R), PageOK(R, Page), Drop, wounds' = {}
    PROVE  Sound'
  <1>1. /\ UNCHANGED <<journal, trim, doc, session, world, since, posts, read,
                       dirty, used, typed, seen>>
        /\ conn \in {"connecting", "open"} /\ conn' = "ladder" /\ down' = <<>>
        /\ up = <<>> /\ up' = <<>> /\ wounds' = wounds
    BY DEF Drop, roomVars
  <1>2. Sent' = Sent
    BY <1>1 DEF Sent
  <1>3. Outgoing' /\ Flying' = Flying
    BY <1>1, <1>2, OutgoingStays, SoundParts DEF Outgoing
  <1>4. /\ Rows' /\ Docs(R)' /\ Lives(R)' /\ OwnWords' /\ AddsAreFresh'
        /\ R \in [0..Len(journal') -> Doc]
    BY <1>1, <1>3, RoomStays
  <1>5. Arriving'
    BY <1>1 DEF Arriving
  <1>6. Answered(R)'
    BY <1>1, SoundParts DEF Answered
  <1>7. Asleep'
    BY <1>1, SoundParts DEF Asleep
  <1>8. PageOK(R, Page)'
    BY <1>1, <1>3, PageUntouched
  <1> QED
    BY <1>3, <1>4, <1>5, <1>6, <1>7, <1>8, Resounds

\* An answer that is lost.
LEMMA PostFailsSounds ==
    ASSUME TInv, NEW R, RoomOK(R), PageOK(R, Page), PostFails, wounds' = {}
    PROVE  Sound'
  <1>1. PICK p \in posts : posts' = posts \ {p} /\ p.done /\ wounds' = wounds
    BY DEF PostFails
  <1>2. UNCHANGED <<journal, trim, doc, session, world, conn, since, up, down, read,
                    dirty, used, typed, seen>>
    BY DEF PostFails, roomVars, wire
  <1>3. Sent' = Sent
    BY <1>1 DEF Sent
  <1>4. Outgoing' /\ Flying' = Flying
    BY <1>2, <1>3, OutgoingStays, SoundParts DEF Outgoing
  <1>5. /\ Rows' /\ Docs(R)' /\ Lives(R)' /\ OwnWords' /\ AddsAreFresh'
        /\ R \in [0..Len(journal') -> Doc]
    BY <1>2, <1>4, RoomStays
  <1>6. Arriving'
    BY <1>2, SoundParts, ArrivingStays
  <1>7. Answered(R)'
    BY <1>1, <1>2, SoundParts DEF Answered
  <1>8. Asleep'
    BY <1>1, <1>2, SoundParts DEF Asleep
  <1>9. PageOK(R, Page)'
    BY <1>1, <1>2, <1>4, PageUntouched
  <1> QED
    BY <1>4, <1>5, <1>6, <1>7, <1>8, <1>9, Resounds

LEMMA Single ==
    ASSUME NEW x
    PROVE  DOMAIN <<x>> = {1} /\ Len(<<x>>) = 1 /\ <<x>>[1] = x /\ <<x>> # <<>>
  <1>1. <<x>> \in Seq({x}) /\ Len(<<x>>) = 1 /\ <<x>>[1] = x
    OBVIOUS
  <1>2. DOMAIN <<x>> = 1..1 /\ 1..1 = {1}
    BY <1>1
  <1> QED
    BY <1>1, <1>2

\* The replay of a join starts from a row the page has heard.
LEMMA JoinSounds ==
    ASSUME TInv, NEW R, RoomOK(R), PageOK(R, Page), Join, wounds' = {}
    PROVE  Sound'
  <1>1. /\ UNCHANGED <<journal, trim, doc, session, world, up, posts, read,
                       dirty, used, typed, seen>>
        /\ conn = "connecting" /\ conn' = "open" /\ since' = 0 /\ wounds' = wounds
        /\ ~(since < trim)
    BY DEF Join, roomVars
  <1>2. Sent' = Sent
    BY <1>1 DEF Sent
  <1>3. Outgoing' /\ Flying' = Flying
    <2>1. up = <<>>
      BY <1>1, SoundParts DEF Outgoing
    <2> QED
      BY <1>1, <1>2, <2>1, OutgoingStays, SoundParts
  <1>4. /\ Rows' /\ Docs(R)' /\ Lives(R)' /\ OwnWords' /\ AddsAreFresh'
        /\ R \in [0..Len(journal') -> Doc]
    BY <1>1, <1>3, RoomStays
  <1>5. Arriving'
    <2>1. /\ since <= session.cursor /\ session.cursor \in 0..Len(journal)
          /\ since \in Nat /\ trim \in Nat /\ Len(journal) \in Nat
      BY SoundParts, Types DEF Answered
    <2>2. Later(since, trim) = since
      BY <1>1, <2>1 DEF Later
    <2> PICK r \in Seq(OpValue) :
           /\ Len(r) = Len(journal) - since
           /\ \A k \in DOMAIN r : r[k] = journal[since + k] /\ since + k \in DOMAIN journal
           /\ r = <<>> <=> since = Len(journal)
           /\ down' = IF r = <<>> THEN <<>> ELSE <<[error |-> FALSE, ops |-> r]>>
      BY <2>2, JoinStep
    <2>3. CASE r = <<>>
      <3>1. down' = <<>> /\ session.cursor = Len(journal)
        BY <2>1, <2>3
      <3> QED
        BY <1>1, <3>1 DEF Arriving
    <2>4. CASE r # <<>>
      <3> DEFINE f == [error |-> FALSE, ops |-> r]
                 from == [j \in {1} |-> since]
      <3>1. down' = <<f>> /\ f.ops = r /\ f.error = FALSE
        BY <2>4
      <3> HIDE DEF f
      <3>2. DOMAIN down' = {1} /\ Len(down') = 1 /\ down'[1] = f /\ down' # <<>>
        BY <3>1, Single
      <3>3. from \in [{1} -> Nat] /\ from[1] = since
        BY <2>1
      <3>4. Follows(journal, f, since)
        BY <1>1, <2>4, <3>1 DEF Follows, Continues
      <3>5. since + Len(f.ops) = Len(journal)
        BY <2>1, <3>1
      <3> HIDE DEF from
      <3>6. /\ from[1] <= session'.cursor
            /\ \A j \in DOMAIN down' : Follows(journal', down'[j], from[j])
            /\ \A j \in DOMAIN down' :
                 from[j] + Len(down'[j].ops) = IF j = Len(down') THEN Len(journal')
                                               ELSE from[j + 1]
        BY <1>1, <2>1, <3>2, <3>3, <3>4, <3>5
      <3> QED
        BY <1>1, <3>2, <3>3, <3>6 DEF Arriving, Leads
    <2> QED
      BY <2>3, <2>4
  <1>6. Answered(R)'
    <2>1. 0 <= session.cursor
      BY SoundParts
    <2> QED
      BY <1>1, <2>1, SoundParts DEF Answered
  <1>7. Asleep'
    BY <1>1, SoundParts DEF Asleep
  <1>8. PageOK(R, Page)'
    BY <1>1, <1>3, PageUntouched
  <1> QED
    BY <1>3, <1>4, <1>5, <1>6, <1>7, <1>8, Resounds

\* A session that hears the first frame that came down.
LEMMA ReceiveSounds ==
    ASSUME TInv, NEW R, RoomOK(R), PageOK(R, Page), Receive, wounds' = {}
    PROVE  Sound'
  <1> DEFINE q == IncomingAll(Page, down[1].ops)
             c == session.cursor
  <1>1. /\ UNCHANGED <<journal, trim, doc, conn, since, up, posts, dirty, used, typed>>
        /\ down # <<>> /\ down' = Tail(down) /\ Head(down) = down[1]
    BY TailDown DEF Receive, roomVars
  <1>2. conn = "open"
    BY <1>1, SoundParts DEF Arriving
  <1>18. PICK from \in [DOMAIN down -> Nat] :
         /\ from[1] <= c
         /\ \A j \in DOMAIN down : Follows(journal, down[j], from[j])
         /\ \A j \in DOMAIN down :
              from[j] + Len(down[j].ops) = IF j = Len(down) THEN Len(journal) ELSE from[j + 1]
    BY <1>1, SoundParts DEF Arriving, Leads
  <1>3. /\ DOMAIN down = 1..Len(down) /\ Len(down) \in Nat \ {0} /\ 1 \in DOMAIN down
        /\ DOMAIN Tail(down) = 1..(Len(down) - 1)
        /\ Len(Tail(down)) = Len(down) - 1
        /\ \A k \in 1..(Len(down) - 1) : Tail(down)[k] = down[k + 1] /\ k + 1 \in DOMAIN down
        /\ Tail(down) = <<>> <=> Len(down) = 1
        /\ down[1].ops \in Seq(RowOps)
    BY <1>1, TailDown
  <1>4. Follows(journal, down[1], from[1]) /\ from[1] \in Nat /\ ~down[1].error
    BY <1>3, <1>18 DEF Follows
  <1>5. Show(q) /\ UNCHANGED read
    BY <1>1, <1>4 DEF Receive
  <1>6. q.wounds = {}
    BY <1>5 DEF Show
  <1>7. /\ Knows(R, q) /\ q.s.cursor = Later(c, from[1] + Len(down[1].ops))
        /\ q.s.phase = session.phase /\ q.s.n = session.n
    <2>1. /\ Continues(journal, down[1].ops, from[1])
          /\ from[1] <= Page.s.cursor /\ Page.s = session
      BY <1>4, <1>18, SoundParts DEF Follows
    <2>2. Knows(R, Page)
      BY SoundParts
    <2> PICK ops \in Seq(RowOps) : ops = down[1].ops
      BY <1>3
    <2> PICK k \in Nat : k = from[1]
      BY <1>4
    <2>3. /\ Continues(journal, ops, k)
          /\ k <= Page.s.cursor /\ IncomingAll(Page, ops).wounds = {}
      BY <1>6, <2>1
    <2>4. /\ Knows(R, IncomingAll(Page, ops))
          /\ IncomingAll(Page, ops).s.cursor = Later(Page.s.cursor, k + Len(ops))
          /\ IncomingAll(Page, ops).s.phase = Page.s.phase
          /\ IncomingAll(Page, ops).s.n = Page.s.n
      BY <2>2, <2>3, FrameKeeps
    <2> QED
      BY <2>1, <2>4
  <1>8. q \in Pages /\ PageOK(R, q)
    BY <1>7 DEF Knows
  <1> HIDE DEF q
  <1>9. Page' = q /\ session' = q.s /\ seen' = q.seen
    BY <1>5, <1>8, PageShown
  <1>10. Sent' = Sent
    BY <1>1 DEF Sent
  <1>11. Outgoing' /\ Flying' = Flying
    BY <1>1, <1>2, <1>7, <1>9, <1>10, OutgoingStays, SoundParts
  <1>12. /\ Rows' /\ Docs(R)' /\ Lives(R)' /\ OwnWords' /\ AddsAreFresh'
         /\ R \in [0..Len(journal') -> Doc]
    BY <1>1, <1>7, <1>9, <1>11, RoomStays
  <1>13. PageOK(R, Page)'
    BY <1>1, <1>8, <1>9, <1>11, PageStays
  <1>14. c <= session'.cursor /\ from[1] + Len(down[1].ops) <= session'.cursor
         /\ session'.cursor \in Nat /\ c \in 0..Len(journal) /\ Len(journal) \in Nat
    <2>1. Len(down[1].ops) \in Nat /\ c \in 0..Len(journal) /\ Len(journal) \in Nat
      BY <1>3, SoundParts, SeqFacts
    <2> QED
      BY <1>4, <1>7, <1>9, <2>1 DEF Later
  <1>15. Arriving'
    <2>1. CASE Len(down) = 1
      <3>1. from[1] + Len(down[1].ops) = Len(journal) /\ down' = <<>>
        BY <1>1, <1>3, <1>18, <2>1
      <3>2. session'.cursor = Len(journal)
        BY <1>4, <1>7, <1>9, <1>14, <3>1 DEF Later
      <3> QED
        BY <1>1, <1>2, <3>1, <3>2 DEF Arriving
    <2>2. CASE Len(down) # 1
      <3> DEFINE on == [j \in 1..(Len(down) - 1) |-> from[j + 1]]
      <3>1. on \in [DOMAIN down' -> Nat] /\ 1 \in DOMAIN down' /\ down' # <<>>
        BY <1>1, <1>3, <1>18, <2>2
      <3>2. on[1] <= session'.cursor
        <4>1. from[1] + Len(down[1].ops) = from[1 + 1]
          <5>1. 1 \in DOMAIN down /\ 1 # Len(down)
            BY <1>3, <2>2
          <5> QED
            BY <1>18, <5>1
        <4>2. on[1] = from[1 + 1]
          BY <1>3, <2>2
        <4> QED
          BY <1>14, <4>1, <4>2
      <3>3. ASSUME NEW j \in DOMAIN down'
            PROVE  /\ Follows(journal', down'[j], on[j])
                   /\ on[j] + Len(down'[j].ops) = IF j = Len(down') THEN Len(journal')
                                                  ELSE on[j + 1]
        <4>1. /\ j \in 1..(Len(down) - 1) /\ down'[j] = down[j + 1] /\ on[j] = from[j + 1]
              /\ j + 1 \in DOMAIN down /\ Len(down') = Len(down) - 1
          BY <1>1, <1>3, <3>3
        <4>2. Follows(journal, down[j + 1], from[j + 1])
          BY <1>18, <4>1
        <4>3. Follows(journal', down'[j], on[j])
          BY <1>1, <4>1, <4>2
        <4>4. from[j + 1] + Len(down[j + 1].ops)
                = IF j + 1 = Len(down) THEN Len(journal) ELSE from[(j + 1) + 1]
          BY <1>18, <4>1
        <4>5. CASE j + 1 = Len(down)
          BY <1>1, <1>3, <4>1, <4>3, <4>4, <4>5
        <4>6. CASE j + 1 # Len(down)
          <5>1. j + 1 \in 1..(Len(down) - 1) /\ on[j + 1] = from[(j + 1) + 1] /\ j # Len(down')
            BY <1>3, <4>1, <4>6
          <5> QED
            BY <4>1, <4>3, <4>4, <4>6, <5>1
        <4> QED
          BY <4>5, <4>6
      <3> HIDE DEF on
      <3> QED
        BY <1>1, <1>2, <3>1, <3>2, <3>3 DEF Arriving, Leads
    <2> QED
      BY <2>1, <2>2
  <1>16. Answered(R)'
    <2>1. Answered(R) /\ since \in Nat
      BY SoundParts, Types
    <2>2. since <= session'.cursor
      BY <1>14, <2>1 DEF Answered
    <2> QED
      BY <1>1, <1>5, <1>7, <1>9, <2>1, <2>2 DEF Answered
  <1>17. Asleep'
    BY <1>1, <1>2, <1>7, <1>9, SoundParts DEF Asleep
  <1> QED
    BY <1>11, <1>12, <1>13, <1>15, <1>16, <1>17, Resounds

\* A session that gets the answer of a POST.
LEMMA PostAnsweredSounds ==
    ASSUME TInv, NEW R, RoomOK(R), PageOK(R, Page), PostAnswered, wounds' = {}
    PROVE  Sound'
  <1> PICK p \in posts : /\ p.done /\ posts' = posts \ {p}
                         /\ Show(AckFrameAll(Page, p.ops))
    BY DEF PostAnswered
  <1> DEFINE q == AckFrameAll(Page, p.ops)
             c == session.cursor
  <1>1. UNCHANGED <<journal, trim, doc, conn, since, up, down, read, dirty, used, typed>>
    BY DEF PostAnswered, roomVars, wire
  <1>2. p.ops \in Seq(RowOps)
    <2>1. p.ops \in Seq(OpValue)
      BY Types DEF Post
    <2>2. InJournal(p.ops)
      BY DEF TInv, Stamped
    <2> QED
      BY <2>1, <2>2, RowsOfJournal
  <1>3. Show(q) /\ q.wounds = {}
    BY DEF Show
  <1>4. /\ Knows(R, q) /\ c <= q.s.cursor
        /\ q.s.phase = session.phase /\ q.s.n = session.n
    <2>1. \A j \in DOMAIN p.ops : p.ops[j] = journal[p.ops[j].seq] /\ p.ops[j].n > 0
      BY SoundParts DEF Answered
    <2>2. Knows(R, Page) /\ Page.s = session
      BY SoundParts
    <2> QED
      BY <1>2, <1>3, <2>1, <2>2, AnswerKeeps
  <1>5. q \in Pages /\ PageOK(R, q)
    BY <1>4 DEF Knows
  <1> HIDE DEF q
  <1>6. Page' = q /\ session' = q.s /\ seen' = q.seen
    BY <1>3, <1>5, PageShown
  <1>7. Sent' = Sent
    BY <1>1 DEF Sent
  <1>8. Outgoing' /\ Flying' = Flying
    BY <1>1, <1>4, <1>6, <1>7, OutgoingStays, SoundParts DEF Outgoing
  <1>9. /\ Rows' /\ Docs(R)' /\ Lives(R)' /\ OwnWords' /\ AddsAreFresh'
        /\ R \in [0..Len(journal') -> Doc]
    BY <1>1, <1>4, <1>6, <1>8, RoomStays
  <1>10. PageOK(R, Page)'
    BY <1>1, <1>5, <1>6, <1>8, PageStays
  <1>11. /\ c \in 0..Len(journal) /\ session'.cursor \in 0..Len(journal) /\ c <= session'.cursor
         /\ Len(journal) \in Nat
    BY <1>4, <1>5, <1>6, SoundParts, PageFields
  <1>12. Arriving'
    <2>1. Arriving
      BY SoundParts
    <2>2. conn' = "open" /\ down' = <<>> => session'.cursor = Len(journal')
      BY <1>1, <1>11, <2>1 DEF Arriving
    <2>3. down' # <<>> => Leads(journal', down', session'.cursor)
      <3> SUFFICES ASSUME down # <<>> PROVE Leads(journal, down, session'.cursor)
        BY <1>1
      <3> PICK from \in [DOMAIN down -> Nat] :
                   /\ from[1] <= c
                   /\ \A j \in DOMAIN down : Follows(journal, down[j], from[j])
                   /\ \A j \in DOMAIN down :
                        from[j] + Len(down[j].ops) = IF j = Len(down) THEN Len(journal)
                                                     ELSE from[j + 1]
        BY <2>1 DEF Arriving, Leads
      <3>1. from[1] <= session'.cursor
        <4>1. 1 \in DOMAIN down
          BY TailDown
        <4> QED
          BY <1>11, <4>1
      <3> QED
        BY <3>1 DEF Leads
    <2> QED
      BY <1>1, <2>1, <2>2, <2>3 DEF Arriving
  <1>13. Answered(R)'
    <2>1. Answered(R) /\ since \in Nat
      BY SoundParts, Types
    <2>2. since <= session'.cursor
      BY <1>11, <2>1 DEF Answered
    <2> QED
      BY <1>1, <1>4, <1>6, <2>1, <2>2 DEF Answered
  <1>14. Asleep'
    BY <1>1, <1>4, <1>6, SoundParts DEF Asleep
  <1> QED
    BY <1>8, <1>9, <1>10, <1>12, <1>13, <1>14, Resounds

\* The page once the doc is adopted is the doc the room had then.
LEMMA AdoptSounds ==
    ASSUME TInv, NEW R, RoomOK(R), PageOK(R, Page), Adopt
    PROVE  Sound'
  <1> DEFINE c == read.seq
  <1>1. /\ session' = [session EXCEPT !.phase = "live", !.cursor = c, !.baseline = read.doc]
        /\ world' = read.doc /\ seen' = 1..c
        /\ conn' = "connecting" /\ since' = c /\ read' = NoRead
        /\ UNCHANGED <<journal, trim, doc, up, posts, down, dirty, edits, others, breaks,
                       used, typed, wounds>>
        /\ read.of = "gotAdopt"
    BY AdoptStep
  <1>2. /\ session'.phase = "live" /\ session'.cursor = c /\ session'.baseline = read.doc
        /\ session'.n = session.n /\ session'.pending = session.pending
        /\ session'.ids = session.ids
    BY <1>1, Types DEF Session
  <1>3. /\ session.phase = "cold" /\ read.doc = R[c]
        /\ session.cursor = 0 /\ session.pending = {} /\ session.ids = {}
        /\ up = <<>> /\ posts = {} /\ conn = "none"
        /\ \A k \in DOMAIN journal : journal[k].n = 0
        /\ down = <<>>
    BY <1>1, SoundParts DEF Answered, Asleep, Arriving
  <1>4. c \in 0..Len(journal) /\ Len(journal) \in Nat /\ DOMAIN journal = 1..Len(journal)
        /\ R[c] \in Doc
    BY TypesNow, SoundParts DEF Docs
  <1>5. Sent' = Sent
    BY <1>1 DEF Sent
  <1>6. Outgoing' /\ Flying' = Flying
    BY <1>1, <1>2, <1>3, <1>5, OutgoingStays, SoundParts
  <1>7. /\ Rows' /\ Docs(R)' /\ Lives(R)' /\ OwnWords' /\ AddsAreFresh'
        /\ R \in [0..Len(journal') -> Doc]
    BY <1>1, <1>2, <1>6, RoomStays
  <1>8. Arriving'
    BY <1>1, <1>3 DEF Arriving
  <1>9. Answered(R)'
    <2>1. since' <= session'.cursor
      BY <1>1, <1>2, <1>4
    <2>2. read'.of = "none"
      BY <1>1 DEF NoRead
    <2> QED
      BY <1>1, <1>3, <2>1, <2>2 DEF Answered
  <1>10. Asleep'
    BY <1>2 DEF Asleep
  <1>11. PageOK(R, Page)'
    <2> DEFINE q == [s |-> session', w |-> world', seen |-> seen', wounds |-> wounds']
    <2>1. /\ Page' = q /\ q.s = session' /\ q.w = R[c] /\ q.seen = 1..c
          /\ q.s.baseline = R[c] /\ q.s.cursor = c
      BY <1>1, <1>2, <1>3 DEF Page
    <2> HIDE DEF q
    <2>2. \A i \in Icon : OnIcon(q, i) = {}
      BY <1>2, <1>3, <2>1 DEF OnIcon
    <2>3. Waiting(q)
      <3>1. Flying = {}
        <4>1. DOMAIN up = {} /\ Sent = {}
          BY <1>3, EmptySeq DEF Sent
        <4> QED
          BY <4>1 DEF Flying
      <3> QED
        BY <1>2, <1>3, <2>1, <3>1 DEF Waiting
    <2>4. ASSUME NEW i \in Icon PROVE IconOK(q, i)
      <3>1. Fresh(q, i) /\ Meant(q, i)
        BY <2>1 DEF Fresh, Meant
      <3>2. Known(q, i)
        <4>1. R[c][i] # Absent => i \in used
          BY <1>4, SoundParts DEF Docs
        <4> QED
          BY <2>1, <4>1 DEF Known
      <3>3. Spoken(q, i) /\ Sorted(q, i)
        BY <2>2 DEF Spoken, Sorted
      <3>4. Unheard(q, i)
        <4> SUFFICES ASSUME NEW k \in DOMAIN journal, k > c, journal[k].kind = "add",
                            journal[k].n = 0, journal[k].item = i
                     PROVE  i \notin Minted /\ R[c][i] = Absent
          BY <2>1 DEF Unheard
        <4>1. i \notin Minted
          <5>1. Unheard(Page, i) /\ Page.s.cursor = 0 /\ k > 0
            BY <1>3, <1>4, SoundParts DEF IconOK
          <5> QED
            BY <5>1 DEF Unheard
        <4>2. R[c][i] = Absent
          <5>1. c \in 0..(k - 1)
            BY <1>4
          <5> QED
            BY <5>1, SoundParts DEF Lives
        <4> QED
          BY <4>1, <4>2
      <3> QED
        BY <3>1, <3>2, <3>3, <3>4 DEF IconOK
    <2>5. ASSUME NEW i \in Icon PROVE Agrees(R, q, i)
      <3>1. Gone(R, q, i) <=> R[c][i] = Absent
        BY <2>1, <2>2 DEF Gone
      <3> QED
        BY <2>1, <2>2, <3>1 DEF Agrees
    <2>6. PageOK(R, q)
      BY <2>3, <2>4, <2>5 DEF PageOK
    <2> QED
      BY <1>1, <1>6, <2>1, <2>6, PageStays
  <1> QED
    BY <1>6, <1>7, <1>8, <1>9, <1>10, <1>11, Resounds

\* An unwounded session never comes to rebase.
LEMMA NoRebase ==
    ASSUME TInv, NEW R, RoomOK(R), PageOK(R, Page)
    PROVE  ~RebaseOps /\ ~RebaseSnapshot
  BY SoundParts DEF Answered, RebaseOps, RebaseSnapshot

\* The user's own hand.
LEMMA EditSounds ==
    ASSUME TInv, NEW R, RoomOK(R), PageOK(R, Page), Edit
    PROVE  Sound'
  <1> PICK i \in Icon, v \in Val \cup {Absent} :
         /\ v # world[i]
         /\ world[i] = Absent => i \notin used \cup Minted
         /\ world' = [world EXCEPT ![i] = v]
         /\ dirty' = dirty \cup {i}
         /\ typed' = typed \cup {<<i, v>>}
    BY DEF Edit
  <1>1. UNCHANGED <<journal, trim, doc, session, conn, since, up, down, posts, read,
                    used, seen, wounds>>
    BY DEF Edit, roomVars, wire
  <1>2. world \in Doc /\ world'[i] = v /\ \A j \in Icon : j # i => world'[j] = world[j]
    BY Types DEF Doc
  <1>3. Minted' = Minted \cup {i} /\ typed \subseteq typed' /\ <<i, v>> \in typed'
    <2>1. typed' = typed \cup {<<i, v>>} /\ <<i, v>>[1] = i
      OBVIOUS
    <2> QED
      BY <2>1 DEF Minted
  <1>4. Sent' = Sent
    BY <1>1 DEF Sent
  <1>5. Outgoing' /\ Flying' = Flying
    BY <1>1, <1>4, OutgoingStays, SoundParts DEF Outgoing
  <1>6. /\ Rows' /\ Docs(R)' /\ Lives(R)' /\ AddsAreFresh' /\ R \in [0..Len(journal') -> Doc]
    <2>1. Rows' /\ Docs(R)' /\ Lives(R)' /\ R \in [0..Len(journal') -> Doc]
      BY <1>1 DEF RoomOK, Rows, Docs, Lives
    <2>2. AddsAreFresh'
      BY <1>1, <1>5 DEF RoomOK, AddsAreFresh
    <2> QED
      BY <2>1, <2>2
  <1>7. OwnWords'
    BY <1>1, <1>3, <1>5 DEF RoomOK, OwnWords
  <1>8. Arriving'
    BY <1>1, SoundParts, ArrivingStays
  <1>9. Answered(R)'
    BY <1>1, SoundParts DEF Answered
  <1>10. Asleep'
    BY <1>1, SoundParts DEF Asleep
  <1>11. PageOK(R, Page)'
    <2> DEFINE b == session.baseline
    <2>1. /\ Page'.s = session /\ Page'.w = world' /\ Page'.seen = seen
          /\ Page.s = session /\ Page.w = world /\ Page.seen = seen
      BY <1>1 DEF Page
    <2>2. \A j \in Icon : OnIcon(Page, j)' = OnIcon(Page, j)
      BY <2>1 DEF OnIcon
    <2>3. Waiting(Page)'
      BY <1>1, <1>5, <2>1, SoundParts DEF Waiting
    <2>4. ASSUME NEW j \in Icon, j # i PROVE IconOK(Page, j)'
      <3>1. IconOK(Page, j) /\ world'[j] = world[j] /\ OnIcon(Page, j)' = OnIcon(Page, j)
        BY <1>2, <2>2, <2>4, SoundParts
      <3>2. Fresh(Page, j)' /\ Known(Page, j)'
        BY <1>1, <1>3, <2>1, <3>1 DEF IconOK, Fresh, Known
      <3>3. Meant(Page, j)' /\ Spoken(Page, j)'
        BY <1>3, <2>1, <3>1 DEF IconOK, Meant, Spoken
      <3>4. Sorted(Page, j)'
        BY <3>1 DEF IconOK, Sorted
      <3>5. Unheard(Page, j)'
        BY <1>1, <1>3, <2>1, <2>4, <3>1 DEF IconOK, Unheard
      <3> QED
        BY <3>2, <3>3, <3>4, <3>5 DEF IconOK
    <2>5. IconOK(Page, i)'
      <3>1. IconOK(Page, i) /\ OnIcon(Page, i)' = OnIcon(Page, i) /\ Knows(R, Page)
        BY <2>2, SoundParts
      <3>2. world[i] = Absent => i \notin used /\ i \notin Minted /\ OnIcon(Page, i) = {}
        BY <3>1, QuietIcon
      <3>3. Fresh(Page, i)'
        BY <1>1, <2>1, <3>1, <3>2 DEF IconOK, Fresh
      <3>4. Meant(Page, i)' /\ Known(Page, i)'
        BY <1>2, <1>3, <2>1 DEF Meant, Known
      <3>5. Spoken(Page, i)'
        BY <1>2, <1>3, <2>1, <3>1, <3>2 DEF IconOK, Spoken
      <3>6. Sorted(Page, i)'
        BY <3>1 DEF IconOK, Sorted
      <3>7. Unheard(Page, i)'
        <4> SUFFICES ASSUME NEW k \in DOMAIN journal, k > session.cursor,
                            journal[k].kind = "add", journal[k].n = 0, journal[k].item = i
                     PROVE  FALSE
          BY <1>1, <2>1 DEF Unheard
        <4>1. world[i] = Absent
          BY <2>1, <3>1 DEF IconOK, Unheard
        <4>2. i \in used
          BY SoundParts DEF Rows
        <4> QED
          BY <3>2, <4>1, <4>2
      <3> QED
        BY <3>3, <3>4, <3>5, <3>6, <3>7 DEF IconOK
    <2>6. Orderly' <=> Orderly
      BY <1>1, <1>5 DEF Orderly
    <2>7. ASSUME NEW j \in Icon, Agrees(R, Page, j) PROVE Agrees(R, Page, j)'
      <3>1. Gone(R, Page, j)' <=> Gone(R, Page, j)
        BY <2>1, <2>2 DEF Gone
      <3>2. j \notin dirty' => j \notin dirty /\ world'[j] = world[j]
        BY <1>2
      <3> QED
        BY <2>1, <2>2, <2>7, <3>1, <3>2 DEF Agrees
    <2>8. Page'.s.phase = session.phase /\ Page.s.phase = session.phase
      BY <2>1
    <2> QED
      BY <2>3, <2>4, <2>5, <2>6, <2>7, <2>8 DEF PageOK
  <1> QED
    BY <1>5, <1>6, <1>7, <1>8, <1>9, <1>10, <1>11, Resounds

\* A batch with new numbers, on its way.
LEMMA SubmitGoesOut ==
    ASSUME TInv, Outgoing, Rows, NEW ops \in Seq(OpValue), ops # <<>>, Submit(ops),
           UNCHANGED <<conn, journal>>, session'.n \in Nat, session.n <= session'.n,
           \A k \in DOMAIN ops : /\ ops[k].n \in (session.n + 1)..session'.n /\ ops[k].seq = 0
                                 /\ ops[k].kind = "remove" <=> ops[k].val = Absent,
           \A j, k \in DOMAIN ops : j < k => ops[j].n < ops[k].n /\ ops[j].item # ops[k].item
    PROVE  /\ Outgoing' /\ Flying' = Flying \cup Range(ops)
           /\ \A p : p \in posts' /\ p.done => p \in posts
  <1>1. /\ session.n \in Nat /\ up \in Seq(Seq(OpValue)) /\ posts \subseteq Post
        /\ DOMAIN journal = 1..Len(journal)
    BY Types DEF Session
  <1>2. IsBatch(ops)'
    <2>1. \A k \in DOMAIN ops : ops[k].n \in 1..session'.n
      BY <1>1
    <2> QED
      BY <2>1 DEF IsBatch
  <1>3. \A x : IsBatch(x) => IsBatch(x)'
    <2> SUFFICES ASSUME NEW x, IsBatch(x) PROVE IsBatch(x)'
      OBVIOUS
    <2>1. \A k \in DOMAIN x : x[k].n \in 1..session'.n
      BY <1>1 DEF IsBatch
    <2> QED
      BY <2>1 DEF IsBatch
  <1>4. \A x : IsBatch(x) => Apart(x, ops) /\ Apart(ops, x)
    <2> SUFFICES ASSUME NEW x, IsBatch(x), NEW j \in DOMAIN x, NEW k \in DOMAIN ops
                 PROVE  x[j].n # ops[k].n
      BY DEF Apart
    <2>1. x[j].n \in 1..session.n /\ ops[k].n \in (session.n + 1)..session'.n
      BY DEF IsBatch
    <2> QED
      BY <1>1, <2>1
  <1>5. \A u \in Range(ops), k \in DOMAIN journal : journal'[k].n # u.n
    <2> SUFFICES ASSUME NEW u \in Range(ops), NEW k \in DOMAIN journal
                 PROVE  journal[k].n # u.n
      OBVIOUS
    <2>1. u.n \in (session.n + 1)..session'.n
      BY SeqFacts
    <2>2. journal[k].n \in 0..session.n
      BY DEF Rows
    <2> QED
      BY <1>1, <2>1, <2>2
  <1>6. /\ \A k \in DOMAIN up : IsBatch(up[k])
        /\ \A p \in Sent : IsBatch(p.ops)
    BY DEF Outgoing
  <1>7. \A u \in Flying, k \in DOMAIN journal' : journal'[k].n # u.n
    BY DEF Outgoing
  <1>8. CASE conn = "open"
    <2>1. up' = Append(up, ops) /\ posts' = posts
      BY <1>8 DEF Submit
    <2>2. /\ DOMAIN up' = DOMAIN up \cup {Len(up) + 1} /\ Len(up) + 1 \notin DOMAIN up
          /\ up'[Len(up) + 1] = ops
          /\ \A k \in DOMAIN up : up'[k] = up[k]
      <3>1. /\ DOMAIN up' = 1..(Len(up) + 1) /\ up'[Len(up) + 1] = ops
            /\ \A k \in 1..Len(up) : up'[k] = up[k]
        BY <1>1, <2>1, AppendFacts
      <3>2. DOMAIN up = 1..Len(up) /\ Len(up) \in Nat
        BY <1>1, SeqFacts
      <3> QED
        BY <3>1, <3>2
    <2>3. Sent' = Sent
      BY <2>1 DEF Sent
    <2>4. Flying' = Flying \cup Range(ops)
      <3>1. UNION {Range(up'[k]) : k \in DOMAIN up'}
              = (UNION {Range(up[k]) : k \in DOMAIN up}) \cup Range(ops)
        BY <2>2
      <3> QED
        BY <2>3, <3>1 DEF Flying
    <2>5. \A k \in DOMAIN up' : IsBatch(up'[k]) \/ up'[k] = ops
      BY <1>6, <2>2
    <2>7. \A k \in DOMAIN up', j \in DOMAIN up' : j # k => Apart(up'[j], up'[k])
      <3> SUFFICES ASSUME NEW k \in DOMAIN up', NEW j \in DOMAIN up', j # k
                   PROVE  Apart(up'[j], up'[k])
        OBVIOUS
      <3>1. CASE j \in DOMAIN up /\ k \in DOMAIN up
        BY <2>2, <3>1 DEF Outgoing
      <3>2. CASE j \notin DOMAIN up \/ k \notin DOMAIN up
        BY <1>4, <1>6, <2>2, <3>2
      <3> QED
        BY <3>1, <3>2
    <2>8. \A k \in DOMAIN up', p \in Sent : Apart(up'[k], p.ops)
      <3> SUFFICES ASSUME NEW k \in DOMAIN up', NEW p \in Sent PROVE Apart(up'[k], p.ops)
        OBVIOUS
      <3>1. CASE k \in DOMAIN up
        BY <2>2, <3>1 DEF Outgoing
      <3>2. CASE k \notin DOMAIN up
        BY <1>4, <1>6, <2>2, <3>2
      <3> QED
        BY <3>1, <3>2
    <2>9. Outgoing'
      <3>1. /\ \A k \in DOMAIN up' : IsBatch(up[k])'
            /\ \A p \in Sent' : IsBatch(p.ops)'
        <4>1. \A x : x = ops => IsBatch(x)'
          BY <1>2
        <4>2. ASSUME NEW k \in DOMAIN up', NEW x, x = up'[k] PROVE IsBatch(x)'
          BY <1>3, <2>5, <4>1, <4>2
        <4>3. \A k \in DOMAIN up' : IsBatch(up[k])'
          BY <4>2 DEF IsBatch
        <4> QED
          BY <1>3, <1>6, <2>3, <4>3
      <3>2. \A u \in Flying', k \in DOMAIN journal' : journal'[k].n # u.n
        BY <1>5, <1>7, <2>4
      <3>3. /\ \A j, k \in DOMAIN up' : j # k => Apart(up'[j], up'[k])
            /\ \A k \in DOMAIN up', p \in Sent' : Apart(up'[k], p.ops)
            /\ \A p, q \in Sent' : p # q => Apart(p.ops, q.ops)
            /\ conn' # "open" => up' = <<>>
        BY <1>8, <2>3, <2>7, <2>8 DEF Outgoing
      <3> QED
        BY <3>1, <3>2, <3>3 DEF Outgoing, Apart
    <2> QED
      BY <2>1, <2>4, <2>9
  <1>9. CASE conn # "open"
    <2> DEFINE r == [ops |-> ops, done |-> FALSE]
    <2>1. up' = up /\ posts' = posts \cup {r}
      BY <1>9 DEF Submit
    <2>2. r.ops = ops /\ ~r.done
      OBVIOUS
    <2> HIDE DEF r
    <2>3. Sent' = Sent \cup {r}
      BY <2>1, <2>2 DEF Sent
    <2>4. Flying' = Flying \cup Range(ops)
      <3>1. UNION {Range(p.ops) : p \in Sent'} = (UNION {Range(p.ops) : p \in Sent}) \cup Range(ops)
        BY <2>2, <2>3
      <3> QED
        BY <2>1, <3>1 DEF Flying
    <2>5. Outgoing'
      <3>1. /\ \A k \in DOMAIN up' : IsBatch(up[k])'
            /\ \A p \in Sent' : IsBatch(p.ops)'
        <4>1. \A x : x = ops => IsBatch(x)'
          BY <1>2
        <4>2. ASSUME NEW x, NEW k \in DOMAIN up, x = up[k] PROVE IsBatch(x)'
          BY <1>3, <1>6, <4>2
        <4>3. \A k \in DOMAIN up' : IsBatch(up[k])'
          BY <2>1, <4>2 DEF IsBatch
        <4> QED
          BY <1>3, <1>6, <2>2, <2>3, <4>1, <4>3
      <3>2. \A u \in Flying', k \in DOMAIN journal' : journal'[k].n # u.n
        BY <1>5, <1>7, <2>4
      <3>3. /\ \A j, k \in DOMAIN up' : j # k => Apart(up'[j], up'[k])
            /\ conn' # "open" => up' = <<>>
        BY <1>9, <2>1 DEF Outgoing
      <3>4. \A k \in DOMAIN up', p \in Sent' : Apart(up'[k], p.ops)
        <4> SUFFICES ASSUME NEW k \in DOMAIN up, NEW p \in Sent \cup {r}
                     PROVE  Apart(up[k], p.ops)
          BY <2>1, <2>3
        <4> QED
          BY <1>4, <1>6, <2>2 DEF Outgoing
      <3>5. \A p, q \in Sent' : p # q => Apart(p.ops, q.ops)
        <4> SUFFICES ASSUME NEW p \in Sent \cup {r}, NEW q \in Sent \cup {r}, p # q
                     PROVE  Apart(p.ops, q.ops)
          BY <2>3
        <4>1. CASE p \in Sent /\ q \in Sent
          BY <4>1 DEF Outgoing
        <4>2. CASE p = r \/ q = r
          BY <1>4, <1>6, <2>2, <4>2
        <4> QED
          BY <4>1, <4>2
      <3> QED
        BY <3>1, <3>2, <3>3, <3>4, <3>5 DEF Outgoing, Apart
    <2> QED
      BY <2>1, <2>2, <2>4, <2>5
  <1> QED
    BY <1>8, <1>9

\* A save that derives nothing comes before the session is live.
LEMMA NoSaveSounds ==
    ASSUME TInv, NEW R, RoomOK(R), PageOK(R, Page), Save, wounds' = {},
           session.phase # "live" \/ Diff(session.baseline, world, session.n) = <<>>
    PROVE  Sound'
  <1>1. /\ UNCHANGED <<journal, trim, doc, session, world, conn, since, up, down, posts, read,
                       used, typed, seen>>
        /\ dirty' = {} /\ dirty # {} /\ wounds' = wounds
        /\ session.phase # "live" \/ \A i \in dirty : world[i] # session.baseline[i]
    BY DEF Save, roomVars
  <1>2. session.phase # "live"
    <2> SUFFICES ASSUME Diff(session.baseline, world, session.n) = <<>>,
                        \A i \in dirty : world[i] # session.baseline[i]
                 PROVE  FALSE
      BY <1>1
    <2>1. session.baseline \in Doc /\ world \in Doc /\ session.n \in Nat /\ dirty \subseteq Icon
      BY Types DEF Session
    <2>2. session.baseline = world
      BY <2>1, DiffFacts, CanvasClientAssumption
    <2> QED
      BY <1>1, <2>2
  <1>3. Sent' = Sent
    BY <1>1 DEF Sent
  <1>4. Outgoing' /\ Flying' = Flying
    BY <1>1, <1>3, OutgoingStays, SoundParts DEF Outgoing
  <1>5. /\ Rows' /\ Docs(R)' /\ Lives(R)' /\ OwnWords' /\ AddsAreFresh'
        /\ R \in [0..Len(journal') -> Doc]
    BY <1>1, <1>4, RoomStays
  <1>6. Arriving'
    BY <1>1, SoundParts, ArrivingStays
  <1>7. Answered(R)'
    BY <1>1, SoundParts DEF Answered
  <1>8. Asleep'
    BY <1>1, SoundParts DEF Asleep
  <1>9. PageOK(R, Page)'
    <2>1. Page' = Page /\ Page.s.phase # "live"
      BY <1>1, <1>2 DEF Page
    <2> QED
      BY <1>1, <1>4, <2>1, PageStays
  <1> QED
    BY <1>4, <1>5, <1>6, <1>7, <1>8, <1>9, Resounds

\* What a save takes and leaves, icon by icon.
Saved(ops, b, w) ==
    /\ session'.baseline = w /\ session'.pending = session.pending \cup Range(ops)
    /\ session'.ids = session.ids \cup {o.n : o \in Range(ops)}
    /\ session'.n = session.n + Len(ops)
    /\ session'.cursor = session.cursor /\ session'.phase = session.phase
    /\ session.phase = "live" /\ b = session.baseline /\ w = world
    /\ ops = Diff(b, w, session.n) /\ ops # <<>>

LEMMA SaveStep ==
    ASSUME TInv, Save, wounds' = {}, session.phase = "live",
           Diff(session.baseline, world, session.n) # <<>>
    PROVE  /\ Saved(Diff(session.baseline, world, session.n), session.baseline, world)
           /\ Submit(Diff(session.baseline, world, session.n))
           /\ UNCHANGED <<journal, trim, doc, world, conn, since, down, read, used, typed, seen>>
           /\ dirty' = {} /\ wounds' = wounds
           /\ \A i \in dirty : world[i] # session.baseline[i]
  <1> DEFINE ops == Diff(session.baseline, world, session.n)
  <1>1. /\ session' = [session EXCEPT !.baseline = world, !.n = @ + Len(ops),
                                      !.pending = @ \cup Range(ops),
                                      !.ids = @ \cup {o.n : o \in Range(ops)}]
        /\ Submit(ops)
        /\ UNCHANGED <<journal, trim, doc, world, conn, since, down, read, used, typed, seen>>
        /\ dirty' = {} /\ wounds' = wounds
        /\ \A i \in dirty : world[i] # session.baseline[i]
    BY DEF Save, roomVars
  <1> HIDE DEF ops
  <1>2. Saved(ops, session.baseline, world)
    BY <1>1, Types DEF Saved, Session, ops
  <1> QED
    BY <1>1, <1>2 DEF ops

\* One op for each icon that differs.
Spread(ops, a, b, n) ==
    /\ ops \in Seq(OpValue)
    /\ \A i \in Icon : a[i] # b[i] =>
         \E k \in DOMAIN ops : ops[k] = Move(i, a[i], b[i], n + k)
    /\ \A j, k \in DOMAIN ops : j # k => ops[j].item # ops[k].item

LEMMA DiffSpreads ==
    ASSUME NEW a \in Doc, NEW b \in Doc, NEW n \in Nat
    PROVE  Spread(Diff(a, b, n), a, b, n)
  <1>1. /\ Diff(a, b, n) \in Seq(OpValue)
        /\ \A i \in Icon : a[i] # b[i] =>
             \E k \in DOMAIN Diff(a, b, n) : Diff(a, b, n)[k] = Move(i, a[i], b[i], n + k)
        /\ \A j, k \in DOMAIN Diff(a, b, n) :
             j # k => Diff(a, b, n)[j].item # Diff(a, b, n)[k].item
    BY DiffFacts, CanvasClientAssumption
  <1> QED
    BY <1>1 DEF Spread

\* The ops of a save: one per icon that moved, with the next numbers.
LEMMA SavedOps ==
    ASSUME TInv, NEW ops, NEW b, NEW w, Saved(ops, b, w)
    PROVE  /\ ops \in Seq(OpValue) /\ DOMAIN ops = 1..Len(ops) /\ Len(ops) \in Nat
           /\ session.n \in Nat /\ session'.n \in Nat
           /\ session.n <= session'.n /\ b \in Doc /\ w \in Doc
           /\ \A k \in DOMAIN ops :
                /\ ops[k] \in OpValue /\ ops[k].n = session.n + k
                /\ ops[k].n \in (session.n + 1)..session'.n /\ ops[k].seq = 0
                /\ ops[k].kind = "remove" <=> ops[k].val = Absent
                /\ ops[k].item \in Icon /\ b[ops[k].item] # w[ops[k].item]
                /\ ops[k].val = w[ops[k].item]
                /\ ops[k].kind = "add" <=> b[ops[k].item] = Absent
           /\ \A i \in Icon : b[i] # w[i] => \E k \in DOMAIN ops : ops[k].item = i
           /\ \A j, k \in DOMAIN ops : j < k => ops[j].n < ops[k].n /\ ops[j].item # ops[k].item
           /\ \A j, k \in DOMAIN ops : ops[j].item = ops[k].item => j = k
  <1>1. /\ b \in Doc /\ w \in Doc /\ session.n \in Nat /\ ops = Diff(b, w, session.n)
        /\ session'.n = session.n + Len(ops)
    BY Types DEF Saved, Session
  <1>2. /\ ops \in Seq(OpValue)
        /\ \A i \in Icon : b[i] # w[i] =>
             \E k \in DOMAIN ops : ops[k] = Move(i, b[i], w[i], session.n + k)
        /\ \A j, k \in DOMAIN ops : j # k => ops[j].item # ops[k].item
    <2>1. Spread(Diff(b, w, session.n), b, w, session.n)
      BY <1>1, DiffSpreads
    <2> QED
      BY <1>1, <2>1 DEF Spread
  <1>3. DOMAIN ops = 1..Len(ops) /\ Len(ops) \in Nat
    BY <1>2, SeqFacts
  <1>4. ASSUME NEW k \in DOMAIN ops
        PROVE  /\ ops[k] \in OpValue /\ ops[k].n = session.n + k
               /\ ops[k].n \in (session.n + 1)..session'.n /\ ops[k].seq = 0
               /\ ops[k].kind = "remove" <=> ops[k].val = Absent
               /\ ops[k].item \in Icon /\ b[ops[k].item] # w[ops[k].item]
               /\ ops[k].val = w[ops[k].item]
               /\ ops[k].kind = "add" <=> b[ops[k].item] = Absent
    <2>1. /\ ops[k] \in OpValue /\ ops[k].n = session.n + k /\ ops[k].seq = 0
          /\ ops[k].item \in Icon /\ b[ops[k].item] # w[ops[k].item]
          /\ ops[k].val = w[ops[k].item]
          /\ ops[k].kind = IF b[ops[k].item] = Absent THEN "add"
                           ELSE IF w[ops[k].item] = Absent THEN "remove" ELSE "set"
      BY <1>1, DiffOps, CanvasClientAssumption
    <2>2. ops[k].n \in (session.n + 1)..session'.n
      BY <1>1, <1>3, <2>1
    <2>3. ops[k].kind = "remove" <=> ops[k].val = Absent
      BY <2>1
    <2>4. ops[k].kind = "add" <=> b[ops[k].item] = Absent
      BY <2>1
    <2> QED
      BY <2>1, <2>2, <2>3, <2>4
  <1>5. ASSUME NEW i \in Icon, b[i] # w[i] PROVE \E k \in DOMAIN ops : ops[k].item = i
    <2>1. PICK k \in DOMAIN ops : ops[k] = Move(i, b[i], w[i], session.n + k)
      BY <1>2, <1>5
    <2>2. ops[k].item = i
      BY <2>1 DEF Move
    <2> QED
      BY <2>2
  <1>6. \A j, k \in DOMAIN ops : j < k => ops[j].n < ops[k].n /\ ops[j].item # ops[k].item
    <2> SUFFICES ASSUME NEW j \in DOMAIN ops, NEW k \in DOMAIN ops, j < k
                 PROVE  ops[j].n < ops[k].n /\ ops[j].item # ops[k].item
      OBVIOUS
    <2>1. ops[j].n = session.n + j /\ ops[k].n = session.n + k
      BY <1>4
    <2>2. j # k /\ j \in Nat /\ k \in Nat
      BY <1>3
    <2> QED
      BY <1>1, <1>2, <2>1, <2>2
  <1>7. session'.n \in Nat /\ session.n <= session'.n
    BY <1>1, <1>3
  <1> QED
    BY <1>1, <1>2, <1>3, <1>4, <1>5, <1>6, <1>7

\* A page whose icons are well stays so if nothing they are held against changes.
LEMMA IconStays ==
    ASSUME NEW q, NEW i, IconOK(q, i), Page' = q, UNCHANGED <<journal, typed, used>>
    PROVE  IconOK(Page, i)'
  <1>1. Minted' = Minted
    BY DEF Minted
  <1>2. OnIcon(Page, i)' = OnIcon(q, i)
    BY DEF OnIcon
  <1> QED
    BY <1>1, <1>2 DEF IconOK, Fresh, Meant, Known, Spoken, Sorted, Unheard

\* The page after a save.
SavedPage(q, ops, b, w) ==
    /\ Saved(ops, b, w) /\ q.s = session' /\ q.w = w /\ q.seen = seen

LEMMA SavedOn ==
    ASSUME TInv, NEW R, RoomOK(R), PageOK(R, Page), NEW ops, NEW b, NEW w, NEW q,
           SavedPage(q, ops, b, w), NEW i \in Icon
    PROVE  /\ b[i] = w[i] => OnIcon(q, i) = OnIcon(Page, i)
           /\ b[i] # w[i] => \E op \in OpValue :
                /\ op \in Range(ops) /\ OnIcon(q, i) = OnIcon(Page, i) \cup {op}
                /\ op.item = i /\ op.val = w[i]
                /\ op.kind = "remove" <=> w[i] = Absent
                /\ op.kind = "add" <=> b[i] = Absent
                /\ \A x \in OnIcon(Page, i) : x.n \in Nat /\ op.n \in Nat /\ x.n < op.n
  <1>1. Saved(ops, b, w) /\ q.s.pending = session.pending \cup Range(ops) /\ Page.s = session
    BY SoundParts DEF SavedPage, Saved
  <1>2. /\ ops \in Seq(OpValue) /\ session.n \in Nat /\ session'.n \in Nat
        /\ \A k \in DOMAIN ops :
                /\ ops[k] \in OpValue
                /\ ops[k].n \in (session.n + 1)..session'.n
                /\ ops[k].kind = "remove" <=> ops[k].val = Absent
                /\ ops[k].item \in Icon /\ b[ops[k].item] # w[ops[k].item]
                /\ ops[k].val = w[ops[k].item]
                /\ ops[k].kind = "add" <=> b[ops[k].item] = Absent
        /\ \A j \in Icon : b[j] # w[j] => \E k \in DOMAIN ops : ops[k].item = j
        /\ \A j, k \in DOMAIN ops : ops[j].item = ops[k].item => j = k
    BY <1>1, SavedOps
  <1>3. OnIcon(q, i) = OnIcon(Page, i) \cup {o \in Range(ops) : o.item = i}
    BY <1>1 DEF OnIcon
  <1>4. ASSUME b[i] = w[i] PROVE OnIcon(q, i) = OnIcon(Page, i)
    <2>1. {o \in Range(ops) : o.item = i} = {}
      BY <1>2, <1>4 DEF Range
    <2> QED
      BY <1>3, <2>1
  <1>5. ASSUME b[i] # w[i]
        PROVE  \E op \in OpValue :
                /\ op \in Range(ops) /\ OnIcon(q, i) = OnIcon(Page, i) \cup {op}
                /\ op.item = i /\ op.val = w[i]
                /\ op.kind = "remove" <=> w[i] = Absent
                /\ op.kind = "add" <=> b[i] = Absent
                /\ \A x \in OnIcon(Page, i) : x.n \in Nat /\ op.n \in Nat /\ x.n < op.n
    <2>1. PICK k \in DOMAIN ops : ops[k].item = i
      BY <1>2, <1>5
    <2>2. {o \in Range(ops) : o.item = i} = {ops[k]}
      BY <1>2, <2>1 DEF Range
    <2>3. /\ ops[k] \in OpValue /\ ops[k] \in Range(ops) /\ ops[k].val = w[i]
          /\ ops[k].kind = "remove" <=> w[i] = Absent
          /\ ops[k].kind = "add" <=> b[i] = Absent
          /\ ops[k].n \in (session.n + 1)..session'.n
      BY <1>2, <2>1 DEF Range
    <2>4. ASSUME NEW x \in OnIcon(Page, i)
          PROVE  x.n \in Nat /\ ops[k].n \in Nat /\ x.n < ops[k].n
      <3>1. x.n \in 1..session.n
        BY SoundParts, PendingCases DEF OnIcon
      <3> QED
        BY <1>2, <2>3, <3>1
    <2> QED
      BY <1>3, <2>1, <2>2, <2>3, <2>4
  <1> QED
    BY <1>4, <1>5

LEMMA SavedIcon ==
    ASSUME TInv, NEW R, RoomOK(R), PageOK(R, Page), NEW ops, NEW b, NEW w, NEW q,
           SavedPage(q, ops, b, w), NEW i \in Icon
    PROVE  IconOK(q, i)
  <1>1. /\ q.w = w /\ q.s.baseline = w /\ q.s.cursor = session.cursor
        /\ Page.w = w /\ Page.s.baseline = b /\ Page.s.cursor = session.cursor
        /\ session.cursor \in Nat /\ IconOK(Page, i)
    BY SoundParts DEF SavedPage, Saved
  <1>2. CASE b[i] = w[i]
    BY <1>1, <1>2, SavedOn, IconKept
  <1>3. CASE b[i] # w[i]
    <2>1. PICK op \in OpValue :
                /\ OnIcon(q, i) = OnIcon(Page, i) \cup {op}
                /\ op.kind = "remove" <=> w[i] = Absent
                /\ op.kind = "add" <=> b[i] = Absent
                /\ \A x \in OnIcon(Page, i) : x.n \in Nat /\ op.n \in Nat /\ x.n < op.n
      BY <1>3, SavedOn
    <2>2. Fresh(q, i) /\ Meant(q, i)
      BY <1>1 DEF Fresh, Meant
    <2>3. Known(q, i)
      BY <1>1 DEF IconOK, Known
    <2>4. <<i, w[i]>> \in typed
      BY <1>1, <1>3 DEF IconOK, Meant
    <2>5. \A x \in OnIcon(Page, i) : x.kind # "remove"
      BY <1>1, <1>3 DEF IconOK, Spoken
    <2>6. Spoken(q, i)
      BY <1>1, <2>1, <2>4, <2>5 DEF Spoken
    <2>7. Sorted(q, i)
      <3> SUFFICES ASSUME NEW x \in OnIcon(q, i), NEW y \in OnIcon(q, i), x.n < y.n
                   PROVE  x.kind # "remove" /\ y.kind # "add"
        BY DEF Sorted
      <3>1. CASE x \in OnIcon(Page, i) /\ y \in OnIcon(Page, i)
        BY <1>1, <3>1 DEF IconOK, Sorted
      <3>2. CASE x \in OnIcon(Page, i) /\ y = op
        <4>1. y.kind # "add"
          BY <1>1, <1>3, <2>1, <3>2 DEF IconOK, Fresh
        <4> QED
          BY <2>5, <3>2, <4>1
      <3>3. ~(x = op /\ y \in OnIcon(Page, i))
        BY <2>1
      <3>4. ~(x = op /\ y = op)
        BY DEF OpValue
      <3> QED
        BY <2>1, <3>1, <3>2, <3>3, <3>4
    <2>8. Unheard(q, i)
      BY <1>1, <1>3 DEF IconOK, Unheard
    <2> QED
      BY <2>2, <2>3, <2>6, <2>7, <2>8 DEF IconOK
  <1> QED
    BY <1>2, <1>3

LEMMA SavedAgrees ==
    ASSUME TInv, NEW R, RoomOK(R), PageOK(R, Page), NEW ops, NEW b, NEW w, NEW q,
           SavedPage(q, ops, b, w), NEW i \in Icon, Agrees(R, Page, i),
           \A j \in dirty : world[j] # session.baseline[j], dirty' = {}, Page' = q
    PROVE  Agrees(R, Page, i)'
  <1>1. /\ q.w = w /\ q.s.baseline = w /\ q.s.cursor = session.cursor
        /\ Page.w = w /\ Page.s.baseline = b /\ Page.s.cursor = session.cursor
        /\ session.baseline = b /\ world = w /\ IconOK(Page, i)
    BY SoundParts DEF SavedPage, Saved
  <1>2. OnIcon(Page, i)' = OnIcon(q, i) /\ (Gone(R, Page, i)' <=> Gone(R, q, i))
    BY DEF OnIcon, Gone
  <1> SUFFICES /\ w[i] = Absent <=> Gone(R, q, i)
               /\ ~Gone(R, q, i) /\ OnIcon(q, i) = {} => w[i] = R[session.cursor][i]
               /\ ~Gone(R, q, i) => \A x \in OnIcon(q, i) :
                    (\A z \in OnIcon(q, i) : z.n <= x.n) => w[i] = x.val
    BY <1>1, <1>2 DEF Agrees
  <1>3. CASE b[i] = w[i]
    <2>1. OnIcon(q, i) = OnIcon(Page, i)
      BY <1>3, SavedOn
    <2>2. Gone(R, q, i) <=> Gone(R, Page, i)
      BY <1>1, <2>1 DEF Gone
    <2>3. i \notin dirty
      BY <1>1, <1>3
    <2> QED
      BY <1>1, <1>3, <2>1, <2>2, <2>3 DEF Agrees
  <1>4. CASE b[i] # w[i]
    <2>1. PICK op \in OpValue :
                /\ OnIcon(q, i) = OnIcon(Page, i) \cup {op} /\ op.val = w[i]
                /\ op.kind = "remove" <=> w[i] = Absent
                /\ op.kind = "add" <=> b[i] = Absent
                /\ \A x \in OnIcon(Page, i) : x.n \in Nat /\ op.n \in Nat /\ x.n < op.n
      BY <1>4, SavedOn
    <2>2. w[i] = Absent <=> Gone(R, q, i)
      <3>1. CASE w[i] = Absent
        BY <2>1, <3>1 DEF Gone
      <3>2. CASE w[i] # Absent /\ b[i] = Absent
        <4>1. OnIcon(Page, i) = {}
          BY <1>1, <3>2 DEF IconOK, Fresh
        <4> QED
          BY <2>1, <3>2, <4>1 DEF Gone
      <3>3. CASE w[i] # Absent /\ b[i] # Absent
        <4>1. ~Gone(R, Page, i)
          BY <1>1, <3>3 DEF Agrees
        <4> QED
          BY <1>1, <2>1, <3>3, <4>1 DEF Gone
      <3> QED
        BY <3>1, <3>2, <3>3
    <2>3. \A x \in OnIcon(q, i) : (\A z \in OnIcon(q, i) : z.n <= x.n) => w[i] = x.val
      <3> SUFFICES ASSUME NEW x \in OnIcon(q, i), \A z \in OnIcon(q, i) : z.n <= x.n
                   PROVE  w[i] = x.val
        OBVIOUS
      <3>1. CASE x \in OnIcon(Page, i)
        <4>1. op.n <= x.n
          BY <2>1
        <4>2. x.n \in Nat /\ op.n \in Nat /\ x.n < op.n
          BY <2>1, <3>1
        <4> QED
          BY <4>1, <4>2
      <3> QED
        BY <2>1, <3>1
    <2>4. OnIcon(q, i) # {}
      BY <2>1
    <2> QED
      BY <2>2, <2>3, <2>4
  <1> QED
    BY <1>3, <1>4

\* A save that derives a batch.
LEMMA BatchSaveSounds ==
    ASSUME TInv, NEW R, RoomOK(R), PageOK(R, Page), Save, wounds' = {},
           session.phase = "live", Diff(session.baseline, world, session.n) # <<>>
    PROVE  Sound'
  <1> DEFINE ops == Diff(session.baseline, world, session.n)
             b == session.baseline
             w == world
  <1>1. /\ Saved(ops, b, w) /\ Submit(ops) /\ ops # <<>>
        /\ UNCHANGED <<journal, trim, doc, world, conn, since, down, read, used, typed, seen>>
        /\ dirty' = {} /\ wounds' = wounds
        /\ \A i \in dirty : world[i] # session.baseline[i]
        /\ w = world /\ b = session.baseline
    BY SaveStep
  <1> HIDE DEF ops, b, w
  <1>2. /\ ops \in Seq(OpValue)
        /\ session.n \in Nat /\ session'.n \in Nat /\ session.n <= session'.n
        /\ \A k \in DOMAIN ops :
             /\ ops[k] \in OpValue
             /\ ops[k].n \in (session.n + 1)..session'.n /\ ops[k].seq = 0
             /\ ops[k].kind = "remove" <=> ops[k].val = Absent
             /\ ops[k].item \in Icon /\ b[ops[k].item] # w[ops[k].item]
             /\ ops[k].val = w[ops[k].item]
             /\ ops[k].kind = "add" <=> b[ops[k].item] = Absent
        /\ \A j, k \in DOMAIN ops : j < k => ops[j].n < ops[k].n /\ ops[j].item # ops[k].item
    BY <1>1, SavedOps
  <1>3. /\ session'.baseline = w /\ session'.pending = session.pending \cup Range(ops)
        /\ session'.ids = session.ids \cup {o.n : o \in Range(ops)}
        /\ session'.cursor = session.cursor /\ session'.phase = "live"
    BY <1>1 DEF Saved
  <1>4. /\ Outgoing' /\ Flying' = Flying \cup Range(ops)
        /\ \A p : p \in posts' /\ p.done => p \in posts
    BY <1>1, <1>2, SoundParts, SubmitGoesOut
  <1>5. Rows'
    <2>1. \A k \in DOMAIN journal : journal[k].n \in 0..session'.n
      BY <1>2, SoundParts DEF Rows
    <2> QED
      BY <1>1, <2>1, SoundParts DEF Rows
  <1>6. Docs(R)' /\ Lives(R)' /\ R \in [0..Len(journal') -> Doc]
    <2>1. Docs(R)' /\ R \in [0..Len(journal') -> Doc]
      BY <1>1, SoundParts DEF Docs
    <2>2. Lives(R)'
      BY <1>1, SoundParts DEF Lives
    <2> QED
      BY <2>1, <2>2
  <1>7. \A k \in DOMAIN ops : IconOK(Page, ops[k].item)
    BY <1>2, SoundParts
  <1>8. OwnWords'
    <2>1. ASSUME NEW u \in Range(ops) PROVE <<u.item, u.val>> \in typed
      <3>1. PICK k \in DOMAIN ops : u = ops[k]
        BY DEF Range
      <3> QED
        BY <1>1, <1>2, <1>7, <3>1, SoundParts DEF IconOK, Meant
    <2> QED
      BY <1>1, <1>4, <2>1, SoundParts DEF OwnWords
  <1>9. AddsAreFresh'
    <2>1. ASSUME NEW u \in Range(ops), u.kind = "add" PROVE u.item \notin used
      <3>1. PICK k \in DOMAIN ops : u = ops[k]
        BY DEF Range
      <3>2. b[u.item] = Absent /\ w[u.item] # Absent
        BY <1>2, <2>1, <3>1
      <3>3. IconOK(Page, u.item)
        BY <1>7, <3>1
      <3> QED
        BY <1>1, <3>2, <3>3, SoundParts DEF IconOK, Fresh
    <2>2. \A k \in DOMAIN journal : journal[k].item \in used
      BY SoundParts DEF Rows
    <2>3. AddsAreFresh
      BY SoundParts
    <2> QED
      BY <1>1, <1>4, <2>1, <2>2, <2>3 DEF AddsAreFresh
  <1>10. Arriving'
    BY <1>1, <1>3, SoundParts, ArrivingStays
  <1>11. Answered(R)'
    BY <1>1, <1>3, <1>4, SoundParts DEF Answered
  <1>12. Asleep'
    BY <1>3 DEF Asleep
  <1>13. PageOK(R, Page)'
    <2> DEFINE q == [s |-> session', w |-> w, seen |-> seen, wounds |-> wounds]
    <2>1. SavedPage(q, ops, b, w) /\ Page' = q
      BY <1>1 DEF SavedPage, Page
    <2>2. /\ q.s = session' /\ q.seen = seen
      OBVIOUS
    <2> HIDE DEF q
    <2>3. Waiting(Page)'
      <3>1. /\ seen = 1..session.cursor
            /\ session.ids = {z.n : z \in session.pending}
            /\ session.pending = Flying \cup
                 {Bare(journal[k]) : k \in {x \in DOMAIN journal :
                                            journal[x].n > 0 /\ x > session.cursor}}
        BY SoundParts DEF Waiting
      <3>2. session'.ids = {z.n : z \in session'.pending}
        BY <1>3, <3>1
      <3>3. session'.pending = Flying' \cup
                 {Bare(journal[k]) : k \in {x \in DOMAIN journal :
                                            journal[x].n > 0 /\ x > session.cursor}}
        BY <1>3, <1>4, <3>1
      <3> QED
        BY <1>1, <1>3, <2>1, <2>2, <3>1, <3>2, <3>3 DEF Waiting
    <2>4. \A i \in Icon : IconOK(Page, i)'
      BY <1>1, <2>1, SavedIcon, IconStays
    <2>5. Orderly' => Orderly
      BY <1>1, <1>4 DEF Orderly
    <2>6. Orderly => \A i \in Icon : Agrees(R, Page, i)
      BY <1>1, SoundParts
    <2>7. ASSUME NEW i \in Icon, Agrees(R, Page, i) PROVE Agrees(R, Page, i)'
      BY <1>1, <2>1, <2>7, SavedAgrees
    <2> QED
      BY <2>3, <2>4, <2>5, <2>6, <2>7 DEF PageOK
  <1> QED
    BY <1>4, <1>5, <1>6, <1>8, <1>9, <1>10, <1>11, <1>12, <1>13, Resounds

LEMMA SaveSounds ==
    ASSUME TInv, NEW R, RoomOK(R), PageOK(R, Page), Save, wounds' = {}
    PROVE  Sound'
  <1>1. CASE session.phase = "live" /\ Diff(session.baseline, world, session.n) # <<>>
    BY <1>1, BatchSaveSounds
  <1>2. CASE ~(session.phase = "live" /\ Diff(session.baseline, world, session.n) # <<>>)
    BY <1>2, NoSaveSounds
  <1> QED
    BY <1>1, <1>2

-----------------------------------------------------------------------------
(* The room takes a batch                                                  *)

\* The docs a batch of ops about different icons goes through.
Runs(f, d, ops) ==
    /\ f \in [0..Len(ops) -> Doc] /\ f[0] = d /\ f[Len(ops)] = ApplyAll(d, ops)
    /\ \A k \in 1..Len(ops) : f[k] = Apply(f[k - 1], ops[k])

LEMMA RunStep ==
    ASSUME NEW d \in Doc, NEW ops \in Seq(OpValue), NEW f, Runs(f, d, ops),
           NEW k \in 1..Len(ops)
    PROVE  /\ ops[k] \in OpValue /\ Len(ops) \in Nat /\ k \in 0..Len(ops) /\ k - 1 \in 0..Len(ops)
           /\ f[k - 1] \in Doc /\ f[k] \in Doc
           /\ \A i \in Icon : i # ops[k].item => f[k][i] = f[k - 1][i]
           /\ ops[k].kind = "remove" => f[k][ops[k].item] = Absent
           /\ \A i \in Icon : f[k - 1][i] = Absent /\ (i = ops[k].item => ops[k].kind # "add")
                                => f[k][i] = Absent
  <1>1. /\ Len(ops) \in Nat /\ ops[k] \in OpValue /\ k \in 0..Len(ops) /\ k - 1 \in 0..Len(ops)
    BY SeqFacts
  <1>2. f[k - 1] \in Doc /\ f[k] = Apply(f[k - 1], ops[k])
    BY <1>1 DEF Runs
  <1> PICK x \in Doc : x = f[k - 1]
    BY <1>2
  <1> PICK op \in OpValue : op = ops[k]
    BY <1>1
  <1>3. f[k] = Apply(x, op)
    BY <1>2
  <1>4. /\ Apply(x, op) \in Doc
        /\ \A i \in Icon : i # op.item => Apply(x, op)[i] = x[i]
        /\ Apply(x, op)[op.item] =
                CASE op.kind = "add" -> IF x[op.item] = Absent THEN op.val ELSE x[op.item]
                  [] op.kind = "set" -> IF x[op.item] # Absent THEN op.val ELSE Absent
                  [] op.kind = "remove" -> Absent
    BY ApplyType
  <1>5. op.kind \in {"add", "set", "remove"} /\ op.item \in Icon
    BY OpFields
  <1>6. op.kind = "remove" => Apply(x, op)[op.item] = Absent
    BY <1>4
  <1>7. \A i \in Icon : x[i] = Absent /\ (i = op.item => op.kind # "add")
                          => Apply(x, op)[i] = Absent
    <2> SUFFICES ASSUME NEW i \in Icon, x[i] = Absent, i = op.item => op.kind # "add"
                 PROVE  Apply(x, op)[i] = Absent
      OBVIOUS
    <2>1. CASE i # op.item
      BY <1>4, <2>1
    <2>2. CASE i = op.item
      BY <1>4, <1>5, <2>2
    <2> QED
      BY <2>1, <2>2
  <1> QED
    BY <1>1, <1>2, <1>3, <1>4, <1>6, <1>7

LEMMA BatchRun ==
    ASSUME NEW d \in Doc, NEW ops \in Seq(OpValue), NEW f, Runs(f, d, ops)
    PROVE  /\ \A i \in Icon : \A k \in 0..Len(ops) :
                (\A m \in 1..k : ops[m].item # i) => f[k][i] = d[i]
           /\ \A i \in Icon : d[i] = Absent /\ (\A m \in 1..Len(ops) :
                                                  ops[m].item = i => ops[m].kind # "add")
                => \A k \in 0..Len(ops) : f[k][i] = Absent
  <1>1. Len(ops) \in Nat /\ f[0] = d
    BY SeqFacts DEF Runs
  <1>2. ASSUME NEW i \in Icon, NEW k \in 0..Len(ops), \A m \in 1..k : ops[m].item # i
        PROVE  f[k][i] = d[i]
    <2> DEFINE T == {j \in 0..k : f[j][i] = d[i]}
    <2>1. 0 \in T
      BY <1>1
    <2>2. ASSUME NEW j \in 1..k, j - 1 \in T PROVE j \in T
      <3>1. j \in 1..Len(ops) /\ j \in 0..k
        BY <1>1
      <3>2. \A z \in Icon : z # ops[j].item => f[j][z] = f[j - 1][z]
        BY <3>1, RunStep
      <3>3. ops[j].item # i
        BY <1>2
      <3> QED
        BY <2>2, <3>1, <3>2, <3>3
    <2>3. k \in Nat
      BY <1>1
    <2>4. \A j \in 0..k : j \in T
      <3> HIDE DEF T
      <3> QED
        BY <2>1, <2>2, <2>3, UpTo
    <2> QED
      BY <2>3, <2>4
  <1>3. ASSUME NEW i \in Icon, d[i] = Absent,
               \A m \in 1..Len(ops) : ops[m].item = i => ops[m].kind # "add"
        PROVE  \A k \in 0..Len(ops) : f[k][i] = Absent
    <2> DEFINE T == {j \in 0..Len(ops) : f[j][i] = Absent}
    <2>1. 0 \in T
      BY <1>1, <1>3
    <2>2. ASSUME NEW j \in 1..Len(ops), j - 1 \in T PROVE j \in T
      <3>1. \A z \in Icon : f[j - 1][z] = Absent /\ (z = ops[j].item => ops[j].kind # "add")
                              => f[j][z] = Absent
        BY RunStep
      <3>2. i = ops[j].item => ops[j].kind # "add"
        BY <1>3
      <3>3. j \in 0..Len(ops)
        BY <1>1
      <3> QED
        BY <2>2, <3>1, <3>2, <3>3
    <2>3. \A j \in 0..Len(ops) : j \in T
      <3> HIDE DEF T
      <3> QED
        BY <1>1, <2>1, <2>2, UpTo
    <2> QED
      BY <2>3
  <1> QED
    BY <1>2, <1>3

Distinct(ops) == \A j, k \in DOMAIN ops : j < k => ops[j].item # ops[k].item

\* What a batch removes stays away to its end.
LEMMA RunRemoves ==
    ASSUME NEW d \in Doc, NEW ops \in Seq(OpValue), NEW f, Runs(f, d, ops),
           Distinct(ops), NEW m \in 1..Len(ops), ops[m].kind = "remove"
    PROVE  \A k \in m..Len(ops) : f[k][ops[m].item] = Absent
  <1> DEFINE i == ops[m].item
             T == {j \in 0..Len(ops) : j >= m => f[j][i] = Absent}
  <1>1. Len(ops) \in Nat /\ DOMAIN ops = 1..Len(ops) /\ i \in Icon
    BY SeqFacts, OpFields
  <1>2. 0 \in T
    BY <1>1
  <1>3. ASSUME NEW j \in 1..Len(ops), j - 1 \in T PROVE j \in T
    <2>1. /\ \A z \in Icon : z # ops[j].item => f[j][z] = f[j - 1][z]
          /\ ops[j].kind = "remove" => f[j][ops[j].item] = Absent
          /\ j \in 0..Len(ops)
      BY RunStep
    <2>2. CASE j < m
      BY <1>1, <2>1, <2>2
    <2>3. CASE j = m
      BY <2>1, <2>3
    <2>4. CASE j > m
      <3>1. i # ops[j].item /\ j - 1 >= m
        BY <1>1, <2>4 DEF Distinct
      <3> QED
        BY <1>1, <1>3, <2>1, <3>1
    <2> QED
      BY <1>1, <2>2, <2>3, <2>4
  <1>4. \A j \in 0..Len(ops) : j \in T
    <2> HIDE DEF T
    <2> QED
      BY <1>1, <1>2, <1>3, UpTo
  <1>5. \A k \in m..Len(ops) : k \in 0..Len(ops) /\ k >= m
    BY <1>1
  <1> QED
    BY <1>4, <1>5

\* The stamp makes no difference to what an op does.
LEMMA ApplyStamped ==
    ASSUME NEW x, NEW a, NEW b, a.kind = b.kind, a.item = b.item, a.val = b.val
    PROVE  Apply(x, a) = Apply(x, b)
  BY DEF Apply

\* A batch the room may take while nothing has gone wrong: one of this device,
\* in order, or an op of another.
Takable(ops) ==
    /\ ops \in Seq(OpValue) /\ ops # <<>>
    /\ \A k \in DOMAIN ops :
         /\ ops[k].n \in 0..session.n /\ ops[k].seq = 0
         /\ ops[k].kind = "remove" <=> ops[k].val = Absent
         /\ ops[k].kind = "add" => ops[k].item \notin used
         /\ ops[k].n > 0 => /\ ops[k] \in Flying
                            /\ \A j \in DOMAIN journal : journal[j].n < ops[k].n
         /\ ops[k].n = 0 /\ ops[k].item \notin used => ops[k].kind = "add"
         /\ ops[k].n = 0 /\ ops[k].kind = "add" => ops[k].item \notin Minted
    /\ \A j, k \in DOMAIN ops : j < k => ops[j].n < ops[k].n /\ ops[j].item # ops[k].item

\* The journal after a batch.
LEMMA NewRows ==
    ASSUME TInv, NEW ops, Takable(ops), TakeBatch(ops)
    PROVE  /\ Len(journal) \in Nat /\ Len(ops) \in Nat \ {0}
           /\ Len(journal') = Len(journal) + Len(ops)
           /\ DOMAIN journal = 1..Len(journal) /\ DOMAIN journal' = 1..Len(journal')
           /\ DOMAIN ops = 1..Len(ops)
           /\ \A k \in 1..Len(journal) : journal'[k] = journal[k] /\ k \in 1..Len(journal')
           /\ \A m \in 1..Len(ops) :
                /\ Len(journal) + m \in 1..Len(journal')
                /\ journal'[Len(journal) + m] = Stamp(ops)[m]
                /\ Stamp(ops)[m] \in OpValue /\ ops[m] \in OpValue
                /\ Stamp(ops)[m].seq = Len(journal) + m
                /\ Stamp(ops)[m].n = ops[m].n /\ Stamp(ops)[m].item = ops[m].item
                /\ Stamp(ops)[m].val = ops[m].val /\ Stamp(ops)[m].kind = ops[m].kind
                /\ Bare(Stamp(ops)[m]) = ops[m]
           /\ \A k \in 1..Len(journal') :
                k \in 1..Len(journal) \/ \E m \in 1..Len(ops) : k = Len(journal) + m
           /\ used \subseteq used' /\ \A m \in 1..Len(ops) : ops[m].item \in used'
           /\ \A i \in used' : i \in used \/ \E m \in 1..Len(ops) : i = ops[m].item
  <1>1. ops \in Seq(OpValue) /\ ops # <<>> /\ \A k \in DOMAIN ops : ops[k].seq = 0
    BY DEF Takable
  <1>2. /\ Len(ops) \in Nat \ {0} /\ DOMAIN ops = 1..Len(ops)
        /\ \A m \in 1..Len(ops) : ops[m] \in OpValue
        /\ DOMAIN journal = 1..Len(journal) /\ Len(journal) \in Nat /\ journal \in Seq(OpValue)
    BY <1>1, SeqFacts, Types
  <1>3. /\ journal' \in Seq(OpValue) /\ Len(journal') = Len(journal) + Len(ops)
        /\ \A k \in 1..Len(journal) : journal'[k] = journal[k]
        /\ \A k \in 1..Len(ops) : journal'[Len(journal) + k] = Stamp(ops)[k]
        /\ used' = used \cup {o.item : o \in Range(ops)}
    BY <1>1, TakeBatchFacts
  <1>4. /\ Stamp(ops) \in Seq(OpValue) /\ DOMAIN Stamp(ops) = DOMAIN ops
        /\ \A m \in 1..Len(ops) :
                /\ Stamp(ops)[m] = [ops[m] EXCEPT !.seq = Len(journal) + m]
                /\ Stamp(ops)[m].seq = Len(journal) + m
                /\ Stamp(ops)[m].n = ops[m].n /\ Stamp(ops)[m].item = ops[m].item
                /\ Stamp(ops)[m].val = ops[m].val /\ Stamp(ops)[m].kind = ops[m].kind
    BY <1>1, <1>2, StampFacts
  <1>5. ASSUME NEW m \in 1..Len(ops)
        PROVE  Stamp(ops)[m] \in OpValue /\ Bare(Stamp(ops)[m]) = ops[m]
    <2>1. Stamp(ops)[m] \in OpValue
      BY <1>2, <1>4, SeqFacts
    <2> PICK op \in OpValue : op = ops[m]
      BY <1>2
    <2>2. Len(journal) + m \in Nat /\ op.seq = 0
      BY <1>1, <1>2
    <2>3. Bare([op EXCEPT !.seq = Len(journal) + m]) = Bare(op) /\ Bare(op) = op
      BY <2>2, BareFacts
    <2> QED
      BY <1>4, <2>1, <2>3
  <1>6. /\ \A k \in 1..Len(journal) : k \in 1..Len(journal')
        /\ \A m \in 1..Len(ops) : Len(journal) + m \in 1..Len(journal')
        /\ DOMAIN journal' = 1..Len(journal')
    BY <1>2, <1>3, SeqFacts
  <1>7. ASSUME NEW k \in 1..Len(journal'), k \notin 1..Len(journal)
        PROVE  \E m \in 1..Len(ops) : k = Len(journal) + m
    <2>1. k - Len(journal) \in 1..Len(ops) /\ k = Len(journal) + (k - Len(journal))
      BY <1>2, <1>3, <1>7
    <2> QED
      BY <2>1
  <1>8. /\ used \subseteq used' /\ \A m \in 1..Len(ops) : ops[m].item \in used'
        /\ \A i \in used' : i \in used \/ \E m \in 1..Len(ops) : i = ops[m].item
    BY <1>2, <1>3 DEF Range
  <1> QED
    BY <1>2, <1>3, <1>4, <1>5, <1>6, <1>7, <1>8

\* Row k is the m-th op of the batch.
IsNew(k, m, ops) ==
    /\ k = Len(journal) + m /\ m \in DOMAIN ops /\ m \in Nat /\ k > Len(journal) /\ k \in Nat
    /\ journal'[k] = Stamp(ops)[m] /\ journal'[k] \in OpValue /\ ops[m] \in OpValue
    /\ journal'[k].seq = k
    /\ journal'[k].n = ops[m].n /\ journal'[k].item = ops[m].item
    /\ journal'[k].val = ops[m].val /\ journal'[k].kind = ops[m].kind
    /\ Bare(journal'[k]) = ops[m]

LEMMA NewAt ==
    ASSUME TInv, NEW ops, Takable(ops), TakeBatch(ops), NEW m \in DOMAIN ops
    PROVE  Len(journal) + m \in DOMAIN journal' /\ IsNew(Len(journal) + m, m, ops)
  <1>1. m \in 1..Len(ops) /\ m \in Nat /\ Len(journal) \in Nat /\ m > 0
    BY NewRows
  <1>2. /\ Len(journal) + m \in 1..Len(journal')
        /\ journal'[Len(journal) + m] = Stamp(ops)[m]
        /\ Stamp(ops)[m] \in OpValue /\ ops[m] \in OpValue
        /\ Stamp(ops)[m].seq = Len(journal) + m
        /\ Stamp(ops)[m].n = ops[m].n /\ Stamp(ops)[m].item = ops[m].item
        /\ Stamp(ops)[m].val = ops[m].val /\ Stamp(ops)[m].kind = ops[m].kind
        /\ Bare(Stamp(ops)[m]) = ops[m]
        /\ DOMAIN journal' = 1..Len(journal')
    BY <1>1, NewRows
  <1> QED
    BY <1>1, <1>2 DEF IsNew

LEMMA RowCases ==
    ASSUME TInv, NEW ops, Takable(ops), TakeBatch(ops), NEW k \in DOMAIN journal'
    PROVE  \/ k \in DOMAIN journal /\ journal'[k] = journal[k] /\ k \in Nat /\ k <= Len(journal)
           \/ \E m \in DOMAIN ops : IsNew(k, m, ops)
  <1>1. k \in 1..Len(journal') /\ DOMAIN journal = 1..Len(journal) /\ DOMAIN ops = 1..Len(ops)
    BY NewRows
  <1>2. CASE k \in 1..Len(journal)
    <2>1. journal'[k] = journal[k] /\ k \in Nat /\ k <= Len(journal)
      BY <1>2, NewRows
    <2> QED
      BY <1>1, <1>2, <2>1
  <1>3. CASE k \notin 1..Len(journal)
    <2>1. k \in 1..Len(journal) \/ \E m \in 1..Len(ops) : k = Len(journal) + m
      BY <1>1, NewRows
    <2>2. PICK m \in DOMAIN ops : k = Len(journal) + m
      BY <1>1, <1>3, <2>1
    <2>3. IsNew(Len(journal) + m, m, ops)
      BY NewAt
    <2> QED
      BY <2>2, <2>3
  <1> QED
    BY <1>2, <1>3

LEMMA OldRow ==
    ASSUME TInv, NEW ops, Takable(ops), TakeBatch(ops), NEW k \in DOMAIN journal
    PROVE  k \in DOMAIN journal' /\ journal'[k] = journal[k] /\ k \in Nat /\ k <= Len(journal)
  BY NewRows

LEMMA TakenRows ==
    ASSUME TInv, Rows, NEW ops, Takable(ops), TakeBatch(ops), session' = session
    PROVE  Rows'
  <1>1. \A k \in DOMAIN ops :
         /\ ops[k].n \in 0..session.n
         /\ ops[k].kind = "remove" <=> ops[k].val = Absent
         /\ ops[k].n > 0 => \A j \in DOMAIN journal : journal[j].n < ops[k].n
         /\ ops[k].item \in used'
    BY NewRows DEF Takable
  <1>2. used \subseteq used'
    BY NewRows
  <1>3. ASSUME NEW k \in DOMAIN journal'
        PROVE  /\ journal'[k].n \in 0..session'.n
               /\ journal'[k].item \in used'
               /\ journal'[k].kind = "remove" <=> journal'[k].val = Absent
    <2>1. CASE k \in DOMAIN journal /\ journal'[k] = journal[k]
      BY <1>2, <2>1 DEF Rows
    <2>2. CASE \E m \in DOMAIN ops : IsNew(k, m, ops)
      BY <1>1, <2>2 DEF IsNew
    <2> QED
      BY <2>1, <2>2, RowCases
  <1>4. ASSUME NEW j \in DOMAIN journal', NEW k \in DOMAIN journal',
               j < k, journal'[j].n > 0, journal'[k].n > 0
        PROVE  journal'[j].n < journal'[k].n
    <2>0. Len(journal) \in Nat
      BY NewRows
    <2>1. CASE k \in DOMAIN journal /\ journal'[k] = journal[k] /\ k \in Nat /\ k <= Len(journal)
      <3>1. ~\E m \in DOMAIN ops : IsNew(j, m, ops)
        BY <1>4, <2>0, <2>1 DEF IsNew
      <3>2. j \in DOMAIN journal /\ journal'[j] = journal[j]
        BY <3>1, RowCases
      <3> QED
        BY <1>4, <2>1, <3>2 DEF Rows
    <2>2. CASE \E m \in DOMAIN ops : IsNew(k, m, ops)
      <3>1. PICK m \in DOMAIN ops : IsNew(k, m, ops)
        BY <2>2
      <3>2. CASE j \in DOMAIN journal /\ journal'[j] = journal[j]
        BY <1>1, <1>4, <3>1, <3>2 DEF IsNew
      <3>3. CASE \E l \in DOMAIN ops : IsNew(j, l, ops)
        <4>1. PICK l \in DOMAIN ops : IsNew(j, l, ops)
          BY <3>3
        <4>2. l < m
          BY <1>4, <2>0, <3>1, <4>1 DEF IsNew
        <4>3. ops[l].n < ops[m].n
          BY <4>2 DEF Takable
        <4> QED
          BY <3>1, <4>1, <4>3 DEF IsNew
      <3> QED
        BY <3>2, <3>3, RowCases
    <2> QED
      BY <2>1, <2>2, RowCases
  <1> QED
    BY <1>3, <1>4 DEF Rows

\* The docs R the room has had and those of a run f, one after the other.
Joined(S, R, f, ops) ==
    /\ S \in [0..(Len(journal) + Len(ops)) -> Doc]
    /\ \A k \in 0..Len(journal) : S[k] = R[k]
    /\ \A m \in 0..Len(ops) : S[Len(journal) + m] = f[m]

LEMMA Joins ==
    ASSUME TInv, NEW R, Docs(R), NEW ops \in Seq(OpValue), NEW f, Runs(f, doc, ops)
    PROVE  \E S : Joined(S, R, f, ops)
  <1> DEFINE l == Len(journal)
             n == Len(ops)
             S == [k \in 0..(l + n) |-> IF k <= l THEN R[k] ELSE f[k - l]]
  <1>1. /\ l \in Nat /\ n \in Nat /\ R \in [0..l -> Doc] /\ f \in [0..n -> Doc]
        /\ R[l] = doc /\ f[0] = doc
    BY Types, SeqFacts DEF Docs, Runs
  <1> HIDE DEF l, n
  <1>2. S \in [0..(l + n) -> Doc]
    <2>1. ASSUME NEW k \in 0..(l + n) PROVE S[k] \in Doc
      <3>1. CASE k <= l
        <4>1. k \in 0..l /\ S[k] = R[k]
          BY <1>1, <3>1
        <4> QED
          BY <1>1, <4>1
      <3>2. CASE ~(k <= l)
        <4>1. k - l \in 0..n /\ S[k] = f[k - l]
          BY <1>1, <3>2
        <4> QED
          BY <1>1, <4>1
      <3> QED
        BY <3>1, <3>2
    <2> QED
      BY <2>1
  <1>3. \A k \in 0..l : S[k] = R[k]
    BY <1>1
  <1>4. ASSUME NEW m \in 0..n PROVE S[l + m] = f[m]
    <2>1. CASE m = 0
      BY <1>1, <2>1
    <2>2. CASE m # 0
      <3>1. l + m \in 0..(l + n) /\ ~(l + m <= l) /\ (l + m) - l = m
        BY <1>1, <2>2
      <3> QED
        BY <3>1
    <2> QED
      BY <2>1, <2>2
  <1> HIDE DEF S
  <1>5. Joined(S, R, f, ops)
    BY <1>2, <1>3, <1>4 DEF Joined, l, n
  <1> QED
    BY <1>5

\* Which row and which doc k is.
LEMMA DocCases ==
    ASSUME TInv, NEW ops, Takable(ops), TakeBatch(ops), NEW k \in 0..Len(journal')
    PROVE  \/ k \in 0..Len(journal)
           \/ \E m \in 1..Len(ops) : m \in 0..Len(ops) /\ m \in Nat /\ k = Len(journal) + m
                                     /\ m \in DOMAIN ops
  <1>1. /\ Len(journal) \in Nat /\ Len(ops) \in Nat \ {0}
        /\ Len(journal') = Len(journal) + Len(ops) /\ DOMAIN ops = 1..Len(ops)
    BY NewRows
  <1>2. CASE k \notin 0..Len(journal)
    <2>1. k - Len(journal) \in 1..Len(ops) /\ k = Len(journal) + (k - Len(journal))
      BY <1>1, <1>2
    <2>2. PICK m \in 1..Len(ops) : k = Len(journal) + m
      BY <2>1
    <2> QED
      BY <1>1, <2>2
  <1> QED
    BY <1>2

LEMMA TakenDocs ==
    ASSUME TInv, NEW R, Rows, Docs(R), NEW ops, Takable(ops), TakeBatch(ops),
           NEW f, Runs(f, doc, ops), NEW S, Joined(S, R, f, ops)
    PROVE  Docs(S)'
  <1>1. /\ Len(journal) \in Nat /\ Len(ops) \in Nat \ {0}
        /\ Len(journal') = Len(journal) + Len(ops) /\ DOMAIN ops = 1..Len(ops)
        /\ ops \in Seq(OpValue) /\ doc \in Doc /\ doc' = ApplyAll(doc, ops)
        /\ DOMAIN journal = 1..Len(journal) /\ DOMAIN journal' = 1..Len(journal')
    BY NewRows, Types, TakeBatchFacts DEF Takable
  <1>2. S \in [0..Len(journal') -> Doc]
    BY <1>1 DEF Joined
  <1>3. ASSUME NEW k \in 1..Len(journal') PROVE S[k] = Apply(S[k - 1], journal'[k])
    <2>1. CASE k \in DOMAIN journal /\ journal'[k] = journal[k] /\ k \in Nat /\ k <= Len(journal)
      <3>1. k \in 0..Len(journal) /\ k - 1 \in 0..Len(journal) /\ k \in 1..Len(journal)
        BY <1>1, <2>1
      <3> QED
        BY <2>1, <3>1 DEF Joined, Docs
    <2>2. CASE \E m \in DOMAIN ops : IsNew(k, m, ops)
      <3>1. PICK m \in DOMAIN ops : IsNew(k, m, ops)
        BY <2>2
      <3>2. /\ m \in 0..Len(ops) /\ m - 1 \in 0..Len(ops) /\ m \in 1..Len(ops)
            /\ k = Len(journal) + m /\ k - 1 = Len(journal) + (m - 1)
        BY <1>1, <3>1 DEF IsNew
      <3>3. S[k] = f[m] /\ S[k - 1] = f[m - 1]
        BY <3>2 DEF Joined
      <3>4. f[m] = Apply(f[m - 1], ops[m])
        BY <3>2 DEF Runs
      <3>5. Apply(f[m - 1], ops[m]) = Apply(f[m - 1], journal'[k])
        <4>1. journal'[k].item = ops[m].item /\ journal'[k].val = ops[m].val
              /\ journal'[k].kind = ops[m].kind
          BY <3>1 DEF IsNew
        <4> QED
          BY <4>1, ApplyStamped
      <3> QED
        BY <3>3, <3>4, <3>5
    <2> QED
      BY <1>1, <2>1, <2>2, RowCases
  <1>4. S[Len(journal')] = doc'
    <2>1. Len(ops) \in 0..Len(ops)
      BY <1>1
    <2> QED
      BY <1>1, <2>1 DEF Joined, Runs
  <1>5. ASSUME NEW k \in 0..Len(journal'), NEW i \in Icon, S[k][i] # Absent
        PROVE  i \in used'
    <2>0. used \subseteq used' /\ \A m \in 1..Len(ops) : ops[m].item \in used'
      BY NewRows
    <2>1. CASE k \in 0..Len(journal)
      BY <1>5, <2>0, <2>1 DEF Joined, Docs
    <2>2. CASE \E m \in 1..Len(ops) : m \in 0..Len(ops) /\ m \in Nat /\ k = Len(journal) + m
      <3>1. PICK m \in 1..Len(ops) : m \in 0..Len(ops) /\ m \in Nat /\ k = Len(journal) + m
        BY <2>2
      <3>2. S[k] = f[m]
        BY <3>1 DEF Joined
      <3>3. CASE \E j \in 1..m : ops[j].item = i
        <4>1. \A j \in 1..m : j \in 1..Len(ops)
          BY <1>1, <3>1
        <4> QED
          BY <2>0, <3>3, <4>1
      <3>4. CASE \A j \in 1..m : ops[j].item # i
        <4>1. f[m][i] = doc[i]
          BY <1>1, <3>1, <3>4, BatchRun
        <4>2. doc[i] # Absent /\ R[Len(journal)] = doc /\ Len(journal) \in 0..Len(journal)
          BY <1>1, <1>5, <3>2, <4>1 DEF Docs
        <4>3. i \in used
          BY <4>2 DEF Docs
        <4> QED
          BY <2>0, <4>3
      <3> QED
        BY <3>3, <3>4
    <2> QED
      BY <2>1, <2>2, DocCases
  <1> QED
    BY <1>2, <1>3, <1>4, <1>5 DEF Docs

LEMMA TakenLives ==
    ASSUME TInv, NEW R, Rows, Docs(R), Lives(R), NEW ops, Takable(ops), TakeBatch(ops),
           NEW f, Runs(f, doc, ops), NEW S, Joined(S, R, f, ops)
    PROVE  Lives(S)'
  <1>1. /\ Len(journal) \in Nat /\ Len(ops) \in Nat \ {0}
        /\ Len(journal') = Len(journal) + Len(ops) /\ DOMAIN ops = 1..Len(ops)
        /\ ops \in Seq(OpValue) /\ doc \in Doc
        /\ DOMAIN journal = 1..Len(journal) /\ DOMAIN journal' = 1..Len(journal')
        /\ R[Len(journal)] = doc /\ Len(journal) \in 0..Len(journal)
    <2>1. ops \in Seq(OpValue)
      BY DEF Takable
    <2>2. doc \in Doc
      BY Types
    <2>3. R[Len(journal)] = doc
      BY DEF Docs
    <2>4. Len(journal) \in Nat
      BY NewRows
    <2> QED
      BY <2>1, <2>2, <2>3, <2>4, NewRows
  <1>2. /\ \A k \in DOMAIN ops : ops[k].kind = "add" => ops[k].item \notin used
        /\ \A j, k \in DOMAIN ops : j < k => ops[j].item # ops[k].item
    BY DEF Takable
  <1>5. Distinct(ops)
    BY <1>2 DEF Distinct
  <1>3. ASSUME NEW s \in DOMAIN journal', journal'[s].kind = "add", NEW k \in 0..(s - 1)
        PROVE  /\ S[k][journal'[s].item] = Absent
               /\ k > 0 => journal'[k].item # journal'[s].item
    <2>1. CASE s \in DOMAIN journal /\ journal'[s] = journal[s] /\ s \in Nat /\ s <= Len(journal)
      <3>1. k \in 0..Len(journal) /\ S[k] = R[k]
        BY <1>1, <2>1 DEF Joined
      <3>2. k > 0 => journal'[k] = journal[k]
        <4>1. k > 0 => k \in DOMAIN journal
          BY <1>1, <3>1
        <4> QED
          BY <4>1, OldRow
      <3> QED
        BY <1>3, <2>1, <3>1, <3>2 DEF Lives
    <2>2. CASE \E m \in DOMAIN ops : IsNew(s, m, ops)
      <3>1. PICK m \in DOMAIN ops : IsNew(s, m, ops)
        BY <2>2
      <3> PICK i \in Icon : i = ops[m].item
        BY <3>1, OpFields DEF IsNew
      <3>2. /\ i \notin used /\ journal'[s].item = i /\ s = Len(journal) + m
            /\ i \in Icon /\ m \in 1..Len(ops)
        BY <1>1, <1>2, <1>3, <3>1, OpFields DEF IsNew
      <3>3. \A x \in 0..Len(journal) : R[x][i] = Absent
        BY <3>2 DEF Docs
      <3>4. CASE k \in 0..Len(journal)
        <4>1. S[k][i] = Absent
          BY <3>3, <3>4 DEF Joined
        <4>2. k > 0 => journal'[k].item # i
          <5>1. k > 0 => k \in DOMAIN journal
            BY <1>1, <3>4
          <5> QED
            BY <3>2, <5>1, OldRow DEF Rows
        <4> QED
          BY <3>2, <4>1, <4>2
      <3>5. CASE k \notin 0..Len(journal)
        <4>1. /\ k - Len(journal) \in 1..Len(ops) /\ k = Len(journal) + (k - Len(journal))
              /\ k - Len(journal) < m
          BY <1>1, <3>2, <3>5
        <4>2. PICK j \in 1..Len(ops) : k = Len(journal) + j /\ j < m
          BY <4>1
        <4>3. j \in 0..Len(ops) /\ S[k] = f[j] /\ j \in DOMAIN ops
          BY <1>1, <4>2 DEF Joined
        <4>4. \A x \in 1..j : ops[x].item # i
          <5>1. \A x \in 1..j : x \in DOMAIN ops /\ x < m
            BY <1>1, <3>2, <4>2
          <5> QED
            BY <1>2, <5>1
        <4>5. f[j][i] = doc[i]
          <5>1. \A x \in Icon : \A z \in 0..Len(ops) :
                  (\A y \in 1..z : ops[y].item # x) => f[z][x] = doc[x]
            BY <1>1, BatchRun
          <5> QED
            BY <4>3, <4>4, <5>1
        <4>6. journal'[k].item # i
          <5>1. IsNew(k, j, ops)
            BY <4>2, <4>3, NewAt
          <5>2. j \in 1..j
            BY <4>2
          <5> QED
            BY <4>4, <5>1, <5>2 DEF IsNew
        <4> QED
          BY <1>1, <3>2, <3>3, <4>3, <4>5, <4>6
      <3> QED
        BY <3>4, <3>5
    <2> QED
      BY <2>1, <2>2, RowCases
  <1>4. ASSUME NEW s \in DOMAIN journal', journal'[s].kind = "remove",
               NEW k \in s..Len(journal')
        PROVE  S[k][journal'[s].item] = Absent
    <2>0. k \in 0..Len(journal')
      BY <1>1
    <2>1. CASE s \in DOMAIN journal /\ journal'[s] = journal[s] /\ s \in Nat /\ s <= Len(journal)
      <3> DEFINE i == journal[s].item
      <3>1. i \in Icon /\ i \in used
        BY <1>1, <2>1, RowFacts
      <3>2. \A x \in s..Len(journal) : R[x][i] = Absent
        BY <1>4, <2>1 DEF Lives
      <3>3. CASE k \in 0..Len(journal)
        <4>1. k \in s..Len(journal)
          BY <1>1, <2>1, <3>3
        <4> QED
          BY <2>1, <3>2, <3>3, <4>1 DEF Joined
      <3>4. CASE \E m \in 1..Len(ops) : m \in 0..Len(ops) /\ k = Len(journal) + m
        <4>1. PICK m \in 0..Len(ops) : k = Len(journal) + m
          BY <3>4
        <4>2. doc[i] = Absent
          <5>1. Len(journal) \in s..Len(journal)
            BY <1>1, <2>1
          <5> QED
            BY <1>1, <3>2, <5>1
        <4>3. \A x \in 1..Len(ops) : ops[x].item = i => ops[x].kind # "add"
          BY <1>1, <1>2, <3>1
        <4>4. f[m][i] = Absent
          BY <1>1, <3>1, <4>2, <4>3, BatchRun
        <4>5. S[k] = f[m]
          BY <4>1 DEF Joined
        <4> QED
          BY <2>1, <4>4, <4>5
      <3> QED
        BY <2>0, <3>3, <3>4, DocCases
    <2>2. CASE \E m \in DOMAIN ops : IsNew(s, m, ops)
      <3>1. PICK m \in DOMAIN ops : IsNew(s, m, ops)
        BY <2>2
      <3>2. /\ ops[m].kind = "remove" /\ journal'[s].item = ops[m].item
            /\ s = Len(journal) + m /\ m \in 1..Len(ops)
        BY <1>1, <1>4, <3>1 DEF IsNew
      <3>3. \A x \in m..Len(ops) : f[x][ops[m].item] = Absent
        BY <1>1, <1>5, <3>2, RunRemoves
      <3>4. k - Len(journal) \in m..Len(ops) /\ k = Len(journal) + (k - Len(journal))
        BY <1>1, <3>2
      <3>5. PICK x \in m..Len(ops) : k = Len(journal) + x
        BY <3>4
      <3>6. x \in 0..Len(ops)
        BY <1>1, <3>2
      <3>7. S[k] = f[x]
        BY <3>5, <3>6 DEF Joined
      <3> QED
        BY <3>2, <3>3, <3>7
    <2> QED
      BY <2>1, <2>2, RowCases
  <1> QED
    BY <1>3, <1>4 DEF Lives

LEMMA RunOf ==
    ASSUME NEW d \in Doc, NEW ops \in Seq(OpValue)
    PROVE  \E f : Runs(f, d, ops)
  BY ApplyAllRun DEF Runs

\* The docs of the room go on.
LEMMA TakenOn ==
    ASSUME TInv, NEW R, Rows, Docs(R), Lives(R), NEW ops, Takable(ops), TakeBatch(ops)
    PROVE  \E S \in [0..Len(journal') -> Doc] :
             /\ Docs(S)' /\ Lives(S)' /\ \A k \in 0..Len(journal) : S[k] = R[k]
  <1>1. ops \in Seq(OpValue) /\ doc \in Doc
    BY Types DEF Takable
  <1>2. PICK f : Runs(f, doc, ops)
    BY <1>1, RunOf
  <1>3. PICK S : Joined(S, R, f, ops)
    BY <1>1, <1>2, Joins
  <1>4. Docs(S)' /\ Lives(S)'
    BY <1>2, <1>3, TakenDocs, TakenLives
  <1>5. S \in [0..Len(journal') -> Doc] /\ \A k \in 0..Len(journal) : S[k] = R[k]
    BY <1>3, <1>4 DEF Docs, Joined
  <1> QED
    BY <1>4, <1>5

\* The room takes a batch and the device that sent it, or none, looks on.
Taken(ops) ==
    /\ Takable(ops) /\ TakeBatch(ops) /\ Outgoing'
    /\ UNCHANGED <<session, world, conn, since, read, dirty, typed, seen>>
    /\ Flying = Flying' \cup {o \in Range(ops) : o.n > 0}
    /\ \A p \in posts' : p.done =>
         p \in posts \/ (p.ops = Stamp(ops) /\ \A k \in DOMAIN ops : ops[k].n > 0)

\* An op that still waits to be read, beside one just taken about its icon.
LEMMA TakenPair ==
    ASSUME TInv, NEW R, RoomOK(R), PageOK(R, Page), NEW ops, Taken(ops),
           NEW u \in Flying', NEW m \in DOMAIN ops, ops[m].item = u.item
    PROVE  /\ u \in Flying /\ u.kind = "add" => ops[m].kind # "add"
           /\ u.kind = "add" /\ u.item \notin used => ops[m].n > u.n
  <1>1. /\ u \in Flying /\ u \in session.pending /\ Page.s = session
        /\ session.n \in Nat
    BY SoundParts DEF Taken, Waiting
  <1>2. u.n \in 1..session.n /\ u.item \in Minted /\ u \in OpValue
    BY <1>1, SoundParts, PendingCases
  <1>3. /\ ops[m].n \in 0..session.n
        /\ ops[m].kind = "add" => ops[m].item \notin used
        /\ ops[m].n > 0 => ops[m] \in Flying
        /\ ops[m].n = 0 /\ ops[m].item \notin used => ops[m].kind = "add"
        /\ ops[m].n = 0 /\ ops[m].kind = "add" => ops[m].item \notin Minted
    BY DEF Taken, Takable
  <1>4. CASE ops[m].n = 0
    BY <1>1, <1>2, <1>3, <1>4
  <1>5. CASE ops[m].n # 0
    <2>1. ops[m] \in Flying /\ ops[m] \in session.pending /\ ops[m].n \in Nat
      BY <1>1, <1>3, <1>5, SoundParts DEF Waiting
    <2>2. ops[m] \in OnIcon(Page, u.item) /\ u \in OnIcon(Page, u.item)
      BY <1>1, <2>1 DEF OnIcon
    <2>3. Sorted(Page, u.item)
      BY <1>2, SoundParts, OpFields DEF IconOK
    <2>4. ops[m].n # u.n
      <3>1. PICK k \in DOMAIN journal' : IsNew(k, m, ops)
        BY NewAt DEF Taken
      <3>2. journal'[k].n # u.n
        BY DEF Taken, Outgoing
      <3> QED
        BY <3>1, <3>2 DEF IsNew
    <2>5. CASE ops[m].n > u.n
      BY <1>1, <1>2, <2>1, <2>2, <2>3, <2>5 DEF Sorted
    <2>6. CASE ops[m].n < u.n
      BY <1>1, <1>2, <2>1, <2>2, <2>3, <2>6 DEF Sorted
    <2> QED
      BY <1>2, <2>1, <2>4, <2>5, <2>6
  <1> QED
    BY <1>4, <1>5

LEMMA TakenWords ==
    ASSUME TInv, NEW R, RoomOK(R), PageOK(R, Page), NEW ops, Taken(ops)
    PROVE  OwnWords' /\ AddsAreFresh'
  <1>1. /\ Takable(ops) /\ TakeBatch(ops) /\ typed' = typed
        /\ Flying' \subseteq Flying
        /\ OwnWords /\ AddsAreFresh
    BY SoundParts DEF Taken
  <1>6. \A u \in Flying' : \A m \in DOMAIN ops : ops[m].item = u.item =>
           /\ u \in Flying /\ u.kind = "add" => ops[m].kind # "add"
           /\ u.kind = "add" /\ u.item \notin used => ops[m].n > u.n
    <2> SUFFICES ASSUME NEW u \in Flying', NEW m \in DOMAIN ops, ops[m].item = u.item
                 PROVE  /\ u \in Flying /\ u.kind = "add" => ops[m].kind # "add"
                        /\ u.kind = "add" /\ u.item \notin used => ops[m].n > u.n
      OBVIOUS
    <2> QED
      BY TakenPair
  <1>7. \A i \in used' : i \in used \/ \E m \in DOMAIN ops : i = ops[m].item
    <2>1. \A i \in used' : i \in used \/ \E m \in 1..Len(ops) : i = ops[m].item
      BY <1>1, NewRows
    <2>2. DOMAIN ops = 1..Len(ops)
      BY <1>1, NewRows
    <2> QED
      BY <2>1, <2>2
  <1>2. OwnWords'
    <2>1. \A u \in Flying' : <<u.item, u.val>> \in typed
      BY <1>1 DEF OwnWords
    <2>2. ASSUME NEW k \in DOMAIN journal', journal'[k].n > 0
          PROVE  <<journal'[k].item, journal'[k].val>> \in typed
      <3>1. CASE k \in DOMAIN journal /\ journal'[k] = journal[k]
        BY <1>1, <2>2, <3>1 DEF OwnWords
      <3>2. CASE \E m \in DOMAIN ops : IsNew(k, m, ops)
        <4>1. PICK m \in DOMAIN ops : IsNew(k, m, ops)
          BY <3>2
        <4>2. /\ ops[m].n > 0 /\ ops[m].item = journal'[k].item
              /\ ops[m].val = journal'[k].val
          BY <2>2, <4>1 DEF IsNew
        <4>3. ops[m] \in Flying
          BY <1>1, <4>2 DEF Takable
        <4> QED
          BY <1>1, <4>2, <4>3 DEF OwnWords
      <3> QED
        BY <1>1, <3>1, <3>2, RowCases
    <2> QED
      BY <1>1, <2>1, <2>2 DEF OwnWords
  <1>3. ASSUME NEW u \in Flying', u.kind = "add", u.item \in used'
        PROVE  \E k \in DOMAIN journal' : journal'[k].n > u.n
    <2>1. CASE u.item \in used
      <3>1. PICK k \in DOMAIN journal : journal[k].n > u.n
        BY <1>1, <1>3, <2>1 DEF AddsAreFresh
      <3>2. k \in DOMAIN journal' /\ journal'[k] = journal[k]
        BY <1>1, OldRow
      <3> QED
        BY <3>1, <3>2
    <2>2. CASE u.item \notin used
      <3>1. PICK m \in DOMAIN ops : u.item = ops[m].item
        BY <1>3, <1>7, <2>2
      <3>2. ops[m].n > u.n
        BY <1>3, <1>6, <2>2, <3>1
      <3>3. PICK k \in DOMAIN journal' : IsNew(k, m, ops)
        BY <1>1, NewAt
      <3> QED
        BY <3>2, <3>3 DEF IsNew
    <2> QED
      BY <2>1, <2>2
  <1>4. ASSUME NEW u \in Flying', u.kind = "add", NEW k \in DOMAIN journal',
               journal'[k].item = u.item
        PROVE  journal'[k].kind # "add"
    <2>1. CASE k \in DOMAIN journal /\ journal'[k] = journal[k]
      BY <1>1, <1>4, <2>1 DEF AddsAreFresh
    <2>2. CASE \E m \in DOMAIN ops : IsNew(k, m, ops)
      <3>1. PICK m \in DOMAIN ops : IsNew(k, m, ops)
        BY <2>2
      <3>2. ops[m].item = u.item /\ journal'[k].kind = ops[m].kind
        BY <1>4, <3>1 DEF IsNew
      <3>3. u.kind = "add" => ops[m].kind # "add"
        BY <1>1, <1>6, <3>2
      <3> QED
        BY <1>4, <3>2, <3>3
    <2> QED
      BY <1>1, <2>1, <2>2, RowCases
  <1>5. AddsAreFresh'
    BY <1>3, <1>4 DEF AddsAreFresh
  <1> QED
    BY <1>2, <1>5

LEMMA StillFollows ==
    ASSUME TInv, NEW ops, Takable(ops), TakeBatch(ops), NEW f, NEW k, Follows(journal, f, k)
    PROVE  Follows(journal', f, k)
  BY OldRow DEF Follows, Continues

LEMMA TakenArriving ==
    ASSUME TInv, NEW R, RoomOK(R), PageOK(R, Page), NEW ops, Taken(ops)
    PROVE  Arriving'
  <1> DEFINE f == [error |-> FALSE, ops |-> Stamp(ops)]
             l == Len(journal)
  <1>1. /\ Takable(ops) /\ TakeBatch(ops) /\ Arriving /\ ops \in Seq(OpValue)
        /\ session' = session /\ conn' = conn /\ session.cursor \in 0..l
    BY SoundParts DEF Taken, Takable
  <1>2. down' = IF conn = "open" THEN Append(down, f) ELSE down
    BY <1>1, TakeBatchFacts
  <1>3. CASE conn # "open"
    BY <1>1, <1>2, <1>3 DEF Arriving
  <1>4. CASE conn = "open"
    <2>1. /\ f.error = FALSE /\ f.ops = Stamp(ops) /\ f \in Frame /\ down \in Seq(Frame)
          /\ l \in Nat /\ Len(down) \in Nat /\ DOMAIN down = 1..Len(down)
      BY <1>1, TakeBatchFacts, Types, SeqFacts, NewRows
    <2>2. /\ DOMAIN down' = 1..(Len(down) + 1) /\ Len(down') = Len(down) + 1
          /\ down'[Len(down) + 1] = f /\ down' # <<>>
          /\ \A k \in 1..Len(down) : down'[k] = down[k]
      BY <1>2, <1>4, <2>1, AppendFacts
    <2>3. /\ Len(Stamp(ops)) = Len(ops) /\ DOMAIN Stamp(ops) = DOMAIN ops
          /\ Stamp(ops) # <<>> /\ Len(journal') = l + Len(ops)
      <3>1. journal \in Seq(OpValue)
        BY Types
      <3>2. Stamp(ops) \in Seq(OpValue) /\ Len(Stamp(ops)) = Len(ops)
            /\ DOMAIN Stamp(ops) = DOMAIN ops
        BY <1>1, <3>1, StampFacts
      <3>3. Len(ops) \in Nat \ {0} /\ Len(journal') = l + Len(ops)
        BY <1>1, NewRows
      <3> QED
        BY <3>2, <3>3, SeqFacts
    <2> HIDE DEF f
    <2>4. Follows(journal', f, l)
      <3>1. \A j \in DOMAIN Stamp(ops) : l + j \in DOMAIN journal'
                                         /\ Stamp(ops)[j] = journal'[l + j]
        BY <1>1, <2>3, NewAt DEF IsNew
      <3> QED
        BY <2>1, <2>3, <3>1 DEF Follows, Continues
    <2>5. CASE down = <<>>
      <3> DEFINE from == [j \in {1} |-> l]
      <3>1. Len(down) = 0 /\ session.cursor = l
        BY <1>1, <1>4, <2>1, <2>5, SeqFacts DEF Arriving
      <3>2. DOMAIN down' = {1} /\ Len(down') = 1 /\ down'[1] = f
        BY <2>2, <3>1
      <3>3. from \in [{1} -> Nat] /\ from[1] = l
        BY <2>1
      <3> HIDE DEF from
      <3>4. /\ from[1] <= session'.cursor
            /\ \A j \in DOMAIN down' : Follows(journal', down'[j], from[j])
            /\ \A j \in DOMAIN down' :
                 from[j] + Len(down'[j].ops) = IF j = Len(down') THEN Len(journal')
                                               ELSE from[j + 1]
        <4>1. from[1] <= session'.cursor
          BY <1>1, <3>1, <3>3
        <4>2. Follows(journal', down'[1], from[1])
          BY <2>4, <3>2, <3>3
        <4>3. from[1] + Len(down'[1].ops) = Len(journal')
          BY <2>1, <2>3, <3>2, <3>3
        <4> QED
          BY <3>2, <4>1, <4>2, <4>3
      <3> QED
        BY <1>1, <1>4, <2>2, <3>2, <3>3, <3>4 DEF Arriving, Leads
    <2>6. CASE down # <<>>
      <3>1. PICK from \in [DOMAIN down -> Nat] :
              /\ from[1] <= session.cursor
              /\ \A j \in DOMAIN down : Follows(journal, down[j], from[j])
              /\ \A j \in DOMAIN down :
                   from[j] + Len(down[j].ops) = IF j = Len(down) THEN l ELSE from[j + 1]
        BY <1>1, <2>6 DEF Arriving, Leads
      <3> DEFINE c == Len(down)
                 on == [j \in 1..(c + 1) |-> IF j = c + 1 THEN l ELSE from[j]]
      <3>2. c \in Nat /\ c # 0
        BY <2>1, <2>6, SeqFacts
      <3>3. /\ on \in [1..(c + 1) -> Nat] /\ on[c + 1] = l
            /\ \A j \in 1..c : on[j] = from[j] /\ j # c + 1
        BY <2>1, <3>2
      <3> HIDE DEF on, c
      <3>4. on[1] <= session'.cursor
        BY <1>1, <3>1, <3>2, <3>3
      <3>5. ASSUME NEW j \in DOMAIN down'
            PROVE  /\ Follows(journal', down'[j], on[j])
                   /\ on[j] + Len(down'[j].ops) = IF j = Len(down') THEN Len(journal')
                                                  ELSE on[j + 1]
        <4>1. CASE j = c + 1
          BY <2>1, <2>2, <2>3, <2>4, <3>3, <4>1 DEF c
        <4>2. CASE j \in 1..c
          <5>1. /\ j \in DOMAIN down /\ down'[j] = down[j] /\ on[j] = from[j] /\ j # Len(down')
                /\ j + 1 \in 1..(c + 1)
            BY <2>1, <2>2, <3>3, <4>2 DEF c
          <5>2. Follows(journal', down'[j], on[j])
            BY <1>1, <3>1, <5>1, StillFollows
          <5>3. from[j] + Len(down[j].ops) = IF j = c THEN l ELSE from[j + 1]
            BY <3>1, <5>1 DEF c
          <5>4. CASE j = c
            BY <3>3, <5>1, <5>2, <5>3, <5>4
          <5>5. CASE j # c
            <6>1. j + 1 \in 1..c
              BY <3>2, <4>2, <5>5
            <6> QED
              BY <3>3, <5>1, <5>2, <5>3, <5>5, <6>1
          <5> QED
            BY <5>4, <5>5
        <4> QED
          BY <2>2, <3>2, <4>1, <4>2 DEF c
      <3>6. on \in [DOMAIN down' -> Nat]
        BY <2>2, <3>3 DEF c
      <3> QED
        BY <1>1, <1>4, <2>2, <3>4, <3>5, <3>6 DEF Arriving, Leads
    <2> QED
      BY <2>5, <2>6
  <1> QED
    BY <1>3, <1>4

LEMMA TakenAnswered ==
    ASSUME TInv, NEW R, RoomOK(R), PageOK(R, Page), NEW ops, Taken(ops),
           NEW S, \A k \in 0..Len(journal) : S[k] = R[k]
    PROVE  Answered(S)'
  <1>1. /\ Takable(ops) /\ TakeBatch(ops) /\ Answered(R)
        /\ UNCHANGED <<session, since, read>>
        /\ \A p \in posts' : p.done =>
             p \in posts \/ (p.ops = Stamp(ops) /\ \A k \in DOMAIN ops : ops[k].n > 0)
    BY SoundParts DEF Taken
  <1>2. ASSUME NEW p \in posts', p.done, NEW j \in DOMAIN p.ops
        PROVE  p.ops[j] = journal'[p.ops[j].seq] /\ p.ops[j].n > 0
    <2>1. CASE p \in posts
      <3>1. p.ops[j] = journal[p.ops[j].seq] /\ p.ops[j].n > 0
        BY <1>1, <1>2, <2>1 DEF Answered
      <3>2. p.ops[j].seq \in 1..Len(journal) /\ DOMAIN journal = 1..Len(journal)
        BY <1>2, <2>1, TypesNow, SoundParts
      <3> QED
        BY <1>1, <3>1, <3>2, OldRow
    <2>2. CASE p.ops = Stamp(ops) /\ \A k \in DOMAIN ops : ops[k].n > 0
      <3>1. j \in DOMAIN ops
        <4>1. journal \in Seq(OpValue) /\ ops \in Seq(OpValue)
          BY <1>1, Types DEF Takable
        <4>2. DOMAIN Stamp(ops) = DOMAIN ops
          BY <4>1, StampFacts
        <4> QED
          BY <2>2, <4>2
      <3>2. PICK k \in DOMAIN journal' : IsNew(k, j, ops)
        BY <1>1, <3>1, NewAt
      <3> QED
        BY <2>2, <3>1, <3>2 DEF IsNew
    <2> QED
      BY <1>1, <1>2, <2>1, <2>2
  <1>3. read.of = "gotAdopt" => read.doc = S[read.seq]
    <2>1. read.seq \in 0..Len(journal)
      BY TypesNow
    <2> QED
      BY <1>1, <2>1 DEF Answered
  <1> QED
    BY <1>1, <1>2, <1>3 DEF Answered

LEMMA TakenWaiting ==
    ASSUME TInv, NEW R, RoomOK(R), PageOK(R, Page), NEW ops, Taken(ops)
    PROVE  Waiting(Page)'
  <1> DEFINE Old == {Bare(journal[k]) : k \in {x \in DOMAIN journal :
                                               journal[x].n > 0 /\ x > session.cursor}}
             New == {Bare(journal'[k]) : k \in {x \in DOMAIN journal' :
                                                journal'[x].n > 0 /\ x > session.cursor}}
  <1>1. /\ Takable(ops) /\ TakeBatch(ops)
        /\ UNCHANGED <<session, seen>>
        /\ Flying = Flying' \cup {o \in Range(ops) : o.n > 0}
        /\ session.cursor \in 0..Len(journal) /\ Len(journal) \in Nat
    BY SoundParts DEF Taken
  <1>2. /\ seen = 1..session.cursor
        /\ session.ids = {q.n : q \in session.pending}
        /\ session.pending = Flying \cup Old
    BY SoundParts DEF Waiting
  <1>3. ASSUME NEW q \in session.pending PROVE q \in Flying' \cup New
    <2>1. CASE q \in Range(ops) /\ q.n > 0
      <3>1. PICK m \in DOMAIN ops : q = ops[m]
        BY <2>1 DEF Range
      <3>2. PICK k \in DOMAIN journal' : IsNew(k, m, ops)
        BY <1>1, NewAt
      <3>3. k > session.cursor /\ journal'[k].n > 0 /\ q = Bare(journal'[k])
        BY <1>1, <2>1, <3>1, <3>2 DEF IsNew
      <3> QED
        BY <3>3
    <2>2. CASE q \in Old
      <3>1. PICK k \in DOMAIN journal : /\ journal[k].n > 0 /\ k > session.cursor
                                        /\ q = Bare(journal[k])
        BY <2>2
      <3>2. k \in DOMAIN journal' /\ journal'[k] = journal[k]
        BY <1>1, OldRow
      <3> QED
        BY <3>1, <3>2
    <2> QED
      BY <1>1, <1>2, <2>1, <2>2
  <1>4. ASSUME NEW q \in New PROVE q \in session.pending
    <2>1. PICK k \in DOMAIN journal' : /\ journal'[k].n > 0 /\ k > session.cursor
                                       /\ q = Bare(journal'[k])
      OBVIOUS
    <2>2. CASE k \in DOMAIN journal /\ journal'[k] = journal[k]
      BY <1>2, <2>1, <2>2
    <2>3. CASE \E m \in DOMAIN ops : IsNew(k, m, ops)
      <3>1. PICK m \in DOMAIN ops : IsNew(k, m, ops)
        BY <2>3
      <3>2. q = ops[m] /\ ops[m].n > 0
        BY <2>1, <3>1 DEF IsNew
      <3>3. ops[m] \in Flying
        BY <1>1, <3>2 DEF Takable
      <3> QED
        BY <1>2, <3>2, <3>3
    <2> QED
      BY <1>1, <2>2, <2>3, RowCases
  <1>5. session.pending = Flying' \cup New
    BY <1>1, <1>2, <1>3, <1>4
  <1>6. Page'.s = session /\ Page'.seen = seen
    BY <1>1 DEF Page
  <1> QED
    BY <1>1, <1>2, <1>5, <1>6 DEF Waiting

LEMMA TakenIcon ==
    ASSUME TInv, NEW R, RoomOK(R), PageOK(R, Page), NEW ops, Taken(ops), NEW i \in Icon
    PROVE  IconOK(Page, i)'
  <1> DEFINE b == session.baseline[i]
             w == world[i]
             O == OnIcon(Page, i)
  <1>1. /\ Takable(ops) /\ TakeBatch(ops)
        /\ UNCHANGED <<session, world, typed, seen>>
        /\ IconOK(Page, i) /\ Page.s = session /\ Page.w = world
        /\ Page'.s = session /\ Page'.w = world
    <2>1. Takable(ops) /\ TakeBatch(ops) /\ UNCHANGED <<session, world, typed, seen>>
      BY DEF Taken
    <2> QED
      BY <2>1, SoundParts DEF Page
  <1>2. OnIcon(Page, i)' = O /\ Minted' = Minted
    BY <1>1 DEF OnIcon, Minted
  <1>3. /\ used \subseteq used'
        /\ \A x \in used' : x \in used \/ \E m \in DOMAIN ops : x = ops[m].item
    <2>1. /\ used \subseteq used' /\ DOMAIN ops = 1..Len(ops)
          /\ \A x \in used' : x \in used \/ \E m \in 1..Len(ops) : x = ops[m].item
      BY <1>1, NewRows
    <2> QED
      BY <2>1
  <1>4. \A m \in DOMAIN ops :
          /\ ops[m].n \in Nat
          /\ ops[m].n > 0 => ops[m] \in session.pending
          /\ ops[m].n = 0 /\ ops[m].item \notin used => ops[m].item \notin Minted
    <2> SUFFICES ASSUME NEW m \in DOMAIN ops
                 PROVE  /\ ops[m].n \in Nat
                        /\ ops[m].n > 0 => ops[m] \in session.pending
                        /\ ops[m].n = 0 /\ ops[m].item \notin used => ops[m].item \notin Minted
      OBVIOUS
    <2>1. /\ ops[m].n \in 0..session.n /\ session.n \in Nat
          /\ ops[m].n > 0 => ops[m] \in Flying
          /\ ops[m].n = 0 /\ ops[m].item \notin used => ops[m].kind = "add"
          /\ ops[m].n = 0 /\ ops[m].kind = "add" => ops[m].item \notin Minted
      BY <1>1, SoundParts DEF Takable
    <2>2. Flying \subseteq session.pending
      BY SoundParts DEF Waiting
    <2> QED
      BY <2>1, <2>2
  <1>5. Fresh(Page, i)'
    <2> SUFFICES ASSUME b = Absent, w # Absent PROVE i \notin used' /\ O = {}
      BY <1>1, <1>2 DEF Fresh
    <2>1. i \notin used /\ O = {} /\ i \in Minted
      <3>1. <<i, w>> \in typed
        BY <1>1 DEF IconOK, Meant
      <3> QED
        BY <1>1, <3>1, MintedBy DEF IconOK, Fresh
    <2>2. ASSUME NEW m \in DOMAIN ops, i = ops[m].item PROVE FALSE
      <3>1. ops[m].n > 0 => ops[m] \in O
        BY <1>1, <1>4, <2>2 DEF OnIcon
      <3> QED
        BY <1>4, <2>1, <2>2, <3>1
    <2> QED
      BY <1>3, <2>1, <2>2
  <1>6. Meant(Page, i)' /\ Known(Page, i)'
    BY <1>1, <1>2, <1>3 DEF IconOK, Meant, Known
  <1>7. Spoken(Page, i)' /\ Sorted(Page, i)'
    BY <1>1, <1>2 DEF IconOK, Spoken, Sorted
  <1>8. Unheard(Page, i)'
    <2> SUFFICES ASSUME NEW k \in DOMAIN journal', k > session.cursor,
                        journal'[k].kind = "add", journal'[k].n = 0, journal'[k].item = i
                 PROVE  i \notin Minted /\ w = Absent /\ b = Absent
      BY <1>1, <1>2 DEF Unheard
    <2>1. CASE k \in DOMAIN journal /\ journal'[k] = journal[k]
      BY <1>1, <2>1 DEF IconOK, Unheard
    <2>2. CASE \E m \in DOMAIN ops : IsNew(k, m, ops)
      <3>1. PICK m \in DOMAIN ops : IsNew(k, m, ops)
        BY <2>2
      <3>2. ops[m].n = 0 /\ ops[m].kind = "add" /\ ops[m].item = i
        BY <3>1 DEF IsNew
      <3>3. i \notin used /\ i \notin Minted
        BY <1>1, <3>2 DEF Takable
      <3> QED
        BY <1>1, <3>3 DEF IconOK, Known
    <2> QED
      BY <1>1, <2>1, <2>2, RowCases
  <1> QED
    BY <1>5, <1>6, <1>7, <1>8 DEF IconOK

LEMMA TakenPage ==
    ASSUME TInv, NEW R, RoomOK(R), PageOK(R, Page), NEW ops, Taken(ops),
           NEW S, \A k \in 0..Len(journal) : S[k] = R[k]
    PROVE  PageOK(S, Page)'
  <1>1. /\ Takable(ops) /\ TakeBatch(ops)
        /\ UNCHANGED <<session, world, dirty>>
        /\ Flying = Flying' \cup {o \in Range(ops) : o.n > 0}
        /\ session.cursor \in 0..Len(journal)
    BY SoundParts DEF Taken
  <1>2. /\ Page.s = session /\ Page.w = world /\ Page'.s = session /\ Page'.w = world
    BY <1>1 DEF Page
  <1>3. Orderly' => Orderly
    <2> SUFFICES ASSUME Orderly', NEW u \in Flying, NEW k \in DOMAIN journal
                 PROVE  journal[k].n < u.n
      BY DEF Orderly
    <2>1. CASE u \in Flying'
      <3>1. k \in DOMAIN journal' /\ journal'[k] = journal[k]
        BY <1>1, OldRow
      <3>2. journal'[k].n < u.n
        BY <2>1, <3>1 DEF Orderly
      <3> QED
        BY <3>1, <3>2
    <2>2. CASE u \in Range(ops) /\ u.n > 0
      <3>1. PICK m \in DOMAIN ops : u = ops[m]
        BY <2>2 DEF Range
      <3> QED
        BY <1>1, <2>2, <3>1 DEF Takable
    <2> QED
      BY <1>1, <2>1, <2>2
  <1>4. ASSUME NEW i \in Icon, Agrees(R, Page, i) PROVE Agrees(S, Page, i)'
    <2>1. OnIcon(Page, i)' = OnIcon(Page, i)
      BY <1>2 DEF OnIcon
    <2>2. S[session.cursor] = R[session.cursor]
      BY <1>1
    <2>3. Gone(S, Page, i)' <=> Gone(R, Page, i)
      BY <1>2, <2>1, <2>2 DEF Gone
    <2> QED
      BY <1>1, <1>2, <1>4, <2>1, <2>2, <2>3 DEF Agrees
  <1>5. Orderly /\ session.phase = "live" => \A i \in Icon : Agrees(R, Page, i)
    BY SoundParts
  <1>6. \A i \in Icon : IconOK(Page, i)'
    BY TakenIcon
  <1>7. Waiting(Page)'
    BY TakenWaiting
  <1>8. Orderly' /\ Page'.s.phase = "live" => \A i \in Icon : Agrees(S, Page, i)'
    BY <1>2, <1>3, <1>4, <1>5
  <1> QED
    BY <1>6, <1>7, <1>8 DEF PageOK

LEMMA TakenSounds ==
    ASSUME TInv, NEW R, RoomOK(R), PageOK(R, Page), NEW ops, Taken(ops), Asleep'
    PROVE  Sound'
  <1>1. Takable(ops) /\ TakeBatch(ops) /\ Outgoing' /\ session' = session
    BY DEF Taken
  <1>2. Rows /\ Docs(R) /\ Lives(R)
    BY SoundParts
  <1>3. PICK S \in [0..Len(journal') -> Doc] :
             /\ Docs(S)' /\ Lives(S)' /\ \A k \in 0..Len(journal) : S[k] = R[k]
    BY <1>1, <1>2, TakenOn
  <1>4. Rows'
    BY <1>1, <1>2, TakenRows
  <1>5. OwnWords' /\ AddsAreFresh' /\ Arriving'
    BY TakenWords, TakenArriving
  <1>6. Answered(S)'
    BY <1>3, TakenAnswered
  <1>7. PageOK(S, Page)'
    BY <1>3, TakenPage
  <1> QED
    BY <1>1, <1>3, <1>4, <1>5, <1>6, <1>7, Resounds

\* What is still under way after the room has taken a batch.
LEMMA StillOutgoing ==
    ASSUME TInv, Outgoing, NEW ops, Takable(ops), TakeBatch(ops), session' = session,
           \A k \in DOMAIN up' : IsBatch(up'[k]), \A p \in Sent' : IsBatch(p.ops),
           \A j, k \in DOMAIN up' : j # k => Apart(up'[j], up'[k]),
           \A k \in DOMAIN up', p \in Sent' : Apart(up'[k], p.ops),
           \A p, q \in Sent' : p # q => Apart(p.ops, q.ops),
           Flying' \subseteq Flying,
           \A u \in Flying', m \in DOMAIN ops : ops[m].n # u.n,
           conn' # "open" => up' = <<>>
    PROVE  Outgoing'
  <1>1. \A x : IsBatch(x) => IsBatch(x)'
    BY DEF IsBatch
  <1>2. \A k \in DOMAIN up' : IsBatch(up[k])'
    <2>1. ASSUME NEW k \in DOMAIN up', NEW x, x = up'[k] PROVE IsBatch(x)'
      BY <1>1, <2>1
    <2> QED
      BY <2>1 DEF IsBatch
  <1>3. \A p \in Sent' : IsBatch(p.ops)'
    BY <1>1
  <1>4. ASSUME NEW u \in Flying', NEW k \in DOMAIN journal' PROVE journal'[k].n # u.n
    <2>1. CASE k \in DOMAIN journal /\ journal'[k] = journal[k]
      BY <2>1 DEF Outgoing
    <2>2. CASE \E m \in DOMAIN ops : IsNew(k, m, ops)
      BY <2>2 DEF IsNew
    <2> QED
      BY <2>1, <2>2, RowCases
  <1> QED
    BY <1>2, <1>3, <1>4 DEF Outgoing, Apart

\* A batch of this device that the room takes without a wound is in order.
LEMMA OwnTakable ==
    ASSUME TInv, NEW R, RoomOK(R), PageOK(R, Page), NEW ops \in Seq(OpValue), IsBatch(ops),
           Range(ops) \subseteq Flying, TakeBatch(ops), wounds' = {}
    PROVE  Takable(ops) /\ \A k \in DOMAIN ops : ops[k].n > 0
  <1>1. /\ ops # <<>> /\ session.n \in Nat
        /\ \A k \in DOMAIN ops : /\ ops[k].n \in 1..session.n /\ ops[k].seq = 0
                                 /\ ops[k].kind = "remove" <=> ops[k].val = Absent
                                 /\ ops[k] \in Flying
        /\ \A j, k \in DOMAIN ops : j < k => ops[j].n < ops[k].n /\ ops[j].item # ops[k].item
    BY SoundParts DEF IsBatch, Range
  <1>2. ~\E o \in Range(ops), j \in Range(journal) : j.n > o.n /\ o.n > 0
    BY DEF TakeBatch
  <1>3. ASSUME NEW k \in DOMAIN ops, NEW j \in DOMAIN journal
        PROVE  journal[j].n < ops[k].n
    <2>1. ops[k] \in Range(ops) /\ journal[j] \in Range(journal)
      BY DEF Range
    <2>2. ops[k].n \in Nat /\ ops[k].n > 0
      BY <1>1
    <2>3. journal[j].n \in Nat /\ journal[j].n # ops[k].n
      BY <1>1, SoundParts DEF Rows, Outgoing
    <2> QED
      BY <1>2, <2>1, <2>2, <2>3
  <1>4. ASSUME NEW k \in DOMAIN ops, ops[k].kind = "add" PROVE ops[k].item \notin used
    <2>1. ASSUME ops[k].item \in used PROVE FALSE
      <3>1. PICK j \in DOMAIN journal : journal[j].n > ops[k].n
        BY <1>1, <1>4, <2>1, SoundParts DEF AddsAreFresh
      <3>2. journal[j].n < ops[k].n /\ ops[k].n \in Nat /\ journal[j].n \in Nat
        BY <1>1, <1>3, SoundParts DEF Rows
      <3> QED
        BY <3>1, <3>2
    <2> QED
      BY <2>1
  <1>5. \A k \in DOMAIN ops : ops[k].n > 0 /\ ops[k].n # 0 /\ ops[k].n \in 0..session.n
    BY <1>1
  <1> QED
    BY <1>1, <1>3, <1>4, <1>5 DEF Takable

\* The first batch of the socket.
LEMMA TakeFrameSounds ==
    ASSUME TInv, NEW R, RoomOK(R), PageOK(R, Page), TakeFrame, wounds' = {}
    PROVE  Sound'
  <1>1. /\ up # <<>> /\ up' = Tail(up)
        /\ UNCHANGED <<trim, session, world, conn, since, posts, read, dirty, typed, seen>>
        /\ TakeBatch(Head(up))
    BY DEF TakeFrame, Refuse
  <1>2. /\ up \in Seq(Seq(OpValue)) /\ Head(up) = up[1] /\ Len(up) \in Nat \ {0}
        /\ DOMAIN up = 1..Len(up) /\ DOMAIN up' = 1..(Len(up) - 1)
        /\ \A k \in 1..(Len(up) - 1) : up'[k] = up[k + 1]
        /\ Head(up) \in Seq(OpValue)
    <2>1. up \in Seq(Seq(OpValue))
      BY Types
    <2> QED
      BY <1>1, <2>1, TailFacts
  <1> PICK ops \in Seq(OpValue) : ops = up[1]
    BY <1>2
  <1>3. /\ 1 \in DOMAIN up
        /\ \A k \in DOMAIN up' : k + 1 \in DOMAIN up /\ k + 1 # 1 /\ up'[k] = up[k + 1]
        /\ \A k \in DOMAIN up : k # 1 => k - 1 \in DOMAIN up' /\ up'[k - 1] = up[k]
        /\ \A j, k \in DOMAIN up' : j # k => j + 1 # k + 1
    BY <1>2
  <1>4. Sent' = Sent
    BY <1>1 DEF Sent
  <1>5. Outgoing /\ IsBatch(ops)
    BY <1>3, SoundParts DEF Outgoing
  <1>6. Flying = Flying' \cup Range(ops)
    <2>1. UNION {Range(up[k]) : k \in DOMAIN up}
             = (UNION {Range(up'[k]) : k \in DOMAIN up'}) \cup Range(ops)
      BY <1>3
    <2> QED
      BY <1>4, <2>1 DEF Flying
  <1>7. Takable(ops) /\ TakeBatch(ops) /\ \A k \in DOMAIN ops : ops[k].n > 0
    BY <1>1, <1>2, <1>5, <1>6, OwnTakable
  <1>8. \A u \in Flying', m \in DOMAIN ops : ops[m].n # u.n
    <2> SUFFICES ASSUME NEW u \in Flying', NEW m \in DOMAIN ops PROVE ops[m].n # u.n
      OBVIOUS
    <2>1. CASE \E k \in DOMAIN up' : u \in Range(up'[k])
      <3>1. PICK k \in DOMAIN up' : u \in Range(up'[k])
        BY <2>1
      <3>2. PICK j \in DOMAIN up'[k] : u = up'[k][j]
        BY <3>1 DEF Range
      <3>3. Apart(up[1], up[k + 1])
        BY <1>3, <1>5 DEF Outgoing
      <3> QED
        BY <1>3, <3>2, <3>3 DEF Apart
    <2>2. CASE \E p \in Sent : u \in Range(p.ops)
      <3>1. PICK p \in Sent : u \in Range(p.ops)
        BY <2>2
      <3>2. PICK j \in DOMAIN p.ops : u = p.ops[j]
        BY <3>1 DEF Range
      <3>3. Apart(up[1], p.ops)
        BY <1>3, <1>5 DEF Outgoing
      <3> QED
        BY <3>2, <3>3 DEF Apart
    <2> QED
      BY <1>4, <2>1, <2>2 DEF Flying
  <1>9. Outgoing'
    <2>1. \A k \in DOMAIN up' : IsBatch(up'[k])
      BY <1>3, <1>5 DEF Outgoing
    <2>2. \A j, k \in DOMAIN up' : j # k => Apart(up'[j], up'[k])
      BY <1>3, <1>5 DEF Outgoing
    <2>3. \A k \in DOMAIN up', p \in Sent' : Apart(up'[k], p.ops)
      BY <1>3, <1>4, <1>5 DEF Outgoing
    <2>4. /\ \A p \in Sent' : IsBatch(p.ops)
          /\ \A p, q \in Sent' : p # q => Apart(p.ops, q.ops)
          /\ conn = "open"
      BY <1>1, <1>4, <1>5 DEF Outgoing
    <2> QED
      BY <1>1, <1>5, <1>6, <1>7, <1>8, <2>1, <2>2, <2>3, <2>4, StillOutgoing
  <1>10. Taken(ops)
    <2>1. Flying = Flying' \cup {o \in Range(ops) : o.n > 0}
      BY <1>6, <1>7 DEF Range
    <2> QED
      BY <1>1, <1>7, <1>9, <2>1 DEF Taken
  <1>11. Asleep'
    BY <1>1, SoundParts DEF Asleep
  <1> QED
    BY <1>10, <1>11, TakenSounds

\* A batch that came over HTTP.
LEMMA TakePostSounds ==
    ASSUME TInv, NEW R, RoomOK(R), PageOK(R, Page), TakePost, wounds' = {}
    PROVE  Sound'
  <1> PICK p \in posts :
        /\ ~p.done
        /\ posts' = (posts \ {p}) \cup {[ops |-> Stamp(p.ops), done |-> TRUE]}
        /\ TakeBatch(p.ops)
        /\ UNCHANGED <<trim, session, world, conn, since, up, read, dirty,
                       edits, others, typed, seen>>
    BY DEF TakePost, Refuse
  <1>1. p \in Sent /\ p.ops \in Seq(OpValue)
    BY Types DEF Sent, Post
  <1> PICK ops \in Seq(OpValue) : ops = p.ops
    BY <1>1
  <1> DEFINE r == [ops |-> Stamp(p.ops), done |-> TRUE]
  <1>2. r.done = TRUE /\ r.ops = Stamp(ops) /\ posts' = (posts \ {p}) \cup {r}
    OBVIOUS
  <1> HIDE DEF r
  <1>4. Sent' = Sent \ {p}
    BY <1>2 DEF Sent
  <1>5. Outgoing /\ IsBatch(ops)
    BY <1>1, SoundParts DEF Outgoing
  <1>6. Flying = Flying' \cup Range(ops)
    <2>1. UNION {Range(x.ops) : x \in Sent}
             = (UNION {Range(x.ops) : x \in Sent'}) \cup Range(ops)
      BY <1>1, <1>4
    <2> QED
      BY <2>1 DEF Flying
  <1>7. Takable(ops) /\ TakeBatch(ops) /\ \A k \in DOMAIN ops : ops[k].n > 0
    BY <1>5, <1>6, OwnTakable
  <1>8. \A u \in Flying', m \in DOMAIN ops : ops[m].n # u.n
    <2> SUFFICES ASSUME NEW u \in Flying', NEW m \in DOMAIN ops PROVE ops[m].n # u.n
      OBVIOUS
    <2>1. CASE \E k \in DOMAIN up : u \in Range(up[k])
      <3>1. PICK k \in DOMAIN up : u \in Range(up[k])
        BY <2>1
      <3>2. PICK j \in DOMAIN up[k] : u = up[k][j]
        BY <3>1 DEF Range
      <3>3. Apart(up[k], ops)
        BY <1>1, <1>5 DEF Outgoing
      <3> QED
        BY <3>2, <3>3 DEF Apart
    <2>2. CASE \E x \in Sent' : u \in Range(x.ops)
      <3>1. PICK x \in Sent' : u \in Range(x.ops)
        BY <2>2
      <3>2. PICK j \in DOMAIN x.ops : u = x.ops[j]
        BY <3>1 DEF Range
      <3>3. Apart(x.ops, ops)
        BY <1>1, <1>4, <1>5 DEF Outgoing
      <3> QED
        BY <3>2, <3>3 DEF Apart
    <2> QED
      BY <2>1, <2>2 DEF Flying
  <1>9. Outgoing'
    <2>1. /\ \A k \in DOMAIN up' : IsBatch(up'[k])
          /\ \A j, k \in DOMAIN up' : j # k => Apart(up'[j], up'[k])
          /\ conn' # "open" => up' = <<>>
      BY <1>5 DEF Outgoing
    <2>2. \A k \in DOMAIN up', x \in Sent' : Apart(up'[k], x.ops)
      BY <1>4, <1>5 DEF Outgoing
    <2>3. /\ \A x \in Sent' : IsBatch(x.ops)
          /\ \A x, y \in Sent' : x # y => Apart(x.ops, y.ops)
      BY <1>4, <1>5 DEF Outgoing
    <2> QED
      BY <1>5, <1>6, <1>7, <1>8, <2>1, <2>2, <2>3, StillOutgoing
  <1>10. Taken(ops)
    <2>1. Flying = Flying' \cup {o \in Range(ops) : o.n > 0}
      BY <1>6, <1>7 DEF Range
    <2>2. \A x \in posts' : x.done =>
            x \in posts \/ (x.ops = Stamp(ops) /\ \A k \in DOMAIN ops : ops[k].n > 0)
      BY <1>2, <1>7
    <2> QED
      BY <1>7, <1>9, <2>1, <2>2 DEF Taken
  <1>11. Asleep'
    BY SoundParts DEF Asleep
  <1> QED
    BY <1>10, <1>11, TakenSounds

\* An op of another device.
LEMMA OthersSounds ==
    ASSUME TInv, NEW R, RoomOK(R), PageOK(R, Page), Others
    PROVE  Sound'
  <1>1. PICK op \in OpValue :
          /\ op.n = 0 /\ op.seq = 0
          /\ op.kind = "remove" <=> op.val = Absent
          /\ op.kind = "add" <=> op.item \notin used
          /\ op.item \notin used => op.item \notin Minted
          /\ TakeBatch(<<op>>)
    <2>1. PICK i \in Icon, v \in Val \cup {Absent} :
            /\ i \notin used => v # Absent /\ i \notin Minted
            /\ TakeBatch(<<[kind |-> IF i \notin used THEN "add"
                                     ELSE IF v = Absent THEN "remove" ELSE "set",
                            item |-> i, val |-> v, n |-> 0, seq |-> 0]>>)
      BY DEF Others
    <2> DEFINE op == [kind |-> IF i \notin used THEN "add"
                               ELSE IF v = Absent THEN "remove" ELSE "set",
                      item |-> i, val |-> v, n |-> 0, seq |-> 0]
    <2>2. op \in OpValue
      BY DEF OpValue
    <2>3. /\ op.kind = IF i \notin used THEN "add" ELSE IF v = Absent THEN "remove" ELSE "set"
          /\ op.item = i /\ op.val = v /\ op.n = 0 /\ op.seq = 0
      OBVIOUS
    <2>4. TakeBatch(<<op>>)
      BY <2>1
    <2> HIDE DEF op
    <2> QED
      BY <2>1, <2>2, <2>3, <2>4
  <1>2. UNCHANGED <<trim, session, world, conn, since, up, posts, read, dirty, typed, seen>>
    BY DEF Others
  <1> DEFINE ops == <<op>>
  <1>3. /\ ops \in Seq(OpValue) /\ ops # <<>> /\ DOMAIN ops = {1} /\ ops[1] = op
        /\ Range(ops) = {op} /\ TakeBatch(ops)
    <2>1. DOMAIN ops = {1} /\ ops[1] = op /\ ops # <<>>
      BY Single
    <2>2. Range(ops) = {op}
      BY <2>1 DEF Range
    <2> QED
      BY <1>1, <2>1, <2>2
  <1> HIDE DEF ops
  <1>4. Takable(ops)
    <2>1. 0 \in 0..session.n
      BY SoundParts
    <2> QED
      BY <1>1, <1>3, <2>1 DEF Takable
  <1>5. Sent' = Sent /\ Outgoing
    BY <1>2, SoundParts DEF Sent
  <1>6. Flying' = Flying
    BY <1>2, <1>5 DEF Flying
  <1>7. \A u \in Flying', m \in DOMAIN ops : ops[m].n # u.n
    <2>1. \A u \in Flying : u.n # 0
      <3> SUFFICES ASSUME NEW u \in Flying PROVE u.n # 0
        OBVIOUS
      <3>1. u.n \in 1..session.n
        BY <1>5, FlyingFacts
      <3> QED
        BY <3>1
    <2> QED
      BY <1>1, <1>3, <1>6, <2>1
  <1>8. Outgoing'
    BY <1>2, <1>3, <1>4, <1>5, <1>6, <1>7, StillOutgoing DEF Outgoing
  <1>9. Taken(ops)
    <2>1. {o \in Range(ops) : o.n > 0} = {}
      BY <1>1, <1>3
    <2>2. Flying = Flying' \cup {o \in Range(ops) : o.n > 0}
      BY <1>6, <2>1
    <2>3. \A p \in posts' : p.done =>
            p \in posts \/ (p.ops = Stamp(ops) /\ \A k \in DOMAIN ops : ops[k].n > 0)
      <3>1. posts' = posts
        BY <1>2
      <3> QED
        BY <3>1
    <2> QED
      BY <1>2, <1>3, <1>4, <1>8, <2>2, <2>3 DEF Taken
  <1>10. Asleep'
    <2> SUFFICES ASSUME session.phase # "live", NEW k \in DOMAIN journal'
                 PROVE  journal'[k].n = 0
      BY <1>2, SoundParts DEF Asleep
    <2>1. CASE k \in DOMAIN journal /\ journal'[k] = journal[k]
      BY <2>1, SoundParts DEF Asleep
    <2>2. CASE \E m \in DOMAIN ops : IsNew(k, m, ops)
      BY <1>1, <1>3, <2>2 DEF IsNew
    <2> QED
      BY <1>3, <1>4, <2>1, <2>2, RowCases
  <1> QED
    BY <1>9, <1>10, TakenSounds

-----------------------------------------------------------------------------
(* No step heals a wound                                                   *)

\* What grows along a walk is larger at its end.
LEMMA WalkGrows ==
    ASSUME journal \in Seq(OpValue), NEW p \in Pages, NEW ops \in Seq(RowOps)
    PROVE  /\ IncomingAll(p, ops).wounds = {} => p.wounds = {}
           /\ AckFrameAll(p, ops).wounds = {} => p.wounds = {}
  <1>1. Len(ops) \in Nat /\ \A k \in 1..Len(ops) : ops[k] \in RowOps
    BY SeqFacts
  <1>2. ASSUME IncomingAll(p, ops).wounds = {} PROVE p.wounds = {}
    <2>1. PICK f \in [0..Len(ops) -> Pages] :
            /\ f[0] = p /\ f[Len(ops)] = IncomingAll(p, ops)
            /\ \A k \in 1..Len(ops) : f[k] = Incoming(f[k - 1], ops[k])
      BY IncomingRun
    <2>2. ASSUME NEW k \in 1..Len(ops) PROVE f[k - 1].wounds \subseteq f[k].wounds
      <3>1. f[k - 1] \in Pages /\ ops[k] \in RowOps
        BY <1>1, <2>1
      <3>2. f[k - 1].wounds \subseteq Incoming(f[k - 1], ops[k]).wounds
        BY <3>1, IncomingType
      <3> QED
        BY <2>1, <3>2
    <2>3. \A k \in 0..Len(ops) : f[k].wounds = {}
      <3>1. f[Len(ops)].wounds = {}
        BY <1>2, <2>1
      <3> QED
        BY <1>1, <2>2, <3>1, NeverWounded
    <2> QED
      BY <1>1, <2>1, <2>3
  <1>3. ASSUME AckFrameAll(p, ops).wounds = {} PROVE p.wounds = {}
    <2>1. PICK f \in [0..Len(ops) -> Pages] :
            /\ f[0] = p /\ f[Len(ops)] = AckFrameAll(p, ops)
            /\ \A k \in 1..Len(ops) : f[k] = AckFrame(f[k - 1], ops[k])
      BY AckFrameRun
    <2>2. ASSUME NEW k \in 1..Len(ops) PROVE f[k - 1].wounds \subseteq f[k].wounds
      <3>1. f[k - 1] \in Pages /\ ops[k] \in RowOps
        BY <1>1, <2>1
      <3>2. f[k - 1].wounds \subseteq AckFrame(f[k - 1], ops[k]).wounds
        BY <3>1, IncomingType
      <3> QED
        BY <2>1, <3>2
    <2>3. \A k \in 0..Len(ops) : f[k].wounds = {}
      <3>1. f[Len(ops)].wounds = {}
        BY <1>3, <2>1
      <3> QED
        BY <1>1, <2>2, <3>1, NeverWounded
    <2> QED
      BY <1>1, <2>1, <2>3
  <1> QED
    BY <1>2, <1>3

LEMMA ReceiveHealsNothing ==
    ASSUME TInv, Receive, wounds' = {}
    PROVE  wounds = {}
  <1>1. CASE Head(down).error
    BY <1>1 DEF Receive
  <1>2. CASE ~Head(down).error
    <2>1. Show(IncomingAll(Page, down[1].ops)) /\ down # <<>>
      BY <1>2, TailDown DEF Receive
    <2>2. /\ Page \in Pages /\ journal \in Seq(OpValue) /\ down[1].ops \in Seq(RowOps)
          /\ Page.wounds = wounds
      BY <2>1, Types, TailDown, PageIs
    <2>3. IncomingAll(Page, down[1].ops).wounds = {}
      BY <2>1 DEF Show
    <2> QED
      BY <2>2, <2>3, WalkGrows
  <1> QED
    BY <1>1, <1>2

LEMMA PostAnsweredHealsNothing ==
    ASSUME TInv, PostAnswered, wounds' = {}
    PROVE  wounds = {}
  <1>1. PICK p \in posts : p.done /\ Show(AckFrameAll(Page, p.ops))
    BY DEF PostAnswered
  <1>2. p.ops \in Seq(OpValue) /\ InJournal(p.ops)
    BY <1>1, Types DEF TInv, Stamped, Post
  <1>3. p.ops \in Seq(RowOps)
    BY <1>2, RowsOfJournal
  <1>4. Page \in Pages /\ journal \in Seq(OpValue) /\ Page.wounds = wounds
    BY Types, PageIs
  <1>5. AckFrameAll(Page, p.ops).wounds = {}
    BY <1>1 DEF Show
  <1> QED
    BY <1>3, <1>4, <1>5, WalkGrows

LEMMA RebaseOpsHealsNothing ==
    ASSUME TInv, RebaseOps, wounds' = {}
    PROVE  wounds = {}
  <1>1. read.ops \in Seq(OpValue) /\ InJournal(read.ops)
    BY Types DEF TInv, Stamped, ReadType
  <1>2. read.ops \in Seq(RowOps)
    BY <1>1, RowsOfJournal
  <1>3. Page \in Pages /\ journal \in Seq(OpValue) /\ Page.wounds = wounds
    BY Types, PageIs
  <1>4. Show([IncomingAll(Page, read.ops) EXCEPT !.s.pending = {}, !.s.ids = {}])
    BY DEF RebaseOps
  <1>5. IncomingAll(Page, read.ops) \in Pages
    <2>1. PICK f \in [0..Len(read.ops) -> Pages] :
              f[Len(read.ops)] = IncomingAll(Page, read.ops)
      BY <1>2, <1>3, IncomingRun
    <2>2. Len(read.ops) \in Nat
      BY <1>2, SeqFacts
    <2> QED
      BY <2>1, <2>2
  <1>6. PICK h \in Pages : h = IncomingAll(Page, read.ops)
    BY <1>5
  <1>7. Show([h EXCEPT !.s.pending = {}, !.s.ids = {}])
    BY <1>4, <1>6
  <1>8. wounds' = h.wounds
    BY <1>7 DEF Show, Pages, PageType
  <1>9. IncomingAll(Page, read.ops).wounds = {}
    BY <1>6, <1>8
  <1> QED
    BY <1>2, <1>3, <1>9, WalkGrows

LEMMA RebaseSnapshotHealsNothing ==
    ASSUME TInv, RebaseSnapshot
    PROVE  wounds' = wounds
  <1> DEFINE lit == [Page EXCEPT !.s.cursor = IF read.seq = 0 THEN @ ELSE read.seq,
                                 !.s.baseline = read.doc,
                                 !.s.pending = {}, !.s.ids = {},
                                 !.seen = @ \cup 1..read.seq]
  <1>1. Show(CaughtUp(lit, read.doc))
    BY DEF RebaseSnapshot
  <1>2. lit.wounds = Page.wounds /\ lit = [lit EXCEPT !.wounds = @]
        /\ DOMAIN lit = {"s", "w", "seen", "wounds"}
    BY DEF Page
  <1> HIDE DEF lit
  <1>3. CaughtUp(lit, read.doc).wounds = lit.wounds
    BY <1>2 DEF CaughtUp
  <1> QED
    BY <1>1, <1>2, <1>3, PageIs DEF Show

LEMMA WoundsStay ==
    ASSUME TInv, [Next]_vars, wounds' = {}
    PROVE  wounds = {}
  <1>1. CASE UNCHANGED vars
    BY <1>1 DEF vars
  <1>2. CASE Activate \/ ServeRead \/ ReadFails \/ LadderFires \/ Trim \/ Edit
    BY <1>2 DEF Activate, ServeRead, ReadFails, LadderFires, Trim, Edit, history
  <1>3. CASE Adopt
    BY <1>3, AdoptStep
  <1>4. CASE Receive \/ PostAnswered \/ RebaseOps \/ RebaseSnapshot
    BY <1>4, ReceiveHealsNothing, PostAnsweredHealsNothing, RebaseOpsHealsNothing,
       RebaseSnapshotHealsNothing
  <1>5. CASE Save \/ Join \/ Drop \/ PostFails
    <2>1. wounds \subseteq wounds'
      BY <1>5 DEF Save, Join, Drop, PostFails
    <2> QED
      BY <2>1
  <1>6. CASE TakeFrame \/ TakePost \/ Others
    <2>1. wounds \subseteq wounds'
      BY <1>6 DEF TakeFrame, TakePost, Others, TakeBatch, Refuse
    <2> QED
      BY <2>1
  <1> QED
    BY <1>1, <1>2, <1>3, <1>4, <1>5, <1>6 DEF Next, SessionNext, RoomNext

-----------------------------------------------------------------------------
(* The invariant of the unwounded session                                  *)

LEMMA InitSounds ==
    ASSUME Init
    PROVE  Sound
  <1>1. /\ journal = <<>> /\ Len(journal) = 0 /\ DOMAIN journal = {}
        /\ up = <<>> /\ DOMAIN up = {} /\ down = <<>>
        /\ world = Void /\ conn = "none" /\ since = 0 /\ posts = {} /\ read = NoRead
        /\ dirty = {} /\ typed = {} /\ seen = {} /\ wounds = {} /\ session = Born
        /\ \A i \in Icon : doc[i] # Absent => i \in used
    BY DEF Init
  <1>2. /\ session.phase = "cold" /\ session.cursor = 0 /\ session.baseline = Void
        /\ session.pending = {} /\ session.ids = {} /\ session.n = 0
    BY <1>1 DEF Born
  <1>3. TInv /\ doc \in Doc
    BY InitTypes, Types
  <1> DEFINE R == [k \in {0} |-> doc]
  <1>4. 0..Len(journal) = {0} /\ 1..Len(journal) = {}
    BY <1>1
  <1>5. R \in [0..Len(journal) -> Doc]
    BY <1>3, <1>4
  <1>6. Sent = {} /\ Flying = {}
    BY <1>1 DEF Sent, Flying
  <1>7. Outgoing /\ Rows /\ OwnWords /\ AddsAreFresh
    BY <1>1, <1>6 DEF Outgoing, Rows, OwnWords, AddsAreFresh
  <1>8. Docs(R)
    BY <1>1, <1>4, <1>5 DEF Docs
  <1>9. Lives(R)
    BY <1>1 DEF Lives
  <1>10. Arriving /\ Asleep
    BY <1>1, <1>2 DEF Arriving, Asleep
  <1>11. Answered(R)
    BY <1>1, <1>2 DEF Answered, NoRead
  <1>12. RoomOK(R)
    <2> HIDE DEF R
    <2> QED
      BY <1>7, <1>8, <1>9, <1>10, <1>11 DEF RoomOK
  <1>13. Waiting(Page)
    <2>1. 1..session.cursor = {}
      BY <1>2
    <2> QED
      BY <1>1, <1>2, <1>6, <2>1, PageIs DEF Waiting
  <1>14. ASSUME NEW i \in Icon PROVE IconOK(Page, i)
    <2>1. OnIcon(Page, i) = {} /\ Page.w[i] = Absent /\ Page.s.baseline[i] = Absent
      BY <1>1, <1>2, PageIs DEF OnIcon, Void
    <2> QED
      BY <1>1, <2>1 DEF IconOK, Fresh, Meant, Known, Spoken, Sorted, Unheard
  <1>15. PageOK(R, Page)
    <2> HIDE DEF R
    <2>1. Page.s.phase = "cold"
      BY <1>2, PageIs
    <2> QED
      BY <1>13, <1>14, <2>1 DEF PageOK
  <1> HIDE DEF R
  <1> QED
    BY <1>5, <1>12, <1>15 DEF Sound

LEMMA NextKeepsSound ==
    ASSUME TInv, Sound, [Next]_vars
    PROVE  Sound'
  <1> SUFFICES ASSUME wounds' = {} PROVE Sound'
    BY DEF Sound
  <1>1. wounds = {}
    BY WoundsStay
  <1>2. PICK R \in [0..Len(journal) -> Doc] : RoomOK(R) /\ PageOK(R, Page)
    BY <1>1 DEF Sound
  <1>3. CASE UNCHANGED vars
    BY <1>2, <1>3, IdleSounds DEF vars
  <1>4. CASE Trim
    BY <1>2, <1>4, IdleSounds DEF Trim, wire, history
  <1>5. CASE RebaseOps \/ RebaseSnapshot
    BY <1>2, <1>5, NoRebase
  <1>6. CASE Activate
    BY <1>2, <1>6, ActivateSounds
  <1>7. CASE Adopt
    BY <1>2, <1>7, AdoptSounds
  <1>8. CASE LadderFires
    BY <1>2, <1>8, LadderFiresSounds
  <1>9. CASE Receive
    BY <1>2, <1>9, ReceiveSounds
  <1>10. CASE PostAnswered
    BY <1>2, <1>10, PostAnsweredSounds
  <1>11. CASE Save
    BY <1>2, <1>11, SaveSounds
  <1>12. CASE ServeRead
    BY <1>2, <1>12, ServeReadSounds
  <1>13. CASE Join
    BY <1>2, <1>13, JoinSounds
  <1>14. CASE TakeFrame
    BY <1>2, <1>14, TakeFrameSounds
  <1>15. CASE TakePost
    BY <1>2, <1>15, TakePostSounds
  <1>16. CASE Others
    BY <1>2, <1>16, OthersSounds
  <1>17. CASE Edit
    BY <1>2, <1>17, EditSounds
  <1>18. CASE Drop
    BY <1>2, <1>18, DropSounds
  <1>19. CASE PostFails
    BY <1>2, <1>19, PostFailsSounds
  <1>20. CASE ReadFails
    BY <1>2, <1>20, ReadFailsSounds
  <1> QED
    BY <1>3, <1>4, <1>5, <1>6, <1>7, <1>8, <1>9, <1>10, <1>11, <1>12, <1>13, <1>14, <1>15,
       <1>16, <1>17, <1>18, <1>19, <1>20 DEF Next, SessionNext, RoomNext

LEMMA SoundHolds == Spec => [](TInv /\ Sound)
  <1>1. Init => TInv /\ Sound
    BY InitTypes, InitSounds
  <1>2. TInv /\ Sound /\ [Next]_vars => (TInv /\ Sound)'
    BY NextKeepsTypes, NextKeepsSound
  <1> QED
    BY <1>1, <1>2, PTL DEF Spec

-----------------------------------------------------------------------------
(* What follows for a page at rest                                         *)

\* With nothing under way the page has heard the whole journal and waits for
\* nothing.
LEMMA AtRest ==
    ASSUME TInv, NEW R, RoomOK(R), PageOK(R, Page), Settled
    PROVE  /\ session.cursor = Len(journal) /\ Flying = {} /\ Orderly
           /\ session.pending = {}
  <1>1. session.cursor = Len(journal)
    BY SoundParts DEF Settled, Arriving
  <1>2. Flying = {}
    BY DEF Settled, Flying, Sent
  <1>3. {x \in DOMAIN journal : journal[x].n > 0 /\ x > session.cursor} = {}
    BY <1>1, SoundParts
  <1>4. session.pending = {}
    BY <1>2, <1>3, SoundParts DEF Waiting
  <1> QED
    BY <1>1, <1>2, <1>4 DEF Orderly

\* Adoption, the skip law, the acks of either door, the reconnects and their
\* replays (activate, incoming, remoteWithoutPending, ackFrame, connect)
\* together lose and revert nothing: whenever nothing is in flight and none of
\* the known wounds was taken, the page shows what the room holds, for every
\* finite set of icons, any number of edits by anyone, and any number of breaks.
THEOREM PagesConverge == Spec => []Converges
  <1>1. ASSUME TInv, Sound PROVE Converges
    <2> SUFFICES ASSUME Settled, wounds = {} PROVE world = doc
      BY DEF Converges
    <2>1. PICK R \in [0..Len(journal) -> Doc] : RoomOK(R) /\ PageOK(R, Page)
      BY <1>1 DEF Sound
    <2>2. session.cursor = Len(journal) /\ Orderly /\ session.pending = {}
      BY <1>1, <2>1, AtRest
    <2>3. R[Len(journal)] = doc /\ session.phase = "live" /\ dirty = {}
      BY <2>1 DEF Settled, RoomOK, Docs
    <2>4. ASSUME NEW i \in Icon PROVE world[i] = doc[i]
      <3>1. Agrees(R, Page, i)
        BY <2>1, <2>2, <2>3, PageIs DEF PageOK
      <3>2. OnIcon(Page, i) = {}
        BY <2>2, PageIs DEF OnIcon
      <3>3. CASE Gone(R, Page, i)
        <4>1. doc[i] = Absent
          BY <2>2, <2>3, <3>2, <3>3, PageIs DEF Gone
        <4>2. world[i] = Absent
          BY <2>3, <3>1, <3>3, PageIs DEF Agrees
        <4> QED
          BY <4>1, <4>2
      <3>4. CASE ~Gone(R, Page, i)
        BY <2>2, <2>3, <3>1, <3>2, <3>4, PageIs DEF Agrees
      <3> QED
        BY <3>3, <3>4
    <2>5. world \in Doc /\ doc \in Doc
      BY <1>1, Types
    <2> QED
      BY <2>4, <2>5 DEF Doc
  <1> QED
    BY <1>1, SoundHolds, PTL

\* Whatever this device had the room stamp, its own user once made: what it
\* applied for the others never comes back in its name (capture's diff is taken
\* from a baseline that incoming and the adoption keep in step).
THEOREM NothingEchoes == Spec => []IconsNeverEcho
  <1>1. ASSUME TInv, Sound PROVE IconsNeverEcho
    <2> SUFFICES ASSUME NEW k \in DOMAIN journal, journal[k].n > 0, wounds = {}
                 PROVE  <<journal[k].item, journal[k].val>> \in typed
      BY DEF IconsNeverEcho
    <2>1. PICK R \in [0..Len(journal) -> Doc] : RoomOK(R) /\ PageOK(R, Page)
      BY <1>1 DEF Sound
    <2> QED
      BY <2>1 DEF RoomOK, OwnWords
  <1> QED
    BY <1>1, SoundHolds, PTL

\* No op of an unwounded session waits for an ack that will not come, over
\* however many sockets and lost answers: at rest the skip law makes no icon
\* deaf to the others (pendingById, ackFrame and the replay of a join).
THEOREM NoIconStaysDeaf == Spec => []NoDeafIcon
  <1>1. ASSUME TInv, Sound PROVE NoDeafIcon
    <2> SUFFICES ASSUME Settled, wounds = {} PROVE session.pending = {}
      BY DEF NoDeafIcon
    <2>1. PICK R \in [0..Len(journal) -> Doc] : RoomOK(R) /\ PageOK(R, Page)
      BY <1>1 DEF Sound
    <2> QED
      BY <1>1, <2>1, AtRest
  <1> QED
    BY <1>1, SoundHolds, PTL

=============================================================================
