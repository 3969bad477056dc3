------------------------------- MODULE Folding -------------------------------
(***************************************************************************)
(* What FoldLeft computes, for any operator and any sequence: nothing of   *)
(* an empty one, and of a longer one the step from what came before.       *)
(* Invariants and relations that each step keeps are kept by the fold.     *)
(***************************************************************************)
EXTENDS Integers, SequencesExt, SequenceTheorems, WellFoundedInduction, TLAPS

CONSTANT Op(_, _)

Fold(base, seq) == FoldLeft(Op, base, seq)

(* FoldLeft takes the greatest index out of the domain, last.              *)
Top(s) == Max(s)
IsTable(g, base, seq, n) ==
    g = [s \in SUBSET (1..n) |-> IF s = {} THEN base ELSE Op(g[s \ {Top(s)}], seq[Top(s)])]
Table(base, seq, n) == CHOOSE g : IsTable(g, base, seq, n)

(* A set of naturals that is not empty has a least one: what is to be      *)
(* shown by induction is shown by it, of the least counterexample.         *)
LEMMA HasLeast ==
    ASSUME NEW T, T \subseteq Nat, T # {}
    PROVE  \E m \in T : \A k \in T : m <= k
<1>1. PICK m \in T : \A k \in T : <<k, m>> \notin OpToRel(<, Nat)
  <2>1. IsWellFoundedOn(OpToRel(<, Nat), Nat)
    BY NatLessThanWellFounded
  <2> QED
    BY <2>1, WFMin, Zenon
<1>2. \A k \in Nat : <<k, m>> \notin OpToRel(<, Nat) => ~(k < m)
  BY DEF OpToRel
<1>3. ASSUME NEW k \in T PROVE m <= k
  <2>1. k \in Nat /\ m \in Nat
    OBVIOUS
  <2>2. ~(k < m)
    BY <1>1, <1>2, <2>1, Zenon
  <2> QED
    BY <2>1, <2>2
<1> QED
  BY <1>3

LEMMA FoldIsTable ==
    ASSUME NEW base, NEW seq, NEW n, DOMAIN seq = 1..n
    PROVE  Fold(base, seq) = Table(base, seq, n)[1..n]
BY Zenon DEF Fold, FoldLeft, MapThenFoldSet, Table, IsTable, Top

LEMMA TopIsGreatest ==
    ASSUME NEW n \in Nat, NEW s \in SUBSET (1..n), s # {}
    PROVE  Top(s) \in s /\ \A i \in s : i <= Top(s)
<1>1. \E m \in s : \A i \in s : i <= m
  <2> DEFINE Bounds == {m \in 0..n : \A i \in s : i <= m}
  <2>1. n \in Bounds
    OBVIOUS
  <2>2. PICK m \in Bounds : \A k \in Bounds : m <= k
    <3>1. Bounds \subseteq Nat /\ Bounds # {}
      BY <2>1
    <3> HIDE DEF Bounds
    <3> QED
      BY <3>1, HasLeast, Zenon
  <2>3. m \in 0..n /\ \A i \in s : i <= m
    OBVIOUS
  <2>4. m # 0
    <3>1. PICK i \in s : TRUE
      OBVIOUS
    <3>2. i \in 1..n /\ i <= m
      BY <2>3
    <3> QED
      BY <3>2
  <2>5. m \in s
    <3>1. SUFFICES ASSUME m \notin s PROVE FALSE
      OBVIOUS
    <3>2. \A i \in s : i <= m - 1
      BY <2>3, <3>1
    <3>3. m - 1 \in Bounds
      BY <2>3, <2>4, <3>2
    <3>4. m <= m - 1
      BY <2>2, <3>3
    <3> QED
      BY <2>3, <3>4
  <2> QED
    BY <2>3, <2>5
<1>2. PICK m \in s : \A i \in s : m >= i
  BY <1>1
<1>3. Top(s) \in s /\ \A i \in s : Top(s) >= i
  BY <1>2, Zenon DEF Top, Max
<1> QED
  BY <1>3

LEMMA TopOfSegment == ASSUME NEW n \in Nat, n > 0 PROVE Top(1..n) = n
<1>1. 1..n \in SUBSET (1..n) /\ 1..n # {} /\ n \in 1..n
  OBVIOUS
<1>2. Top(1..n) \in 1..n /\ \A i \in 1..n : i <= Top(1..n)
  BY <1>1, TopIsGreatest, Zenon
<1> QED
  BY <1>1, <1>2

(* The table of a sequence is made by lengthening that of its beginning.   *)
LEMMA TableGrows ==
    ASSUME NEW base, NEW seq, NEW n \in Nat, n > 0, NEW g, IsTable(g, base, seq, n - 1)
    PROVE  \E h : IsTable(h, base, seq, n)
<1> DEFINE val(s) == IF s = {} THEN base ELSE Op(g[s \ {Top(s)}], seq[Top(s)])
           h == [s \in SUBSET (1..n) |-> IF n \in s THEN Op(g[s \ {n}], seq[n]) ELSE g[s]]
<1>1. \A s \in SUBSET (1..(n - 1)) : g[s] = val(s)
  BY Zenon DEF IsTable
<1>2. ASSUME NEW s \in SUBSET (1..n)
      PROVE  h[s] = IF s = {} THEN base ELSE Op(h[s \ {Top(s)}], seq[Top(s)])
  <2>1. CASE n \in s
    <3>1. Top(s) = n
      <4>1. Top(s) \in s /\ \A i \in s : i <= Top(s)
        BY <2>1, TopIsGreatest, Zenon
      <4>2. Top(s) \in 1..n /\ n <= Top(s)
        BY <2>1, <4>1
      <4> HIDE DEF val, h
      <4> QED
        BY <4>2
    <3>2. h[s \ {n}] = g[s \ {n}]
      OBVIOUS
    <3>3. h[s] = Op(g[s \ {n}], seq[n])
      BY <2>1
    <3> HIDE DEF h
    <3> QED
      BY <2>1, <3>1, <3>2, <3>3, Zenon
  <2>2. CASE n \notin s
    <3>1. s \in SUBSET (1..(n - 1))
      BY <2>2
    <3>2. s \ {Top(s)} \in SUBSET (1..n) /\ n \notin s \ {Top(s)}
      BY <2>2
    <3>3. h[s \ {Top(s)}] = g[s \ {Top(s)}]
      BY <3>2, Zenon
    <3>4. h[s] = g[s]
      BY <2>2, Zenon
    <3> HIDE DEF h
    <3> QED
      BY <1>1, <3>1, <3>3, <3>4, Zenon
  <2> QED
    BY <2>1, <2>2
<1>3. h = [s \in SUBSET (1..n) |-> h[s]]
  OBVIOUS
<1> HIDE DEF h
<1>4. IsTable(h, base, seq, n)
  BY <1>2, <1>3 DEF IsTable
<1> QED
  BY <1>4, Zenon

LEMMA TableExists ==
    ASSUME NEW base, NEW seq, NEW n \in Nat
    PROVE  IsTable(Table(base, seq, n), base, seq, n)
<1> DEFINE Missing == {k \in Nat : ~ \E g : IsTable(g, base, seq, k)}
<1>1. Missing = {}
  <2>1. SUFFICES ASSUME Missing # {} PROVE FALSE
    OBVIOUS
  <2>2. PICK k \in Missing : \A i \in Missing : k <= i
    <3>1. Missing \subseteq Nat
      OBVIOUS
    <3> HIDE DEF Missing
    <3> QED
      BY <2>1, <3>1, HasLeast, Zenon
  <2>3. k # 0
    <3>1. 1..0 = {}
      OBVIOUS
    <3> DEFINE g == [s \in SUBSET (1..0) |-> base]
    <3>2. g = [s \in SUBSET (1..0) |-> IF s = {} THEN base ELSE Op(g[s \ {Top(s)}], seq[Top(s)])]
      BY <3>1
    <3>3. \E t : IsTable(t, base, seq, 0)
      BY <3>2 DEF IsTable
    <3> QED
      BY <2>2, <3>3
  <2>4. k \in Nat /\ k - 1 \in Nat /\ k > 0 /\ k - 1 \notin Missing
    BY <2>2, <2>3
  <2>5. PICK g : IsTable(g, base, seq, k - 1)
    BY <2>4
  <2>6. \E h : IsTable(h, base, seq, k)
    BY <2>4, <2>5, TableGrows
  <2> QED
    BY <2>2, <2>6
<1>2. \E g : IsTable(g, base, seq, n)
  BY <1>1
<1> QED
  BY <1>2, Zenon DEF Table

-----------------------------------------------------------------------------
(* A fold of one element more, and one of none.                            *)
LEMMA FoldEmpty ==
    ASSUME NEW base
    PROVE  Fold(base, <<>>) = base
<1>1. DOMAIN <<>> = 1..0 /\ 1..0 = {} /\ {} \in SUBSET (1..0)
  OBVIOUS
<1>2. Fold(base, <<>>) = Table(base, <<>>, 0)[1..0]
  BY <1>1, FoldIsTable, Zenon
<1>3. IsTable(Table(base, <<>>, 0), base, <<>>, 0)
  BY TableExists
<1> DEFINE g == Table(base, <<>>, 0)
<1>4. g = [s \in SUBSET (1..0) |-> IF s = {} THEN base ELSE Op(g[s \ {Top(s)}], <<>>[Top(s)])]
  BY <1>3 DEF IsTable
<1> HIDE DEF g
<1>5. g[{}] = base
  BY <1>1, <1>4, Zenon
<1> QED
  BY <1>1, <1>2, <1>5, Zenon DEF g

(* Two sequences of the same beginning have the same tables of it.         *)
LEMMA TablesAgree ==
    ASSUME NEW base, NEW s, NEW t, NEW n \in Nat, \A i \in 1..n : s[i] = t[i]
    PROVE  Table(base, s, n) = Table(base, t, n)
<1>1. ASSUME NEW g PROVE IsTable(g, base, s, n) <=> IsTable(g, base, t, n)
  <2>1. ASSUME NEW r \in SUBSET (1..n), r # {} PROVE s[Top(r)] = t[Top(r)]
    BY <2>1, TopIsGreatest, Zenon
  <2>2. [r \in SUBSET (1..n) |-> IF r = {} THEN base ELSE Op(g[r \ {Top(r)}], s[Top(r)])]
        = [r \in SUBSET (1..n) |-> IF r = {} THEN base ELSE Op(g[r \ {Top(r)}], t[Top(r)])]
    BY <2>1
  <2> QED
    BY <2>2, Zenon DEF IsTable
<1> QED
  BY <1>1, Zenon DEF Table

(* A table is determined along the segments that a fold goes through.      *)
LEMMA StepOfTable ==
    ASSUME NEW base, NEW seq, NEW n \in Nat, NEW g, IsTable(g, base, seq, n), NEW k \in 1..n
    PROVE  g[1..k] = Op(g[1..(k - 1)], seq[k])
<1>1. 1..k \in SUBSET (1..n) /\ 1..k # {} /\ (1..k) \ {k} = 1..(k - 1)
  OBVIOUS
<1>2. Top(1..k) = k
  BY TopOfSegment
<1>3. g[1..k] = IF 1..k = {} THEN base ELSE Op(g[(1..k) \ {Top(1..k)}], seq[Top(1..k)])
  BY <1>1, Zenon DEF IsTable
<1> QED
  BY <1>1, <1>2, <1>3, Zenon

LEMMA BottomOfTable ==
    ASSUME NEW base, NEW seq, NEW n \in Nat, NEW g, IsTable(g, base, seq, n)
    PROVE  g[1..0] = base
<1>1. 1..0 \in SUBSET (1..n) /\ 1..0 = {}
  OBVIOUS
<1> QED
  BY <1>1, Zenon DEF IsTable

LEMMA TableIsUnique ==
    ASSUME NEW base, NEW seq, NEW n \in Nat, NEW m \in Nat, n <= m,
           NEW g, IsTable(g, base, seq, n), NEW h, IsTable(h, base, seq, m)
    PROVE  g[1..n] = h[1..n]
<1> DEFINE Differ == {k \in 0..n : g[1..k] # h[1..k]}
<1>1. Differ = {}
  <2>1. SUFFICES ASSUME Differ # {} PROVE FALSE
    OBVIOUS
  <2>2. PICK k \in Differ : \A i \in Differ : k <= i
    <3>1. Differ \subseteq Nat
      OBVIOUS
    <3> HIDE DEF Differ
    <3> QED
      BY <2>1, <3>1, HasLeast, Zenon
  <2>3. k \in 0..n /\ g[1..k] # h[1..k]
    BY <2>2
  <2>4. k # 0
    BY <2>3, BottomOfTable
  <2>5. k \in 1..n /\ k \in 1..m /\ k - 1 \in 0..n
    BY <2>3, <2>4
  <2>6. k - 1 \notin Differ
    <3>1. ~(k <= k - 1)
      BY <2>3
    <3> HIDE DEF Differ
    <3> QED
      BY <2>2, <3>1
  <2>7. g[1..(k - 1)] = h[1..(k - 1)]
    BY <2>5, <2>6
  <2>8. g[1..k] = Op(g[1..(k - 1)], seq[k]) /\ h[1..k] = Op(h[1..(k - 1)], seq[k])
    BY <2>5, StepOfTable
  <2> QED
    BY <2>3, <2>7, <2>8
<1> QED
  BY <1>1

(* The fold of a sequence is one step from that of its beginning.          *)
LEMMA FoldOneMore ==
    ASSUME NEW base, NEW n \in Nat, NEW init, DOMAIN init = 1..n,
           NEW seq, DOMAIN seq = 1..(n + 1), \A i \in 1..n : init[i] = seq[i]
    PROVE  Fold(base, seq) = Op(Fold(base, init), seq[n + 1])
<1> DEFINE g == Table(base, seq, n)
           h == Table(base, seq, n + 1)
<1>1. IsTable(g, base, seq, n) /\ IsTable(h, base, seq, n + 1)
  BY TableExists
<1>2. Fold(base, init) = Table(base, init, n)[1..n] /\ Table(base, init, n) = g
  BY FoldIsTable, TablesAgree
<1>3. Fold(base, seq) = h[1..(n + 1)]
  <2>1. n + 1 \in Nat
    OBVIOUS
  <2> QED
    BY <2>1, FoldIsTable
<1>4. n + 1 \in 1..(n + 1) /\ n <= n + 1 /\ n + 1 \in Nat /\ (n + 1) - 1 = n
  OBVIOUS
<1> HIDE DEF g, h
<1>5. h[1..(n + 1)] = Op(h[1..n], seq[n + 1])
  BY <1>1, <1>4, StepOfTable
<1>6. g[1..n] = h[1..n]
  BY <1>1, <1>4, TableIsUnique
<1> QED
  BY <1>2, <1>3, <1>5, <1>6

LEMMA FoldAppend ==
    ASSUME NEW base, NEW S, NEW seq \in Seq(S), NEW e \in S
    PROVE  Fold(base, Append(seq, e)) = Op(Fold(base, seq), e)
<1> DEFINE n == Len(seq)
           more == Append(seq, e)
<1>1. n \in Nat /\ DOMAIN seq = 1..n
  BY LenProperties
<1>2. more \in Seq(S) /\ Len(more) = n + 1 /\ more[n + 1] = e /\ \A i \in 1..n : more[i] = seq[i]
  BY AppendProperties
<1> HIDE DEF more
<1>3. DOMAIN more = 1..(n + 1)
  BY <1>2, LenProperties
<1> HIDE DEF n
<1>4. Fold(base, more) = Op(Fold(base, seq), more[n + 1])
  BY <1>1, <1>2, <1>3, FoldOneMore
<1> QED
  BY <1>2, <1>4 DEF more

LEMMA FoldOne ==
    ASSUME NEW base, NEW e
    PROVE  Fold(base, <<e>>) = Op(base, e)
<1>1. <<>> \in Seq({e}) /\ <<e>> = Append(<<>>, e)
  OBVIOUS
<1>2. Fold(base, Append(<<>>, e)) = Op(Fold(base, <<>>), e)
  BY <1>1, FoldAppend
<1> QED
  BY <1>1, <1>2, FoldEmpty

LEMMA FoldTwo ==
    ASSUME NEW base, NEW e, NEW f
    PROVE  Fold(base, <<e, f>>) = Op(Op(base, e), f)
<1> DEFINE S == {e, f}
<1>1. <<e>> \in Seq(S) /\ f \in S /\ <<e, f>> = Append(<<e>>, f)
  OBVIOUS
<1> HIDE DEF S
<1>2. Fold(base, Append(<<e>>, f)) = Op(Fold(base, <<e>>), f)
  BY <1>1, FoldAppend
<1> QED
  BY <1>1, <1>2, FoldOne

-----------------------------------------------------------------------------
(* What is kept by every step is kept by the fold.                         *)
LEMMA FoldRelated ==
    ASSUME NEW S, NEW seq \in Seq(S), NEW R, NEW base, NEW other, <<base, other>> \in R,
           \A a, b : \A e \in S : <<a, b>> \in R => <<Op(a, e), Op(b, e)>> \in R
    PROVE  <<Fold(base, seq), Fold(other, seq)>> \in R
<1> DEFINE Related(q) == <<Fold(base, q), Fold(other, q)>> \in R
           Bad == {k \in Nat : \E q \in Seq(S) : Len(q) = k /\ ~Related(q)}
<1>1. Bad = {}
  <2>1. SUFFICES ASSUME Bad # {} PROVE FALSE
    OBVIOUS
  <2>2. PICK k \in Bad : \A i \in Bad : k <= i
    <3>1. Bad \subseteq Nat
      OBVIOUS
    <3> HIDE DEF Bad
    <3> QED
      BY <2>1, <3>1, HasLeast, Zenon
  <2>3. PICK q \in Seq(S) : Len(q) = k /\ ~Related(q)
    BY <2>2
  <2>4. q # <<>>
    BY <2>3, FoldEmpty, Zenon
  <2>5. PICK p \in Seq(S), e \in S : q = Append(p, e)
    BY <2>4, SequenceEmptyOrAppend, Zenon
  <2>6. Len(p) \in Nat /\ k = Len(p) + 1
    BY <2>3, <2>5, AppendProperties, LenProperties
  <2>7. Related(p)
    <3>1. Len(p) \notin Bad
      <4> HIDE DEF Bad
      <4> QED
        BY <2>2, <2>6
    <3> HIDE DEF Related
    <3> QED
      BY <2>6, <3>1
  <2>8. Related(q)
    <3>1. Fold(base, q) = Op(Fold(base, p), e) /\ Fold(other, q) = Op(Fold(other, p), e)
      BY <2>5, FoldAppend
    <3> QED
      BY <2>7, <3>1
  <2> QED
    BY <2>3, <2>8
<1>2. Len(seq) \in Nat
  BY LenProperties
<1> HIDE DEF Related
<1>3. Related(seq)
  BY <1>1, <1>2
<1> QED
  BY <1>3 DEF Related

LEMMA FoldKeeps ==
    ASSUME NEW S, NEW seq \in Seq(S), NEW T, NEW base \in T,
           \A t \in T : \A e \in S : Op(t, e) \in T
    PROVE  Fold(base, seq) \in T
<1> DEFINE R == T \X T
<1>1. <<base, base>> \in R
  OBVIOUS
<1>2. \A a, b : \A e \in S : <<a, b>> \in R => <<Op(a, e), Op(b, e)>> \in R
  BY Zenon
<1> HIDE DEF R
<1>3. <<Fold(base, seq), Fold(base, seq)>> \in R
  BY <1>1, <1>2, FoldRelated, Zenon
<1> QED
  BY <1>3 DEF R

(* A sequence in two parts is folded one part after the other.             *)
LEMMA FoldConcat ==
    ASSUME NEW base, NEW S, NEW s \in Seq(S), NEW t \in Seq(S)
    PROVE  Fold(base, s \o t) = Fold(Fold(base, s), t)
<1> DEFINE Parted(q) == Fold(base, s \o q) = Fold(Fold(base, s), q)
           Bad == {k \in Nat : \E q \in Seq(S) : Len(q) = k /\ ~Parted(q)}
<1>1. Bad = {}
  <2>1. SUFFICES ASSUME Bad # {} PROVE FALSE
    OBVIOUS
  <2>2. PICK k \in Bad : \A i \in Bad : k <= i
    <3>1. Bad \subseteq Nat
      OBVIOUS
    <3> HIDE DEF Bad
    <3> QED
      BY <2>1, <3>1, HasLeast, Zenon
  <2>3. PICK q \in Seq(S) : Len(q) = k /\ ~Parted(q)
    BY <2>2
  <2>4. q # <<>>
    <3>1. s \o <<>> = s
      BY ConcatEmptySeq
    <3> QED
      BY <2>3, <3>1, FoldEmpty, Zenon
  <2>5. PICK p \in Seq(S), e \in S : q = Append(p, e)
    BY <2>4, SequenceEmptyOrAppend, Zenon
  <2>6. Len(p) \in Nat /\ k = Len(p) + 1
    BY <2>3, <2>5, AppendProperties, LenProperties
  <2>7. Parted(p)
    <3>1. Len(p) \notin Bad
      <4> HIDE DEF Bad
      <4> QED
        BY <2>2, <2>6
    <3> HIDE DEF Parted
    <3> QED
      BY <2>6, <3>1
  <2>8. s \o q = Append(s \o p, e) /\ s \o p \in Seq(S)
    <3>1. s \o p \in Seq(S) /\ <<e>> \in Seq(S)
      BY ConcatProperties
    <3>2. q = p \o <<e>> /\ Append(s \o p, e) = (s \o p) \o <<e>>
      BY <2>5, <3>1, AppendIsConcat
    <3> DEFINE last == <<e>>
    <3> HIDE DEF last, Parted, Bad
    <3>3. (s \o p) \o last = s \o (p \o last)
      <4>1. last \in Seq(S)
        BY <3>1 DEF last
      <4> QED
        BY <4>1, ConcatAssociative
    <3> QED
      BY <3>1, <3>2, <3>3 DEF last
  <2>9. Parted(q)
    <3>1. Fold(base, s \o q) = Op(Fold(base, s \o p), e)
      <4>1. \A r \in Seq(S) : Fold(base, Append(r, e)) = Op(Fold(base, r), e)
        BY FoldAppend
      <4> QED
        BY <2>8, <4>1, Zenon
    <3>2. Fold(Fold(base, s), q) = Op(Fold(Fold(base, s), p), e)
      BY <2>5, FoldAppend
    <3> QED
      BY <2>7, <3>1, <3>2
  <2> QED
    BY <2>3, <2>9
<1>2. Len(t) \in Nat
  BY LenProperties
<1> HIDE DEF Parted
<1>3. Parted(t)
  BY <1>1, <1>2
<1> QED
  BY <1>3 DEF Parted
=============================================================================
