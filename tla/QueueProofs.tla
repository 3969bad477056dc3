----------------------------- MODULE QueueProofs -----------------------------
(***************************************************************************)
(* Theorems about Queue: what a plan may rely on and what its reservations *)
(* come to, for any number of jobs, arrays and devices, any capacities,    *)
(* any requests and any number of crashes.                                 *)
(***************************************************************************)
EXTENDS Queue, FiniteSetTheorems, TLAPS

-----------------------------------------------------------------------------
(* A nonempty set of subsets of a finite set has a least one.               *)
LEMMA LeastSubset ==
    ASSUME NEW S, IsFiniteSet(S), NEW T, T \subseteq SUBSET S, T # {}
    PROVE  \E m \in T : \A u \in T : u \subseteq m => u = m
<1>1. IsWellFoundedOn(StrictSubsetOrdering(S), FiniteSubsetsOf(S))
  BY FS_StrictSubsetOrderingWellFounded
<1>2. T \subseteq FiniteSubsetsOf(S)
  BY FS_Subset DEF FiniteSubsetsOf
<1>3. \E m \in T : \A u \in T : <<u, m>> \notin StrictSubsetOrdering(S)
  BY <1>1, <1>2, WFMin, Zenon
<1> QED
  BY <1>3 DEF StrictSubsetOrdering

(* g is a table the fold of f over S may fill: the sum of each subset.      *)
Pick(S) == CHOOSE x \in S : TRUE
Sums(g, f, S) == g = [s \in SUBSET S |-> IF s = {} THEN 0 ELSE f[Pick(s)] + g[s \ {Pick(s)}]]
Filled(g, f, S) == \A s \in SUBSET S : g[s] = IF s = {} THEN 0 ELSE f[Pick(s)] + g[s \ {Pick(s)}]
Table(f, S) == CHOOSE g : Sums(g, f, S)

LEMMA PickInside == ASSUME NEW S, S # {} PROVE Pick(S) \in S
BY DEF Pick

LEMMA SumIsFold ==
    ASSUME NEW f, NEW S
    PROVE  SumFunctionOnSet(f, S) = Table(f, S)[S]
BY Zenon DEF SumFunctionOnSet, FoldFunctionOnSet, MapThenFoldSet, Table, Sums, Pick

LEMMA SumsValues ==
    ASSUME NEW f, NEW S, NEW g, Sums(g, f, S)
    PROVE  Filled(g, f, S)
<1> DEFINE val(t) == IF t = {} THEN 0 ELSE f[Pick(t)] + g[t \ {Pick(t)}]
<1>1. g = [t \in SUBSET S |-> val(t)]
  BY Zenon DEF Sums
<1>2. ASSUME NEW s \in SUBSET S PROVE g[s] = val(s)
  <2>1. [t \in SUBSET S |-> val(t)][s] = val(s)
    OBVIOUS
  <2> QED
    BY <1>1, <2>1, Zenon
<1> QED
  BY <1>2 DEF Filled

(* The tables of two sets agree on what they share.                        *)
LEMMA SumsAgree ==
    ASSUME NEW f, NEW S, IsFiniteSet(S), NEW U, NEW g, Sums(g, f, S), NEW h, Sums(h, f, U),
           NEW s \in SUBSET S, s \in SUBSET U
    PROVE  g[s] = h[s]
<1> DEFINE T == {t \in SUBSET S : t \in SUBSET U /\ g[t] # h[t]}
<1> SUFFICES ASSUME T # {} PROVE FALSE
  OBVIOUS
<1>0. T \subseteq SUBSET S
  OBVIOUS
<1>1. PICK m \in T : \A u \in T : u \subseteq m => u = m
  <2> HIDE DEF T
  <2> QED
    BY <1>0, LeastSubset
<1>a. m \in SUBSET S /\ m \in SUBSET U
  OBVIOUS
<1>b. Filled(g, f, S) /\ Filled(h, f, U)
  BY SumsValues
<1>2. g[m] = IF m = {} THEN 0 ELSE f[Pick(m)] + g[m \ {Pick(m)}]
  BY <1>a, <1>b DEF Filled
<1>3. h[m] = IF m = {} THEN 0 ELSE f[Pick(m)] + h[m \ {Pick(m)}]
  BY <1>a, <1>b DEF Filled
<1>4. CASE m = {}
  BY <1>2, <1>3, <1>4
<1>5. CASE m # {}
  <2>1. m \ {Pick(m)} # m
    BY <1>5, PickInside
  <2>2. g[m \ {Pick(m)}] = h[m \ {Pick(m)}]
    BY <1>1, <2>1
  <2> QED
    BY <1>2, <1>3, <1>5, <2>2
<1> QED
  BY <1>4, <1>5

(* Every finite set has a table.                                           *)
LEMMA SumsExist ==
    ASSUME NEW f, NEW S, IsFiniteSet(S)
    PROVE  Sums(Table(f, S), f, S)
<1> DEFINE T == {t \in SUBSET S : ~ \E g : Sums(g, f, t)}
<1>1. ASSUME T # {} PROVE FALSE
  <2>0. T \subseteq SUBSET S
    OBVIOUS
  <2>1. PICK m \in T : \A u \in T : u \subseteq m => u = m
    <3> HIDE DEF T
    <3> QED
      BY <1>1, <2>0, LeastSubset
  <2> DEFINE sum(t) == Table(f, t)[t]
             val(t) == IF t = {} THEN 0 ELSE f[Pick(t)] + sum(t \ {Pick(t)})
             g == [t \in SUBSET m |-> val(t)]
  <2>2. \A t \in SUBSET m : t # m => Sums(Table(f, t), f, t)
    BY <2>1 DEF Table
  <2>3. \A t \in SUBSET m : t # m => sum(t) = val(t)
    <3> SUFFICES ASSUME NEW t \in SUBSET m, t # m PROVE sum(t) = val(t)
      OBVIOUS
    <3>1. Sums(Table(f, t), f, t) /\ IsFiniteSet(t)
      BY <2>1, <2>2, FS_Subset
    <3>2. sum(t) = IF t = {} THEN 0 ELSE f[Pick(t)] + Table(f, t)[t \ {Pick(t)}]
      <4>1. Filled(Table(f, t), f, t) /\ t \in SUBSET t
        BY <3>1, SumsValues
      <4> QED
        BY <4>1 DEF Filled
    <3>3. CASE t = {}
      BY <3>2, <3>3
    <3>4. CASE t # {}
      <4> DEFINE u == t \ {Pick(t)}
      <4>1. u \in SUBSET m /\ u # m /\ u \in SUBSET t /\ u \in SUBSET u
        BY <3>4, PickInside
      <4>2. Sums(Table(f, u), f, u)
        BY <2>2, <4>1
      <4>3. Table(f, t)[u] = Table(f, u)[u]
        <5> HIDE DEF u
        <5> QED
          BY <3>1, <4>1, <4>2, SumsAgree
      <4> QED
        BY <3>2, <3>4, <4>3
    <3> QED
      BY <3>3, <3>4
  <2>4. \A t \in SUBSET m : g[t] = IF t = {} THEN 0 ELSE f[Pick(t)] + g[t \ {Pick(t)}]
    <3> SUFFICES ASSUME NEW t \in SUBSET m
                 PROVE  g[t] = IF t = {} THEN 0 ELSE f[Pick(t)] + g[t \ {Pick(t)}]
      OBVIOUS
    <3>1. g[t] = val(t)
      OBVIOUS
    <3>2. CASE t # {}
      <4> DEFINE u == t \ {Pick(t)}
      <4>1. u \in SUBSET m /\ u # m
        BY <3>2, PickInside
      <4>2. g[u] = val(u)
        BY <4>1
      <4>3. val(u) = sum(u)
        BY <2>3, <4>1
      <4> QED
        BY <3>1, <3>2, <4>2, <4>3
    <3> QED
      BY <3>1, <3>2
  <2>5. Sums(g, f, m)
    BY <2>4 DEF Sums
  <2> QED
    BY <2>1, <2>5
<1>2. \E g : Sums(g, f, S)
  BY <1>1
<1> QED
  BY <1>2 DEF Table

(* The sum over no element, and over a set without the one picked.         *)
LEMMA SumStep ==
    ASSUME NEW f, NEW S, IsFiniteSet(S)
    PROVE  SumFunctionOnSet(f, S) =
              IF S = {} THEN 0 ELSE f[Pick(S)] + SumFunctionOnSet(f, S \ {Pick(S)})
<1> DEFINE U == S \ {Pick(S)}
<1>1. IsFiniteSet(U) /\ U \in SUBSET S /\ U \in SUBSET U /\ S \in SUBSET S
  BY FS_Subset
<1>2. Sums(Table(f, S), f, S) /\ Sums(Table(f, U), f, U)
  BY <1>1, SumsExist
<1>3. Table(f, S)[S] = IF S = {} THEN 0 ELSE f[Pick(S)] + Table(f, S)[U]
  <2>1. Filled(Table(f, S), f, S)
    BY <1>2, SumsValues
  <2> QED
    BY <1>1, <2>1 DEF Filled
<1>4. Table(f, S)[U] = Table(f, U)[U]
  <2> HIDE DEF U
  <2> QED
    BY <1>1, <1>2, SumsAgree
<1>5. SumFunctionOnSet(f, S) = Table(f, S)[S] /\ SumFunctionOnSet(f, U) = Table(f, U)[U]
  BY SumIsFold
<1> QED
  BY <1>3, <1>4, <1>5

(* A sum of natural numbers is a natural number.                           *)
LEMMA SumType ==
    ASSUME NEW S, IsFiniteSet(S), NEW f, \A x \in S : f[x] \in Nat
    PROVE  SumFunctionOnSet(f, S) \in Nat
<1> DEFINE T == {t \in SUBSET S : SumFunctionOnSet(f, t) \notin Nat}
<1> SUFFICES ASSUME T # {} PROVE FALSE
  OBVIOUS
<1>0. T \subseteq SUBSET S
  OBVIOUS
<1>1. PICK m \in T : \A u \in T : u \subseteq m => u = m
  <2> HIDE DEF T
  <2> QED
    BY <1>0, LeastSubset
<1>2. SumFunctionOnSet(f, m) = IF m = {} THEN 0 ELSE f[Pick(m)] + SumFunctionOnSet(f, m \ {Pick(m)})
  BY SumStep, FS_Subset
<1>3. m # {} /\ Pick(m) \in m
  BY <1>1, <1>2, PickInside
<1>4. SumFunctionOnSet(f, m \ {Pick(m)}) \in Nat
  BY <1>1, <1>3
<1> QED
  BY <1>1, <1>2, <1>3, <1>4

(* One more element adds its value.                                        *)
LEMMA SumAdd ==
    ASSUME NEW S, IsFiniteSet(S), NEW y, y \notin S, NEW f, \A x \in S \union {y} : f[x] \in Nat
    PROVE  SumFunctionOnSet(f, S \union {y}) = SumFunctionOnSet(f, S) + f[y]
<1> DEFINE sum(t) == SumFunctionOnSet(f, t)
           T == {t \in SUBSET S : \E x \in (S \union {y}) \ t : sum(t \union {x}) # sum(t) + f[x]}
<1> SUFFICES ASSUME T # {} PROVE FALSE
  OBVIOUS
<1>0. T \subseteq SUBSET S
  OBVIOUS
<1>1. PICK m \in T : \A u \in T : u \subseteq m => u = m
  <2> HIDE DEF T
  <2> QED
    BY <1>0, LeastSubset
<1>2. PICK x \in (S \union {y}) \ m : sum(m \union {x}) # sum(m) + f[x]
  OBVIOUS
<1> DEFINE U == m \union {x}
           p == Pick(U)
<1>3. IsFiniteSet(m) /\ IsFiniteSet(U)
  BY FS_Subset, FS_AddElement
<1>4. U # {} /\ p \in U
  BY PickInside
<1>5. sum(U) = f[p] + sum(U \ {p})
  BY <1>3, <1>4, SumStep
<1>6. p # x
  <2> SUFFICES ASSUME p = x PROVE FALSE
    OBVIOUS
  <2>1. U \ {p} = m
    OBVIOUS
  <2>2. sum(m) \in Nat /\ f[x] \in Nat
    BY <1>3, SumType
  <2>3. sum(U) = f[x] + sum(m) /\ sum(U) # sum(m) + f[x]
    BY <1>2, <1>5, <2>1
  <2> HIDE DEF sum, U
  <2> QED
    BY <2>2, <2>3
<1> DEFINE n == m \ {p}
<1>7. p \in m /\ n \subseteq m /\ n # m /\ n \union {p} = m /\ n \union {x} = U \ {p}
  BY <1>4, <1>6
<1>8. n \notin T /\ n \in SUBSET S
  BY <1>1, <1>7
<1>9. sum(n \union {p}) = sum(n) + f[p] /\ sum(n \union {x}) = sum(n) + f[x]
  BY <1>7, <1>8
<1>10. sum(n) \in Nat /\ f[p] \in Nat /\ f[x] \in Nat
  BY <1>3, <1>7, SumType, FS_Subset
<1>11. sum(U) = f[p] + (sum(n) + f[x]) /\ sum(m) = sum(n) + f[p]
  BY <1>5, <1>7, <1>9
<1>12. sum(U) # sum(m) + f[x]
  BY <1>2
<1> HIDE DEF sum, U, n, p
<1> QED
  BY <1>10, <1>11, <1>12

(* A larger set has no smaller sum.                                        *)
LEMMA SumMonotone ==
    ASSUME NEW S, IsFiniteSet(S), NEW R \in SUBSET S, NEW f, \A x \in S : f[x] \in Nat
    PROVE  SumFunctionOnSet(f, R) <= SumFunctionOnSet(f, S)
<1> DEFINE sum(t) == SumFunctionOnSet(f, t)
           T == {t \in SUBSET S : R \subseteq t /\ ~(sum(R) <= sum(t))}
<1> SUFFICES ASSUME T # {} PROVE FALSE
  OBVIOUS
<1>0. T \subseteq SUBSET S
  OBVIOUS
<1>1. PICK m \in T : \A u \in T : u \subseteq m => u = m
  <2> HIDE DEF T
  <2> QED
    BY <1>0, LeastSubset
<1>2. \A t \in SUBSET S : IsFiniteSet(t) /\ sum(t) \in Nat
  BY SumType, FS_Subset
<1>3. PICK x \in m : x \notin R
  BY <1>2
<1> DEFINE n == m \ {x}
<1>4. n \in SUBSET S /\ n \notin T /\ R \subseteq n /\ x \notin n /\ n \union {x} = m
  BY <1>1, <1>3
<1>5. sum(m) = sum(n) + f[x]
  BY <1>2, <1>4, SumAdd
<1>6. sum(R) <= sum(n) /\ ~(sum(R) <= sum(m)) /\ f[x] \in Nat
  BY <1>4
<1>7. sum(R) \in Nat /\ sum(n) \in Nat
  BY <1>2, <1>4
<1> HIDE DEF sum, n
<1> QED
  BY <1>5, <1>6, <1>7
-----------------------------------------------------------------------------
(* The job records: the children of an array exist together, what a job    *)
(* depends on exists, and no job has more CPUs assigned than it asked for. *)
SubmittedTogether ==
    \A j, k \in Jobs :
        Parent[j] = Parent[k] /\ Parent[j] # NoArray => (state[j] = "none" <=> state[k] = "none")
DependenciesExist ==
    \A j \in Jobs : state[j] # "none" => \A d \in Deps[j] : \E k \in Members(d) : state[k] # "none"
AssignedAsAsked ==
    \A j \in ActiveJobs : IsFiniteSet(cpuset[j]) /\ Cardinality(cpuset[j]) <= request[j].cpus

(* Every field of the pass has its type.                                   *)
CPUNumbers == UNION {c.set : c \in Capacities}
Allocation == [job : Jobs, gpus : SUBSET Devices, cpus : SUBSET CPUNumbers]
Passes == [todo : SUBSET Jobs, usable : SUBSET Devices, cpus : Int, mem : Int,
           gpus : SUBSET Devices, set : SUBSET CPUNumbers,
           running : [Arrays \union {NoArray} -> Nat], protected : Jobs \union {NoJob},
           start : Seq(Allocation), failed : SUBSET Jobs]

TypeInv == TypeOK /\ pass \in Passes
RecordInv ==
    /\ SubmittedTogether /\ DependenciesExist /\ AssignedAsAsked
    /\ CPUsExclusive /\ DependenciesRespected

States == Waiting \union Active \union Terminal \union {"none"}

(* What the assumptions and the types say, in the form most steps need.    *)
LEMMA Types ==
    ASSUME TypeInv
    PROVE  /\ state \in [Jobs -> States]
           /\ \A j \in Jobs : request[j].cpus \in Nat /\ request[j].mem \in Nat /\ request[j].gpus \in Nat
           /\ capacity.cpus \in Nat /\ capacity.mem \in Nat /\ IsFiniteSet(capacity.set)
           /\ capacity.set \subseteq CPUNumbers
           /\ cpuset \in [Jobs -> SUBSET CPUNumbers]
           /\ IsFiniteSet(ActiveJobs) /\ ActiveJobs \subseteq Jobs
<1>3. capacity \in Capacities
  BY DEF TypeInv, TypeOK
<1>4. capacity.cpus \in Nat /\ capacity.mem \in Nat /\ IsFiniteSet(capacity.set) /\ capacity.set \subseteq CPUNumbers
  BY <1>3, CapacitiesAssumption DEF CPUNumbers
<1>5. IsFiniteSet(ActiveJobs) /\ ActiveJobs \subseteq Jobs
  BY JobsAssumption, FS_Subset DEF ActiveJobs
<1> QED
  BY <1>4, <1>5 DEF TypeInv, TypeOK, States, CPUNumbers

(* Jobs are in the line in a total order, and nobody else is.              *)
LineOK == before \subseteq Line \X Line /\ InOrder /\ aged \subseteq Line

LEMMA LineStays ==
    ASSUME LineOK, Line' = Line, before' = before, aged' \subseteq Line
    PROVE  LineOK'
BY DEF LineOK, InOrder

LEMMA LineLeft ==
    ASSUME LineOK, NEW S, Leave(S), Line' = Line \ S
    PROVE  LineOK'
<1>1. before' = before \intersect ((Jobs \ S) \X (Jobs \ S)) /\ aged' = aged \ S
  BY DEF Leave
<1>2. before' = before \intersect (Line' \X Line')
  BY <1>1 DEF LineOK, Line
<1>3. \A j, k \in Line' : <<j, k>> \in before' <=> <<j, k>> \in before
  BY <1>2
<1>4. Line' \subseteq Line
  OBVIOUS
<1>5. InOrder'
  BY <1>3, <1>4 DEF LineOK, InOrder
<1> QED
  BY <1>1, <1>2, <1>5 DEF LineOK

(* What most steps do to the job records: no job appears or disappears,    *)
(* none becomes active, a completed one stays completed.                   *)
Onward ==
    /\ \A j \in Jobs : /\ state'[j] = "none" <=> state[j] = "none"
                       /\ state[j] = "COMPLETED" => state'[j] = "COMPLETED"
    /\ \A j \in ActiveJobs' : /\ j \in ActiveJobs
                              /\ cpuset'[j] = cpuset[j] /\ request'[j] = request[j]

LEMMA RecordInvOnward ==
    ASSUME TypeInv, RecordInv, Onward
    PROVE  RecordInv'
<1> USE DEF RecordInv
<1>2. \A j \in Jobs : \A d \in Deps[j] : Members(d) \subseteq Jobs
  BY ArraysAssumption DEF Members
<1>3. SubmittedTogether'
  BY DEF SubmittedTogether, Onward
<1>4. DependenciesExist'
  BY <1>2 DEF DependenciesExist, Onward, Members
<1>5. AssignedAsAsked' /\ CPUsExclusive'
  BY DEF AssignedAsAsked, CPUsExclusive, Onward
<1>6. DependenciesRespected'
  <2> SUFFICES ASSUME NEW j \in ActiveJobs', NEW d \in Deps[j], NEW k \in Members(d)
               PROVE  state'[k] = "COMPLETED"
    BY DEF DependenciesRespected, Members
  <2>1. j \in ActiveJobs /\ j \in Jobs /\ k \in Jobs
    BY <1>2 DEF Onward, ActiveJobs
  <2> QED
    BY <2>1 DEF DependenciesRespected, Onward
<1> QED
  BY <1>3, <1>4, <1>5, <1>6

(* The type invariant, without where the loop is.                          *)
RecordsOK ==
    /\ state \in [Jobs -> States]
    /\ LineOK
    /\ request \in [Jobs -> [cpus : Nat, mem : Nat, gpus : Nat]]
    /\ \A j \in Jobs : request[j] \in Wishes[j] \union {Nothing}
    /\ devices \in [Jobs -> SUBSET Devices] /\ cpuset \in [Jobs -> SUBSET CPUNumbers]
    /\ \A j \in Jobs \ ActiveJobs : devices[j] = {} /\ cpuset[j] = {}
    /\ capacity \in Capacities
    /\ fresh \in BOOLEAN /\ tried \subseteq Jobs /\ crashes \in 0..MaxCrashes

LEMMA TypeInvRecords == TypeInv => RecordsOK
BY DEF TypeInv, TypeOK, RecordsOK, LineOK, States, CPUNumbers

LEMMA IdleIsPass == Idle \in Passes /\ Range(Idle.start) = {}
<1>1. [p \in Arrays \union {NoArray} |-> 0] \in [Arrays \union {NoArray} -> Nat]
  OBVIOUS
<1>2. <<>> \in Seq(Allocation)
  OBVIOUS
<1>3. Idle.start = <<>> /\ DOMAIN Idle.start = {}
  BY DEF Idle
<1> QED
  BY <1>1, <1>2, <1>3 DEF Idle, Passes, Range

(* Without a plan the pass is empty.                                       *)
LEMMA TypeInvIdle == RecordsOK /\ pc \in {"down", "wait"} /\ pass = Idle => TypeInv
<1> SUFFICES ASSUME RecordsOK, pc \in {"down", "wait"}, pass = Idle PROVE TypeInv
  OBVIOUS
<1>1. pass \in Passes /\ pass.todo = {} /\ pass.failed = {} /\ {a.job : a \in Range(pass.start)} = {}
  BY IdleIsPass DEF Idle
<1> QED
  BY <1>1 DEF TypeInv, TypeOK, RecordsOK, LineOK, States, CPUNumbers

LEMMA TypeInvIdleNext == (RecordsOK /\ pc \in {"down", "wait"} /\ pass = Idle)' => TypeInv'
BY TypeInvIdle, PTL

LEMMA TypeInvWait == TypeInv /\ pc # "plan" => pass = Idle
BY DEF TypeInv, TypeOK

USE DEF records, held, loop

(* Nothing has been submitted.                                             *)
LEMMA RecordsInit == Init => TypeInv /\ RecordInv
<1> SUFFICES ASSUME Init PROVE TypeInv /\ RecordInv
  OBVIOUS
<1> USE DEF Init
<1>1. \A j \in Jobs : state[j] = "none"
  OBVIOUS
<1>2. Line = {} /\ ActiveJobs = {}
  BY <1>1 DEF Line, ActiveJobs, Waiting, Active
<1>3. LineOK
  BY <1>2 DEF LineOK, InOrder
<1>4. RecordsOK
  <2>1. 0 \in 0..MaxCrashes
    BY BoundAssumption
  <2>2. request \in [Jobs -> [cpus : Nat, mem : Nat, gpus : Nat]] /\ \A j \in Jobs : request[j] = Nothing
    BY DEF Nothing
  <2>3. devices \in [Jobs -> SUBSET Devices] /\ cpuset \in [Jobs -> SUBSET CPUNumbers]
    OBVIOUS
  <2> QED
    BY <1>3, <2>1, <2>2, <2>3 DEF RecordsOK, States
<1>5. TypeInv
  BY <1>4, TypeInvIdle
<1> QED
  BY <1>1, <1>2, <1>5 DEF RecordInv, SubmittedTogether, DependenciesExist, AssignedAsAsked,
     CPUsExclusive, DependenciesRespected

(* Behind a line in order, S in the order of its numbers: again in order.  *)
Ordered(B, L) ==
    /\ \A j, k \in L : j # k => (<<j, k>> \in B <=> <<k, j>> \notin B)
    /\ \A j, k, l \in L : <<j, k>> \in B /\ <<k, l>> \in B => <<j, l>> \in B
Behind(L, S) == (L \X S) \union {p \in S \X S : p[1] < p[2]}

LEMMA OrderExtends ==
    ASSUME NEW L, NEW S \in SUBSET Nat, L \intersect S = {}, NEW B \in SUBSET (L \X L), Ordered(B, L)
    PROVE  Ordered(B \union Behind(L, S), L \union S)
<1> DEFINE C == B \union Behind(L, S)
           N == {p \in S \X S : p[1] < p[2]}
<1>1. \A j, k : <<j, k>> \in N <=> j \in S /\ k \in S /\ j < k
  OBVIOUS
<1>2. \A j, k : <<j, k>> \in L \X S <=> j \in L /\ k \in S
  OBVIOUS
<1>3. \A j, k : <<j, k>> \in B => j \in L /\ k \in L
  OBVIOUS
<1>4. \A p : p \in C <=> p \in B \/ p \in L \X S \/ p \in N
  <2> HIDE DEF N
  <2>1. C = B \union ((L \X S) \union N)
    BY DEF Behind, N
  <2> QED
    BY <2>1
<1>5. \A j, k \in S : j # k => (j < k <=> ~(k < j))
  OBVIOUS
<1>6. \A j, k, l \in S : j < k /\ k < l => j < l
  OBVIOUS
<1>7. \A j : ~(j \in L /\ j \in S)
  OBVIOUS
<1> HIDE DEF C, N
<1>8. ASSUME NEW j \in L \union S, NEW k \in L \union S, j # k
      PROVE  <<j, k>> \in C <=> <<k, j>> \notin C
  <2>1. CASE j \in L /\ k \in L
    BY <1>1, <1>2, <1>4, <1>7, <1>8, <2>1 DEF Ordered
  <2>2. CASE j \in L /\ k \in S
    BY <1>1, <1>2, <1>3, <1>4, <1>7, <2>2
  <2>3. CASE j \in S /\ k \in L
    BY <1>1, <1>2, <1>3, <1>4, <1>7, <2>3
  <2>4. CASE j \in S /\ k \in S
    BY <1>1, <1>2, <1>3, <1>4, <1>5, <1>7, <1>8, <2>4
  <2> QED
    BY <2>1, <2>2, <2>3, <2>4
<1>9. ASSUME NEW j \in L \union S, NEW k \in L \union S, NEW l \in L \union S, <<j, k>> \in C, <<k, l>> \in C
      PROVE  <<j, l>> \in C
  <2>1. CASE j \in L /\ k \in L /\ l \in L
    BY <1>1, <1>2, <1>4, <1>7, <1>9, <2>1 DEF Ordered
  <2>2. CASE j \in L /\ l \in S
    BY <1>2, <1>4, <2>2
  <2>3. CASE k \in S
    <3>1. l \in S /\ k < l
      BY <1>1, <1>2, <1>3, <1>4, <1>7, <1>9, <2>3
    <3>2. CASE j \in S
      <4>1. j < k
        BY <1>1, <1>2, <1>3, <1>4, <1>7, <1>9, <2>3, <3>2
      <4> QED
        BY <1>1, <1>4, <1>6, <2>3, <3>1, <3>2, <4>1
    <3> QED
      BY <2>2, <3>1, <3>2
  <2>4. CASE j \in S /\ k \in L
    BY <1>1, <1>2, <1>3, <1>4, <1>7, <1>9, <2>4
  <2> QED
    BY <2>1, <2>2, <2>3, <2>4
<1> QED
  BY <1>8, <1>9 DEF Ordered, C

LEMMA BehindInside == \A L, S : Behind(L, S) \subseteq (L \union S) \X (L \union S)
BY DEF Behind

(* A job or an array enters at the end of the line.                        *)
LEMMA SubmitRecords ==
    ASSUME TypeInv, RecordInv, NEW j \in Jobs,
           Submit(IF Parent[j] = NoArray THEN {j} ELSE {k \in Jobs : Parent[k] = Parent[j]})
    PROVE  TypeInv' /\ RecordInv'
<1> DEFINE S == IF Parent[j] = NoArray THEN {j} ELSE {k \in Jobs : Parent[k] = Parent[j]}
<1>0. S \subseteq Jobs /\ S \subseteq Nat
  BY JobsAssumption
<1>1. \A k, l \in Jobs : Parent[k] = Parent[l] /\ Parent[k] # NoArray => (k \in S <=> l \in S)
  OBVIOUS
<1> HIDE DEF S
<1>2. Submit(S)
  BY DEF S
<1> USE DEF Submit, Ask
<1>3. RecordsOK /\ pass = Idle
  BY <1>2, TypeInvRecords, TypeInvWait
<1>4. PICK r \in UNION {Wishes[k] : k \in S} :
          /\ \A k \in S : r \in Wishes[k]
          /\ request' = [k \in Jobs |-> IF k \in S THEN r ELSE request[k]]
  BY <1>2
<1>5. /\ \A k \in S : state[k] = "none"
      /\ state' = [k \in Jobs |-> IF k \in S THEN "QUEUED" ELSE state[k]]
  BY <1>2
<1>6. Line' = Line \union S /\ Line \intersect S = {} /\ ActiveJobs' = ActiveJobs /\ ActiveJobs \intersect S = {}
  BY <1>0, <1>5 DEF Line, ActiveJobs, Waiting, Active
<1>7. LineOK'
  <2>1. before' = before \union (Line \X S) \union {p \in S \X S : p[1] < p[2]} /\ aged' = aged
    BY <1>2
  <2>2. before \subseteq Line \X Line /\ InOrder /\ aged \subseteq Line
    BY <1>3 DEF RecordsOK, LineOK
  <2>3. before' = before \union Behind(Line, S)
    BY <2>1 DEF Behind
  <2>4. Ordered(before, Line)
    BY <2>2 DEF InOrder, Ordered
  <2>5. Ordered(before', Line')
    BY <1>0, <1>6, <2>2, <2>3, <2>4, OrderExtends
  <2>6. before' \subseteq Line' \X Line' /\ aged' \subseteq Line'
    BY <1>6, <2>1, <2>2, <2>3, BehindInside
  <2> QED
    BY <2>5, <2>6 DEF LineOK, InOrder, Ordered
<1>8. r \in [cpus : Nat, mem : Nat, gpus : Nat]
  <2>1. PICK k \in S : r \in Wishes[k]
    BY <1>4
  <2> QED
    BY <1>0, <2>1, WishesAssumption
<1>9. RecordsOK'
  <2>1. \A k \in Jobs : request'[k] \in Wishes[k] \union {Nothing}
    BY <1>3, <1>4 DEF RecordsOK
  <2>2. request' \in [Jobs -> [cpus : Nat, mem : Nat, gpus : Nat]]
    BY <1>3, <1>4, <1>8 DEF RecordsOK
  <2>3. state' \in [Jobs -> States]
    BY <1>3, <1>5 DEF RecordsOK, States, Waiting
  <2> QED
    BY <1>2, <1>3, <1>6, <1>7, <2>1, <2>2, <2>3 DEF RecordsOK
<1>10. TypeInv'
  BY <1>2, <1>3, <1>9, TypeInvIdleNext
<1>11. RecordInv'
  <2> USE DEF RecordInv
  <2>1. SubmittedTogether'
    BY <1>1, <1>5 DEF SubmittedTogether
  <2>2. ASSUME NEW k \in Jobs, state'[k] # "none", NEW d \in Deps[k]
        PROVE  \E l \in Members(d) : state'[l] # "none"
    <3>1. Members(d) \subseteq Jobs
      BY ArraysAssumption DEF Members
    <3>2. CASE k \in S
      <4>1. IF d \in Arrays THEN Children(d) # {} ELSE state[d] # "none"
        BY <1>2, <3>2
      <4>2. \E l \in Members(d) : state[l] # "none"
        BY <4>1 DEF Children, Members
      <4> QED
        BY <1>5, <3>1, <4>2
    <3>3. CASE k \notin S
      BY <1>5, <2>2, <3>1, <3>3 DEF DependenciesExist
    <3> QED
      BY <3>2, <3>3
  <2>3. DependenciesExist'
    BY <2>2 DEF DependenciesExist, Members
  <2>4. \A k \in ActiveJobs' : k \in ActiveJobs /\ cpuset'[k] = cpuset[k] /\ request'[k] = request[k]
    BY <1>2, <1>4, <1>6 DEF ActiveJobs
  <2>5. AssignedAsAsked' /\ CPUsExclusive'
    BY <1>2, <2>4 DEF AssignedAsAsked, CPUsExclusive
  <2>6. \A k \in Jobs : state[k] = "COMPLETED" => state'[k] = "COMPLETED"
    BY <1>5
  <2>7. DependenciesRespected'
    <3> SUFFICES ASSUME NEW k \in ActiveJobs', NEW d \in Deps[k], NEW l \in Members(d)
                 PROVE  state'[l] = "COMPLETED"
      BY DEF DependenciesRespected, Members
    <3>1. k \in ActiveJobs /\ k \in Jobs
      BY <1>6 DEF ActiveJobs
    <3>2. l \in Jobs
      BY <3>1, ArraysAssumption DEF Members
    <3> QED
      BY <2>6, <3>1, <3>2 DEF DependenciesRespected
  <2> QED
    BY <2>1, <2>3, <2>5, <2>7
<1> QED
  BY <1>10, <1>11

(* No other request and no end of an attempt makes a job active or undoes  *)
(* a completion; whoever leaves the line or its devices leaves them whole. *)
LEMMA HoldRecords ==
    ASSUME TypeInv, NEW t \in Jobs \union Arrays, NEW kind,
           NEW to \in {"HELD", "QUEUED"}, Hold(t, kind, to)
    PROVE  RecordsOK' /\ Onward /\ UNCHANGED loop
<1>1. RecordsOK
  BY TypeInvRecords
<1>2. state' = [j \in Jobs |-> IF j \in Target(t) /\ state[j] \in Waiting THEN to ELSE state[j]]
  BY DEF Hold
<1>3. UNCHANGED <<before, aged, request, tried, held, loop, capacity, crashes>> /\ fresh' = FALSE
  BY DEF Hold, Ask
<1>4. Line' = Line /\ ActiveJobs' = ActiveJobs /\ state' \in [Jobs -> States]
  BY <1>1, <1>2 DEF RecordsOK, Line, ActiveJobs, Waiting, Active, States
<1>5. LineOK'
  BY <1>1, <1>3, <1>4, LineStays DEF RecordsOK, LineOK
<1>6. RecordsOK'
  BY <1>1, <1>3, <1>4, <1>5 DEF RecordsOK
<1>7. Onward
  BY <1>2, <1>3, <1>4 DEF Onward, Waiting
<1> QED
  BY <1>3, <1>6, <1>7

LEMMA DeleteRecords ==
    ASSUME TypeInv, NEW t \in Jobs \union Arrays, Delete(t)
    PROVE  RecordsOK' /\ Onward /\ UNCHANGED loop
<1> DEFINE S == {j \in Target(t) : state[j] \in Waiting}
<1>1. RecordsOK
  BY TypeInvRecords
<1>2. state' = [j \in Jobs |-> IF j \in Target(t) /\ state[j] \in Waiting THEN "CANCELLED"
                               ELSE IF j \in Target(t) /\ state[j] \in Active THEN "EXITING"
                               ELSE state[j]]
  BY DEF Delete
<1>3. UNCHANGED <<request, tried, held, loop, capacity, crashes>> /\ fresh' = FALSE /\ Leave(S)
  BY DEF Delete, Ask
<1>4. Line' = Line \ S /\ ActiveJobs' = ActiveJobs /\ state' \in [Jobs -> States]
  BY <1>1, <1>2 DEF RecordsOK, Line, ActiveJobs, Waiting, Active, States, Terminal
<1>5. LineOK'
  <2> HIDE DEF S
  <2> QED
    BY <1>1, <1>3, <1>4, LineLeft DEF RecordsOK
<1>6. RecordsOK'
  BY <1>1, <1>3, <1>4, <1>5 DEF RecordsOK
<1>7. Onward
  BY <1>2, <1>3, <1>4 DEF Onward, Waiting, Active
<1> QED
  BY <1>3, <1>6, <1>7

LEMMA AlterRecords ==
    ASSUME TypeInv, NEW t \in Jobs \union Arrays, NEW r \in UNION {Wishes[j] : j \in Jobs}, Alter(t, r)
    PROVE  RecordsOK' /\ Onward /\ UNCHANGED loop
<1>1. RecordsOK
  BY TypeInvRecords
<1>2. /\ \A j \in Target(t) : state[j] \in Waiting /\ r \in Wishes[j]
      /\ request' = [j \in Jobs |-> IF j \in Target(t) THEN r ELSE request[j]]
  BY DEF Alter
<1>3. UNCHANGED <<state, before, aged, tried, held, loop, capacity, crashes>> /\ fresh' = FALSE
  BY DEF Alter, Ask
<1>4. r \in [cpus : Nat, mem : Nat, gpus : Nat]
  <2>1. PICK j \in Jobs : r \in Wishes[j]
    OBVIOUS
  <2> QED
    BY <2>1, WishesAssumption
<1>5. LineOK' /\ ActiveJobs' = ActiveJobs
  BY <1>1, <1>3 DEF RecordsOK, LineOK, InOrder, Line, ActiveJobs
<1>6. RecordsOK'
  BY <1>1, <1>2, <1>3, <1>4, <1>5 DEF RecordsOK
<1>7. Onward
  BY <1>2, <1>3 DEF Onward, ActiveJobs, Active, Waiting
<1> QED
  BY <1>3, <1>6, <1>7

LEMMA ReconciledRecords ==
    ASSUME TypeInv, NEW j \in Jobs, Runs(j) \/ AttemptEnds(j) \/ Interrupted(j)
    PROVE  RecordsOK' /\ Onward /\ UNCHANGED loop
<1>1. RecordsOK
  BY TypeInvRecords
<1> USE DEF Active, Waiting, Terminal, States
<1>2. CASE Runs(j)
  <2>1. Line' = Line /\ ActiveJobs' = ActiveJobs /\ state' \in [Jobs -> States]
    BY <1>1, <1>2 DEF RecordsOK, Runs, Line, ActiveJobs
  <2>2. LineOK'
    BY <1>1, <1>2, <2>1, LineStays DEF RecordsOK, LineOK, Runs
  <2>3. RecordsOK'
    BY <1>1, <1>2, <2>1, <2>2 DEF RecordsOK, Runs
  <2> QED
    BY <1>1, <1>2, <2>1, <2>3 DEF Runs, Onward, RecordsOK
<1>3. ASSUME NEW outcome \in Ends \intersect Terminal, Settle(j, outcome)
      PROVE  RecordsOK' /\ Onward /\ UNCHANGED loop
  <2>1. Line' = Line \ {j} /\ ActiveJobs' = ActiveJobs \ {j} /\ state' \in [Jobs -> States]
    BY <1>1, <1>3 DEF RecordsOK, Settle, Line, ActiveJobs
  <2>2. LineOK'
    BY <1>1, <1>3, <2>1, LineLeft DEF RecordsOK, Settle
  <2>3. RecordsOK'
    BY <1>1, <1>3, <2>1, <2>2 DEF RecordsOK, Settle, Free
  <2> QED
    BY <1>1, <1>3, <2>1, <2>3 DEF Settle, Free, Onward, RecordsOK
<1>4. CASE Requeue(j)
  <2>1. /\ Line' = Line /\ j \in Line /\ ActiveJobs' = ActiveJobs \ {j} /\ state' \in [Jobs -> States]
        /\ Line = (Line \ {j}) \union {j}
    BY <1>1, <1>4 DEF RecordsOK, Requeue, Line, ActiveJobs
  <2> DEFINE L == Line \ {j}
             B == before \intersect (L \X L)
  <2>2. before \subseteq Line \X Line /\ Line \subseteq Jobs /\ InOrder /\ aged \subseteq Line
    BY <1>1 DEF RecordsOK, LineOK, Line
  <2>3. Ordered(B, L)
    BY <2>2 DEF InOrder, Ordered
  <2>4. ~(j < j)
    BY JobsAssumption
  <2>5. Behind(L, {j}) = L \X {j}
    BY <2>4 DEF Behind
  <2>6. before' = B \union Behind(L, {j})
    <3>1. before' = (before \ ({j} \X Jobs)) \union (L \X {j})
      BY <1>4 DEF Requeue
    <3>2. (before \ ({j} \X Jobs)) \union (L \X {j}) = B \union (L \X {j})
      BY <2>2
    <3> QED
      BY <2>5, <3>1, <3>2
  <2>7. Ordered(before', Line')
    <3> HIDE DEF L, B
    <3>1. B \in SUBSET (L \X L) /\ {j} \in SUBSET Nat /\ L \intersect {j} = {} /\ L \union {j} = Line'
      BY <2>1, JobsAssumption DEF B, L
    <3> QED
      BY <2>3, <2>6, <3>1, OrderExtends
  <2>8. LineOK'
    <3>1. before' \subseteq Line' \X Line'
      BY <2>1, <2>5, <2>6
    <3>2. aged' \subseteq Line'
      BY <1>4, <2>1, <2>2 DEF Requeue
    <3> QED
      BY <2>7, <3>1, <3>2 DEF LineOK, InOrder, Ordered
  <2> HIDE DEF L, B
  <2>9. RecordsOK'
    BY <1>1, <1>4, <2>1, <2>8 DEF RecordsOK, Requeue, Free
  <2> QED
    BY <1>1, <1>4, <2>1, <2>9 DEF Requeue, Free, Onward, RecordsOK
<1>5. CASE Interrupted(j)
  <2>1. Line' = Line /\ ActiveJobs' = ActiveJobs \ {j} /\ state' \in [Jobs -> States]
    BY <1>1, <1>5 DEF RecordsOK, Interrupted, Line, ActiveJobs
  <2>2. LineOK'
    BY <1>1, <1>5, <2>1, LineStays DEF RecordsOK, LineOK, Interrupted
  <2>3. RecordsOK'
    BY <1>1, <1>5, <2>1, <2>2 DEF RecordsOK, Interrupted, Free
  <2> QED
    BY <1>1, <1>5, <2>1, <2>3 DEF Interrupted, Free, Onward, RecordsOK
<1> QED
  BY <1>2, <1>3, <1>4, <1>5 DEF AttemptEnds

(* Starting, dying, the passing of time and the end of a plan change no    *)
(* job record.                                                             *)
LEMMA QuietRecords ==
    ASSUME TypeInv, StartUp \/ TimePasses \/ DaemonDies \/ PlanDone \/ (BeginPass /\ fresh' \in BOOLEAN)
                    \/ Consider \/ Skip
    PROVE  RecordsOK' /\ Onward
<1>1. RecordsOK
  BY TypeInvRecords
<1>2. UNCHANGED <<state, before, request, tried, held>>
  BY DEF StartUp, TimePasses, DaemonDies, PlanDone, BeginPass, Consider, Skip
<1>3. Line' = Line /\ ActiveJobs' = ActiveJobs
  BY <1>2 DEF Line, ActiveJobs
<1>4. aged' \subseteq Line
  BY <1>1 DEF StartUp, TimePasses, DaemonDies, PlanDone, BeginPass, Consider, Skip, RecordsOK, LineOK
<1>5. LineOK'
  BY <1>1, <1>2, <1>3, <1>4, LineStays DEF RecordsOK
<1>6. capacity' \in Capacities /\ fresh' \in BOOLEAN
  BY <1>1 DEF StartUp, TimePasses, DaemonDies, PlanDone, BeginPass, Consider, Skip, RecordsOK
<1>7. crashes' \in 0..MaxCrashes
  <2>1. CASE UNCHANGED crashes
    BY <1>1, <2>1 DEF RecordsOK
  <2>2. CASE DaemonDies
    BY <1>1, <2>2, BoundAssumption DEF DaemonDies, RecordsOK
  <2> QED
    BY <2>1, <2>2 DEF StartUp, TimePasses, PlanDone, BeginPass, Consider, Skip
<1>8. RecordsOK'
  BY <1>1, <1>2, <1>3, <1>5, <1>6, <1>7 DEF RecordsOK
<1> QED
  BY <1>2, <1>3, <1>8 DEF Onward

-----------------------------------------------------------------------------
(* The plan.  Chosen jobs are to be started, busy ones hold what there is. *)
Chosen == {pass.start[i].job : i \in DOMAIN pass.start}
Busy == ActiveJobs \union Chosen
Group(p) == {j \in Busy : Parent[j] = p}

(* Everything behind d has completed; it has ended, and not well.          *)
Done(d) == \A k \in Members(d) : state[k] = "COMPLETED"
Lost(d) == /\ \A k \in Members(d) : state[k] \in Terminal
           /\ \E k \in Members(d) : state[k] # "COMPLETED"

(* A waiting job is still to be considered, to fail, to be started, or     *)
(* passed over.                                                            *)
Partition ==
    /\ \A j \in pass.todo \union pass.failed : state[j] \in Waiting
    /\ \A j \in Chosen : state[j] = "QUEUED" /\ j \notin pass.todo \union pass.failed
    /\ pass.todo \intersect pass.failed = {}
    /\ \A i, k \in DOMAIN pass.start : pass.start[i].job = pass.start[k].job => i = k

(* What is left, and what chosen jobs were given, is within what there is. *)
Budget ==
    /\ pass.cpus <= capacity.cpus - CPUsOf(Busy)
    /\ pass.mem <= capacity.mem - MemoryOf(Busy)
    /\ pass.start # <<>> => pass.cpus >= 0 /\ pass.mem >= 0
Quota ==
    \A j \in Chosen : Limit[Parent[j]] > 0 => Cardinality(Group(Parent[j])) <= Limit[Parent[j]]

(* Nothing is given twice: what is left, what allocations get and what     *)
(* active jobs hold is disjoint.                                           *)
Sizes(a) == /\ Cardinality(a.gpus) = request[a.job].gpus
            /\ IsFiniteSet(a.cpus) /\ Cardinality(a.cpus) <= request[a.job].cpus
Apart ==
    /\ pass.set \subseteq capacity.set
    /\ \A k \in ActiveJobs : devices[k] \intersect pass.gpus = {} /\ cpuset[k] \intersect pass.set = {}
    /\ \A i \in DOMAIN pass.start :
          /\ Sizes(pass.start[i])
          /\ pass.start[i].gpus \intersect pass.gpus = {} /\ pass.start[i].cpus \intersect pass.set = {}
          /\ \A k \in ActiveJobs : /\ pass.start[i].gpus \intersect devices[k] = {}
                                   /\ pass.start[i].cpus \intersect cpuset[k] = {}
          /\ \A k \in DOMAIN pass.start :
                i # k => /\ pass.start[i].gpus \intersect pass.start[k].gpus = {}
                         /\ pass.start[i].cpus \intersect pass.start[k].cpus = {}

(* What a decision was made for stays so: terminal states are final.       *)
Settled ==
    /\ \A j \in Chosen : \A d \in Deps[j] : Done(d)
    /\ \A j \in pass.failed : \E d \in Deps[j] : Lost(d)

PlanInv == Partition /\ Budget /\ Quota /\ Apart /\ Settled

(* Until the plan is complete the account is exact.                        *)
InUse == UNION {devices[j] : j \in ActiveJobs}
Allotted == UNION {a.gpus : a \in Range(pass.start)}
Left == pass.usable \ (InUse \union Allotted)
Exact ==
    /\ pass.cpus = capacity.cpus - CPUsOf(Busy)
    /\ pass.mem = capacity.mem - MemoryOf(Busy)
    /\ pass.gpus = Left
    /\ \A p \in Arrays \union {NoArray} : pass.running[p] = Cardinality(Group(p))
    /\ Affinity => pass.cpus <= Cardinality(pass.set)

(* A job that could start and was passed over lacks something still, or    *)
(* stands back for another one that has waited for long.                   *)
Blocked(j) ==
    \/ Limit[Parent[j]] > 0 /\ pass.running[Parent[j]] >= Limit[Parent[j]]
    \/ request[j].cpus > pass.cpus
    \/ request[j].mem > pass.mem
    \/ request[j].gpus > Cardinality(pass.gpus)
    \/ Affinity /\ request[j].cpus > Cardinality(pass.set)
PassedOver ==
    \A j \in Jobs \ (pass.todo \union Chosen) :
        state[j] = "QUEUED" /\ DependencyMet(j) => pass.protected \notin {NoJob, j} \/ Blocked(j)
ProtectedWaits ==
    pass.protected # NoJob => /\ pass.protected \in aged /\ state[pass.protected] = "QUEUED"
                              /\ pass.protected \notin pass.todo \union Chosen

IInv ==
    /\ TypeInv /\ RecordInv
    /\ pc = "plan" => PlanInv
    /\ pc = "plan" /\ pass.todo # {} => Exact /\ PassedOver /\ ProtectedWaits

-----------------------------------------------------------------------------
(* Amounts                                                                 *)

(* What jobs ask for adds up, and a larger set asks for no less.           *)
LEMMA Amounts ==
    ASSUME TypeInv, NEW S \in SUBSET Jobs
    PROVE  /\ CPUsOf(S) \in Nat /\ MemoryOf(S) \in Nat
           /\ \A j \in Jobs \ S : /\ CPUsOf(S \union {j}) = CPUsOf(S) + request[j].cpus
                                  /\ MemoryOf(S \union {j}) = MemoryOf(S) + request[j].mem
           /\ \A R \in SUBSET S : CPUsOf(R) <= CPUsOf(S) /\ MemoryOf(R) <= MemoryOf(S)
<1> DEFINE f == [j \in Jobs |-> request[j].cpus]
           g == [j \in Jobs |-> request[j].mem]
<1>1. \A j \in Jobs : /\ f[j] = request[j].cpus /\ g[j] = request[j].mem
                      /\ f[j] \in Nat /\ g[j] \in Nat
  BY Types
<1>2. IsFiniteSet(S)
  BY JobsAssumption, FS_Subset
<1>3. \A R : CPUsOf(R) = SumFunctionOnSet(f, R) /\ MemoryOf(R) = SumFunctionOnSet(g, R)
  BY DEF CPUsOf, MemoryOf
<1> HIDE DEF f, g
<1>4. CPUsOf(S) \in Nat /\ MemoryOf(S) \in Nat
  BY <1>1, <1>2, <1>3, SumType
<1>5. ASSUME NEW j \in Jobs \ S
      PROVE  /\ CPUsOf(S \union {j}) = CPUsOf(S) + request[j].cpus
             /\ MemoryOf(S \union {j}) = MemoryOf(S) + request[j].mem
  <2>1. \A x \in S \union {j} : f[x] \in Nat /\ g[x] \in Nat
    BY <1>1
  <2>2. SumFunctionOnSet(f, S \union {j}) = SumFunctionOnSet(f, S) + f[j]
    BY <1>2, <2>1, SumAdd
  <2>3. SumFunctionOnSet(g, S \union {j}) = SumFunctionOnSet(g, S) + g[j]
    BY <1>2, <2>1, SumAdd
  <2> QED
    BY <1>1, <1>3, <2>2, <2>3
<1>6. ASSUME NEW R \in SUBSET S PROVE CPUsOf(R) <= CPUsOf(S) /\ MemoryOf(R) <= MemoryOf(S)
  BY <1>1, <1>2, <1>3, SumMonotone
<1> QED
  BY <1>4, <1>5, <1>6

(* Of a set, at least so much is left as was not asked for.                *)
LEMMA LeftOver ==
    ASSUME NEW S, IsFiniteSet(S), NEW f, \A x \in S : f[x] \in Nat, NEW X, IsFiniteSet(X), NEW c,
           \A x \in S : IsFiniteSet(c[x]) /\ Cardinality(c[x]) <= f[x]
    PROVE  Cardinality(X) - SumFunctionOnSet(f, S) <= Cardinality(X \ UNION {c[x] : x \in S})
<1> DEFINE sum(t) == SumFunctionOnSet(f, t)
           left(t) == X \ UNION {c[x] : x \in t}
           T == {t \in SUBSET S : ~(Cardinality(X) - sum(t) <= Cardinality(left(t)))}
<1> SUFFICES ASSUME T # {} PROVE FALSE
  OBVIOUS
<1>0. T \subseteq SUBSET S
  OBVIOUS
<1>1. PICK m \in T : \A u \in T : u \subseteq m => u = m
  <2> HIDE DEF T
  <2> QED
    BY <1>0, LeastSubset
<1>2. \A t \in SUBSET S : /\ IsFiniteSet(t) /\ sum(t) \in Nat
                          /\ IsFiniteSet(left(t)) /\ Cardinality(left(t)) \in Nat
  BY SumType, FS_Subset, FS_CardinalityType
<1>3. Cardinality(X) \in Nat
  BY FS_CardinalityType
<1>4. m # {}
  <2> SUFFICES ASSUME m = {} PROVE FALSE
    OBVIOUS
  <2>1. sum(m) = 0
    BY <1>2, SumStep
  <2>2. left(m) = X
    OBVIOUS
  <2>3. ~(Cardinality(X) - sum(m) <= Cardinality(left(m)))
    OBVIOUS
  <2> HIDE DEF sum, left
  <2> QED
    BY <1>3, <2>1, <2>2, <2>3
<1>5. PICK x \in m : TRUE
  BY <1>4
<1> DEFINE n == m \ {x}
<1>6. n \in SUBSET S /\ n \notin T /\ x \notin n /\ n \union {x} = m /\ x \in S
  BY <1>1, <1>5
<1>7. sum(m) = sum(n) + f[x]
  BY <1>2, <1>6, SumAdd
<1>8. left(m) = left(n) \ c[x]
  BY <1>6
<1>9. Cardinality(left(m)) = Cardinality(left(n)) - Cardinality(left(n) \intersect c[x])
  BY <1>2, <1>6, <1>8, FS_Difference
<1>10. Cardinality(left(n) \intersect c[x]) <= Cardinality(c[x]) /\ Cardinality(left(n) \intersect c[x]) \in Nat
  BY <1>6, FS_Intersection, FS_CardinalityType
<1>11. Cardinality(c[x]) \in Nat /\ Cardinality(c[x]) <= f[x] /\ f[x] \in Nat
  BY <1>6, FS_CardinalityType
<1>12. Cardinality(X) - sum(n) <= Cardinality(left(n)) /\ ~(Cardinality(X) - sum(m) <= Cardinality(left(m)))
  BY <1>6
<1>13. sum(n) \in Nat /\ sum(m) \in Nat /\ Cardinality(left(n)) \in Nat /\ Cardinality(left(m)) \in Nat
  BY <1>2, <1>6
<1> HIDE DEF sum, left, n
<1> QED
  BY <1>3, <1>7, <1>9, <1>10, <1>11, <1>12, <1>13

(* What is kept for the protected job can only make less of what is left.  *)
LEMMA SpareBounds ==
    ASSUME NEW free \in Int, NEW want \in Nat
    PROVE  Spare(free, want) \in Int /\ Spare(free, want) <= free /\ Spare(free, 0) = free
<1>1. Max({0, free}) \in {0, free} /\ Max({0, free}) >= 0
  BY DEF Max
<1>2. \A m \in Nat, w \in Nat : Min({m, w}) \in Nat /\ Min({m, 0}) = 0
  BY DEF Min
<1>3. Max({0, free}) \in Nat
  BY <1>1
<1>4. Min({Max({0, free}), want}) \in Nat /\ Min({Max({0, free}), 0}) = 0
  BY <1>2, <1>3
<1> QED
  BY <1>4 DEF Spare

-----------------------------------------------------------------------------
(* Dependencies                                                            *)

(* What the state of a dependency says about every job behind it: an array *)
(* has completed when all its subjobs have, and it has ended when all have.*)
LEMMA StateOfMembers ==
    ASSUME TypeInv, RecordInv, NEW j \in Jobs, state[j] # "none", NEW d \in Deps[j]
    PROVE  /\ StateOf(d) = "COMPLETED" => Done(d)
           /\ StateOf(d) \in Terminal \ {"COMPLETED"} => Lost(d)
<1>1. Members(d) \subseteq Jobs /\ \E k \in Members(d) : state[k] # "none"
  BY ArraysAssumption DEF RecordInv, DependenciesExist, Members
<1>2. CASE d \notin Arrays
  BY <1>2 DEF StateOf, Members, Done, Lost
<1>3. CASE d \in Arrays
  <2>1. Children(d) = Members(d)
    <3>1. d # NoArray
      BY <1>3, ArraysAssumption
    <3> QED
      BY <1>1, <1>3, <3>1 DEF RecordInv, SubmittedTogether, Members, Children
  <2>2. \A k \in Children(d) : state[k] \in States \ {"none"}
    BY Types DEF Children
  <2>3. StateOf(d) = Aggregate(d)
    BY <1>3 DEF StateOf
  <2>4. Aggregate(d) = "COMPLETED" => \A k \in Children(d) : state[k] = "COMPLETED"
    BY <2>2 DEF Aggregate, States, Waiting, Active, Terminal
  <2>5. Aggregate(d) \in Terminal \ {"COMPLETED"} =>
           /\ \A k \in Children(d) : state[k] \in Terminal
           /\ \E k \in Children(d) : state[k] # "COMPLETED"
    BY <2>2 DEF Aggregate, States, Waiting, Active, Terminal
  <2> QED
    BY <2>1, <2>3, <2>4, <2>5 DEF Done, Lost
<1> QED
  BY <1>2, <1>3

LEMMA DependencyMetDone ==
    ASSUME TypeInv, RecordInv, NEW j \in Jobs, state[j] # "none"
    PROVE  /\ DependencyMet(j) => \A d \in Deps[j] : Done(d)
           /\ DependencyFailed(j) => \E d \in Deps[j] : Lost(d)
           /\ DependencyFailed(j) => ~DependencyMet(j)
BY StateOfMembers DEF DependencyMet, DependencyFailed

-----------------------------------------------------------------------------
(* Making a plan                                                           *)

(* While there is a plan its jobs are in the line.                         *)
LEMMA TypeInvPlan == RecordsOK /\ pc = "plan" /\ pass \in Passes /\ Partition => TypeInv
<1> SUFFICES ASSUME RecordsOK, pc = "plan", pass \in Passes, Partition PROVE TypeInv
  OBVIOUS
<1>1. \A i \in DOMAIN pass.start : pass.start[i] \in Allocation
  BY DEF Passes
<1>2. pass.todo \subseteq Jobs /\ pass.failed \subseteq Jobs
  BY DEF Passes
<1>3. \A j \in Chosen : j \in Jobs /\ state[j] \in Waiting
  BY <1>1 DEF Chosen, Allocation, Partition, Waiting
<1>4. {a.job : a \in Range(pass.start)} = Chosen
  BY DEF Range, Chosen
<1>5. pass.todo \union pass.failed \union {a.job : a \in Range(pass.start)} \subseteq Line
  BY <1>2, <1>3, <1>4 DEF Partition, Line
<1> QED
  BY <1>5 DEF TypeInv, TypeOK, RecordsOK, LineOK, States, CPUNumbers

LEMMA TypeInvPlanNext == (RecordsOK /\ pc = "plan" /\ pass \in Passes /\ Partition)' => TypeInv'
BY TypeInvPlan, PTL

(* A plan begins with what active jobs leave.                              *)
LEMMA PlanBegins ==
    ASSUME TypeInv, RecordInv, BeginPass
    PROVE  /\ pass' \in Passes /\ PlanInv' /\ Exact' /\ PassedOver' /\ ProtectedWaits'
<1>1. PICK usable \in Views : pass' = Begin(usable)
  BY DEF BeginPass
<1>2. UNCHANGED <<state, before, aged, request, devices, cpuset, capacity>>
  BY DEF BeginPass
<1>3. usable \in SUBSET Devices
  BY ViewsAssumption
<1>4. /\ pass'.todo = {j \in Jobs : state[j] \in Waiting}
      /\ pass'.usable = usable
      /\ pass'.cpus = capacity.cpus - CPUsOf(ActiveJobs)
      /\ pass'.mem = capacity.mem - MemoryOf(ActiveJobs)
      /\ pass'.gpus = usable \ UNION {devices[j] : j \in ActiveJobs}
      /\ pass'.set = capacity.set \ UNION {cpuset[j] : j \in ActiveJobs}
      /\ pass'.running = [p \in Arrays \union {NoArray} |-> RunningOf(p)]
      /\ pass'.protected = NoJob /\ pass'.start = <<>> /\ pass'.failed = {}
  BY <1>1 DEF Begin
<1>5. DOMAIN pass'.start = {} /\ Range(pass'.start) = {}
  BY <1>4 DEF Range
<1>6. ActiveJobs' = ActiveJobs /\ Chosen' = {} /\ Busy' = ActiveJobs
  BY <1>2, <1>5 DEF ActiveJobs, Chosen, Busy
<1>7. CPUsOf(Busy)' = CPUsOf(ActiveJobs) /\ MemoryOf(Busy)' = MemoryOf(ActiveJobs)
  BY <1>2, <1>6 DEF CPUsOf, MemoryOf
<1>8. \A p : Group(p)' = {j \in ActiveJobs : Parent[j] = p}
  BY <1>6 DEF Group
<1>9. CPUsOf(ActiveJobs) \in Nat /\ MemoryOf(ActiveJobs) \in Nat /\ ActiveJobs \in SUBSET Jobs
  BY Types, Amounts
<1>10. pass' \in Passes
  <2>1. \A p : RunningOf(p) \in Nat
    <3> SUFFICES ASSUME NEW p PROVE RunningOf(p) \in Nat
      OBVIOUS
    <3>1. IsFiniteSet({j \in ActiveJobs : Parent[j] = p})
      BY Types, FS_Subset
    <3> QED
      BY <3>1, FS_CardinalityType DEF RunningOf
  <2>2. pass'.running \in [Arrays \union {NoArray} -> Nat]
    BY <1>4, <2>1
  <2>3. pass'.cpus \in Int /\ pass'.mem \in Int
    BY <1>4, <1>9, Types
  <2>4. pass'.set \in SUBSET CPUNumbers
    BY <1>4, Types
  <2>5. pass'.start \in Seq(Allocation)
    BY <1>4
  <2>6. pass' = [todo |-> pass'.todo, usable |-> pass'.usable, cpus |-> pass'.cpus, mem |-> pass'.mem,
                 gpus |-> pass'.gpus, set |-> pass'.set, running |-> pass'.running,
                 protected |-> pass'.protected, start |-> pass'.start, failed |-> pass'.failed]
    BY <1>1 DEF Begin
  <2>7. /\ pass'.todo \in SUBSET Jobs /\ pass'.usable \in SUBSET Devices /\ pass'.gpus \in SUBSET Devices
        /\ pass'.protected \in Jobs \union {NoJob} /\ pass'.failed \in SUBSET Jobs
    BY <1>3, <1>4
  <2> QED
    BY <2>2, <2>3, <2>4, <2>5, <2>6, <2>7 DEF Passes
<1>11. Exact'
  <2>1. Affinity => pass'.cpus <= Cardinality(pass'.set)
    <3> SUFFICES ASSUME Affinity PROVE pass'.cpus <= Cardinality(pass'.set)
      OBVIOUS
    <3> DEFINE f == [j \in Jobs |-> request[j].cpus]
    <3>1. \A j \in ActiveJobs : f[j] \in Nat /\ IsFiniteSet(cpuset[j]) /\ Cardinality(cpuset[j]) <= f[j]
      BY Types DEF RecordInv, AssignedAsAsked
    <3>2. CPUsOf(ActiveJobs) = SumFunctionOnSet(f, ActiveJobs)
      BY DEF CPUsOf
    <3>3. Cardinality(capacity.set) - SumFunctionOnSet(f, ActiveJobs) <= Cardinality(pass'.set)
      <4> HIDE DEF f
      <4> QED
        BY <1>4, <3>1, Types, LeftOver
    <3>4. capacity.cpus <= Cardinality(capacity.set)
      BY CapacitiesAssumption DEF TypeInv, TypeOK
    <3>5. Cardinality(capacity.set) \in Nat /\ capacity.cpus \in Nat
      BY Types, FS_CardinalityType
    <3>6. IsFiniteSet(pass'.set)
      BY <1>4, Types, FS_Subset
    <3>7. Cardinality(pass'.set) \in Nat
      BY <3>6, FS_CardinalityType
    <3> HIDE DEF f
    <3> QED
      BY <1>4, <1>9, <3>2, <3>3, <3>4, <3>5, <3>7
  <2>2. pass'.gpus = Left'
    BY <1>2, <1>4, <1>5, <1>6 DEF Left, InUse, Allotted
  <2>3. \A p \in Arrays \union {NoArray} : pass'.running[p] = Cardinality(Group(p))'
    BY <1>4, <1>8 DEF RunningOf
  <2> QED
    BY <1>2, <1>4, <1>7, <2>1, <2>2, <2>3 DEF Exact
<1>12. Partition'
  BY <1>2, <1>4, <1>5, <1>6 DEF Partition
<1>13. Budget'
  BY <1>4, <1>9, <1>11, Types, <1>2 DEF Budget, Exact
<1>14. Quota' /\ Settled'
  BY <1>4, <1>6 DEF Quota, Settled
<1>15. Apart'
  BY <1>2, <1>4, <1>5, <1>6 DEF Apart
<1>16. PassedOver' /\ ProtectedWaits'
  BY <1>2, <1>4, <1>6 DEF PassedOver, ProtectedWaits, Waiting
<1> QED
  BY <1>10, <1>11, <1>12, <1>13, <1>14, <1>15, <1>16 DEF PlanInv

(* A job that is passed over takes nothing from the others.                *)
LEMMA PassedOverStep ==
    ASSUME IInv, pc = "plan", pass.todo # {}, NEW j \in pass.todo,
           Fails(j) \/ Waits(j) \/ Lacks(j),
           UNCHANGED <<records, held, pc, capacity>>
    PROVE  pass' \in Passes /\ PlanInv' /\ Exact' /\ PassedOver' /\ ProtectedWaits'
<1>1. /\ TypeInv /\ RecordInv /\ PlanInv /\ Exact /\ PassedOver /\ ProtectedWaits
      /\ pass \in Passes
  BY DEF IInv, TypeInv
<1>2. j \in Jobs /\ state[j] \in Waiting /\ state[j] # "none" /\ j \notin Chosen /\ j \notin pass.failed
  BY <1>1 DEF PlanInv, Partition, Passes, Waiting
<1>3. Protected(j) \in Jobs \union {NoJob}
  BY <1>1, <1>2 DEF Protected, Passes
<1>4. /\ pass' \in Passes
      /\ pass'.todo = pass.todo \ {j}
      /\ pass'.failed = pass.failed \union (IF DependencyFailed(j) THEN {j} ELSE {})
      /\ pass'.protected = IF Lacks(j) THEN Protected(j) ELSE pass.protected
      /\ pass'.start = pass.start /\ pass'.usable = pass.usable
      /\ pass'.cpus = pass.cpus /\ pass'.mem = pass.mem
      /\ pass'.gpus = pass.gpus /\ pass'.set = pass.set /\ pass'.running = pass.running
  <2>1. CASE Fails(j)
    BY <1>1, <1>2, <2>1 DEF Fails, Lacks, Without, Passes
  <2>2. CASE Waits(j)
    BY <1>1, <2>2 DEF Waits, Lacks, Without, Passes
  <2>3. CASE Lacks(j)
    BY <1>1, <1>3, <2>3 DEF Lacks, Without, Passes
  <2> QED
    BY <2>1, <2>2, <2>3
<1>5. UNCHANGED <<state, before, aged, request, devices, cpuset, capacity>>
  OBVIOUS
<1>6. ActiveJobs' = ActiveJobs /\ Chosen' = Chosen /\ Busy' = Busy /\ Left' = Left
  BY <1>4, <1>5 DEF ActiveJobs, Chosen, Busy, Left, InUse, Allotted
<1>7. CPUsOf(Busy)' = CPUsOf(Busy) /\ MemoryOf(Busy)' = MemoryOf(Busy)
  BY <1>5, <1>6 DEF CPUsOf, MemoryOf
<1>8. \A p : Group(p)' = Group(p)
  BY <1>6 DEF Group
<1>9. Exact' /\ Budget'
  BY <1>1, <1>4, <1>5, <1>6, <1>7, <1>8 DEF Exact, Budget, PlanInv
<1>10. Quota'
  BY <1>1, <1>6, <1>8 DEF Quota, PlanInv
<1>11. Apart'
  BY <1>1, <1>4, <1>5, <1>6 DEF Apart, Sizes, PlanInv
<1>12. Partition'
  BY <1>1, <1>2, <1>4, <1>5, <1>6 DEF Partition, PlanInv
<1>13. Settled'
  BY <1>1, <1>2, <1>4, <1>5, <1>6, DependencyMetDone DEF Settled, PlanInv, Done, Lost
<1>14. \A i : DependencyMet(i)' <=> DependencyMet(i)
  BY <1>5 DEF DependencyMet, StateOf, Aggregate, Children
<1>15. \A i : Blocked(i)' <=> Blocked(i)
  BY <1>4, <1>5 DEF Blocked
<1>16. pass'.protected \in {pass.protected, Protected(j)} /\ (pass.protected # NoJob => pass'.protected = pass.protected)
  BY <1>4 DEF Protected
<1>17. PassedOver'
  <2> SUFFICES ASSUME NEW i \in Jobs \ (pass'.todo \union Chosen), state[i] = "QUEUED", DependencyMet(i)
               PROVE  pass'.protected \notin {NoJob, i} \/ Blocked(i)
    BY <1>5, <1>6, <1>14, <1>15 DEF PassedOver
  <2>1. CASE i # j
    BY <1>1, <1>4, <1>16, <2>1 DEF PassedOver
  <2>2. CASE i = j
    <3>1. ~Fails(j)
      BY <1>1, <1>2, <2>2, DependencyMetDone DEF Fails
    <3>2. CASE Waits(j)
      BY <1>1, <1>2, <2>2, <3>2, Types, ArraysAssumption DEF Waits, Eligible, Blocked, Passes
    <3>3. CASE Lacks(j)
      <4>1. CASE Protected(j) \notin {NoJob, j}
        BY <1>4, <2>2, <3>3, <4>1
      <4>2. CASE Protected(j) \in {NoJob, j}
        <5>1. IsFiniteSet(pass.gpus)
          BY <1>1, DevicesAssumption, FS_Subset DEF Passes
        <5>2. Cardinality(pass.gpus) \in Int /\ pass.cpus \in Int /\ pass.mem \in Int
          BY <1>1, <5>1, FS_CardinalityType DEF Passes
        <5>3. /\ Spare(Cardinality(pass.gpus), 0) = Cardinality(pass.gpus)
              /\ Spare(pass.cpus, 0) = pass.cpus /\ Spare(pass.mem, 0) = pass.mem
          BY <5>2, SpareBounds
        <5>4. \/ ~(request[j].cpus <= pass.cpus) \/ ~(request[j].mem <= pass.mem)
              \/ ~(request[j].gpus <= Cardinality(pass.gpus))
              \/ Affinity /\ ~(request[j].cpus <= Cardinality(pass.set))
          BY <3>3, <4>2, <5>3 DEF Lacks, Fits
        <5>5. Affinity => Cardinality(pass.set) \in Nat
          <6>1. IsFiniteSet(pass.set)
            BY <1>1, Types, FS_Subset DEF PlanInv, Apart
          <6> QED
            BY <6>1, FS_CardinalityType
        <5>6. request[j].cpus \in Nat /\ request[j].mem \in Nat /\ request[j].gpus \in Nat
          BY <1>1, <1>2, Types
        <5> QED
          BY <2>2, <5>2, <5>4, <5>5, <5>6 DEF Blocked
      <4> QED
        BY <4>1, <4>2
    <3> QED
      BY <3>1, <3>2, <3>3
  <2> QED
    BY <2>1, <2>2
<1>18. ProtectedWaits'
  <2>1. CASE pass'.protected = pass.protected
    BY <1>1, <1>4, <1>5, <1>6, <2>1 DEF ProtectedWaits
  <2>2. CASE pass'.protected # pass.protected
    <3>1. Lacks(j) /\ pass'.protected = j /\ MayProtect(j)
      BY <1>4, <2>2 DEF Protected
    <3>2. state[j] = "QUEUED" /\ j \in aged
      BY <3>1 DEF Lacks, Eligible, MayProtect
    <3> QED
      BY <1>2, <1>4, <1>5, <1>6, <3>1, <3>2 DEF ProtectedWaits
  <2> QED
    BY <2>1, <2>2
<1> QED
  BY <1>4, <1>9, <1>10, <1>11, <1>12, <1>13, <1>17, <1>18 DEF PlanInv

(* Counted with j, a group has one member more if it is the group of j.    *)
LEMMA GroupGrows ==
    ASSUME NEW B, IsFiniteSet(B), NEW j, j \notin B, NEW p
    PROVE  Cardinality({k \in B \union {j} : Parent[k] = p}) =
              Cardinality({k \in B : Parent[k] = p}) + (IF Parent[j] = p THEN 1 ELSE 0)
<1> DEFINE G == {k \in B : Parent[k] = p}
<1>1. IsFiniteSet(G) /\ j \notin G
  BY FS_Subset
<1>2. Cardinality(G) \in Nat
  BY <1>1, FS_CardinalityType
<1>3. CASE Parent[j] = p
  <2>1. {k \in B \union {j} : Parent[k] = p} = G \union {j}
    BY <1>3
  <2>2. Cardinality(G \union {j}) = Cardinality(G) + 1
    BY <1>1, FS_AddElement
  <2> QED
    BY <1>3, <2>1, <2>2
<1>4. CASE Parent[j] # p
  <2>1. {k \in B \union {j} : Parent[k] = p} = G
    BY <1>4
  <2>2. Cardinality({k \in B \union {j} : Parent[k] = p}) = Cardinality(G)
    BY <2>1, Zenon
  <2> HIDE DEF G
  <2>3. Cardinality(G) = Cardinality(G) + (IF Parent[j] = p THEN 1 ELSE 0)
    BY <1>2, <1>4
  <2> QED
    BY <2>2, <2>3, Zenon DEF G
<1> QED
  BY <1>3, <1>4

(* A job that gets its allocation is charged for it in every account.      *)
LEMMA AllocationStep ==
    ASSUME IInv, pc = "plan", pass.todo # {}, NEW j \in pass.todo, Allocates(j),
           UNCHANGED <<records, held, pc, capacity>>
    PROVE  pass' \in Passes /\ PlanInv' /\ Exact' /\ PassedOver' /\ ProtectedWaits'
<1>1. /\ TypeInv /\ RecordInv /\ PlanInv /\ Exact /\ PassedOver /\ ProtectedWaits
      /\ pass \in Passes
  BY DEF IInv, TypeInv
<1>2. /\ j \in Jobs /\ state[j] = "QUEUED" /\ j \notin Chosen /\ j \notin pass.failed
      /\ j \notin ActiveJobs /\ j \notin Busy
  BY <1>1 DEF PlanInv, Partition, Passes, Allocates, Eligible, ActiveJobs, Active, Busy
<1>3. Protected(j) \in Jobs \union {NoJob}
  BY <1>1, <1>2 DEF Protected, Passes
<1>4. PICK g \in Picks(request[j].gpus, pass.gpus),
           c \in Picks(IF Affinity THEN request[j].cpus ELSE 0, pass.set) :
              pass' = Taken(j, g, c)
  BY DEF Allocates
<1> DEFINE a == [job |-> j, gpus |-> g, cpus |-> c]
           n == Len(pass.start)
<1>5. /\ g \in SUBSET pass.gpus /\ Cardinality(g) = request[j].gpus
      /\ c \in SUBSET pass.set /\ Cardinality(c) = IF Affinity THEN request[j].cpus ELSE 0
  BY DEF Picks
<1>6. Parent[j] \in Arrays \union {NoArray}
  BY <1>2, ArraysAssumption
<1>7. /\ request[j].cpus \in Nat /\ request[j].mem \in Nat /\ request[j].gpus \in Nat
      /\ pass.cpus \in Int /\ pass.mem \in Int
  BY <1>1, <1>2, Types DEF Passes
<1>8. a \in Allocation
  BY <1>1, <1>2, <1>5 DEF Passes, Allocation
<1>9. /\ pass' \in Passes
      /\ pass'.todo = pass.todo \ {j} /\ pass'.failed = pass.failed /\ pass'.usable = pass.usable
      /\ pass'.protected = IF Protected(j) = j THEN NoJob ELSE Protected(j)
      /\ pass'.cpus = pass.cpus - request[j].cpus /\ pass'.mem = pass.mem - request[j].mem
      /\ pass'.gpus = pass.gpus \ g /\ pass'.set = pass.set \ c
      /\ pass'.running = [pass.running EXCEPT ![Parent[j]] = @ + 1]
      /\ pass'.start = Append(pass.start, a)
  <2>1. Append(pass.start, a) \in Seq(Allocation)
    BY <1>1, <1>8 DEF Passes
  <2>2. [pass.running EXCEPT ![Parent[j]] = @ + 1] \in [Arrays \union {NoArray} -> Nat]
    BY <1>1, <1>6 DEF Passes
  <2> DEFINE w == Without(j)
             run == [pass.running EXCEPT ![Parent[j]] = @ + 1]
             start == Append(pass.start, a)
             kept == IF Protected(j) = j THEN NoJob ELSE Protected(j)
  <2>3. /\ w = [pass EXCEPT !.todo = pass.todo \ {j}]
        /\ w.running = pass.running /\ w.start = pass.start
        /\ w.cpus = pass.cpus /\ w.gpus = pass.gpus
    BY <1>1 DEF Without, Passes
  <2>4. pass' = [w EXCEPT !.cpus = pass.cpus - request[j].cpus, !.mem = pass.mem - request[j].mem,
                          !.gpus = pass.gpus \ g, !.set = pass.set \ c, !.running = run,
                          !.protected = kept, !.start = start]
    <3>1. pass' = [w EXCEPT !.cpus = w.cpus - request[j].cpus, !.mem = pass.mem - request[j].mem,
                            !.gpus = w.gpus \ g, !.set = pass.set \ c,
                            !.running[Parent[j]] = w.running[Parent[j]] + 1,
                            !.protected = kept, !.start = Append(w.start, a)]
      BY <1>4 DEF Taken, MemoryAfter, SetAfter
    <3> HIDE DEF w, kept, a
    <3> QED
      BY <2>3, <3>1
  <2> HIDE DEF a, w, run, start, kept
  <2>5. pass' = [todo |-> pass.todo \ {j}, usable |-> pass.usable, cpus |-> pass.cpus - request[j].cpus,
                 mem |-> pass.mem - request[j].mem, gpus |-> pass.gpus \ g, set |-> pass.set \ c,
                 running |-> run, protected |-> kept, start |-> start, failed |-> pass.failed]
    BY <1>1, <2>3, <2>4 DEF Passes
  <2>6. /\ pass.todo \ {j} \in SUBSET Jobs /\ pass.usable \in SUBSET Devices
        /\ pass.cpus - request[j].cpus \in Int /\ pass.mem - request[j].mem \in Int
        /\ pass.gpus \ g \in SUBSET Devices /\ pass.set \ c \in SUBSET CPUNumbers
        /\ run \in [Arrays \union {NoArray} -> Nat] /\ kept \in Jobs \union {NoJob}
        /\ start \in Seq(Allocation) /\ pass.failed \in SUBSET Jobs
    BY <1>1, <1>3, <1>5, <1>7, <2>1, <2>2 DEF Passes, run, start, kept
  <2>7. pass' \in Passes
    BY <2>5, <2>6 DEF Passes
  <2> QED
    BY <2>5, <2>7 DEF run, start, kept
<1>10. UNCHANGED <<state, before, aged, request, devices, cpuset, capacity>>
  OBVIOUS
<1>11. /\ n \in Nat /\ DOMAIN pass.start = 1..n /\ DOMAIN pass'.start = 1..(n + 1)
       /\ \A i \in 1..n : pass'.start[i] = pass.start[i]
       /\ pass'.start[n + 1] = a
  BY <1>1, <1>8, <1>9 DEF Passes
<1> HIDE DEF n
<1>12. \A i : i \in DOMAIN pass'.start <=> i \in DOMAIN pass.start \/ i = n + 1
  BY <1>11
<1>13. n + 1 \notin DOMAIN pass.start
  BY <1>11
<1>14. Chosen' = Chosen \union {j} /\ ActiveJobs' = ActiveJobs /\ Busy' = Busy \union {j}
  <2>1. Chosen' = Chosen \union {j}
    BY <1>11, <1>12 DEF Chosen
  <2> QED
    BY <1>10, <2>1 DEF ActiveJobs, Busy
<1>15. Allotted' = Allotted \union g
  <2>1. Range(pass'.start) = Range(pass.start) \union {a}
    BY <1>11, <1>12 DEF Range
  <2>2. a.gpus = g
    OBVIOUS
  <2> HIDE DEF a
  <2> QED
    BY <2>1, <2>2 DEF Allotted
<1>16. Busy \in SUBSET Jobs /\ j \in Jobs \ Busy /\ IsFiniteSet(Busy)
  <2>0. \A i \in DOMAIN pass.start : pass.start[i] \in Allocation
    BY <1>1 DEF Passes
  <2>1. Busy \in SUBSET Jobs
    BY <2>0 DEF Busy, ActiveJobs, Chosen, Allocation
  <2> QED
    BY <1>2, <2>1, JobsAssumption, FS_Subset
<1>17. /\ CPUsOf(Busy)' = CPUsOf(Busy) + request[j].cpus
       /\ MemoryOf(Busy)' = MemoryOf(Busy) + request[j].mem
       /\ CPUsOf(Busy) \in Nat /\ MemoryOf(Busy) \in Nat
  <2>1. CPUsOf(Busy)' = CPUsOf(Busy \union {j}) /\ MemoryOf(Busy)' = MemoryOf(Busy \union {j})
    BY <1>10, <1>14 DEF CPUsOf, MemoryOf
  <2> QED
    BY <1>1, <1>16, <2>1, Amounts
<1>18. \A p : Cardinality(Group(p))' = Cardinality(Group(p)) + (IF Parent[j] = p THEN 1 ELSE 0)
  BY <1>14, <1>16, GroupGrows DEF Group
<1>19. IsFiniteSet(pass.gpus) /\ IsFiniteSet(pass.set) /\ IsFiniteSet(c)
  BY <1>1, <1>5, Types, DevicesAssumption, FS_Subset DEF Passes, PlanInv, Apart
<1>20. Exact'
  <2>1. pass'.gpus = Left'
    <3>1. pass.gpus = pass.usable \ (InUse \union Allotted)
      BY <1>1 DEF Exact, Left
    <3>2. InUse' = InUse
      BY <1>10, <1>14 DEF InUse
    <3> QED
      BY <1>9, <1>15, <3>1, <3>2 DEF Left
  <2>2. \A p \in Arrays \union {NoArray} : pass'.running[p] = Cardinality(Group(p))'
    <3>1. \A p \in Arrays \union {NoArray} :
             pass'.running[p] = pass.running[p] + (IF Parent[j] = p THEN 1 ELSE 0)
      BY <1>1, <1>6, <1>9 DEF Passes
    <3> QED
      BY <1>1, <1>18, <3>1 DEF Exact
  <2>3. Affinity => pass'.cpus <= Cardinality(pass'.set)
    <3> SUFFICES ASSUME Affinity PROVE pass'.cpus <= Cardinality(pass'.set)
      OBVIOUS
    <3>1. pass.set \intersect c = c
      BY <1>5
    <3>a. Cardinality(pass.set \ c) = Cardinality(pass.set) - Cardinality(pass.set \intersect c)
      BY <1>19, FS_Difference
    <3>2. Cardinality(pass'.set) = Cardinality(pass.set) - request[j].cpus
      BY <1>5, <1>9, <3>1, <3>a
    <3>3. Cardinality(pass.set) \in Nat
      BY <1>19, FS_CardinalityType
    <3> QED
      BY <1>1, <1>7, <1>9, <3>2, <3>3 DEF Exact
  <2>4. capacity.cpus \in Nat /\ capacity.mem \in Nat
    BY <1>1, Types
  <2>5. pass'.cpus = capacity.cpus - CPUsOf(Busy)'
    BY <1>1, <1>7, <1>9, <1>17, <2>4 DEF Exact
  <2>6. pass'.mem = capacity.mem - MemoryOf(Busy)'
    BY <1>1, <1>7, <1>9, <1>17, <2>4 DEF Exact
  <2> QED
    BY <1>10, <2>1, <2>2, <2>3, <2>5, <2>6 DEF Exact
<1>21. request[j].cpus <= pass.cpus /\ request[j].mem <= pass.mem
  <2> DEFINE kept == IF Protected(j) \in {NoJob, j} THEN [cpus |-> 0, mem |-> 0, gpus |-> 0]
                     ELSE request[Protected(j)]
  <2>1. kept.cpus \in Nat /\ kept.mem \in Nat
    BY <1>1, <1>3, Types
  <2>2. request[j].cpus <= Spare(pass.cpus, kept.cpus) /\ request[j].mem <= Spare(pass.mem, kept.mem)
    BY DEF Allocates, Fits
  <2> HIDE DEF kept
  <2>3. /\ Spare(pass.cpus, kept.cpus) \in Int /\ Spare(pass.cpus, kept.cpus) <= pass.cpus
        /\ Spare(pass.mem, kept.mem) \in Int /\ Spare(pass.mem, kept.mem) <= pass.mem
    BY <1>7, <2>1, SpareBounds
  <2> QED
    BY <1>7, <2>2, <2>3
<1>22. Budget'
  <2>1. pass'.cpus \in Int /\ pass'.mem \in Int
    BY <1>9 DEF Passes
  <2> QED
    BY <1>7, <1>9, <1>20, <1>21, <2>1 DEF Exact, Budget
<1>23. Quota'
  <2> SUFFICES ASSUME NEW i \in Chosen \union {j}, Limit[Parent[i]] > 0
               PROVE  Cardinality(Group(Parent[i]))' <= Limit[Parent[i]]
    BY <1>14 DEF Quota
  <2>1. IsFiniteSet(Group(Parent[i]))
    BY <1>16, FS_Subset DEF Group
  <2>2. Cardinality(Group(Parent[i])) \in Nat
    BY <2>1, FS_CardinalityType
  <2>3. CASE Parent[i] = Parent[j]
    <3>1. pass.running[Parent[j]] < Limit[Parent[j]] /\ pass.running[Parent[j]] = Cardinality(Group(Parent[j]))
      BY <1>1, <1>6, <2>3 DEF Allocates, Eligible, Exact
    <3>2. Cardinality(Group(Parent[i]))' = Cardinality(Group(Parent[i])) + 1
      BY <1>18, <2>3
    <3>3. Limit[Parent[j]] \in Nat
      BY <1>6, ArraysAssumption
    <3> QED
      BY <2>2, <2>3, <3>1, <3>2, <3>3
  <2>4. CASE Parent[i] # Parent[j]
    <3>1. Cardinality(Group(Parent[i]))' = Cardinality(Group(Parent[i]))
      BY <1>18, <2>2, <2>4
    <3>2. Cardinality(Group(Parent[i])) <= Limit[Parent[i]]
      BY <1>1, <2>4 DEF PlanInv, Quota
    <3> QED
      BY <3>1, <3>2
  <2> QED
    BY <2>3, <2>4
<1>24. Apart'
  <2>1. Sizes(a)
    BY <1>5, <1>7, <1>19 DEF Sizes
  <2>2. a.gpus = g /\ a.cpus = c
    OBVIOUS
  <2> HIDE DEF a
  <2>3. \A b : Sizes(b)' <=> Sizes(b)
    BY <1>10 DEF Sizes
  <2>4. Apart
    BY <1>1 DEF PlanInv
  <2> DEFINE Unheld(b) == /\ Sizes(b)
                        /\ b.gpus \intersect pass'.gpus = {} /\ b.cpus \intersect pass'.set = {}
                        /\ \A k \in ActiveJobs : /\ b.gpus \intersect devices[k] = {}
                                                 /\ b.cpus \intersect cpuset[k] = {}
             Distinct(b, d) == b.gpus \intersect d.gpus = {} /\ b.cpus \intersect d.cpus = {}
  <2>5. Unheld(a)
    BY <1>5, <1>9, <2>1, <2>2, <2>4 DEF Apart
  <2>6. \A i \in DOMAIN pass.start : Unheld(pass.start[i]) /\ Distinct(pass.start[i], a) /\ Distinct(a, pass.start[i])
    BY <1>5, <1>9, <2>2, <2>4 DEF Apart
  <2>7. \A i, k \in DOMAIN pass.start : i # k => Distinct(pass.start[i], pass.start[k])
    BY <2>4 DEF Apart
  <2>8. /\ pass'.set \subseteq capacity.set
        /\ \A k \in ActiveJobs : devices[k] \intersect pass'.gpus = {} /\ cpuset[k] \intersect pass'.set = {}
    BY <1>9, <2>4 DEF Apart
  <2>9. \A i \in DOMAIN pass'.start : pass'.start[i] = IF i = n + 1 THEN a ELSE pass.start[i]
    BY <1>11, <1>12
  <2>10. \A i \in DOMAIN pass'.start : Unheld(pass'.start[i])
    BY <1>12, <2>5, <2>6, <2>9
  <2>11. \A i, k \in DOMAIN pass'.start : i # k => Distinct(pass'.start[i], pass'.start[k])
    BY <1>12, <2>6, <2>7, <2>9
  <2> QED
    BY <1>10, <1>14, <2>3, <2>8, <2>10, <2>11 DEF Apart
<1>25. Partition'
  <2>1. Partition
    BY <1>1 DEF PlanInv
  <2>2. \A i \in DOMAIN pass.start : pass.start[i].job \in Chosen
    BY DEF Chosen
  <2>3. \A i, k \in DOMAIN pass'.start : pass'.start[i].job = pass'.start[k].job => i = k
    BY <1>2, <1>11, <1>12, <2>1, <2>2 DEF Partition
  <2> QED
    BY <1>2, <1>9, <1>10, <1>14, <2>1, <2>3 DEF Partition
<1>26. Settled'
  <2>1. \A d \in Deps[j] : Done(d)
    BY <1>1, <1>2, DependencyMetDone DEF Allocates, Eligible
  <2> QED
    BY <1>1, <1>9, <1>10, <1>14, <2>1 DEF Settled, PlanInv, Done, Lost
<1>27. \A i : DependencyMet(i)' <=> DependencyMet(i)
  BY <1>10 DEF DependencyMet, StateOf, Aggregate, Children
<1>28. \A i \in Jobs : Blocked(i) => Blocked(i)'
  <2> SUFFICES ASSUME NEW i \in Jobs, Blocked(i) PROVE Blocked(i)'
    OBVIOUS
  <2>1. /\ Cardinality(pass'.gpus) <= Cardinality(pass.gpus) /\ Cardinality(pass'.set) <= Cardinality(pass.set)
        /\ Cardinality(pass'.gpus) \in Nat /\ Cardinality(pass.gpus) \in Nat
        /\ Cardinality(pass'.set) \in Nat /\ Cardinality(pass.set) \in Nat
    BY <1>9, <1>19, FS_Subset, FS_CardinalityType
  <2>2. Parent[i] \in Arrays \union {NoArray} /\ Limit[Parent[i]] \in Nat
    BY ArraysAssumption
  <2>3. pass.running[Parent[i]] \in Nat /\ pass'.running[Parent[i]] >= pass.running[Parent[i]] /\ pass'.running[Parent[i]] \in Nat
    BY <1>1, <1>6, <1>9, <2>2 DEF Passes
  <2>4. request[i].cpus \in Nat /\ request[i].mem \in Nat /\ request[i].gpus \in Nat
    BY <1>1, Types
  <2>5. pass'.cpus <= pass.cpus /\ pass'.mem <= pass.mem /\ pass'.cpus \in Int /\ pass'.mem \in Int
    BY <1>7, <1>9
  <2> QED
    BY <1>7, <1>10, <2>1, <2>2, <2>3, <2>4, <2>5 DEF Blocked
<1>29. pass'.protected \in {NoJob, pass.protected} /\ (pass.protected # NoJob => pass'.protected = pass.protected)
  BY <1>1, <1>9 DEF Protected, ProtectedWaits
<1>30. PassedOver'
  <2> SUFFICES ASSUME NEW i \in Jobs \ (pass'.todo \union Chosen'), state[i] = "QUEUED", DependencyMet(i)
               PROVE  pass'.protected \notin {NoJob, i} \/ Blocked(i)'
    BY <1>10, <1>27 DEF PassedOver
  <2>1. i \in Jobs \ (pass.todo \union Chosen)
    BY <1>9, <1>14
  <2> QED
    BY <1>1, <1>28, <1>29, <2>1 DEF PassedOver
<1>31. ProtectedWaits'
  BY <1>1, <1>9, <1>10, <1>14, <1>29 DEF ProtectedWaits
<1> QED
  BY <1>9, <1>20, <1>22, <1>23, <1>24, <1>25, <1>26, <1>30, <1>31 DEF PlanInv

(* One job of the line is considered.                                      *)
LEMMA ConsiderStep ==
    ASSUME IInv, Consider
    PROVE  /\ pc = "plan" /\ UNCHANGED <<records, held, pc, capacity>> /\ pass.todo # {}
           /\ pass'.usable = pass.usable
           /\ pass' \in Passes /\ PlanInv' /\ Exact' /\ PassedOver' /\ ProtectedWaits'
<1>1. PICK j \in Jobs : Considered(j)
  BY DEF Consider
<1>2. pc = "plan" /\ UNCHANGED <<records, held, pc, capacity>> /\ j \in pass.todo
  BY <1>1 DEF Consider, Considered, First
<1>3. pass'.usable = pass.usable
  <2>1. pass \in Passes
    BY DEF IInv, TypeInv
  <2> QED
    BY <1>1, <2>1 DEF Considered, Fails, Waits, Lacks, Allocates, Taken, Without, Passes
<1> QED
  BY <1>1, <1>2, <1>3, PassedOverStep, AllocationStep DEF Considered
-----------------------------------------------------------------------------
(* Carrying a plan out                                                     *)

(* The plan's first allocation, and the job it is for.                     *)
Foremost == Head(pass.start)
It == Foremost.job

LEMMA FirstAllocation ==
    ASSUME TypeInv, PlanInv, pass.start # <<>>
    PROVE  /\ 1 \in DOMAIN pass.start /\ Foremost = pass.start[1] /\ Foremost \in Allocation
           /\ It \in Jobs /\ It \in Chosen /\ state[It] = "QUEUED" /\ It \notin ActiveJobs
           /\ \A d \in Deps[It] : Done(d)
           /\ Chosen \in SUBSET Jobs /\ Busy \in SUBSET Jobs /\ IsFiniteSet(Busy)
<1>1. pass.start \in Seq(Allocation)
  BY DEF TypeInv, Passes
<1>2. 1 \in DOMAIN pass.start /\ Foremost = pass.start[1] /\ Foremost \in Allocation
  BY <1>1 DEF Foremost
<1>3. It \in Jobs /\ It \in Chosen
  BY <1>2 DEF It, Allocation, Chosen
<1>4. state[It] = "QUEUED" /\ It \notin ActiveJobs
  BY <1>3 DEF PlanInv, Partition, ActiveJobs, Active
<1>5. \A d \in Deps[It] : Done(d)
  BY <1>3 DEF PlanInv, Settled
<1>a. \A i \in DOMAIN pass.start : pass.start[i] \in Allocation
  BY <1>1
<1>6. Chosen \in SUBSET Jobs
  BY <1>a DEF Chosen, Allocation
<1>7. Busy \in SUBSET Jobs /\ IsFiniteSet(Busy)
  BY <1>6, Types, JobsAssumption, FS_Subset DEF Busy
<1> QED
  BY <1>2, <1>3, <1>4, <1>5, <1>6, <1>7

(* What the plan gives is there: Decide and Reserve agree.                 *)
LEMMA NextAdmitted ==
    ASSUME TypeInv, PlanInv, pass.start # <<>>
    PROVE  Admitted(Foremost)
<1>1. /\ 1 \in DOMAIN pass.start /\ Foremost = pass.start[1] /\ Foremost \in Allocation
      /\ It \in Jobs /\ It \in Chosen /\ state[It] = "QUEUED" /\ It \notin ActiveJobs
      /\ Busy \in SUBSET Jobs /\ IsFiniteSet(Busy)
  BY FirstAllocation
<1>2. /\ Cardinality(Foremost.gpus) = request[It].gpus
      /\ \A k \in ActiveJobs : devices[k] \intersect Foremost.gpus = {}
  BY <1>1 DEF PlanInv, Apart, Sizes, It
<1>3. ActiveJobs \union {It} \in SUBSET Busy /\ ActiveJobs \in SUBSET Jobs
  BY <1>1, Types DEF Busy
<1>4. /\ CPUsOf(ActiveJobs \union {It}) = CPUsOf(ActiveJobs) + request[It].cpus
      /\ MemoryOf(ActiveJobs \union {It}) = MemoryOf(ActiveJobs) + request[It].mem
      /\ CPUsOf(ActiveJobs) \in Nat /\ MemoryOf(ActiveJobs) \in Nat
  BY <1>1, <1>3, Amounts
<1>5. /\ CPUsOf(ActiveJobs \union {It}) <= CPUsOf(Busy) /\ CPUsOf(Busy) \in Nat
      /\ MemoryOf(ActiveJobs \union {It}) <= MemoryOf(Busy) /\ MemoryOf(Busy) \in Nat
  BY <1>1, <1>3, Amounts
<1>6. /\ pass.cpus <= capacity.cpus - CPUsOf(Busy) /\ pass.cpus >= 0 /\ pass.cpus \in Int
      /\ pass.mem <= capacity.mem - MemoryOf(Busy) /\ pass.mem >= 0 /\ pass.mem \in Int
  BY DEF PlanInv, Budget, TypeInv, Passes
<1>7. request[It].cpus \in Nat /\ request[It].mem \in Nat /\ capacity.cpus \in Nat /\ capacity.mem \in Nat
  BY <1>1, Types
<1>8. /\ request[It].cpus <= capacity.cpus - CPUsOf(ActiveJobs)
      /\ request[It].mem <= capacity.mem - MemoryOf(ActiveJobs)
  <2>1. \A m, u, w, x, p \in Int : m + w <= u /\ p <= x - u /\ p >= 0 => w <= x - m
    OBVIOUS
  <2>2. CPUsOf(ActiveJobs) + request[It].cpus <= CPUsOf(Busy)
    BY <1>4, <1>5
  <2>3. MemoryOf(ActiveJobs) + request[It].mem <= MemoryOf(Busy)
    BY <1>4, <1>5
  <2>4. request[It].cpus <= capacity.cpus - CPUsOf(ActiveJobs)
    BY <1>4, <1>5, <1>6, <1>7, <2>1, <2>2
  <2> QED
    BY <1>4, <1>5, <1>6, <1>7, <2>1, <2>3, <2>4
<1>9. ASSUME Limit[Parent[It]] > 0 PROVE RunningOf(Parent[It]) < Limit[Parent[It]]
  <2> DEFINE R == {k \in ActiveJobs : Parent[k] = Parent[It]}
  <2>1. IsFiniteSet(R) /\ IsFiniteSet(Group(Parent[It]))
    BY <1>1, Types, FS_Subset DEF Group
  <2>2. R \union {It} \in SUBSET Group(Parent[It]) /\ It \notin R
    BY <1>1 DEF Group, Busy
  <2>3. /\ Cardinality(R \union {It}) = Cardinality(R) + 1
        /\ Cardinality(R \union {It}) <= Cardinality(Group(Parent[It]))
        /\ Cardinality(R) \in Nat /\ Cardinality(Group(Parent[It])) \in Nat
    BY <2>1, <2>2, FS_AddElement, FS_Subset, FS_CardinalityType
  <2>4. Cardinality(Group(Parent[It])) <= Limit[Parent[It]]
    BY <1>1, <1>9 DEF PlanInv, Quota
  <2>5. Limit[Parent[It]] \in Nat
    BY <1>1, ArraysAssumption
  <2>6. RunningOf(Parent[It]) = Cardinality(R)
    BY DEF RunningOf
  <2> HIDE DEF R
  <2> QED
    BY <2>3, <2>4, <2>5, <2>6
<1> QED
  BY <1>1, <1>2, <1>8, <1>9 DEF Admitted, It

(* A plan that has lost its first allocation is as good for the rest,      *)
(* whether the job was skipped, could not be launched, or got it.          *)
LEMMA PlanAdvances ==
    ASSUME TypeInv, PlanInv, Executing,
           pass' = [pass EXCEPT !.start = Tail(@)],
           UNCHANGED <<request, capacity>>,
           \A j \in Jobs \ {It} : state'[j] = state[j] /\ devices'[j] = devices[j] /\ cpuset'[j] = cpuset[j],
           It \in ActiveJobs' => devices'[It] = Foremost.gpus /\ cpuset'[It] = Foremost.cpus
    PROVE  pass' \in Passes /\ PlanInv'
<1> DEFINE n == Len(pass.start)
<1>1. /\ 1 \in DOMAIN pass.start /\ Foremost = pass.start[1] /\ Foremost \in Allocation
      /\ It \in Jobs /\ It \in Chosen /\ state[It] = "QUEUED" /\ It \notin ActiveJobs
      /\ Chosen \in SUBSET Jobs /\ Busy \in SUBSET Jobs /\ IsFiniteSet(Busy)
  BY FirstAllocation DEF Executing
<1>2. pass \in Passes /\ pass.start \in Seq(Allocation) /\ pass.start # <<>>
  BY DEF TypeInv, Passes, Executing
<1>3. Tail(pass.start) \in Seq(Allocation)
  BY <1>2
<1>4. /\ pass' \in Passes /\ pass'.start = Tail(pass.start)
      /\ pass'.todo = {} /\ pass'.failed = {}
      /\ pass'.cpus = pass.cpus /\ pass'.mem = pass.mem /\ pass'.gpus = pass.gpus /\ pass'.set = pass.set
  BY <1>2, <1>3 DEF Passes, Executing, Planned
<1>5. /\ n \in Nat /\ n > 0 /\ DOMAIN pass.start = 1..n /\ DOMAIN pass'.start = 1..(n - 1)
      /\ \A i \in 1..(n - 1) : pass'.start[i] = pass.start[i + 1]
  BY <1>2, <1>4
<1> HIDE DEF n
<1>6. \A i \in DOMAIN pass'.start : i + 1 \in DOMAIN pass.start /\ pass'.start[i] = pass.start[i + 1] /\ i + 1 # 1
  BY <1>5
<1>7. Chosen' = Chosen \ {It}
  <2>1. \A i \in DOMAIN pass.start : pass.start[i].job = It => i = 1
    BY <1>1 DEF PlanInv, Partition, It
  <2>2. \A i \in DOMAIN pass.start : i # 1 => i - 1 \in DOMAIN pass'.start /\ pass'.start[i - 1] = pass.start[i]
    BY <1>5
  <2> QED
    BY <1>1, <1>6, <2>1, <2>2 DEF Chosen, It
<1>8. \A k \in ActiveJobs' : k = It \/ k \in ActiveJobs
  BY DEF ActiveJobs
<1>9. Busy' \in SUBSET Busy
  BY <1>1, <1>7, <1>8 DEF Busy
<1>10. CPUsOf(Busy)' <= CPUsOf(Busy) /\ MemoryOf(Busy)' <= MemoryOf(Busy)
  <2>1. CPUsOf(Busy)' = CPUsOf(Busy') /\ MemoryOf(Busy)' = MemoryOf(Busy')
    BY DEF CPUsOf, MemoryOf
  <2> QED
    BY <1>1, <1>9, <2>1, Amounts
<1>11. Budget'
  <2>1. /\ CPUsOf(Busy) \in Nat /\ MemoryOf(Busy) \in Nat /\ CPUsOf(Busy') \in Nat /\ MemoryOf(Busy') \in Nat
    <3>1. Busy' \in SUBSET Jobs
      BY <1>1, <1>9
    <3> QED
      BY <1>1, <3>1, Amounts
  <2>2. CPUsOf(Busy)' \in Nat /\ MemoryOf(Busy)' \in Nat
    BY <2>1 DEF CPUsOf, MemoryOf
  <2>3. capacity.cpus \in Nat /\ capacity.mem \in Nat /\ pass.cpus \in Int /\ pass.mem \in Int
    BY <1>2, Types DEF Passes
  <2>4. /\ pass.cpus <= capacity.cpus - CPUsOf(Busy) /\ pass.cpus >= 0
        /\ pass.mem <= capacity.mem - MemoryOf(Busy) /\ pass.mem >= 0
    BY <1>2 DEF PlanInv, Budget
  <2>5. pass.cpus <= capacity.cpus - CPUsOf(Busy)' /\ pass.mem <= capacity.mem - MemoryOf(Busy)'
    BY <1>10, <2>1, <2>2, <2>3, <2>4
  <2> QED
    BY <1>4, <2>4, <2>5 DEF Budget
<1>12. Quota'
  <2> SUFFICES ASSUME NEW j \in Chosen', Limit[Parent[j]] > 0
               PROVE  Cardinality(Group(Parent[j]))' <= Limit[Parent[j]]
    BY DEF Quota
  <2>1. Group(Parent[j])' \in SUBSET Group(Parent[j])
    BY <1>9 DEF Group
  <2>2. IsFiniteSet(Group(Parent[j]))
    BY <1>1, FS_Subset DEF Group
  <2>3. /\ Cardinality(Group(Parent[j])') <= Cardinality(Group(Parent[j]))
        /\ Cardinality(Group(Parent[j])') \in Nat /\ Cardinality(Group(Parent[j])) \in Nat
    BY <2>1, <2>2, FS_Subset, FS_CardinalityType
  <2>4. Cardinality(Group(Parent[j])) <= Limit[Parent[j]] /\ Limit[Parent[j]] \in Nat
    BY <1>1, <1>7, ArraysAssumption DEF PlanInv, Quota
  <2> QED
    BY <2>3, <2>4
<1>13. Apart'
  <2>1. Apart
    BY DEF PlanInv
  <2>2. \A b : Sizes(b)' <=> Sizes(b)
    BY DEF Sizes
  <2> DEFINE Unheld(b) == /\ Sizes(b)
                        /\ b.gpus \intersect pass.gpus = {} /\ b.cpus \intersect pass.set = {}
                        /\ \A k \in ActiveJobs : /\ b.gpus \intersect devices[k] = {}
                                                 /\ b.cpus \intersect cpuset[k] = {}
             Distinct(b, d) == b.gpus \intersect d.gpus = {} /\ b.cpus \intersect d.cpus = {}
  <2>3. \A i \in DOMAIN pass.start : Unheld(pass.start[i])
    BY <2>1 DEF Apart
  <2>4. \A i, k \in DOMAIN pass.start : i # k => Distinct(pass.start[i], pass.start[k])
    BY <2>1 DEF Apart
  <2>5. \A i \in DOMAIN pass'.start : Unheld(pass'.start[i]) /\ Distinct(pass'.start[i], Foremost)
    BY <1>1, <1>6, <2>3, <2>4
  <2>6. \A i, k \in DOMAIN pass'.start : i # k => Distinct(pass'.start[i], pass'.start[k])
    <3> SUFFICES ASSUME NEW i \in DOMAIN pass'.start, NEW k \in DOMAIN pass'.start, i # k
                 PROVE  Distinct(pass'.start[i], pass'.start[k])
      OBVIOUS
    <3>1. i + 1 # k + 1
      BY <1>5
    <3> HIDE DEF Distinct
    <3> QED
      BY <1>6, <2>4, <3>1
  <2>7. ASSUME NEW k \in ActiveJobs'
        PROVE  \/ k = It /\ devices'[k] = Foremost.gpus /\ cpuset'[k] = Foremost.cpus
               \/ k \in ActiveJobs /\ devices'[k] = devices[k] /\ cpuset'[k] = cpuset[k]
    BY <1>8 DEF ActiveJobs
  <2>8. Unheld(Foremost)
    BY <1>1, <2>3
  <2>9. \A k \in ActiveJobs' : devices'[k] \intersect pass'.gpus = {} /\ cpuset'[k] \intersect pass'.set = {}
    BY <1>4, <2>1, <2>7, <2>8 DEF Apart
  <2>10. ASSUME NEW i \in DOMAIN pass'.start
         PROVE  /\ Sizes(pass'.start[i])
                /\ pass'.start[i].gpus \intersect pass'.gpus = {} /\ pass'.start[i].cpus \intersect pass'.set = {}
                /\ \A k \in ActiveJobs' : /\ pass'.start[i].gpus \intersect devices'[k] = {}
                                          /\ pass'.start[i].cpus \intersect cpuset'[k] = {}
    BY <1>4, <2>5, <2>7
  <2>11. pass'.set \subseteq capacity'.set
    BY <1>4, <2>1 DEF Apart
  <2> DEFINE Sound(b) == /\ b.gpus \intersect pass'.gpus = {} /\ b.cpus \intersect pass'.set = {}
                         /\ \A k \in ActiveJobs' : /\ b.gpus \intersect devices'[k] = {}
                                                   /\ b.cpus \intersect cpuset'[k] = {}
  <2>12. \A i \in DOMAIN pass'.start : Sizes(pass'.start[i]) /\ Sound(pass'.start[i])
    BY <2>10
  <2> QED
    BY <2>2, <2>6, <2>9, <2>11, <2>12 DEF Apart
<1>14. Partition'
  <2>1. \A j \in Chosen' : state'[j] = "QUEUED"
    BY <1>1, <1>7 DEF PlanInv, Partition
  <2>2. \A i, k \in DOMAIN pass'.start : pass'.start[i].job = pass'.start[k].job => i = k
    <3> SUFFICES ASSUME NEW i \in DOMAIN pass'.start, NEW k \in DOMAIN pass'.start,
                        pass'.start[i].job = pass'.start[k].job
                 PROVE  i = k
      OBVIOUS
    <3>1. i + 1 = k + 1
      BY <1>6 DEF PlanInv, Partition
    <3> QED
      BY <1>5, <3>1
  <2> QED
    BY <1>4, <2>1, <2>2 DEF Partition
<1>15. Settled'
  <2>1. \A j \in Chosen : \A d \in Deps[j] : \A k \in Members(d) : state[k] = "COMPLETED"
    BY DEF PlanInv, Settled, Done
  <2>2. \A j \in Chosen : \A d \in Deps[j] : Members(d) \subseteq Jobs
    BY <1>1, ArraysAssumption DEF Members
  <2>3. \A k \in Jobs : state[k] = "COMPLETED" => state'[k] = "COMPLETED"
    BY <1>1
  <2> QED
    BY <1>4, <1>7, <2>1, <2>2, <2>3 DEF Settled, Done
<1> QED
  BY <1>4, <1>11, <1>12, <1>13, <1>14, <1>15 DEF PlanInv


(* What is over stays over.                                                *)
LEMMA DoneStays ==
    ASSUME \A k \in Jobs : state[k] \in Terminal => state'[k] = state[k],
           NEW j \in Jobs, NEW d \in Deps[j]
    PROVE  (Done(d) => Done(d)') /\ (Lost(d) => Lost(d)')
<1>1. Members(d) \subseteq Jobs /\ Members(d)' = Members(d)
  BY ArraysAssumption DEF Members
<1> QED
  BY <1>1 DEF Done, Lost, Terminal

(* A job whose dependency is lost ends, and leaves the plan as it was.     *)
LEMMA FailDependentStep ==
    ASSUME IInv, NEW j \in Jobs, FailDependent(j)
    PROVE  /\ RecordsOK' /\ Onward /\ pc' = "plan" /\ pass' \in Passes /\ PlanInv' /\ pass'.todo = {}
           /\ \E d \in Deps[j] : Lost(d)
<1>1. TypeInv /\ RecordInv /\ PlanInv /\ RecordsOK /\ pass \in Passes /\ pc = "plan"
  BY TypeInvRecords DEF IInv, TypeInv, FailDependent, Planned
<1>2. /\ pass' = [pass EXCEPT !.failed = @ \ {j}] /\ state' = [state EXCEPT ![j] = "FAILED"] /\ Leave({j})
      /\ UNCHANGED <<request, tried, held, pc, capacity, fresh, crashes>>
      /\ j \in pass.failed /\ pass.todo = {}
  BY DEF FailDependent, Planned
<1>3. state[j] \in Waiting /\ j \notin Chosen /\ \E d \in Deps[j] : Lost(d)
  BY <1>1, <1>2 DEF PlanInv, Partition, Settled
<1>4. state \in [Jobs -> States]
  BY <1>1 DEF RecordsOK
<1>5. /\ pass' \in Passes /\ pass'.failed = pass.failed \ {j} /\ pass'.todo = {} /\ pass'.start = pass.start
      /\ pass'.cpus = pass.cpus /\ pass'.mem = pass.mem /\ pass'.gpus = pass.gpus /\ pass'.set = pass.set
  BY <1>1, <1>2 DEF Passes
<1>6. Line' = Line \ {j} /\ ActiveJobs' = ActiveJobs /\ state' \in [Jobs -> States] /\ j \notin ActiveJobs
  BY <1>2, <1>3, <1>4 DEF Line, ActiveJobs, Waiting, Active, Terminal, States
<1>7. LineOK'
  BY <1>1, <1>2, <1>6, LineLeft DEF RecordsOK
<1>8. RecordsOK'
  BY <1>1, <1>2, <1>6, <1>7 DEF RecordsOK
<1>9. Onward
  BY <1>2, <1>3, <1>4, <1>6 DEF Onward, Waiting
<1>10. Chosen' = Chosen /\ Busy' = Busy
  BY <1>5, <1>6 DEF Chosen, Busy
<1>11. CPUsOf(Busy)' = CPUsOf(Busy) /\ MemoryOf(Busy)' = MemoryOf(Busy)
  BY <1>2, <1>10 DEF CPUsOf, MemoryOf
<1>12. \A p : Group(p)' = Group(p)
  BY <1>10 DEF Group
<1>13. Budget' /\ Quota'
  BY <1>1, <1>2, <1>5, <1>10, <1>11, <1>12 DEF PlanInv, Budget, Quota
<1>14. Apart'
  <2>1. \A b : Sizes(b)' <=> Sizes(b)
    BY <1>2 DEF Sizes
  <2> QED
    BY <1>1, <1>2, <1>5, <1>6, <2>1 DEF PlanInv, Apart
<1>15. Partition'
  BY <1>1, <1>2, <1>3, <1>4, <1>5, <1>10 DEF PlanInv, Partition, Passes
<1>16. Settled'
  <2>1. \A k \in Jobs : state[k] \in Terminal => state'[k] = state[k]
    BY <1>2, <1>3, <1>4 DEF Waiting, Terminal
  <2>2. \A i \in DOMAIN pass.start : pass.start[i] \in Allocation
    BY <1>1 DEF Passes
  <2>3. Chosen \subseteq Jobs /\ pass.failed \subseteq Jobs
    BY <1>1, <2>2 DEF Passes, Chosen, Allocation
  <2>4. \A i \in Chosen : \A d \in Deps[i] : Done(d)'
    BY <1>1, <2>1, <2>3, DoneStays DEF PlanInv, Settled
  <2>5. \A i \in pass.failed : \E d \in Deps[i] : Lost(d)'
    BY <1>1, <2>1, <2>3, DoneStays DEF PlanInv, Settled
  <2> QED
    BY <1>5, <1>10, <2>4, <2>5 DEF Settled
<1> QED
  BY <1>2, <1>1, <1>3, <1>5, <1>8, <1>9, <1>13, <1>14, <1>15, <1>16 DEF PlanInv

(* What Reserve does, given that nothing it is asked for is refused.       *)
LEMMA ReserveAdmits ==
    ASSUME IInv, NEW launched, Reserve(launched)
    PROVE  /\ TypeInv /\ RecordInv /\ PlanInv /\ Executing /\ Admitted(Foremost)
           /\ pass' = [pass EXCEPT !.start = Tail(@)]
           /\ fresh' = (fresh /\ launched /\ Foremost.gpus = {})
           /\ tried' = tried \union {It}
           /\ IF launched
              THEN /\ state' = [state EXCEPT ![It] = "STARTING"]
                   /\ devices' = [devices EXCEPT ![It] = Foremost.gpus]
                   /\ cpuset' = [cpuset EXCEPT ![It] = Foremost.cpus]
                   /\ UNCHANGED <<before, aged>>
              ELSE /\ state' = [state EXCEPT ![It] = "FAILED"]
                   /\ Leave({It}) /\ UNCHANGED held
           /\ UNCHANGED <<request, pc, capacity, crashes>>
<1>1. Executing /\ pc = "plan" /\ pass.start # <<>>
  BY DEF Reserve, Executing, Planned
<1>2. TypeInv /\ RecordInv /\ PlanInv
  BY <1>1 DEF IInv
<1>3. Admitted(Head(pass.start))
  BY <1>1, <1>2, NextAdmitted DEF Foremost
<1> QED
  BY <1>1, <1>2, <1>3 DEF Reserve, Foremost, It

LEMMA ReserveStep ==
    ASSUME IInv, NEW launched \in BOOLEAN, Reserve(launched)
    PROVE  RecordsOK' /\ RecordInv' /\ pc' = "plan" /\ pass' \in Passes /\ PlanInv' /\ pass'.todo = {}
<1>1. /\ TypeInv /\ RecordInv /\ PlanInv /\ Executing /\ RecordsOK /\ pc = "plan" /\ pass.start # <<>>
      /\ pass.todo = {}
  BY ReserveAdmits, TypeInvRecords DEF Executing, Planned
<1>2. /\ pass' = [pass EXCEPT !.start = Tail(@)]
      /\ fresh' = (fresh /\ launched /\ Foremost.gpus = {})
      /\ tried' = tried \union {It}
      /\ UNCHANGED <<request, pc, capacity, crashes>>
  BY ReserveAdmits
<1>3. /\ 1 \in DOMAIN pass.start /\ Foremost = pass.start[1] /\ Foremost \in Allocation
      /\ It \in Jobs /\ It \in Chosen /\ state[It] = "QUEUED" /\ It \notin ActiveJobs
      /\ \A d \in Deps[It] : Done(d)
  BY <1>1, FirstAllocation
<1>4. state \in [Jobs -> States] /\ devices \in [Jobs -> SUBSET Devices] /\ cpuset \in [Jobs -> SUBSET CPUNumbers]
  BY <1>1 DEF RecordsOK
<1>5. pass'.todo = {}
  BY <1>1, <1>2 DEF TypeInv, Passes
<1>6. fresh' \in BOOLEAN
  BY <1>1, <1>2 DEF RecordsOK
<1>7. tried' \subseteq Jobs
  BY <1>1, <1>2, <1>3 DEF RecordsOK
<1>8. CASE launched
  <2>1. /\ state' = [state EXCEPT ![It] = "STARTING"]
        /\ devices' = [devices EXCEPT ![It] = Foremost.gpus]
        /\ cpuset' = [cpuset EXCEPT ![It] = Foremost.cpus]
        /\ UNCHANGED <<before, aged>>
    BY <1>8, ReserveAdmits
  <2>2. /\ Line' = Line /\ ActiveJobs' = ActiveJobs \union {It} /\ state' \in [Jobs -> States]
    BY <1>3, <1>4, <2>1 DEF Line, ActiveJobs, Waiting, Active, States
  <2>3. LineOK'
    BY <1>1, <2>1, <2>2, LineStays DEF RecordsOK, LineOK
  <2>4. Foremost.gpus \in SUBSET Devices /\ Foremost.cpus \in SUBSET CPUNumbers
    BY <1>3 DEF Allocation
  <2>5. RecordsOK'
    <3>1. devices' \in [Jobs -> SUBSET Devices] /\ cpuset' \in [Jobs -> SUBSET CPUNumbers]
      BY <1>4, <2>1, <2>4
    <3>2. \A j \in Jobs \ ActiveJobs' : devices'[j] = {} /\ cpuset'[j] = {}
      BY <1>1, <1>4, <2>1, <2>2 DEF RecordsOK
    <3> QED
      BY <1>1, <1>2, <1>6, <1>7, <2>2, <2>3, <3>1, <3>2 DEF RecordsOK
  <2>6. pass' \in Passes /\ PlanInv'
    <3>1. \A j \in Jobs \ {It} : state'[j] = state[j] /\ devices'[j] = devices[j] /\ cpuset'[j] = cpuset[j]
      BY <1>4, <2>1
    <3>2. devices'[It] = Foremost.gpus /\ cpuset'[It] = Foremost.cpus
      BY <1>3, <1>4, <2>1
    <3> QED
      BY <1>1, <1>2, <3>1, <3>2, PlanAdvances
  <2>7. RecordInv'
    <3>1. \A j \in Jobs : /\ state'[j] = "none" <=> state[j] = "none"
                          /\ state[j] = "COMPLETED" => state'[j] = "COMPLETED"
      BY <1>3, <1>4, <2>1
    <3>2. \A j \in Jobs : \A d \in Deps[j] : Members(d) \subseteq Jobs /\ Members(d)' = Members(d)
      BY ArraysAssumption DEF Members
    <3>3. SubmittedTogether'
      BY <1>1, <3>1 DEF RecordInv, SubmittedTogether
    <3>4. DependenciesExist'
      BY <1>1, <3>1, <3>2 DEF RecordInv, DependenciesExist
    <3>5. ASSUME NEW j \in ActiveJobs'
          PROVE  \/ j = It /\ cpuset'[j] = Foremost.cpus
                 \/ j \in ActiveJobs /\ j # It /\ cpuset'[j] = cpuset[j]
      BY <1>3, <1>4, <2>1, <2>2 DEF ActiveJobs
    <3>6. Apart /\ Sizes(Foremost)
      BY <1>1, <1>3 DEF PlanInv, Apart
    <3>7. AssignedAsAsked'
      <4>1. IsFiniteSet(Foremost.cpus) /\ Cardinality(Foremost.cpus) <= request[It].cpus
        BY <3>6 DEF Sizes, It
      <4> QED
        BY <1>1, <1>2, <3>5, <4>1 DEF RecordInv, AssignedAsAsked
    <3>8. CPUsExclusive'
      <4>1. \A k \in ActiveJobs : Foremost.cpus \intersect cpuset[k] = {}
        BY <1>3, <3>6 DEF Apart
      <4> QED
        BY <1>1, <3>5, <4>1 DEF RecordInv, CPUsExclusive
    <3>9. DependenciesRespected'
      <4> SUFFICES ASSUME NEW j \in ActiveJobs', NEW d \in Deps[j], NEW k \in Members(d)
                   PROVE  state'[k] = "COMPLETED"
        BY DEF DependenciesRespected, Members
      <4>1. j \in Jobs /\ (j = It \/ j \in ActiveJobs)
        BY <1>3, <2>2 DEF ActiveJobs
      <4>2. state[k] = "COMPLETED"
        BY <1>1, <1>3, <4>1 DEF RecordInv, DependenciesRespected, Done
      <4> QED
        BY <3>1, <3>2, <4>1, <4>2
    <3> QED
      BY <3>3, <3>4, <3>7, <3>8, <3>9 DEF RecordInv
  <2> QED
    BY <1>1, <1>2, <1>5, <2>5, <2>6, <2>7
<1>9. CASE ~launched
  <2>1. state' = [state EXCEPT ![It] = "FAILED"] /\ Leave({It}) /\ UNCHANGED held
    BY <1>9, ReserveAdmits
  <2>2. Line' = Line \ {It} /\ ActiveJobs' = ActiveJobs /\ state' \in [Jobs -> States]
    BY <1>3, <1>4, <2>1 DEF Line, ActiveJobs, Waiting, Active, Terminal, States
  <2>3. LineOK'
    BY <1>1, <2>1, <2>2, LineLeft DEF RecordsOK
  <2>4. RecordsOK'
    BY <1>1, <1>2, <1>6, <1>7, <2>1, <2>2, <2>3 DEF RecordsOK
  <2>5. Onward
    BY <1>2, <1>3, <1>4, <2>1, <2>2 DEF Onward
  <2>6. RecordInv'
    BY <1>1, <2>5, RecordInvOnward
  <2>7. pass' \in Passes /\ PlanInv'
    <3>1. \A j \in Jobs \ {It} : state'[j] = state[j] /\ devices'[j] = devices[j] /\ cpuset'[j] = cpuset[j]
      BY <1>4, <2>1
    <3>2. It \notin ActiveJobs'
      BY <1>3, <2>2
    <3> QED
      BY <1>1, <1>2, <3>1, <3>2, PlanAdvances
  <2> QED
    BY <1>1, <1>2, <1>5, <2>4, <2>6, <2>7
<1> QED
  BY <1>8, <1>9

(* An allocation that is too old to be trusted is given up.                *)
LEMMA SkipStep ==
    ASSUME IInv, Skip
    PROVE  pc' = "plan" /\ pass' \in Passes /\ PlanInv' /\ pass'.todo = {}
<1>1. TypeInv /\ PlanInv /\ Executing /\ pc = "plan" /\ pass.todo = {}
  BY DEF Skip, Executing, Planned, IInv
<1>2. pass' = [pass EXCEPT !.start = Tail(@)] /\ UNCHANGED <<records, held, pc, capacity, fresh, crashes>>
  BY DEF Skip
<1>3. It \notin ActiveJobs'
  <2>1. It \notin ActiveJobs
    BY <1>1, FirstAllocation DEF Executing
  <2> QED
    BY <1>2, <2>1 DEF ActiveJobs
<1>4. pass' \in Passes /\ PlanInv'
  BY <1>1, <1>2, <1>3, PlanAdvances
<1> QED
  BY <1>1, <1>2, <1>4 DEF TypeInv, Passes

-----------------------------------------------------------------------------
(* The invariant                                                           *)

(* A step with no plan after it; a step with one.                          *)
LEMMA WithoutPlan ==
    ASSUME RecordsOK', RecordInv', pc' \in {"down", "wait"}, pass' = Idle
    PROVE  IInv'
<1>1. Idle' = Idle
  BY DEF Idle
<1>2. TypeInv'
  BY <1>1, TypeInvIdleNext
<1> QED
  BY <1>2 DEF IInv

LEMMA WithPlan ==
    ASSUME RecordsOK', RecordInv', pc' = "plan", pass' \in Passes, PlanInv',
           pass'.todo # {} => Exact' /\ PassedOver' /\ ProtectedWaits'
    PROVE  IInv'
<1>1. TypeInv'
  BY TypeInvPlanNext DEF PlanInv, Passes, Allocation, CPUNumbers
<1> QED
  BY <1>1 DEF IInv

LEMMA Stutter == IInv /\ UNCHANGED vars => IInv'
<1> SUFFICES ASSUME IInv, UNCHANGED vars PROVE IInv'
  OBVIOUS
<1> USE DEF vars
<1>1. ActiveJobs' = ActiveJobs /\ Line' = Line /\ Chosen' = Chosen /\ Busy' = Busy /\ Left' = Left
  BY DEF ActiveJobs, Line, Chosen, Busy, Left, InUse, Allotted
<1>2. TypeInv'
  BY <1>1 DEF IInv, TypeInv, TypeOK, InOrder, Idle
<1>3. RecordInv'
  BY <1>1 DEF IInv, RecordInv, SubmittedTogether, DependenciesExist, AssignedAsAsked, CPUsExclusive,
     DependenciesRespected, Members
<1>4. /\ CPUsOf(Busy)' = CPUsOf(Busy) /\ MemoryOf(Busy)' = MemoryOf(Busy)
      /\ \A p : Group(p)' = Group(p)
      /\ \A b : Sizes(b)' <=> Sizes(b)
      /\ \A d : (Done(d)' <=> Done(d)) /\ (Lost(d)' <=> Lost(d))
      /\ \A j : (DependencyMet(j)' <=> DependencyMet(j)) /\ (Blocked(j)' <=> Blocked(j))
  BY <1>1 DEF CPUsOf, MemoryOf, Group, Sizes, Done, Lost, DependencyMet, StateOf, Aggregate, Children,
     Blocked, Members
<1>5. pc = "plan" => PlanInv'
  BY <1>1, <1>4 DEF IInv, PlanInv, Partition, Budget, Quota, Apart, Settled
<1>6. pc = "plan" /\ pass.todo # {} => Exact' /\ PassedOver' /\ ProtectedWaits'
  BY <1>1, <1>4 DEF IInv, Exact, PassedOver, ProtectedWaits
<1> QED
  BY <1>2, <1>3, <1>5, <1>6 DEF IInv

(* Every step of the queue keeps the invariant.                            *)
LEMMA StepInductive == IInv /\ [Next]_vars => IInv'
<1> SUFFICES ASSUME IInv, [Next]_vars PROVE IInv'
  OBVIOUS
<1>1. TypeInv /\ RecordInv
  BY DEF IInv
<1>2. ASSUME NEW j \in Jobs, Submit(IF Parent[j] = NoArray THEN {j} ELSE {k \in Jobs : Parent[k] = Parent[j]})
      PROVE  IInv'
  <2>1. TypeInv' /\ RecordInv'
    BY <1>1, <1>2, SubmitRecords
  <2>2. pc' = "wait"
    BY <1>2 DEF Submit, Ask
  <2> QED
    BY <2>1, <2>2 DEF IInv
<1>3. ASSUME RecordsOK', Onward, UNCHANGED loop, pc = "wait" PROVE IInv'
  <2>1. RecordInv'
    BY <1>1, <1>3, RecordInvOnward
  <2>2. pass' = Idle /\ pc' = "wait"
    BY <1>1, <1>3, TypeInvWait
  <2> QED
    BY <1>3, <2>1, <2>2, WithoutPlan
<1>4. CASE Request
  <2>1. ASSUME NEW t \in Jobs \union Arrays, Hold(t, "qhold", "HELD") \/ Hold(t, "qrls", "QUEUED")
        PROVE  IInv'
    <3>1. pc = "wait"
      BY <2>1 DEF Hold, Ask
    <3> QED
      BY <1>1, <1>3, <2>1, <3>1, HoldRecords
  <2>2. ASSUME NEW t \in Jobs \union Arrays, Delete(t) PROVE IInv'
    <3>1. pc = "wait"
      BY <2>2 DEF Delete, Ask
    <3> QED
      BY <1>1, <1>3, <2>2, <3>1, DeleteRecords
  <2>3. ASSUME NEW t \in Jobs \union Arrays, NEW r \in UNION {Wishes[j] : j \in Jobs}, Alter(t, r) PROVE IInv'
    <3>1. pc = "wait"
      BY <2>3 DEF Alter, Ask
    <3> QED
      BY <1>1, <1>3, <2>3, <3>1, AlterRecords
  <2> QED
    BY <1>2, <1>4, <2>1, <2>2, <2>3 DEF Request
<1>5. CASE Reconciled
  <2>1. PICK j \in Jobs : Runs(j) \/ AttemptEnds(j) \/ Interrupted(j)
    BY <1>5 DEF Reconciled
  <2>2. pc = "wait"
    BY <2>1 DEF Runs, AttemptEnds, Settle, Requeue, Interrupted
  <2> QED
    BY <1>1, <1>3, <2>1, <2>2, ReconciledRecords
<1>6. CASE StartUp \/ TimePasses \/ DaemonDies \/ PlanDone
  <2>1. RecordsOK' /\ RecordInv'
    BY <1>1, <1>6, QuietRecords, RecordInvOnward
  <2>2. pc' \in {"down", "wait"} /\ pass' = Idle
    BY <1>1, <1>6, TypeInvWait DEF StartUp, TimePasses, DaemonDies, PlanDone
  <2> QED
    BY <2>1, <2>2, WithoutPlan
<1>7. CASE Tick \/ ProbeArrives
  <2>1. BeginPass /\ fresh' \in BOOLEAN
    BY <1>1, <1>7 DEF Tick, ProbeArrives, TypeInv, TypeOK
  <2>2. RecordsOK' /\ RecordInv'
    BY <1>1, <2>1, QuietRecords, RecordInvOnward
  <2>3. pc' = "plan"
    BY <2>1 DEF BeginPass
  <2> QED
    BY <1>1, <2>1, <2>2, <2>3, PlanBegins, WithPlan
<1>8. CASE Consider
  <2>1. RecordsOK' /\ RecordInv'
    BY <1>1, <1>8, QuietRecords, RecordInvOnward
  <2>2. /\ pc' = "plan" /\ pass' \in Passes /\ PlanInv' /\ Exact' /\ PassedOver' /\ ProtectedWaits'
    BY <1>8, ConsiderStep
  <2> QED
    BY <2>1, <2>2, WithPlan
<1>9. ASSUME NEW j \in Jobs, FailDependent(j) PROVE IInv'
  <2>1. RecordsOK' /\ Onward /\ pc' = "plan" /\ pass' \in Passes /\ PlanInv' /\ pass'.todo = {}
    BY <1>9, FailDependentStep
  <2>2. RecordInv'
    BY <1>1, <2>1, RecordInvOnward
  <2> QED
    BY <2>1, <2>2, WithPlan
<1>10. CASE Skip
  <2>1. RecordsOK' /\ RecordInv'
    BY <1>1, <1>10, QuietRecords, RecordInvOnward
  <2> QED
    BY <1>10, <2>1, SkipStep, WithPlan
<1>11. CASE Reserve(TRUE) \/ Reserve(FALSE)
  BY <1>11, ReserveStep, WithPlan
<1>12. CASE UNCHANGED vars
  BY <1>12, Stutter
<1> QED
  BY <1>2, <1>4, <1>5, <1>6, <1>7, <1>8, <1>9, <1>10, <1>11, <1>12 DEF Next, Loop, Execute

(* The invariant holds of every reachable state.                           *)
THEOREM QueueInvariant == Spec => []IInv
<1>1. Init => IInv
  <2> SUFFICES ASSUME Init PROVE IInv
    OBVIOUS
  <2>1. pc = "down"
    BY DEF Init
  <2> QED
    BY <2>1, RecordsInit DEF IInv
<1> QED
  BY <1>1, StepInductive, PTL DEF Spec

(* The type invariant of Queue: the line is a total order of the jobs that *)
(* have not ended, and only active jobs hold devices or CPUs.              *)
THEOREM QueueTyped == Spec => []TypeOK
<1>1. IInv => TypeOK
  BY DEF IInv, TypeInv
<1> QED
  BY <1>1, QueueInvariant, PTL

(* Decide and Reserve agree on capacity, array limits and devices: no      *)
(* reservation of a plan is refused, so none ends the daemon.              *)
THEOREM PlansAreAdmitted == Spec => []PlanAdmitted
<1>1. IInv => PlanAdmitted
  <2> SUFFICES ASSUME IInv, Executing PROVE Admitted(Head(pass.start))
    BY DEF PlanAdmitted
  <2> QED
    BY NextAdmitted DEF Foremost, IInv, Executing, Planned
<1> QED
  BY <1>1, QueueInvariant, PTL

(* No CPU number is given to two active jobs, though only the plan, not    *)
(* the store, sees to it.                                                  *)
THEOREM CPUsAreExclusive == Spec => []CPUsExclusive
<1>1. IInv => CPUsExclusive
  BY DEF IInv, RecordInv
<1> QED
  BY <1>1, QueueInvariant, PTL

(* An active job has everything completed that it depends on, whatever was *)
(* requested and whoever crashed since the plan was made.                  *)
THEOREM DependenciesAreRespected == Spec => []DependenciesRespected
<1>1. IInv => DependenciesRespected
  BY DEF IInv, RecordInv
<1> QED
  BY <1>1, QueueInvariant, PTL

-----------------------------------------------------------------------------
(* Steps                                                                   *)

(* A job becomes active by a reservation and by nothing else.              *)
LEMMA ActiveByReservation ==
    ASSUME IInv, [Next]_vars
    PROVE  ActiveJobs' \subseteq ActiveJobs \/ Reserve(TRUE)
<1>1. TypeInv /\ RecordInv
  BY DEF IInv
<1>2. Onward => ActiveJobs' \subseteq ActiveJobs
  BY DEF Onward
<1>3. UNCHANGED state => ActiveJobs' \subseteq ActiveJobs
  BY DEF ActiveJobs
<1>4. CASE Request
  <2>1. ASSUME NEW j \in Jobs, Submit(IF Parent[j] = NoArray THEN {j} ELSE {k \in Jobs : Parent[k] = Parent[j]})
        PROVE  ActiveJobs' \subseteq ActiveJobs
    BY <2>1 DEF Submit, ActiveJobs, Active
  <2> QED
    BY <1>1, <1>2, <1>4, <2>1, HoldRecords, DeleteRecords, AlterRecords DEF Request
<1>5. CASE Reconciled
  BY <1>1, <1>2, <1>5, ReconciledRecords DEF Reconciled
<1>6. CASE StartUp \/ TimePasses \/ DaemonDies \/ PlanDone \/ Tick \/ ProbeArrives \/ Consider \/ Skip
  BY <1>3, <1>6 DEF StartUp, TimePasses, DaemonDies, PlanDone, Tick, ProbeArrives, BeginPass, Consider, Skip
<1>7. ASSUME NEW j \in Jobs, FailDependent(j) PROVE ActiveJobs' \subseteq ActiveJobs
  BY <1>2, <1>7, FailDependentStep
<1>8. CASE Reserve(FALSE)
  <2>1. state' = [state EXCEPT ![It] = "FAILED"] /\ state \in [Jobs -> States]
    BY <1>1, <1>8, ReserveAdmits, Types
  <2> QED
    BY <2>1 DEF ActiveJobs, Active
<1>9. CASE UNCHANGED vars
  BY <1>3, <1>9 DEF vars
<1> QED
  BY <1>4, <1>5, <1>6, <1>7, <1>8, <1>9 DEF Next, Loop, Execute

(* A reservation never takes more than the host has, nor a subjob more     *)
(* than its array's limit; what is being terminated still counts.          *)
THEOREM StartsWithinLimits == Spec => WithinLimits
<1> DEFINE Kept == \A j \in Engaged' \ Engaged :
                      /\ CPUsOf(Engaged)' <= capacity'.cpus
                      /\ MemoryOf(Engaged)' <= capacity'.mem
                      /\ Limit[Parent[j]] > 0 =>
                            Cardinality({k \in Engaged' : Parent[k] = Parent[j]}) <= Limit[Parent[j]]
<1>1. IInv /\ [Next]_vars => Kept
  <2> SUFFICES ASSUME IInv, [Next]_vars, NEW j \in Engaged' \ Engaged
               PROVE  /\ CPUsOf(Engaged)' <= capacity'.cpus
                      /\ MemoryOf(Engaged)' <= capacity'.mem
                      /\ Limit[Parent[j]] > 0 =>
                            Cardinality({k \in Engaged' : Parent[k] = Parent[j]}) <= Limit[Parent[j]]
    OBVIOUS
  <2>1. TypeInv /\ TypeInv'
    BY StepInductive DEF IInv
  <2>2. TypeInv => Engaged = ActiveJobs
    BY Types DEF Engaged, ActiveJobs, States, Waiting, Active, Terminal
  <2>3. Engaged = ActiveJobs /\ Engaged' = ActiveJobs'
    <3>1. Engaged' = ActiveJobs'
      BY <2>1 DEF TypeInv, TypeOK, Engaged, ActiveJobs, Waiting, Active, Terminal
    <3> QED
      BY <2>1, <2>2, <3>1
  <2>4. Reserve(TRUE)
    BY <2>3, ActiveByReservation
  <2>5. /\ PlanInv /\ Executing /\ Admitted(Foremost) /\ UNCHANGED <<request, capacity>>
        /\ state' = [state EXCEPT ![It] = "STARTING"]
    BY <2>4, ReserveAdmits
  <2>6. It \in Jobs /\ It \notin ActiveJobs
    BY <2>1, <2>5, FirstAllocation DEF Executing
  <2>7. ActiveJobs' = ActiveJobs \union {It} /\ j = It
    <3>1. state \in [Jobs -> States]
      BY <2>1, Types
    <3> QED
      BY <2>3, <2>5, <2>6, <3>1 DEF ActiveJobs, Active
  <2>8. /\ request[It].cpus <= capacity.cpus - CPUsOf(ActiveJobs)
        /\ request[It].mem <= capacity.mem - MemoryOf(ActiveJobs)
        /\ Limit[Parent[It]] > 0 => RunningOf(Parent[It]) < Limit[Parent[It]]
    BY <2>5 DEF Admitted, It
  <2>9. ActiveJobs \in SUBSET Jobs /\ IsFiniteSet(ActiveJobs)
    BY <2>1, Types
  <2>10. /\ CPUsOf(ActiveJobs \union {It}) = CPUsOf(ActiveJobs) + request[It].cpus
         /\ MemoryOf(ActiveJobs \union {It}) = MemoryOf(ActiveJobs) + request[It].mem
         /\ CPUsOf(ActiveJobs) \in Nat /\ MemoryOf(ActiveJobs) \in Nat
    BY <2>1, <2>6, <2>9, Amounts
  <2>11. /\ CPUsOf(Engaged)' = CPUsOf(ActiveJobs \union {It})
         /\ MemoryOf(Engaged)' = MemoryOf(ActiveJobs \union {It})
    BY <2>3, <2>5, <2>7 DEF CPUsOf, MemoryOf
  <2>12. /\ capacity.cpus \in Nat /\ capacity.mem \in Nat
         /\ request[It].cpus \in Nat /\ request[It].mem \in Nat
    BY <2>1, <2>6, Types
  <2>13. CPUsOf(Engaged)' <= capacity'.cpus
    BY <2>5, <2>8, <2>10, <2>11, <2>12
  <2>14. MemoryOf(Engaged)' <= capacity'.mem
    BY <2>5, <2>8, <2>10, <2>11, <2>12
  <2>15. ASSUME Limit[Parent[It]] > 0
         PROVE  Cardinality({k \in ActiveJobs \union {It} : Parent[k] = Parent[It]}) <= Limit[Parent[It]]
    <3>1. Cardinality({k \in ActiveJobs \union {It} : Parent[k] = Parent[It]}) = RunningOf(Parent[It]) + 1
      BY <2>6, <2>9, GroupGrows DEF RunningOf
    <3>2. IsFiniteSet({k \in ActiveJobs : Parent[k] = Parent[It]})
      BY <2>9, FS_Subset
    <3>3. RunningOf(Parent[It]) \in Nat /\ Limit[Parent[It]] \in Nat
      BY <2>6, <3>2, FS_CardinalityType, ArraysAssumption DEF RunningOf
    <3> QED
      BY <2>8, <2>15, <3>1, <3>3
  <2> QED
    BY <2>3, <2>7, <2>13, <2>14, <2>15
<1> HIDE DEF Kept
<1>2. Spec => [][Kept]_vars
  BY <1>1, QueueInvariant, PTL DEF Spec
<1> QED
  BY <1>2, PTL DEF WithinLimits, Kept

(* Who fails while it waits, and by which step.                            *)
LEMMA FailsWaiting ==
    ASSUME IInv, [Next]_vars, NEW j \in Jobs, state[j] \in Waiting, state'[j] = "FAILED"
    PROVE  FailDependent(j) \/ j \in tried'
<1>1. TypeInv /\ RecordInv /\ state \in [Jobs -> States]
  BY Types DEF IInv
<1> USE DEF Waiting
<1>2. ~UNCHANGED state
  OBVIOUS
<1>3. ~Request
  <2>1. ASSUME NEW k \in Jobs, Submit(IF Parent[k] = NoArray THEN {k} ELSE {l \in Jobs : Parent[l] = Parent[k]})
        PROVE  FALSE
    BY <2>1 DEF Submit
  <2>2. ASSUME NEW t \in Jobs \union Arrays, Hold(t, "qhold", "HELD") \/ Hold(t, "qrls", "QUEUED") PROVE FALSE
    BY <2>2 DEF Hold
  <2>3. ASSUME NEW t \in Jobs \union Arrays, Delete(t) PROVE FALSE
    BY <2>3 DEF Delete
  <2>4. ASSUME NEW t \in Jobs \union Arrays, NEW r, Alter(t, r) PROVE FALSE
    BY <1>2, <2>4 DEF Alter
  <2> QED
    BY <2>1, <2>2, <2>3, <2>4 DEF Request
<1>4. ~Reconciled
  BY <1>1 DEF Reconciled, Runs, AttemptEnds, Settle, Requeue, Interrupted, Active
<1>5. ~(StartUp \/ TimePasses \/ DaemonDies \/ PlanDone \/ Tick \/ ProbeArrives \/ Consider \/ Skip \/ UNCHANGED vars)
  BY <1>2 DEF StartUp, TimePasses, DaemonDies, PlanDone, Tick, ProbeArrives, BeginPass, Consider, Skip, vars
<1>6. ASSUME NEW k \in Jobs, FailDependent(k) PROVE FailDependent(j)
  <2>1. k = j
    BY <1>1, <1>6 DEF FailDependent
  <2> QED
    BY <1>6, <2>1
<1>7. ASSUME NEW launched \in BOOLEAN, Reserve(launched) PROVE j \in tried'
  <2>1. /\ tried' = tried \union {It}
        /\ state' = [state EXCEPT ![It] = IF launched THEN "STARTING" ELSE "FAILED"]
    BY <1>7, ReserveAdmits
  <2> QED
    BY <1>1, <2>1
<1> QED
  BY <1>3, <1>4, <1>5, <1>6, <1>7 DEF Next, Loop, Execute

(* A waiting job fails only when something it depends on has ended for     *)
(* good, an array with all its subjobs, and not well.                      *)
THEOREM FailuresAreExplained == Spec => FailedOnlyByDependency
<1> DEFINE Explained ==
              \A j \in Jobs :
                 state[j] \in Waiting /\ state'[j] = "FAILED" /\ j \notin tried' =>
                    \E d \in Deps[j] :
                       /\ \A k \in Members(d) : state[k] \in Terminal
                       /\ \E k \in Members(d) : state[k] # "COMPLETED"
<1>1. IInv /\ [Next]_vars => Explained
  <2> SUFFICES ASSUME IInv, [Next]_vars, NEW j \in Jobs,
                      state[j] \in Waiting, state'[j] = "FAILED", j \notin tried'
               PROVE  \E d \in Deps[j] : Lost(d)
    BY DEF Lost
  <2> QED
    BY FailsWaiting, FailDependentStep
<1> HIDE DEF Explained
<1>2. Spec => [][Explained]_vars
  BY <1>1, QueueInvariant, PTL DEF Spec
<1> QED
  BY <1>2 DEF FailedOnlyByDependency, Explained

(* The line comes to its end by considering its last job.                  *)
LEMMA OnlyConsideringCompletes ==
    ASSUME [Next]_vars, PlanComplete
    PROVE  Consider
<1>1. pc = "plan" /\ pc' = "plan" /\ pass.todo # {} /\ pass'.todo = {}
  BY DEF PlanComplete
<1>2. ~Request /\ ~Reconciled
  BY <1>1 DEF Request, Submit, Hold, Delete, Alter, Ask, Reconciled, Runs, AttemptEnds, Settle, Requeue, Interrupted
<1>3. ~(StartUp \/ Tick \/ ProbeArrives \/ TimePasses \/ DaemonDies \/ UNCHANGED vars)
  BY <1>1 DEF StartUp, Tick, ProbeArrives, BeginPass, TimePasses, DaemonDies, vars
<1>4. ~Execute
  BY <1>1 DEF Execute, FailDependent, Skip, Reserve, PlanDone, Executing, Planned
<1> QED
  BY <1>2, <1>3, <1>4 DEF Next, Loop

(* A plan is work-conserving: a job that could start and would fit beside  *)
(* what the plan starts waits only for a job that has waited for long      *)
(* (Decide: what it refuses a job it could not give it at the end either). *)
THEOREM PlansConserveWork == Spec => WorkConserving
<1> DEFINE B == {a.job : a \in Range(pass'.start)} \union ActiveJobs
           U == pass.usable \ UNION ({devices[j] : j \in ActiveJobs} \union {a.gpus : a \in Range(pass'.start)})
           CouldStart(j) ==
                  /\ state[j] = "QUEUED" /\ j \notin B /\ DependencyMet(j)
                  /\ Limit[Parent[j]] > 0 =>
                        Cardinality({k \in B : Parent[k] = Parent[j]}) < Limit[Parent[j]]
                  /\ request[j].cpus <= capacity.cpus - CPUsOf(B)
                  /\ request[j].mem <= capacity.mem - MemoryOf(B)
                  /\ request[j].gpus <= Cardinality(U)
           Conserves == PlanComplete =>
                           \A j \in Jobs : CouldStart(j) => \E k \in aged : state[k] = "QUEUED" /\ k \notin B /\ k # j
<1>1. IInv /\ [Next]_vars => Conserves
  <2> SUFFICES ASSUME IInv, [Next]_vars, PlanComplete, NEW j \in Jobs, CouldStart(j)
               PROVE  \E k \in aged : state[k] = "QUEUED" /\ k \notin B /\ k # j
    OBVIOUS
  <2>1. /\ UNCHANGED <<records, held, pc, capacity>> /\ pass'.usable = pass.usable
        /\ pass' \in Passes /\ PlanInv' /\ Exact' /\ PassedOver' /\ ProtectedWaits'
    BY OnlyConsideringCompletes, ConsiderStep
  <2>2. pass'.todo = {}
    BY DEF PlanComplete
  <2>3. ActiveJobs' = ActiveJobs /\ InUse' = InUse
    BY <2>1 DEF ActiveJobs, InUse
  <2>4. B = Busy'
    <3>1. Chosen' = {a.job : a \in Range(pass'.start)}
      BY DEF Chosen, Range
    <3> QED
      BY <2>3, <3>1 DEF Busy
  <2>5. U = Left'
    BY <2>1, <2>3 DEF Left, InUse, Allotted
  <2>6. CPUsOf(B) = CPUsOf(Busy)' /\ MemoryOf(B) = MemoryOf(Busy)'
    BY <2>1, <2>4 DEF CPUsOf, MemoryOf
  <2>7. \A p : {k \in B : Parent[k] = p} = Group(p)'
    BY <2>4 DEF Group
  <2>8. DependencyMet(j)'
    BY <2>1 DEF DependencyMet, StateOf, Aggregate, Children
  <2>9. j \in Jobs \ (pass'.todo \union Chosen') /\ state'[j] = "QUEUED"
    BY <2>1, <2>2, <2>4 DEF Busy
  <2>10. pass'.protected \notin {NoJob, j} \/ Blocked(j)'
    BY <2>8, <2>9, <2>1 DEF PassedOver
  <2>11. /\ Limit[Parent[j]] > 0 => Cardinality({k \in B : Parent[k] = Parent[j]}) < Limit[Parent[j]]
         /\ request[j].cpus <= capacity.cpus - CPUsOf(B)
         /\ request[j].mem <= capacity.mem - MemoryOf(B)
         /\ request[j].gpus <= Cardinality(U)
    OBVIOUS
  <2> HIDE DEF B, U
  <2>12. ~Blocked(j)'
    <3>1. Parent[j] \in Arrays \union {NoArray} /\ Limit[Parent[j]] \in Nat
      BY ArraysAssumption
    <3>2. /\ pass'.cpus \in Int /\ pass'.mem \in Int /\ pass'.running[Parent[j]] \in Nat
          /\ pass'.gpus \in SUBSET Devices
      BY <2>1, <3>1 DEF Passes
    <3>3. request[j].cpus \in Nat /\ request[j].mem \in Nat /\ request[j].gpus \in Nat /\ IsFiniteSet(capacity.set)
      BY Types DEF IInv
    <3>4. IsFiniteSet(pass'.gpus) /\ IsFiniteSet(pass'.set)
      BY <2>1, <3>2, <3>3, DevicesAssumption, FS_Subset DEF PlanInv, Apart
    <3>5. Cardinality(pass'.gpus) \in Nat /\ Cardinality(pass'.set) \in Nat
      BY <3>4, FS_CardinalityType
    <3>6. /\ pass'.cpus = capacity.cpus - CPUsOf(B) /\ pass'.mem = capacity.mem - MemoryOf(B)
          /\ pass'.gpus = U
          /\ pass'.running[Parent[j]] = Cardinality({k \in B : Parent[k] = Parent[j]})
          /\ Affinity => pass'.cpus <= Cardinality(pass'.set)
      BY <2>1, <2>5, <2>6, <2>7, <3>1 DEF Exact
    <3>7. /\ Limit[Parent[j]] > 0 => pass'.running[Parent[j]] < Limit[Parent[j]]
          /\ request[j].cpus <= pass'.cpus /\ request[j].mem <= pass'.mem
          /\ request[j].gpus <= Cardinality(pass'.gpus)
          /\ Affinity => request[j].cpus <= Cardinality(pass'.set)
      BY <2>11, <3>2, <3>3, <3>5, <3>6
    <3> QED
      BY <2>1, <3>1, <3>2, <3>3, <3>5, <3>7 DEF Blocked
  <2>13. /\ pass'.protected \notin {NoJob, j}
         /\ pass'.protected \in aged /\ state[pass'.protected] = "QUEUED" /\ pass'.protected \notin Chosen'
    BY <2>1, <2>10, <2>12 DEF ProtectedWaits
  <2>14. pass'.protected \notin B
    BY <2>3, <2>4, <2>13 DEF Busy, ActiveJobs, Active
  <2> QED
    BY <2>13, <2>14
<1> HIDE DEF Conserves
<1>2. Spec => [][Conserves]_vars
  BY <1>1, QueueInvariant, PTL DEF Spec
<1> QED
  BY <1>2, PTL DEF WorkConserving, Conserves
=============================================================================
