-------------------------- MODULE SubmissionProofs --------------------------
(***************************************************************************)
(* Theorems about submissions: every row has its snapshot, nothing of a    *)
(* committed job is removed, and no submission finds what an earlier one   *)
(* has left, for any number of jobs, sizes of arrays and failures; values  *)
(* of memory and walltime are exact for integers of any width, and so are  *)
(* the members of an array for any limits; command lines of any length     *)
(* mean the same to qsub and to the daemon, and what they ask for is       *)
(* granted.                                                                *)
(***************************************************************************)
EXTENDS SubmissionParts, SequenceTheorems, FiniteSetTheorems, TLAPS

Open == {"mkdir", "write", "create", "commit", "undo"}

(* IDs are handed out one after the other, those of the open transaction   *)
(* after those of the committed rows.                                      *)
Sequence(n, m) ==
    /\ rows = 1..n /\ new = (n + 1)..m /\ n <= m /\ m <= MaxID
    /\ pc \notin Open => m = n
    /\ pc \in {"mkdir", "write", "create"} => m = n + 1 /\ m + size <= MaxID
    /\ pc \in {"commit", "undo"} => n < m
SequenceInv == \E n, m \in Nat : Sequence(n, m)

(* A subjob has a committed parent; what is not committed has none.        *)
ParentInv == \A i \in IDs : IF i \in rows THEN parent[i] \in rows \union {0} ELSE parent[i] = 0

(* What lies about without a row is the open submission's own, or could    *)
(* not be removed.                                                         *)
OrphanInv ==
    /\ pc \notin {"write", "create", "commit", "undo"} => ~createdDir
    /\ pc \in {"write", "create", "commit"} => createdDir
    /\ pc \in {"create", "commit"} => directory[Own] = "snapshot"
    /\ pc = "idle" \/ pc \in Open =>
          \A i \in IDs \ rows : directory[i] # "none" => stuck \/ (createdDir /\ i = Own)

SubmissionInv == TypeOK /\ SequenceInv /\ ParentInv /\ OrphanInv /\ SnapshotKept

(* The job's own ID is the first of the transaction.                       *)
LEMMA OwnIsFirst ==
    ASSUME NEW n \in Nat, NEW m \in Nat, n < m, new = (n + 1)..m
    PROVE  Own = n + 1
<1>1. n + 1 \in new /\ \A k \in new : n + 1 <= k
  OBVIOUS
<1>2. \A i \in new : (\A k \in new : i <= k) => i = n + 1
  <2> TAKE i \in new
  <2> HAVE \A k \in new : i <= k
  <2>1. i <= n + 1 /\ n + 1 <= i
    BY <1>1
  <2> QED
    BY <2>1
<1> QED
  BY <1>1, <1>2 DEF Own

(* It is the ID after those of the committed rows, when none is open.      *)
LEMMA NextIsFresh ==
    ASSUME NEW n \in Nat, rows = 1..n, new = {}
    PROVE  NextID = n + 1
<1>1. rows \union new = 1..n
  OBVIOUS
<1>2. Cardinality(1..n) = n
  BY FS_Interval
<1> QED
  BY <1>1, <1>2 DEF NextID

LEMMA OwnIsFree ==
    ASSUME SubmissionInv, pc \in Open
    PROVE  Own \in IDs \ rows /\ Own \in new
<1>1. PICK n \in Nat, m \in Nat : Sequence(n, m)
  BY DEF SubmissionInv, SequenceInv
<1>2. n < m /\ m <= MaxID
  BY <1>1 DEF Sequence, Open
<1>3. Own = n + 1
  BY <1>1, <1>2, OwnIsFirst DEF Sequence
<1> QED
  BY <1>1, <1>2, <1>3, BoundsAssumption DEF Sequence, IDs

(* At first there is nothing.                                              *)
LEMMA SubmissionInvInit == Init => SubmissionInv
<1> SUFFICES ASSUME Init PROVE SubmissionInv
  OBVIOUS
<1>1. Sequence(0, 0)
  BY BoundsAssumption DEF Init, Sequence, Open
<1>2. TypeOK
  <2>1. MaxID \in Nat /\ MaxFaults \in Nat
    BY BoundsAssumption
  <2>2. parent \in [IDs -> 0..MaxID] /\ directory \in [IDs -> {"none", "made", "snapshot"}]
    BY <2>1 DEF Init
  <2>3. rows \subseteq IDs /\ new \subseteq IDs /\ new \intersect rows = {}
    BY DEF Init
  <2>4. size \in Subjobs \union {0} /\ faults \in 0..MaxFaults
    BY <2>1 DEF Init
  <2>5. pc \in Places /\ createdDir \in BOOLEAN /\ stuck \in BOOLEAN
    BY DEF Init, Places
  <2> QED
    BY <2>2, <2>3, <2>4, <2>5 DEF TypeOK
<1>3. ParentInv /\ OrphanInv /\ SnapshotKept
  BY DEF Init, ParentInv, OrphanInv, SnapshotKept, Open
<1> QED
  BY <1>1, <1>2, <1>3 DEF SubmissionInv, SequenceInv

(* IDs are kept in order: only Submit, CreateSubjobs and the end of the    *)
(* transaction change them.                                                *)
LEMMA SequenceNext ==
    ASSUME SubmissionInv, [Next]_vars
    PROVE  SequenceInv'
<1>1. PICK n \in Nat, m \in Nat : Sequence(n, m)
  BY DEF SubmissionInv, SequenceInv
<1>2. MaxID \in Nat /\ size \in Nat
  BY BoundsAssumption, SubjobsAssumption DEF SubmissionInv, TypeOK
<1> USE DEF Goto, Open, Ended
<1>3. CASE StartUp \/ (\E i \in IDs : CleanOrphan(i)) \/ Ready \/ (\E i \in IDs : Launch(i)) \/ UNCHANGED vars
  <2>1. Sequence(n, m)'
    BY <1>1, <1>3 DEF StartUp, CleanOrphan, Ready, Launch, vars, Sequence
  <2> QED
    BY <2>1 DEF SequenceInv
<1>4. ASSUME NEW k \in Subjobs \union {0}, Submit(k) PROVE SequenceInv'
  <2>1. rows = 1..n /\ new = {} /\ m = n /\ k \in Nat
    BY <1>1, <1>4, SubjobsAssumption DEF Submit, Sequence
  <2>2. NextID = n + 1
    BY <2>1, NextIsFresh
  <2>3. Sequence(n, n + 1)'
    BY <1>2, <1>4, <2>1, <2>2 DEF Submit, Sequence
  <2> QED
    BY <2>3 DEF SequenceInv
<1>5. CASE MakeDirectory \/ DirectoryExists \/ WriteSnapshot \/ Fails
  <2>1. Sequence(n, m)'
    BY <1>1, <1>5 DEF MakeDirectory, DirectoryExists, WriteSnapshot, Fails, Fault, Sequence
  <2> QED
    BY <2>1 DEF SequenceInv
<1>6. CASE CreateSubjobs
  <2>1. m = n + 1 /\ new = (n + 1)..m /\ n + 1 + size <= MaxID
    BY <1>1, <1>6 DEF CreateSubjobs, Sequence
  <2>2. Own = n + 1
    BY <2>1, OwnIsFirst
  <2> PICK k \in Nat : k = n + 1 + size
    BY <1>2
  <2>3. Sequence(n, k)'
    BY <1>1, <1>2, <1>6, <2>1, <2>2 DEF CreateSubjobs, Sequence
  <2> QED
    BY <2>3 DEF SequenceInv
<1>7. CASE Commit
  <2>1. rows' = 1..m
    BY <1>1, <1>7 DEF Commit, Sequence
  <2>2. Sequence(m, m)'
    BY <1>1, <1>7, <2>1 DEF Commit, Sequence
  <2> QED
    BY <2>2 DEF SequenceInv
<1>8. CASE Undo \/ DaemonDies
  <2>1. rows' = rows /\ new' = {} /\ pc' \notin Open
    BY <1>8 DEF Undo, DaemonDies
  <2>2. Sequence(n, n)'
    BY <1>1, <1>2, <2>1 DEF Sequence
  <2> QED
    BY <2>2 DEF SequenceInv
<1> QED
  BY <1>3, <1>4, <1>5, <1>6, <1>7, <1>8 DEF Next

(* What a step does to a committed job's directory, and to those of no job.*)
LEMMA DirectoryNext ==
    ASSUME SubmissionInv, [Next]_vars
    PROVE  /\ \A i \in rows : /\ directory[i] # "none" => directory'[i] # "none"
                              /\ directory[i] = "snapshot" => directory'[i] = "snapshot"
           /\ directory' \in [IDs -> {"none", "made", "snapshot"}]
<1>1. directory \in [IDs -> {"none", "made", "snapshot"}] /\ rows \subseteq IDs
  BY DEF SubmissionInv, TypeOK
<1>2. CASE UNCHANGED directory
  BY <1>1, <1>2
<1>3. CASE MakeDirectory \/ WriteSnapshot \/ Undo
  <2>1. Own \in IDs \ rows
    BY <1>3, OwnIsFree DEF MakeDirectory, WriteSnapshot, Undo, Open
  <2>2. \E to \in {"none", "made", "snapshot"} :
           directory' = [directory EXCEPT ![Own] = to] \/ UNCHANGED directory
    BY <1>3 DEF MakeDirectory, WriteSnapshot, Undo
  <2> QED
    BY <1>1, <2>1, <2>2
<1>4. ASSUME NEW i \in IDs, CleanOrphan(i) \/ Launch(i)
      PROVE  /\ \E to \in {"none", "made"} : directory' = [directory EXCEPT ![i] = to]
             /\ i \notin rows \/ directory[i] = "none"
  BY <1>4 DEF CleanOrphan, Launch, Known
<1>5. CASE StartUp \/ Ready \/ (\E n \in Subjobs \union {0} : Submit(n)) \/ DirectoryExists \/ CreateSubjobs
           \/ Commit \/ Fails \/ DaemonDies \/ UNCHANGED vars
  BY <1>2, <1>5 DEF StartUp, Ready, Submit, DirectoryExists, CreateSubjobs, Commit, Fails, DaemonDies, vars
<1> QED
  BY <1>1, <1>3, <1>4, <1>5 DEF Next
(* Every variable keeps its type.                                          *)
LEMMA SubmissionTypes ==
    ASSUME SubmissionInv, [Next]_vars
    PROVE  TypeOK'
<1> USE DEF Goto, Ended, Fault
<1>1. TypeOK /\ MaxFaults \in Nat
  BY BoundsAssumption DEF SubmissionInv
<1>2. directory' \in [IDs -> {"none", "made", "snapshot"}]
  BY DirectoryNext
<1>3. rows' \subseteq IDs /\ new' \subseteq IDs /\ new' \intersect rows' = {}
  <2>1. PICK n \in Nat, m \in Nat : Sequence(n, m)'
    BY SequenceNext DEF SequenceInv
  <2> QED
    BY <2>1, BoundsAssumption DEF Sequence, IDs
<1>4. CASE StartUp \/ (\E i \in IDs : CleanOrphan(i)) \/ Ready \/ (\E i \in IDs : Launch(i)) \/ UNCHANGED vars
           \/ MakeDirectory \/ DirectoryExists \/ WriteSnapshot \/ CreateSubjobs
  BY <1>1, <1>2, <1>3, <1>4 DEF StartUp, CleanOrphan, Ready, Launch, MakeDirectory, DirectoryExists,
     WriteSnapshot, CreateSubjobs, vars, TypeOK, Places
<1>5. ASSUME NEW k \in Subjobs \union {0}, Submit(k) PROVE TypeOK'
  BY <1>1, <1>2, <1>3, <1>5 DEF Submit, TypeOK, Places
<1>6. CASE Fails \/ DaemonDies
  <2>1. faults' \in 0..MaxFaults
    BY <1>1, <1>6 DEF Fails, DaemonDies, TypeOK
  <2> QED
    BY <1>1, <1>2, <1>3, <1>6, <2>1 DEF Fails, DaemonDies, TypeOK, Places
<1>7. CASE Undo
  <2>1. UNCHANGED <<stuck, faults>> \/ (stuck' = TRUE /\ faults < MaxFaults /\ faults' = faults + 1)
    BY <1>7 DEF Undo
  <2>2. faults' \in 0..MaxFaults
    BY <1>1, <2>1 DEF TypeOK
  <2>3. stuck' \in BOOLEAN
    BY <1>1, <2>1 DEF TypeOK
  <2> QED
    BY <1>1, <1>2, <1>3, <1>7, <2>2, <2>3 DEF Undo, TypeOK, Places
<1>8. CASE Commit
  <2>1. Own \in 0..MaxID
    BY <1>8, OwnIsFree, BoundsAssumption DEF Commit, Open, IDs
  <2>2. parent' \in [IDs -> 0..MaxID]
    BY <1>1, <1>8, <2>1 DEF Commit, TypeOK
  <2> QED
    BY <1>1, <1>2, <1>3, <1>8, <2>2 DEF Commit, TypeOK, Places
<1> QED
  BY <1>4, <1>5, <1>6, <1>7, <1>8 DEF Next

(* The commit gives the rows their parent, whose snapshot is there; no     *)
(* other step touches either.                                              *)
LEMMA CommitKeepsSnapshots ==
    ASSUME SubmissionInv, Commit
    PROVE  ParentInv' /\ SnapshotKept'
<1>1. /\ Own \in IDs \ rows /\ Own \in new /\ directory[Own] = "snapshot"
      /\ new \subseteq IDs /\ new \intersect rows = {} /\ 0 \notin IDs
  BY OwnIsFree DEF SubmissionInv, OrphanInv, TypeOK, Commit, Open, IDs
<1>2. /\ rows' = rows \union new /\ UNCHANGED directory
      /\ parent' = [i \in IDs |-> IF i \in new \ {Own} THEN Own ELSE parent[i]]
  BY DEF Commit
<1>3. \A i \in IDs \ rows : parent[i] = 0
  BY DEF SubmissionInv, ParentInv
<1>4. \A i \in rows : i \in IDs /\ parent[i] \in rows \union {0}
  BY DEF SubmissionInv, ParentInv, TypeOK
<1> DEFINE own == Own
<1>5. /\ \A i \in rows : parent'[i] = parent[i]
      /\ \A i \in new \ {own} : parent'[i] = own
      /\ parent'[own] = 0 /\ own \in new /\ directory[own] = "snapshot" /\ own # 0
      /\ \A i \in IDs \ (rows \union new) : parent'[i] = 0
  BY <1>1, <1>2, <1>3, <1>4
<1> HIDE DEF own
<1>6. ParentInv'
  BY <1>1, <1>2, <1>4, <1>5 DEF ParentInv
<1>7. SnapshotKept'
  BY <1>2, <1>5 DEF SnapshotKept, SubmissionInv
<1> QED
  BY <1>6, <1>7

LEMMA SnapshotsNext ==
    ASSUME SubmissionInv, [Next]_vars
    PROVE  ParentInv' /\ SnapshotKept'
<1>1. CASE UNCHANGED <<rows, parent>>
  BY <1>1, DirectoryNext DEF SubmissionInv, ParentInv, SnapshotKept, TypeOK
<1>2. CASE StartUp \/ (\E i \in IDs : CleanOrphan(i)) \/ Ready \/ (\E i \in IDs : Launch(i)) \/ UNCHANGED vars
           \/ (\E n \in Subjobs \union {0} : Submit(n)) \/ MakeDirectory \/ DirectoryExists
           \/ WriteSnapshot \/ CreateSubjobs \/ Fails \/ Undo \/ DaemonDies
  BY <1>1, <1>2 DEF StartUp, CleanOrphan, Ready, Launch, Submit, MakeDirectory, DirectoryExists,
     WriteSnapshot, CreateSubjobs, Fails, Undo, DaemonDies, vars
<1> QED
  BY <1>2, CommitKeepsSnapshots DEF Next

(* Whatever a submission has made is its own until it commits, or goes     *)
(* with it; a crash leaves it to the next start (submit, cleanOrphans).    *)
LEMMA OrphansNext ==
    ASSUME SubmissionInv, [Next]_vars
    PROVE  OrphanInv'
<1> USE DEF Goto, Ended, Open
<1>1. directory \in [IDs -> {"none", "made", "snapshot"}] /\ OrphanInv
  BY DEF SubmissionInv, TypeOK
<1>2. CASE StartUp \/ (\E i \in IDs : CleanOrphan(i)) \/ DaemonDies
  BY <1>1, <1>2 DEF StartUp, CleanOrphan, DaemonDies, OrphanInv
<1>3. CASE Ready
  BY <1>1, <1>3 DEF Ready, Cleaned, Known, OrphanInv
<1>4. ASSUME NEW k \in Subjobs \union {0}, Submit(k) PROVE OrphanInv'
  BY <1>1, <1>4 DEF Submit, OrphanInv
<1>5. ASSUME NEW i \in IDs, Launch(i) PROVE OrphanInv'
  BY <1>1, <1>5 DEF Launch, OrphanInv
<1>6. ASSUME pc \in Open PROVE Own \in IDs \ rows /\ Own \in new
  BY <1>6, OwnIsFree
<1>7. CASE MakeDirectory \/ DirectoryExists \/ WriteSnapshot \/ Fails
  <2>1. pc \in Open /\ Own' = Own /\ UNCHANGED rows
    BY <1>7 DEF MakeDirectory, DirectoryExists, WriteSnapshot, Fails, Own
  <2>2. CASE MakeDirectory \/ WriteSnapshot
    <3>1. \E to \in {"made", "snapshot"} : directory' = [directory EXCEPT ![Own] = to] /\ (pc = "write" => to = "snapshot")
      BY <2>2 DEF MakeDirectory, WriteSnapshot
    <3> QED
      BY <1>1, <1>6, <2>1, <2>2, <3>1 DEF MakeDirectory, WriteSnapshot, OrphanInv
  <2>3. CASE DirectoryExists \/ Fails
    BY <1>1, <2>1, <2>3 DEF DirectoryExists, Fails, OrphanInv
  <2> QED
    BY <1>7, <2>2, <2>3
<1>8. CASE CreateSubjobs
  <2>1. PICK n \in Nat, m \in Nat : Sequence(n, m)
    BY DEF SubmissionInv, SequenceInv
  <2>2. pc = "create" /\ m = n + 1 /\ new = (n + 1)..m
    BY <1>8, <2>1 DEF CreateSubjobs, Sequence
  <2>3. Own = n + 1 /\ size \in Nat
    BY <2>2, OwnIsFirst, SubjobsAssumption DEF SubmissionInv, TypeOK
  <2>4. new' = Own..(Own + size) /\ pc' = "commit" /\ UNCHANGED <<rows, directory, createdDir, stuck>>
    BY <1>8 DEF CreateSubjobs
  <2>5. Own' = Own
    <3>1. PICK h \in Nat : h = n + size + 1
      BY <2>3
    <3>2. new' = (n + 1)..h /\ n < h
      BY <2>3, <2>4, <3>1
    <3>3. \A i \in new' : (\A k \in new' : i <= k) <=> i = n + 1
      BY <3>2
    <3>4. n + 1 \in new'
      BY <3>2
    <3> QED
      BY <2>3, <3>3, <3>4 DEF Own
  <2> QED
    BY <1>1, <2>2, <2>4, <2>5 DEF OrphanInv
<1>9. CASE Commit
  <2>1. pc = "commit" /\ rows' = rows \union new /\ pc' = "idle" /\ ~createdDir' /\ UNCHANGED <<directory, stuck>>
    BY <1>9 DEF Commit
  <2>2. \A i \in IDs \ rows' : directory'[i] # "none" => stuck'
    BY <1>1, <1>6, <2>1 DEF OrphanInv
  <2> QED
    BY <2>1, <2>2 DEF OrphanInv
<1>10. CASE Undo
  <2>1. /\ pc = "undo" /\ pc' = "idle" /\ ~createdDir' /\ UNCHANGED rows
        /\ \/ UNCHANGED stuck /\ (createdDir => directory' = [directory EXCEPT ![Own] = "none"])
                              /\ (~createdDir => UNCHANGED directory)
           \/ stuck'
    BY <1>10 DEF Undo, Removed
  <2>2. \A i \in IDs \ rows' : directory'[i] # "none" => stuck'
    BY <1>1, <1>6, <2>1 DEF OrphanInv
  <2> QED
    BY <2>1, <2>2 DEF OrphanInv
<1>11. CASE UNCHANGED vars
  BY <1>1, <1>11 DEF vars, OrphanInv, Own
<1> QED
  BY <1>2, <1>3, <1>4, <1>5, <1>7, <1>8, <1>9, <1>10, <1>11 DEF Next

LEMMA SubmissionInvHolds == Spec => []SubmissionInv
<1>1. SubmissionInv /\ [Next]_vars => SubmissionInv'
  BY SubmissionTypes, SequenceNext, SnapshotsNext, OrphansNext DEF SubmissionInv
<1> QED
  BY <1>1, SubmissionInvInit, PTL DEF Spec

(* Every committed job has its snapshot, whatever fails and whatever is    *)
(* cleaned up: the run "submission" checks it for six IDs.                 *)
THEOREM SnapshotsAreKept == Spec => []SnapshotKept
<1>1. SubmissionInv => SnapshotKept
  BY DEF SubmissionInv
<1> QED
  BY <1>1, SubmissionInvHolds, PTL

(* No step removes a directory of a committed job or subjob: the run       *)
(* "submission" checks it for six IDs.                                     *)
THEOREM CommittedAreKept == Spec => CommittedKept
<1>1. SubmissionInv /\ [Next]_vars =>
         [\A i \in rows : directory[i] # "none" => directory'[i] # "none"]_vars
  BY DirectoryNext
<1> QED
  BY <1>1, SubmissionInvHolds, PTL DEF Spec, CommittedKept

(* A submission meets no directory of an earlier one, unless a removal     *)
(* failed: the run "submission" checks it for six IDs and three failures.  *)
THEOREM NothingIsInTheWay == Spec => []NeverInTheWay
<1>1. SubmissionInv => NeverInTheWay
  <2> SUFFICES ASSUME SubmissionInv, pc = "mkdir", directory[Own] # "none" PROVE stuck
    BY DEF NeverInTheWay
  <2>1. Own \in IDs \ rows
    BY OwnIsFree DEF Open
  <2> QED
    BY <2>1 DEF SubmissionInv, OrphanInv, Open
<1> QED
  BY <1>1, SubmissionInvHolds, PTL

-----------------------------------------------------------------------------
(* Memory and walltime values                                              *)

LEMMA WrappedIsExact ==
    ASSUME NEW x \in 0..MaxInt
    PROVE  U!Wrapped(x) = x
BY ValuesAssumption DEF U!Wrapped

(* A quotient is exceeded by what exceeds the dividend as a product.       *)
LEMMA Division ==
    ASSUME NEW m \in Nat, NEW n \in Nat, NEW f \in Nat \ {0}
    PROVE  n > m \div f <=> n * f > m
OBVIOUS

(* The guard of the loop lets exactly those parts pass that fit.           *)
LEMMA PartFits ==
    ASSUME NEW n \in Nat, seconds \in 0..MaxInt
    PROVE  n > MaxInt \/ U!TooLong(n) <=> seconds * 60 + n > MaxInt
<1> USE ValuesAssumption DEF U!TooLong
<1>1. CASE n > MaxInt
  BY <1>1
<1>2. CASE n <= MaxInt
  <2>1. MaxInt - n \in Nat /\ seconds \in Nat
    BY <1>2
  <2>2. seconds > (MaxInt - n) \div 60 <=> seconds * 60 > MaxInt - n
    BY <2>1, Division
  <2> QED
    BY <1>2, <2>1, <2>2
<1> QED
  BY <1>1, <1>2

WalltimeInv == U!TypeOK /\ U!WalltimeExact

LEMMA WalltimeNext == WalltimeInv /\ [U!Next]_timeVars => WalltimeInv'
<1> SUFFICES ASSUME WalltimeInv, [U!Next]_timeVars
             PROVE  WalltimeInv'
  OBVIOUS
<1>1. CASE UNCHANGED timeVars
  BY <1>1 DEF timeVars, WalltimeInv, U!TypeOK, U!WalltimeExact, U!Worth
<1>2. ASSUME NEW n \in Amounts, U!ReadPart(n)
      PROVE  WalltimeInv'
  <2>1. /\ MaxInt \in Nat /\ n \in Nat /\ seconds \in Nat /\ seconds \in 0..MaxInt
        /\ \A i \in 1..Len(parts) : parts[i] \in Nat
        /\ Len(parts) \in 0..2 /\ ~tooLong /\ seconds = U!Worth
    <3>1. /\ parts \in Seq(Amounts) /\ Len(parts) < 3 /\ seconds \in 0..MaxInt
          /\ ~tooLong /\ seconds = U!Worth
      BY <1>2 DEF WalltimeInv, U!TypeOK, U!WalltimeExact, U!ReadPart
    <3>2. \A i \in 1..Len(parts) : parts[i] \in Amounts
      BY <3>1
    <3>3. \A i \in 1..Len(parts) : parts[i] \in Nat
      BY <3>2, ValuesAssumption
    <3>4. Len(parts) \in Nat
      BY <3>1
    <3>5. Len(parts) \in 0..2
      <4>1. PICK k \in Nat : k = Len(parts)
        BY <3>4
      <4>2. k < 3
        BY <3>1, <4>1
      <4>3. k \in 0..2
        BY <4>2
      <4> QED
        BY <4>1, <4>3
    <3>6. MaxInt \in Nat /\ n \in Nat
      BY ValuesAssumption
    <3>7. seconds \in Nat
      BY <3>1, <3>6
    <3> QED
      BY <3>1, <3>3, <3>5, <3>6, <3>7
  <2>2. /\ parts' = Append(parts, n) /\ parts' \in Seq(Amounts) /\ Len(parts') = Len(parts) + 1
        /\ \A i \in 1..Len(parts) : parts'[i] = parts[i]
        /\ parts'[Len(parts) + 1] = n
    BY <1>2 DEF U!ReadPart, WalltimeInv, U!TypeOK
  <2>3. U!Worth' = U!Worth * 60 + n /\ U!Worth \in Nat
    <3>1. CASE Len(parts) = 0
      BY <2>1, <2>2, <3>1 DEF U!Worth
    <3>2. CASE Len(parts) = 1
      BY <2>1, <2>2, <3>2 DEF U!Worth
    <3>3. CASE Len(parts) = 2
      <4> DEFINE a == parts[1]
                 b == parts[2]
      <4>1. a \in Nat /\ b \in Nat
        BY <2>1, <3>3
      <4>2. U!Worth = a * 60 + b /\ U!Worth' = a * 3600 + b * 60 + n
        BY <2>1, <2>2, <3>3 DEF U!Worth
      <4> HIDE DEF a, b
      <4>3. (a * 60 + b) * 60 + n = a * 3600 + b * 60 + n
        BY <2>1, <4>1
      <4> QED
        BY <4>1, <4>2, <4>3
    <3> QED
      BY <2>1, <3>1, <3>2, <3>3
  <2>4. CASE n > MaxInt \/ (parts # <<>> /\ n >= 60) \/ U!TooLong(n)
    <3>1. tooLong' = TRUE /\ UNCHANGED seconds
      BY <1>2, <2>4 DEF U!ReadPart
    <3>2. CASE parts # <<>> /\ n >= 60
      <4>1. Len(parts) + 1 \in 2..Len(parts') /\ parts'[Len(parts) + 1] >= 60
        BY <2>1, <2>2, <3>2
      <4> QED
        BY <2>1, <2>2, <3>1, <4>1 DEF WalltimeInv, U!TypeOK, U!WalltimeExact
    <3>3. CASE n > MaxInt \/ U!TooLong(n)
      <4>1. seconds * 60 + n > MaxInt
        BY <2>1, <3>3, PartFits
      <4>2. U!Worth' > MaxInt
        BY <2>1, <2>3, <4>1
      <4> QED
        BY <2>1, <2>2, <3>1, <4>2 DEF WalltimeInv, U!TypeOK, U!WalltimeExact
    <3> QED
      BY <2>4, <3>2, <3>3
  <2>5. CASE ~(n > MaxInt \/ (parts # <<>> /\ n >= 60) \/ U!TooLong(n))
    <3>1. seconds' = U!Wrapped(seconds * 60 + n) /\ tooLong' = tooLong
      BY <1>2, <2>5 DEF U!ReadPart
    <3>2. ~(seconds * 60 + n > MaxInt)
      BY <2>1, <2>5, PartFits
    <3>3. seconds * 60 + n \in 0..MaxInt
      BY <2>1, <3>2
    <3>4. seconds' = seconds * 60 + n
      BY <3>1, <3>3, WrappedIsExact
    <3> QED
      BY <2>1, <2>2, <2>3, <3>1, <3>3, <3>4 DEF WalltimeInv, U!TypeOK, U!WalltimeExact
  <2> QED
    BY <2>4, <2>5
<1> QED
  BY <1>1, <1>2 DEF U!Next

(* What follows for values that are accepted.                              *)
LEMMA AcceptedCounts == WalltimeInv => U!WalltimeCounts
<1> SUFFICES ASSUME WalltimeInv, U!WalltimeAccepted
             PROVE  /\ U!Wrapped(seconds * PerSecond) = seconds * PerSecond
                    /\ seconds * PerSecond > 0
  BY DEF U!WalltimeCounts
<1>1. MaxInt \in Nat /\ PerSecond \in Nat \ {0} /\ seconds \in Nat /\ seconds > 0
  BY ValuesAssumption DEF WalltimeInv, U!TypeOK, U!WalltimeAccepted
<1>2. ~(seconds > MaxInt \div PerSecond)
  <2>1. MaxInt \div PerSecond \in Nat
    BY <1>1
  <2> QED
    BY <1>1, <2>1 DEF U!WalltimeAccepted, U!MaxSeconds
<1>3. ~(seconds * PerSecond > MaxInt)
  BY <1>1, <1>2, Division
<1>4. seconds * PerSecond > 0 /\ seconds * PerSecond \in Nat
  BY <1>1
<1> QED
  BY <1>1, <1>3, <1>4, WrappedIsExact

LEMMA MemoryFits ==
    ASSUME NEW n \in Nat, NEW factor \in Factors
    PROVE  U!Memory(n, factor) = IF n * factor <= MaxInt THEN n * factor ELSE U!Refused
<1>1. factor \in Nat \ {0} /\ MaxInt \in Nat
  BY ValuesAssumption
<1>2. n > MaxInt \div factor <=> n * factor > MaxInt
  BY <1>1, Division
<1>3. n * factor \in Nat /\ n * factor >= n
  BY <1>1
<1>4. CASE n * factor > MaxInt
  <2>1. ~(n * factor <= MaxInt)
    BY <1>1, <1>3, <1>4
  <2> QED
    BY <1>2, <1>4, <2>1 DEF U!Memory, U!MemoryTooLarge
<1>5. CASE ~(n * factor > MaxInt)
  <2>1. n * factor \in 0..MaxInt /\ ~(n > MaxInt) /\ n * factor <= MaxInt
    BY <1>1, <1>3, <1>5
  <2>2. U!Wrapped(n * factor) = n * factor
    BY <2>1, WrappedIsExact
  <2> QED
    BY <1>2, <1>5, <2>1, <2>2 DEF U!Memory, U!MemoryTooLarge
<1> QED
  BY <1>4, <1>5

LEMMA MemoryCounts == WalltimeInv => U!MemoryExact
<1> SUFFICES ASSUME WalltimeInv, NEW i \in 1..Len(parts), NEW factor \in Factors
             PROVE  U!Memory(parts[i], factor) = IF parts[i] * factor <= MaxInt THEN parts[i] * factor
                                                 ELSE U!Refused
  BY DEF U!MemoryExact
<1>1. parts \in Seq(Amounts)
  BY DEF WalltimeInv, U!TypeOK
<1>2. parts[i] \in Nat
  <2>1. parts[i] \in Amounts
    BY <1>1
  <2> QED
    BY <2>1, ValuesAssumption
<1> QED
  BY <1>2, MemoryFits

(* Only one part of a submission moves at a time.                          *)
LEMMA PartsStep ==
    [PartsNext]_<<vars, optionVars, timeVars, rangeVars>> => [U!Next]_timeVars /\ [A!Next]_rangeVars
BY DEF PartsNext, timeVars, rangeVars

(* Values are read without wrapping, whatever the width of the integers,   *)
(* the ticks of a second and the units, and none that fits is refused      *)
(* (Walltime and Memory; the guard before seconds*60+n and the division    *)
(* before the product).                                                    *)
THEOREM ValuesAreExact == PartsSpec => []ValuesExact
<1>1. PartsInit => WalltimeInv
  <2> SUFFICES ASSUME PartsInit PROVE WalltimeInv
    OBVIOUS
  <2>1. parts = <<>> /\ seconds = 0 /\ tooLong = FALSE
    BY DEF PartsInit, U!Init
  <2>2. parts \in Seq(Amounts) /\ Len(parts) = 0 /\ seconds \in 0..MaxInt
    BY <2>1, ValuesAssumption
  <2>3. U!TypeOK
    <3>1. Len(parts) <= 3
      BY <2>2
    <3>2. tooLong \in BOOLEAN
      BY <2>1
    <3> QED
      BY <2>2, <3>1, <3>2, Zenon DEF U!TypeOK
  <2>4. U!WalltimeExact
    BY <2>1 DEF U!Worth, U!WalltimeExact
  <2> QED
    BY <2>3, <2>4 DEF WalltimeInv
<1>2. WalltimeInv => ValuesExact
  BY AcceptedCounts, MemoryCounts DEF WalltimeInv, ValuesExact
<1> QED
  BY <1>1, <1>2, WalltimeNext, PartsStep, PTL DEF PartsSpec

-----------------------------------------------------------------------------
(* The ranges of an array                                                  *)

Nameable == 0..MaxIndex

(* Cardinality is that of FiniteSets in Arrays, too.                       *)
LEMMA SameCardinality == \A S : A!Cardinality(S) = Cardinality(S)
BY DEF Cardinality, A!Cardinality

(* What one segment names, as the documents have it.                       *)
NamedBy(s) == {n \in Nameable : A!WellFormed(s) /\ A!Names(s, n)}

LEMMA SegmentTypes ==
    ASSUME NEW s \in A!Written
    PROVE  /\ s.start \in Nat /\ s.end \in Nat /\ s.step \in Nat
           /\ s.ranged \in BOOLEAN /\ s.stepped \in BOOLEAN
           /\ ~s.stepped => s.step = 1
<1>1. /\ s.start \in Indices /\ s.end \in Indices /\ s.step \in Indices \union {1}
      /\ s.ranged \in BOOLEAN /\ s.stepped \in BOOLEAN
  BY DEF A!Written, A!Segments
<1>2. s.stepped \/ s.step = 1
  BY DEF A!Written
<1>3. Indices \subseteq Nat /\ 1 \in Nat
  BY RangesAssumption
<1>4. s.start \in Nat /\ s.end \in Nat /\ s.step \in Nat
  BY <1>1, <1>3
<1> QED
  BY <1>1, <1>2, <1>4

LEMMA FormIsTested ==
    ASSUME NEW s \in A!Written
    PROVE  A!IllFormed(s) <=> ~A!WellFormed(s)
<1>1. MaxIndex \in Nat
  BY RangesAssumption
<1>2. s.stepped => ((~A!Parses(s.step) \/ s.step = 0) <=> s.step \notin 1..MaxIndex)
  BY <1>1, SegmentTypes DEF A!Parses
<1>3. (~A!Parses(s.start) \/ ~A!Parses(s.end) \/ s.end < s.start)
         <=> ~(s.start <= s.end /\ s.end <= MaxIndex)
  BY <1>1, SegmentTypes DEF A!Parses
<1> QED
  BY <1>2, <1>3 DEF A!IllFormed, A!WellFormed

LEMMA WellFormedStep ==
    ASSUME NEW s \in A!Written, A!WellFormed(s)
    PROVE  s.step \in Nat \ {0} /\ s.end - s.start \in Nat /\ s.end \in Nameable /\ s.start \in Nameable
<1>1. MaxIndex \in Nat
  BY RangesAssumption
<1>2. s.step \in Nat \ {0}
  <2>1. CASE s.stepped
    BY <1>1, <2>1 DEF A!WellFormed
  <2>2. CASE ~s.stepped
    BY <2>2, SegmentTypes
  <2> QED
    BY <2>1, <2>2
<1>3. s.start <= s.end /\ s.end <= MaxIndex
  BY DEF A!WellFormed
<1> QED
  BY <1>1, <1>2, <1>3, SegmentTypes DEF Nameable

(* Multiples of a step within a distance.                                  *)
LEMMA Multiples ==
    ASSUME NEW step \in Nat \ {0}, NEW far \in Nat
    PROVE  /\ far \div step \in Nat
           /\ \A k \in 0..(far \div step) : k * step \in 0..far /\ (k * step) % step = 0
           /\ \A x \in 0..far : x % step = 0 => x \div step \in 0..(far \div step) /\ x = (x \div step) * step
<1>1. far \div step \in Nat /\ (far \div step) * step <= far
  OBVIOUS
<1>2. ASSUME NEW k \in 0..(far \div step)
      PROVE  k * step \in 0..far /\ (k * step) % step = 0
  <2>1. k \in Nat /\ k <= far \div step
    BY <1>1
  <2>2. k * step <= (far \div step) * step /\ k * step \in Nat
    BY <1>1, <2>1
  <2>3. (k * step) % step = 0
    BY <2>1
  <2> QED
    BY <1>1, <2>2, <2>3
<1>3. ASSUME NEW x \in 0..far, x % step = 0
      PROVE  x \div step \in 0..(far \div step) /\ x = (x \div step) * step
  <2>1. x \in Nat /\ x <= far /\ x \div step \in Nat
    OBVIOUS
  <2>2. x = (x \div step) * step
    BY <1>3, <2>1
  <2>3. ~(x \div step > far \div step)
    BY <2>1, <2>2, Division
  <2> QED
    BY <1>1, <2>1, <2>2, <2>3
<1> QED
  BY <1>1, <1>2, <1>3

(* The loop from start to end counts out what the segment names.           *)
LEMMA MembersAreNamed ==
    ASSUME NEW s \in A!Written, A!WellFormed(s)
    PROVE  A!Members(s) = NamedBy(s)
<1> DEFINE start == s.start
           step == s.step
           far == s.end - s.start
<1>1. /\ step \in Nat \ {0} /\ far \in Nat /\ start \in Nat /\ MaxIndex \in Nat
      /\ start + far <= MaxIndex /\ start + far = s.end
  BY WellFormedStep, SegmentTypes, RangesAssumption DEF Nameable
<1>2. A!Members(s) = {start + k * step : k \in 0..(far \div step)}
  BY DEF A!Members
<1>3. NamedBy(s) = {n \in Nameable : start <= n /\ n <= s.end /\ (n - start) % step = 0}
  BY DEF NamedBy, A!Names
<1> HIDE DEF start, step, far
<1>4. ASSUME NEW k \in 0..(far \div step)
      PROVE  start + k * step \in NamedBy(s)
  <2>1. k * step \in 0..far /\ (k * step) % step = 0
    BY <1>1, Multiples
  <2> PICK x \in 0..far : x = k * step
    BY <2>1
  <2>2. start + x \in Nameable /\ start <= start + x /\ start + x <= s.end /\ (start + x) - start = x
    BY <1>1 DEF Nameable
  <2> QED
    BY <1>3, <2>1, <2>2
<1>5. ASSUME NEW n \in NamedBy(s)
      PROVE  n \in A!Members(s)
  <2>1. n \in Nameable /\ start <= n /\ n <= s.end /\ (n - start) % step = 0
    BY <1>3
  <2> PICK x \in 0..far : n - start = x /\ n = start + x
    BY <1>1, <2>1 DEF Nameable
  <2>2. x \div step \in 0..(far \div step) /\ x = (x \div step) * step
    BY <1>1, <2>1, Multiples
  <2> QED
    BY <1>2, <2>2
<1> QED
  BY <1>2, <1>4, <1>5

(* And they are as many as the test before the loop says.                  *)
LEMMA MembersCounted ==
    ASSUME NEW s \in A!Written, A!WellFormed(s), IsFiniteSet(A!Members(s))
    PROVE  (s.end - s.start) \div s.step + 1 <= Cardinality(A!Members(s))
<1> DEFINE start == s.start
           step == s.step
           q == (s.end - s.start) \div s.step
           f == [k \in 0..q |-> start + k * step]
<1>1. step \in Nat \ {0} /\ start \in Nat /\ q \in Nat
  BY WellFormedStep, SegmentTypes, Multiples
<1>2. A!Members(s) = {start + k * step : k \in 0..q}
  BY DEF A!Members
<1> HIDE DEF start, step, q
<1>3. \A k \in 0..q, m \in 0..q : start + k * step = start + m * step => k = m
  <2> SUFFICES ASSUME NEW k \in 0..q, NEW m \in 0..q, start + k * step = start + m * step
               PROVE  k = m
    OBVIOUS
  <2>1. k \in Nat /\ m \in Nat
    BY <1>1
  <2>2. k * step = m * step
    BY <1>1, <2>1
  <2> QED
    BY <1>1, <2>1, <2>2
<1>4. f \in Injection(0..q, A!Members(s))
  BY <1>2, <1>3 DEF Injection, IsInjective
<1>5. Cardinality(0..q) <= Cardinality(A!Members(s))
  BY <1>4, FS_Injection
<1>6. Cardinality(0..q) = q + 1
  BY <1>1, FS_Interval
<1> QED
  BY <1>5, <1>6 DEF q

RangeInv == A!TypeOK /\ A!MembersExact

LEMMA RangeNext == RangeInv /\ [A!Next]_rangeVars => RangeInv'
<1> SUFFICES ASSUME RangeInv, [A!Next]_rangeVars
             PROVE  RangeInv'
  OBVIOUS
<1>1. CASE UNCHANGED rangeVars
  BY <1>1 DEF rangeVars, RangeInv, A!TypeOK, A!MembersExact, A!Named
<1>2. ASSUME NEW s \in A!Written, A!Read(s)
      PROVE  RangeInv'
  <2> DEFINE more == NamedBy(s)
  <2>1. /\ segments \in Seq(A!Written) /\ segments' = Append(segments, s)
        /\ Len(segments) < MaxSegments /\ Len(segments) <= MaxSegments
    BY <1>2 DEF A!Read, RangeInv, A!TypeOK
  <2>2. /\ segments' \in Seq(A!Written) /\ Len(segments') = Len(segments) + 1
        /\ \A i \in 1..Len(segments) : segments'[i] = segments[i]
        /\ segments'[Len(segments) + 1] = s /\ Len(segments) \in Nat
    BY <2>1
  <2>3. A!Named' = A!Named \union more
    <3>1. A!Named = {n \in Nameable : \E i \in 1..Len(segments) :
                        A!WellFormed(segments[i]) /\ A!Names(segments[i], n)}
      BY DEF A!Named, Nameable
    <3>2. A!Named' = {n \in Nameable : \E i \in 1..Len(segments') :
                        A!WellFormed(segments'[i]) /\ A!Names(segments'[i], n)}
      BY DEF A!Named, Nameable
    <3>3. 1..Len(segments') = 1..Len(segments) \union {Len(segments) + 1}
      BY <2>2
    <3>4. \A n \in Nameable :
            (\E i \in 1..Len(segments') : A!WellFormed(segments'[i]) /\ A!Names(segments'[i], n))
               <=> \/ \E i \in 1..Len(segments) : A!WellFormed(segments[i]) /\ A!Names(segments[i], n)
                   \/ A!WellFormed(s) /\ A!Names(s, n)
      BY <2>2, <3>3
    <3> QED
      BY <3>1, <3>2, <3>4 DEF NamedBy
  <2>4. /\ (\E i \in 1..Len(segments') : ~A!WellFormed(segments'[i]))
             <=> (\E i \in 1..Len(segments) : ~A!WellFormed(segments[i])) \/ ~A!WellFormed(s)
    <3>1. 1..Len(segments') = 1..Len(segments) \union {Len(segments) + 1}
      BY <2>2
    <3> QED
      BY <2>2, <3>1
  <2>5. /\ ~refused /\ seen = A!Named
        /\ ~(\E i \in 1..Len(segments) : ~A!WellFormed(segments[i]))
    BY <1>2 DEF A!Read, RangeInv, A!MembersExact
  <2>6. IsFiniteSet(more) /\ IsFiniteSet(A!Named') /\ more \subseteq A!Named' /\ A!Named' \subseteq Nameable
    <3>1. IsFiniteSet(Nameable)
      BY FS_Interval, RangesAssumption DEF Nameable
    <3>2. A!Named \subseteq Nameable /\ more \subseteq Nameable
      BY DEF A!Named, Nameable, NamedBy
    <3>3. A!Named' \subseteq Nameable
      BY <2>3, <3>2
    <3> QED
      BY <2>3, <3>1, <3>2, <3>3, FS_Subset
  <2>9. ASSUME seen' \subseteq Nameable, Cardinality(seen') <= MaxMembers, refused' \in BOOLEAN
        PROVE  A!TypeOK'
    <3>1. Len(segments') <= MaxSegments
      BY <2>1, <2>2, RangesAssumption
    <3> QED
      BY <2>2, <2>9, <3>1, SameCardinality, Zenon DEF A!TypeOK, Nameable
  <2>10. seen \subseteq Nameable /\ Cardinality(seen) <= MaxMembers
    BY SameCardinality DEF RangeInv, A!TypeOK, Nameable
  <2>7. CASE A!IllFormed(s)
    <3>1. refused' = TRUE /\ seen' = seen
      BY <1>2, <2>7 DEF A!Read
    <3>2. ~A!WellFormed(s)
      BY <2>7, FormIsTested
    <3>3. A!MembersExact'
      BY <2>4, <3>1, <3>2 DEF A!MembersExact
    <3>4. A!TypeOK'
      BY <2>9, <2>10, <3>1
    <3> QED
      BY <3>3, <3>4 DEF RangeInv
  <2>8. CASE ~A!IllFormed(s)
    <3>1. A!WellFormed(s)
      BY <2>8, FormIsTested
    <3>2. A!Members(s) = more
      BY <3>1, MembersAreNamed
    <3>3. (s.end - s.start) \div s.step + 1 <= Cardinality(more)
      BY <2>6, <3>1, <3>2, MembersCounted
    <3>4. seen \union A!Members(s) = A!Named'
      BY <2>3, <2>5, <3>2
    <3>5. CASE A!TooMany(s) \/ A!Overflows(s, A!Members(s))
      <4>1. refused' = TRUE /\ seen' = seen
        BY <1>2, <3>5 DEF A!Read
      <4>2. Cardinality(A!Named') > MaxMembers
        <5>1. CASE A!Overflows(s, A!Members(s))
          <6>1. Cardinality(seen \union A!Members(s)) > MaxMembers
            BY <5>1, SameCardinality DEF A!Overflows
          <6> QED
            BY <3>4, <6>1, Zenon
        <5>2. CASE A!TooMany(s)
          <6>1. (s.end - s.start) \div s.step + 1 > MaxMembers
            BY <5>2 DEF A!TooMany
          <6>2. (s.end - s.start) \div s.step \in Nat
            BY <3>1, WellFormedStep, Multiples
          <6>3. Cardinality(more) \in Nat /\ Cardinality(A!Named') \in Nat
            BY <2>6, FS_CardinalityType
          <6>4. Cardinality(more) <= Cardinality(A!Named')
            BY <2>6, FS_Subset
          <6> QED
            BY <3>3, <6>1, <6>2, <6>3, <6>4, RangesAssumption
        <5> QED
          BY <3>5, <5>1, <5>2
      <4>3. A!MembersExact'
        BY <4>1, <4>2, SameCardinality, Zenon DEF A!MembersExact
      <4>4. A!TypeOK'
        BY <2>9, <2>10, <4>1
      <4> QED
        BY <4>3, <4>4 DEF RangeInv
    <3>6. CASE ~(A!TooMany(s) \/ A!Overflows(s, A!Members(s)))
      <4>1. refused' = refused /\ seen' = A!Named'
        BY <1>2, <2>8, <3>4, <3>6 DEF A!Read
      <4>2. A!MembersExact'
        <5>1. \A i \in 1..Len(segments') : A!WellFormed(segments'[i])
          BY <2>4, <2>5, <3>1
        <5>2. ~refused' /\ seen' = A!Named'
          BY <2>5, <4>1
        <5> QED
          BY <5>1, <5>2, Zenon DEF A!MembersExact
      <4>3. Cardinality(A!Named') <= MaxMembers
        <5>1. ~(Cardinality(A!Named') > MaxMembers)
          <6>1. ~(Cardinality(seen \union A!Members(s)) > MaxMembers)
            BY <3>6, SameCardinality DEF A!Overflows
          <6> QED
            BY <3>4, <6>1, Zenon
        <5>2. Cardinality(A!Named') \in Nat
          BY <2>6, FS_CardinalityType
        <5> QED
          BY <5>1, <5>2, RangesAssumption
      <4>4. A!TypeOK'
        <5>1. seen' \subseteq Nameable /\ Cardinality(seen') <= MaxMembers
          BY <2>6, <4>1, <4>3
        <5>2. refused' \in BOOLEAN
          BY <4>1 DEF RangeInv, A!TypeOK
        <5> QED
          BY <2>9, <5>1, <5>2
      <4> QED
        BY <4>2, <4>4 DEF RangeInv
    <3> QED
      BY <3>5, <3>6
  <2> QED
    BY <2>7, <2>8
<1> QED
  BY <1>1, <1>2 DEF A!Next

(* An accepted range value names exactly the members of its segments, a    *)
(* refused one is ill-formed or names too many, for any limits and however *)
(* segments overlap (parseArray: the test before the loop refuses nothing  *)
(* that the loop would take).                                              *)
THEOREM MembersAreExact == PartsSpec => []MembersExact
<1>1. PartsInit => RangeInv
  <2> SUFFICES ASSUME PartsInit PROVE RangeInv
    OBVIOUS
  <2>1. segments = <<>> /\ seen = {} /\ refused = FALSE
    BY DEF PartsInit, A!Init
  <2>2. segments \in Seq(A!Written) /\ Len(segments) = 0 /\ Len(segments) <= MaxSegments
    BY <2>1, RangesAssumption
  <2>3. Cardinality(seen) <= MaxMembers
    BY <2>1, FS_EmptySet, RangesAssumption
  <2>4. A!TypeOK
    <3>1. seen \subseteq 0..MaxIndex
      BY <2>1
    <3>2. refused \in BOOLEAN
      BY <2>1
    <3> QED
      BY <2>2, <2>3, <3>1, <3>2, SameCardinality, Zenon DEF A!TypeOK
  <2>5. A!MembersExact
    BY <2>1, <2>2 DEF A!MembersExact, A!Named
  <2> QED
    BY <2>4, <2>5 DEF RangeInv
<1>2. RangeInv => MembersExact
  BY DEF RangeInv, MembersExact
<1> QED
  BY <1>1, <1>2, RangeNext, PartsStep, PTL DEF PartsSpec

-----------------------------------------------------------------------------
(* Options: what has been parsed, and what it is parsed from               *)

Keys == {"flag"} \union UNION {{arg.text[i].key : i \in DOMAIN arg.text} : arg \in Menu}
Flags == {arg.flag : arg \in Menu} \union {"", "l", "W", "N", "q", "j", "v", "V", "h"}
Entries == [chunk : BOOLEAN, key : Keys, value : Int]
Texts == Seq(Entries)
Args == {arg \in [flag : Flags, text : Texts] : arg.flag = "" => arg.text # <<>>}

LEMMA MenuIsTyped == Menu \subseteq Args
<1> SUFFICES ASSUME NEW arg \in Menu PROVE arg \in Args
  OBVIOUS
<1> DEFINE Strings == [chunk : BOOLEAN, key : STRING, value : Int]
<1>1. arg \in [flag : STRING, text : Seq(Strings)] /\ (arg.flag = "" => arg.text # <<>>)
  BY OptionsAssumption
<1>2. PICK text \in Seq(Strings) : text = arg.text
  BY <1>1
<1>3. ASSUME NEW i \in 1..Len(text) PROVE text[i] \in Strings /\ text[i].key \in Keys
  <2>1. text[i] \in Strings
    BY <1>3, ElementOfSeq
  <2> DEFINE keys == {arg.text[k].key : k \in DOMAIN arg.text}
  <2>2. text[i].key \in keys
    BY <1>2, <1>3
  <2>3. keys \subseteq Keys
    BY Zenon DEF Keys
  <2> QED
    BY <2>1, <2>2, <2>3, Zenon
<1>4. \A i \in 1..Len(text) : text[i] \in Entries
  BY <1>3 DEF Entries
<1>5. text \in Texts
  BY <1>4 DEF Texts
<1> QED
  BY <1>1, <1>2, <1>5 DEF Args, Flags

(* What is given of a field or of a variable is of that field or variable, *)
(* as it is sent again.                                                    *)
Fits(f, text) ==
    /\ f \in O!Resources => \E e \in Entries : /\ text = <<e>> /\ e.key = f
                                               /\ ~e.chunk /\ e.value # O!Absent
    /\ f = "depend" => text[1].key = "depend"
Names(x, text) == x \notin Managed /\ \E e \in Entries : text = <<e>> /\ e.key = x

Valued == {v \in [O!Fields -> Texts] : \A f \in O!Fields : v[f] # <<>> => Fits(f, v[f])}
Environments == {v \in [Variables -> Texts] : \A x \in Variables : v[x] # <<>> => Names(x, v[x])}
Parsed == [values : Valued, environment : Environments, exportAll : BOOLEAN, hold : BOOLEAN]
Taking == {"N", "q", "j", "l", "v", "W"}
States == [options : Parsed, operands : Seq(Texts), awaits : {""} \union Taking,
           literal : BOOLEAN, refused : BOOLEAN]

Reading == INSTANCE Folding WITH Op <- O!ParseArgument
Listing == INSTANCE Folding WITH Op <- O!Resource
Assigning == INSTANCE Folding WITH Op <- O!Assignment
Join(args, more) == args \o more
Joining == INSTANCE Folding WITH Op <- Join

LEMMA FoldsAreThese ==
    ASSUME NEW base, NEW seq
    PROVE  /\ O!FoldLeft(O!ParseArgument, base, seq) = Reading!Fold(base, seq)
           /\ O!FoldLeft(O!Resource, base, seq) = Listing!Fold(base, seq)
           /\ O!FoldLeft(O!Assignment, base, seq) = Assigning!Fold(base, seq)
           /\ O!FoldLeft(\o, base, seq) = Joining!Fold(base, seq)
<1>1. O!FoldLeft(O!ParseArgument, base, seq) = Reading!Fold(base, seq)
  BY ONLY Zenon DEF Reading!Fold, Reading!FoldLeft, Reading!MapThenFoldSet, Reading!Max,
     O!FoldLeft, O!MapThenFoldSet, O!Max
<1>2. O!FoldLeft(O!Resource, base, seq) = Listing!Fold(base, seq)
  BY ONLY Zenon DEF Listing!Fold, Listing!FoldLeft, Listing!MapThenFoldSet, Listing!Max,
     O!FoldLeft, O!MapThenFoldSet, O!Max
<1>3. O!FoldLeft(O!Assignment, base, seq) = Assigning!Fold(base, seq)
  BY ONLY Zenon DEF Assigning!Fold, Assigning!FoldLeft, Assigning!MapThenFoldSet, Assigning!Max,
     O!FoldLeft, O!MapThenFoldSet, O!Max
<1>4. O!FoldLeft(\o, base, seq) = Joining!Fold(base, seq)
  BY ONLY Zenon DEF Join, Joining!Fold, Joining!FoldLeft, Joining!MapThenFoldSet, Joining!Max,
     O!FoldLeft, O!MapThenFoldSet, O!Max
<1> QED
  BY <1>1, <1>2, <1>3, <1>4

(* Setting a field or a variable.                                          *)
LEMMA SetKeepsState ==
    ASSUME NEW st \in States, NEW f \in O!Fields, NEW text \in Texts, text # <<>> => Fits(f, text)
    PROVE  O!Set(st, f, text) \in States
<1>1. [st.options.values EXCEPT ![f] = text] \in Valued
  BY DEF States, Parsed, Valued
<1>2. [st.options EXCEPT !.values[f] = text] \in Parsed
  BY <1>1 DEF States, Parsed
<1> QED
  BY <1>2 DEF O!Set, States

LEMMA RefusedState ==
    ASSUME NEW st \in States
    PROVE  O!Refuse(st) \in States
BY DEF O!Refuse, States

LEMMA ResourceKeepsState ==
    ASSUME NEW st \in States, NEW e \in Entries
    PROVE  O!Resource(st, e) \in States
<1>1. CASE e.value = O!Absent \/ e.key \notin O!Resources \/ (e.chunk /\ e.key = "walltime")
  BY <1>1, RefusedState DEF O!Resource
<1>2. CASE ~(e.value = O!Absent \/ e.key \notin O!Resources \/ (e.chunk /\ e.key = "walltime"))
  <2> DEFINE d == [e EXCEPT !.chunk = FALSE]
  <2>1. d \in Entries /\ d.key = e.key /\ ~d.chunk /\ d.value = e.value
    BY DEF Entries
  <2> HIDE DEF d
  <2>2. <<d>> \in Texts
    BY <2>1 DEF Texts
  <2>3. Fits(e.key, <<d>>) /\ e.key \in O!Fields
    BY <1>2, <2>1 DEF Fits, O!Fields, O!Resources
  <2>4. O!Resource(st, e) = O!Set(st, e.key, <<d>>)
    BY <1>2 DEF O!Resource, d
  <2> QED
    BY <2>2, <2>3, <2>4, SetKeepsState
<1> QED
  BY <1>1, <1>2

LEMMA AssignmentKeepsState ==
    ASSUME NEW st \in States, NEW e \in Entries
    PROVE  O!Assignment(st, e) \in States
<1>1. CASE e.key \notin Variables \/ e.key \in Managed
  BY <1>1, RefusedState DEF O!Assignment
<1>2. CASE ~(e.key \notin Variables \/ e.key \in Managed)
  <2>1. <<e>> \in Texts /\ Names(e.key, <<e>>)
    BY <1>2 DEF Texts, Names
  <2>2. [st.options.environment EXCEPT ![e.key] = <<e>>] \in Environments
    BY <1>2, <2>1 DEF States, Parsed, Environments
  <2>3. [st.options EXCEPT !.environment[e.key] = <<e>>] \in Parsed
    BY <2>2 DEF States, Parsed
  <2> QED
    BY <1>2, <2>3 DEF O!Assignment, States
<1> QED
  BY <1>1, <1>2

LEMMA TakeKeepsState ==
    ASSUME NEW st \in States, NEW flag \in Taking, NEW text \in Texts
    PROVE  O!Take(st, flag, text) \in States
<1>1. CASE flag = "l"
  <2>1. \A t \in States : \A e \in Entries : O!Resource(t, e) \in States
    BY ResourceKeepsState
  <2>2. Listing!Fold(st, text) \in States
    BY <2>1, Listing!FoldKeeps, Zenon DEF Texts
  <2> QED
    BY <1>1, <2>2, FoldsAreThese, Zenon DEF O!Take
<1>2. CASE flag = "v"
  <2>1. \A t \in States : \A e \in Entries : O!Assignment(t, e) \in States
    BY AssignmentKeepsState
  <2>2. Assigning!Fold(st, text) \in States
    BY <2>1, Assigning!FoldKeeps, Zenon DEF Texts
  <2>3. O!Take(st, flag, text) = O!FoldLeft(O!Assignment, st, text)
    BY <1>2 DEF O!Take
  <2> QED
    BY <2>2, <2>3, FoldsAreThese, Zenon
<1>3. CASE flag \notin {"l", "v"}
  <2>1. CASE flag = "W" /\ text[1].key # "depend"
    BY <2>1, RefusedState DEF O!Take
  <2>2. CASE flag = "W" /\ text[1].key = "depend"
    <3>1. "depend" \in O!Fields /\ Fits("depend", text)
      BY <2>2 DEF O!Fields, Fits, O!Resources
    <3>2. O!Take(st, flag, text) = O!Set(st, "depend", text)
      BY <2>2 DEF O!Take
    <3> QED
      BY <3>1, <3>2, SetKeepsState
  <2>3. CASE flag # "W"
    <3>1. flag \in O!Fields /\ Fits(flag, text)
      BY <1>3, <2>3 DEF O!Fields, Fits, O!Resources, Taking
    <3>2. O!Take(st, flag, text) = O!Set(st, flag, text)
      BY <1>3, <2>3 DEF O!Take
    <3> QED
      BY <3>1, <3>2, SetKeepsState
  <2> QED
    BY <2>1, <2>2, <2>3
<1> QED
  BY <1>1, <1>2, <1>3

LEMMA TextOfArgument ==
    ASSUME NEW arg \in Args
    PROVE  O!AsText(arg) \in Texts /\ O!AsText(arg) # <<>> /\ arg.text \in Texts
<1> DEFINE e == O!Entry("flag", O!Absent)
<1>1. e \in Entries
  BY DEF O!Entry, O!Absent, Entries, Keys
<1>2. O!Plain("flag") = <<e>>
  BY DEF O!Plain
<1> HIDE DEF e
<1>3. <<e>> \in Texts /\ <<e>> # <<>>
  BY <1>1 DEF Texts
<1>4. O!Plain("flag") \in Texts /\ O!Plain("flag") # <<>>
  BY <1>2, <1>3, Zenon
<1> QED
  BY <1>4 DEF O!AsText, Args

(* An argument is the value of an option before it, an operand, the end    *)
(* of the options, or an option: refused, a switch, without its value, or  *)
(* with it (the loop of Parse).                                            *)
Completed(st, arg, flag, text) ==
    /\ ~st.refused /\ flag \in Taking
    /\ \/ st.awaits = flag /\ text = O!AsText(arg)
       \/ st.awaits = "" /\ ~st.literal /\ arg.flag = flag /\ text = arg.text
    /\ O!ParseArgument(st, arg) = O!Take(st, flag, text)
Step(st, arg) ==
    \/ st.refused /\ O!ParseArgument(st, arg) = st
    \/ \E flag \in Taking, text \in Texts : text # <<>> /\ Completed(st, arg, flag, text)
    \/ /\ ~st.refused /\ st.awaits = ""
       /\ \/ /\ st.literal \/ arg.flag = ""
             /\ O!ParseArgument(st, arg) = [st EXCEPT !.operands = Append(@, O!AsText(arg))]
          \/ /\ ~st.literal
             /\ \/ O!ParseArgument(st, arg) = [st EXCEPT !.literal = TRUE]
                \/ O!ParseArgument(st, arg) = O!Refuse(st)
                \/ \E flag \in {"V", "h"} : O!ParseArgument(st, arg) = O!Switch(st, flag)
                \/ \E flag \in Taking : O!ParseArgument(st, arg) = [st EXCEPT !.awaits = flag]

LEMMA ArgumentStep ==
    ASSUME NEW st \in States, NEW arg \in Args
    PROVE  Step(st, arg)
<1>1. O!AsText(arg) \in Texts /\ O!AsText(arg) # <<>> /\ arg.text \in Texts
  BY TextOfArgument
<1>2. st.awaits \in {""} \union Taking
  BY DEF States
<1>3. CASE st.refused
  BY <1>3 DEF Step, O!ParseArgument
<1>4. CASE ~st.refused /\ st.awaits # ""
  BY <1>1, <1>2, <1>4 DEF Step, Completed, O!ParseArgument
<1>5. CASE ~st.refused /\ st.awaits = "" /\ (st.literal \/ arg.flag = "")
  BY <1>5 DEF Step, O!ParseArgument
<1>6. CASE ~st.refused /\ st.awaits = "" /\ ~st.literal /\ arg.flag # ""
  <2>1. CASE arg = O!DashDash
    BY <1>6, <2>1 DEF Step, O!ParseArgument
  <2>2. CASE arg # O!DashDash /\ arg.flag \notin O!Allowed
    BY <1>6, <2>2 DEF Step, O!ParseArgument
  <2>3. CASE arg # O!DashDash /\ arg.flag \in {"V", "h"}
    BY <1>6, <2>3 DEF Step, O!ParseArgument, O!Allowed
  <2>4. CASE arg # O!DashDash /\ arg.flag \in O!Allowed /\ arg.flag \notin {"V", "h"}
    <3>1. arg.flag \in Taking
      BY <2>4 DEF O!Allowed, Taking
    <3> QED
      BY <1>1, <1>6, <2>4, <3>1 DEF Step, Completed, O!ParseArgument
  <2> QED
    BY <2>1, <2>2, <2>3, <2>4
<1> QED
  BY <1>3, <1>4, <1>5, <1>6

LEMMA ArgumentKeepsState ==
    ASSUME NEW st \in States, NEW arg \in Args
    PROVE  O!ParseArgument(st, arg) \in States
<1>1. Step(st, arg)
  BY ArgumentStep
<1>2. ASSUME NEW flag \in {"V", "h"} PROVE O!Switch(st, flag) \in States
  BY <1>2 DEF O!Switch, States, Parsed
<1>3. [st EXCEPT !.operands = Append(@, O!AsText(arg))] \in States
  BY TextOfArgument, AppendProperties DEF States
<1>4. /\ [st EXCEPT !.literal = TRUE] \in States
      /\ \A flag \in Taking : [st EXCEPT !.awaits = flag] \in States
  BY DEF States
<1>5. CASE \E flag \in Taking, text \in Texts : Completed(st, arg, flag, text)
  BY <1>5, TakeKeepsState DEF Completed
<1>6. CASE st.refused /\ O!ParseArgument(st, arg) = st
  BY <1>6
<1>7. CASE \/ O!ParseArgument(st, arg) = [st EXCEPT !.operands = Append(@, O!AsText(arg))]
           \/ O!ParseArgument(st, arg) = [st EXCEPT !.literal = TRUE]
           \/ \E flag \in {"V", "h"} : O!ParseArgument(st, arg) = O!Switch(st, flag)
           \/ \E flag \in Taking : O!ParseArgument(st, arg) = [st EXCEPT !.awaits = flag]
  BY <1>2, <1>3, <1>4, <1>7
<1>8. CASE O!ParseArgument(st, arg) = O!Refuse(st)
  BY <1>8, RefusedState
<1> QED
  BY <1>1, <1>5, <1>6, <1>7, <1>8 DEF Step

-----------------------------------------------------------------------------
(* Merging                                                                 *)

LEMMA MergeFields ==
    ASSUME NEW p \in Parsed, NEW q \in Parsed
    PROVE  /\ O!Merge(p, q) \in Parsed
           /\ \A f \in O!Fields : O!Merge(p, q).values[f] = IF q.values[f] # <<>> THEN q.values[f] ELSE p.values[f]
           /\ \A x \in Variables : O!Merge(p, q).environment[x]
                                      = IF q.environment[x] # <<>> THEN q.environment[x] ELSE p.environment[x]
           /\ O!Merge(p, q).exportAll <=> p.exportAll \/ q.exportAll
           /\ O!Merge(p, q).hold <=> p.hold \/ q.hold
<1> DEFINE v == [f \in O!Fields |-> IF q.values[f] # <<>> THEN q.values[f] ELSE p.values[f]]
           w == [x \in Variables |-> IF q.environment[x] # <<>> THEN q.environment[x] ELSE p.environment[x]]
<1>1. v \in Valued
  BY DEF Parsed, Valued
<1>2. w \in Environments
  BY DEF Parsed, Environments
<1>3. O!Merge(p, q) = [values |-> v, environment |-> w, exportAll |-> p.exportAll \/ q.exportAll,
                       hold |-> p.hold \/ q.hold]
  BY DEF O!Merge
<1>4. /\ \A f \in O!Fields : v[f] = IF q.values[f] # <<>> THEN q.values[f] ELSE p.values[f]
      /\ \A x \in Variables : w[x] = IF q.environment[x] # <<>> THEN q.environment[x] ELSE p.environment[x]
  OBVIOUS
<1>5. p.exportAll \in BOOLEAN /\ q.exportAll \in BOOLEAN /\ p.hold \in BOOLEAN /\ q.hold \in BOOLEAN
  BY DEF Parsed
<1> HIDE DEF v, w
<1> QED
  BY <1>1, <1>2, <1>3, <1>4, <1>5 DEF Parsed

(* The options of two readings that have come to the same point, one of    *)
(* which has read p before.                                                *)
After(p) == {pair \in States \X States :
                /\ pair[1].refused = pair[2].refused /\ pair[1].awaits = pair[2].awaits
                /\ pair[1].literal = pair[2].literal
                /\ ~pair[1].refused => pair[1].options = O!Merge(p, pair[2].options)}

LEMMA AfterIs ==
    ASSUME NEW p, NEW a, NEW b
    PROVE  <<a, b>> \in After(p) <=>
              /\ a \in States /\ b \in States
              /\ a.refused = b.refused /\ a.awaits = b.awaits /\ a.literal = b.literal
              /\ ~a.refused => a.options = O!Merge(p, b.options)
BY DEF After

LEMMA AfterMerges ==
    ASSUME NEW p, NEW a, NEW b, <<a, b>> \in After(p)
    PROVE  a.awaits = b.awaits /\ (~a.refused => a.options = O!Merge(p, b.options))
BY AfterIs

LEMMA SetAfter ==
    ASSUME NEW p \in Parsed, NEW a, NEW b, <<a, b>> \in After(p),
           NEW f \in O!Fields, NEW text \in Texts, text # <<>>, Fits(f, text)
    PROVE  <<O!Set(a, f, text), O!Set(b, f, text)>> \in After(p)
<1>1. /\ a \in States /\ b \in States /\ a.refused = b.refused /\ a.literal = b.literal
      /\ ~a.refused => a.options = O!Merge(p, b.options)
  BY AfterIs
<1>2. O!Set(a, f, text) \in States /\ O!Set(b, f, text) \in States
  BY <1>1, SetKeepsState
<1>3. ASSUME NEW st \in States
      PROVE  /\ O!Set(st, f, text).options = [st.options EXCEPT !.values[f] = text]
             /\ O!Set(st, f, text).awaits = "" /\ O!Set(st, f, text).literal = st.literal
             /\ O!Set(st, f, text).refused = st.refused
  BY DEF O!Set, States
<1>4. ASSUME NEW q \in Parsed
      PROVE  [O!Merge(p, q) EXCEPT !.values[f] = text] = O!Merge(p, [q EXCEPT !.values[f] = text])
  <2> DEFINE r == [q EXCEPT !.values[f] = text]
             Over(w) == [g \in O!Fields |-> IF w[g] # <<>> THEN w[g] ELSE p.values[g]]
  <2>1. /\ q.values \in [O!Fields -> Texts] /\ r.values = [q.values EXCEPT ![f] = text]
        /\ r.environment = q.environment /\ r.exportAll = q.exportAll /\ r.hold = q.hold
    BY <1>4 DEF Parsed, Valued
  <2>2. [Over(q.values) EXCEPT ![f] = text] = Over([q.values EXCEPT ![f] = text])
    BY <2>1
  <2> DEFINE env == [x \in Variables |-> IF q.environment[x] # <<>> THEN q.environment[x] ELSE p.environment[x]]
             all == p.exportAll \/ q.exportAll
             hold == p.hold \/ q.hold
  <2> HIDE DEF r
  <2>3. /\ O!Merge(p, q) = [values |-> Over(q.values), environment |-> env, exportAll |-> all, hold |-> hold]
        /\ O!Merge(p, r) = [values |-> Over(r.values), environment |-> env, exportAll |-> all, hold |-> hold]
    BY <2>1, Zenon DEF O!Merge
  <2> HIDE DEF Over, env, all, hold
  <2>4. [O!Merge(p, q) EXCEPT !.values[f] = text] = O!Merge(p, r)
    BY <2>1, <2>2, <2>3
  <2> QED
    BY <2>4 DEF r
<1>5. a.options \in Parsed /\ b.options \in Parsed
  BY <1>1 DEF States
<1>6. ~a.refused => O!Set(a, f, text).options = O!Merge(p, O!Set(b, f, text).options)
  <2> SUFFICES ASSUME ~a.refused PROVE O!Set(a, f, text).options = O!Merge(p, O!Set(b, f, text).options)
    OBVIOUS
  <2>1. O!Set(a, f, text).options = [O!Merge(p, b.options) EXCEPT !.values[f] = text]
    BY <1>1, <1>3
  <2>2. O!Merge(p, O!Set(b, f, text).options) = O!Merge(p, [b.options EXCEPT !.values[f] = text])
    BY <1>1, <1>3
  <2> QED
    BY <1>4, <1>5, <2>1, <2>2
<1>7. /\ O!Set(a, f, text).refused = O!Set(b, f, text).refused /\ O!Set(a, f, text).awaits = O!Set(b, f, text).awaits
      /\ O!Set(a, f, text).literal = O!Set(b, f, text).literal /\ O!Set(a, f, text).refused = a.refused
  BY <1>1, <1>3
<1> QED
  BY <1>2, <1>6, <1>7, AfterIs

LEMMA RefuseAfter ==
    ASSUME NEW p, NEW a, NEW b, <<a, b>> \in After(p)
    PROVE  <<O!Refuse(a), O!Refuse(b)>> \in After(p)
<1>1. a \in States /\ b \in States /\ a.literal = b.literal
  BY AfterIs
<1>2. \A st \in States : /\ O!Refuse(st).refused = TRUE /\ O!Refuse(st).awaits = ""
                          /\ O!Refuse(st).literal = st.literal /\ O!Refuse(st) \in States
  BY RefusedState DEF O!Refuse, States
<1>3. /\ O!Refuse(a) \in States /\ O!Refuse(b) \in States /\ O!Refuse(a).refused = TRUE
      /\ O!Refuse(a).refused = O!Refuse(b).refused /\ O!Refuse(a).awaits = O!Refuse(b).awaits
      /\ O!Refuse(a).literal = O!Refuse(b).literal
  BY <1>1, <1>2
<1> QED
  BY <1>3, AfterIs

LEMMA ResourceAfter ==
    ASSUME NEW p \in Parsed, NEW a, NEW b, <<a, b>> \in After(p), NEW e \in Entries
    PROVE  <<O!Resource(a, e), O!Resource(b, e)>> \in After(p)
<1>1. CASE e.value = O!Absent \/ e.key \notin O!Resources \/ (e.chunk /\ e.key = "walltime")
  <2>1. \A st : O!Resource(st, e) = O!Refuse(st)
    BY <1>1 DEF O!Resource
  <2> QED
    BY <2>1, RefuseAfter
<1>2. CASE ~(e.value = O!Absent \/ e.key \notin O!Resources \/ (e.chunk /\ e.key = "walltime"))
  <2> DEFINE d == [e EXCEPT !.chunk = FALSE]
  <2>1. d \in Entries /\ d.key = e.key /\ ~d.chunk /\ d.value = e.value
    BY DEF Entries
  <2>2. \A st : O!Resource(st, e) = O!Set(st, e.key, <<d>>)
    BY <1>2 DEF O!Resource
  <2> HIDE DEF d
  <2>3. <<d>> \in Texts /\ <<d>> # <<>>
    BY <2>1 DEF Texts
  <2>4. Fits(e.key, <<d>>) /\ e.key \in O!Fields
    BY <1>2, <2>1 DEF Fits, O!Fields, O!Resources
  <2> QED
    BY <2>2, <2>3, <2>4, SetAfter
<1> QED
  BY <1>1, <1>2

(* The same for a variable.                                                *)
LEMMA AssignmentAfter ==
    ASSUME NEW p \in Parsed, NEW a, NEW b, <<a, b>> \in After(p), NEW e \in Entries
    PROVE  <<O!Assignment(a, e), O!Assignment(b, e)>> \in After(p)
<1>1. CASE e.key \notin Variables \/ e.key \in Managed
  <2>1. \A st : O!Assignment(st, e) = O!Refuse(st)
    BY <1>1 DEF O!Assignment
  <2> QED
    BY <2>1, RefuseAfter
<1>2. CASE ~(e.key \notin Variables \/ e.key \in Managed)
  <2> DEFINE x == e.key
             text == <<e>>
             Put(st) == O!Assignment(st, e)
  <2>1. /\ a \in States /\ b \in States /\ a.refused = b.refused /\ a.literal = b.literal
        /\ ~a.refused => a.options = O!Merge(p, b.options)
    BY AfterIs
  <2>2. Put(a) \in States /\ Put(b) \in States
    BY <2>1, AssignmentKeepsState
  <2>3. x \in Variables /\ text \in Texts /\ text # <<>>
    BY <1>2 DEF Texts
  <2>4. ASSUME NEW st \in States
        PROVE  /\ Put(st).options = [st.options EXCEPT !.environment[x] = text]
               /\ Put(st).awaits = "" /\ Put(st).literal = st.literal /\ Put(st).refused = st.refused
    BY <1>2 DEF O!Assignment, States
  <2> HIDE DEF x, text, Put
  <2>5. ASSUME NEW q \in Parsed
        PROVE  [O!Merge(p, q) EXCEPT !.environment[x] = text] = O!Merge(p, [q EXCEPT !.environment[x] = text])
    <3> DEFINE r == [q EXCEPT !.environment[x] = text]
               Over(w) == [y \in Variables |-> IF w[y] # <<>> THEN w[y] ELSE p.environment[y]]
    <3>1. /\ q.environment \in [Variables -> Texts] /\ r.environment = [q.environment EXCEPT ![x] = text]
          /\ r.values = q.values /\ r.exportAll = q.exportAll /\ r.hold = q.hold
      BY <2>5 DEF Parsed, Environments
    <3>2. [Over(q.environment) EXCEPT ![x] = text] = Over([q.environment EXCEPT ![x] = text])
      BY <2>3, <3>1
    <3> DEFINE vals == [f \in O!Fields |-> IF q.values[f] # <<>> THEN q.values[f] ELSE p.values[f]]
               all == p.exportAll \/ q.exportAll
               hold == p.hold \/ q.hold
    <3> HIDE DEF r
    <3>3. /\ O!Merge(p, q) = [values |-> vals, environment |-> Over(q.environment), exportAll |-> all, hold |-> hold]
          /\ O!Merge(p, r) = [values |-> vals, environment |-> Over(r.environment), exportAll |-> all, hold |-> hold]
      BY <3>1, Zenon DEF O!Merge
    <3> HIDE DEF Over, vals, all, hold
    <3>4. [O!Merge(p, q) EXCEPT !.environment[x] = text] = O!Merge(p, r)
      BY <3>1, <3>2, <3>3
    <3> QED
      BY <3>4 DEF r
  <2>6. a.options \in Parsed /\ b.options \in Parsed
    BY <2>1 DEF States
  <2>7. ~a.refused => Put(a).options = O!Merge(p, Put(b).options)
    <3> SUFFICES ASSUME ~a.refused PROVE Put(a).options = O!Merge(p, Put(b).options)
      OBVIOUS
    <3>1. Put(a).options = [O!Merge(p, b.options) EXCEPT !.environment[x] = text]
      BY <2>1, <2>4
    <3>2. O!Merge(p, Put(b).options) = O!Merge(p, [b.options EXCEPT !.environment[x] = text])
      BY <2>1, <2>4
    <3> QED
      BY <2>5, <2>6, <3>1, <3>2
  <2>8. /\ Put(a).refused = Put(b).refused /\ Put(a).awaits = Put(b).awaits
        /\ Put(a).literal = Put(b).literal /\ Put(a).refused = a.refused
    BY <2>1, <2>4
  <2>9. <<Put(a), Put(b)>> \in After(p)
    BY <2>2, <2>7, <2>8, AfterIs
  <2> QED
    BY <2>9 DEF Put
<1> QED
  BY <1>1, <1>2

LEMMA TakeAfter ==
    ASSUME NEW p \in Parsed, NEW a, NEW b, <<a, b>> \in After(p),
           NEW flag \in Taking, NEW text \in Texts, text # <<>>
    PROVE  <<O!Take(a, flag, text), O!Take(b, flag, text)>> \in After(p)
<1>1. CASE flag = "l"
  <2>1. \A c, d : \A e \in Entries :
           <<c, d>> \in After(p) => <<O!Resource(c, e), O!Resource(d, e)>> \in After(p)
    BY ResourceAfter
  <2>2. <<Listing!Fold(a, text), Listing!Fold(b, text)>> \in After(p)
    BY <2>1, Listing!FoldRelated, Zenon DEF Texts
  <2>3. \A st : O!Take(st, flag, text) = O!FoldLeft(O!Resource, st, text)
    BY <1>1 DEF O!Take
  <2> QED
    BY <2>2, <2>3, FoldsAreThese, Zenon
<1>2. CASE flag = "v"
  <2>1. \A c, d : \A e \in Entries :
           <<c, d>> \in After(p) => <<O!Assignment(c, e), O!Assignment(d, e)>> \in After(p)
    BY AssignmentAfter
  <2>2. <<Assigning!Fold(a, text), Assigning!Fold(b, text)>> \in After(p)
    BY <2>1, Assigning!FoldRelated, Zenon DEF Texts
  <2>3. \A st : O!Take(st, flag, text) = O!FoldLeft(O!Assignment, st, text)
    BY <1>2 DEF O!Take
  <2> QED
    BY <2>2, <2>3, FoldsAreThese, Zenon
<1>3. CASE flag = "W" /\ text[1].key # "depend"
  <2>1. \A st : O!Take(st, flag, text) = O!Refuse(st)
    BY <1>3 DEF O!Take
  <2> QED
    BY <2>1, RefuseAfter
<1>4. CASE flag = "W" /\ text[1].key = "depend"
  <2>1. "depend" \in O!Fields /\ Fits("depend", text)
    BY <1>4 DEF O!Fields, Fits, O!Resources
  <2>2. \A st : O!Take(st, flag, text) = O!Set(st, "depend", text)
    BY <1>4 DEF O!Take
  <2> QED
    BY <2>1, <2>2, SetAfter
<1>5. CASE flag \notin {"l", "v", "W"}
  <2>1. flag \in O!Fields /\ Fits(flag, text)
    BY <1>5 DEF O!Fields, Fits, O!Resources, Taking
  <2>2. \A st : O!Take(st, flag, text) = O!Set(st, flag, text)
    BY <1>5 DEF O!Take
  <2> QED
    BY <2>1, <2>2, SetAfter
<1> QED
  BY <1>1, <1>2, <1>3, <1>4, <1>5

LEMMA SwitchAfter ==
    ASSUME NEW p \in Parsed, NEW a, NEW b, <<a, b>> \in After(p), NEW flag \in {"V", "h"}
    PROVE  <<O!Switch(a, flag), O!Switch(b, flag)>> \in After(p)
<1> DEFINE On(st) == O!Switch(st, flag)
<1>1. /\ a \in States /\ b \in States /\ a.refused = b.refused /\ a.awaits = b.awaits /\ a.literal = b.literal
      /\ ~a.refused => a.options = O!Merge(p, b.options)
  BY AfterIs
<1>2. ASSUME NEW st \in States
      PROVE  /\ On(st) \in States /\ On(st).refused = st.refused /\ On(st).awaits = st.awaits
             /\ On(st).literal = st.literal
             /\ On(st).options = IF flag = "V" THEN [st.options EXCEPT !.exportAll = TRUE]
                                 ELSE [st.options EXCEPT !.hold = TRUE]
  BY DEF O!Switch, States, Parsed
<1>3. ASSUME NEW q \in Parsed
      PROVE  /\ [O!Merge(p, q) EXCEPT !.exportAll = TRUE] = O!Merge(p, [q EXCEPT !.exportAll = TRUE])
             /\ [O!Merge(p, q) EXCEPT !.hold = TRUE] = O!Merge(p, [q EXCEPT !.hold = TRUE])
  <2> DEFINE vals == [f \in O!Fields |-> IF q.values[f] # <<>> THEN q.values[f] ELSE p.values[f]]
             env == [x \in Variables |-> IF q.environment[x] # <<>> THEN q.environment[x] ELSE p.environment[x]]
             r == [q EXCEPT !.exportAll = TRUE]
             t == [q EXCEPT !.hold = TRUE]
  <2>1. /\ r.values = q.values /\ r.environment = q.environment /\ r.exportAll = TRUE /\ r.hold = q.hold
        /\ t.values = q.values /\ t.environment = q.environment /\ t.exportAll = q.exportAll /\ t.hold = TRUE
    BY <1>3 DEF Parsed
  <2> HIDE DEF r, t
  <2>2. /\ O!Merge(p, q) = [values |-> vals, environment |-> env,
                            exportAll |-> p.exportAll \/ q.exportAll, hold |-> p.hold \/ q.hold]
        /\ O!Merge(p, r) = [values |-> vals, environment |-> env,
                            exportAll |-> p.exportAll \/ TRUE, hold |-> p.hold \/ q.hold]
        /\ O!Merge(p, t) = [values |-> vals, environment |-> env,
                            exportAll |-> p.exportAll \/ q.exportAll, hold |-> p.hold \/ TRUE]
    BY <2>1, Zenon DEF O!Merge
  <2> DEFINE all == p.exportAll \/ q.exportAll
             hold == p.hold \/ q.hold
  <2>4. (p.exportAll \/ TRUE) = TRUE /\ (p.hold \/ TRUE) = TRUE
    OBVIOUS
  <2>5. /\ O!Merge(p, q) = [values |-> vals, environment |-> env, exportAll |-> all, hold |-> hold]
        /\ O!Merge(p, r) = [values |-> vals, environment |-> env, exportAll |-> TRUE, hold |-> hold]
        /\ O!Merge(p, t) = [values |-> vals, environment |-> env, exportAll |-> all, hold |-> TRUE]
    BY <2>2, <2>4, Zenon
  <2> DEFINE yes == TRUE
  <2> HIDE DEF vals, env, all, hold, yes
  <2>3. /\ [O!Merge(p, q) EXCEPT !.exportAll = yes] = [values |-> vals, environment |-> env, exportAll |-> yes, hold |-> hold]
        /\ [O!Merge(p, q) EXCEPT !.hold = yes] = [values |-> vals, environment |-> env, exportAll |-> all, hold |-> yes]
    BY <2>5
  <2> QED
    BY <2>3, <2>5, Zenon DEF r, t, yes
<1> HIDE DEF On
<1>4. a.options \in Parsed /\ b.options \in Parsed
  BY <1>1 DEF States
<1>5. ~a.refused => On(a).options = O!Merge(p, On(b).options)
  <2>1. ASSUME flag = "V", ~a.refused PROVE On(a).options = O!Merge(p, On(b).options)
    <3>1. On(a).options = [O!Merge(p, b.options) EXCEPT !.exportAll = TRUE]
      BY <1>1, <1>2, <2>1
    <3>2. O!Merge(p, On(b).options) = O!Merge(p, [b.options EXCEPT !.exportAll = TRUE])
      BY <1>1, <1>2, <2>1
    <3> QED
      BY <1>3, <1>4, <3>1, <3>2
  <2>2. ASSUME flag # "V", ~a.refused PROVE On(a).options = O!Merge(p, On(b).options)
    <3>1. On(a).options = [O!Merge(p, b.options) EXCEPT !.hold = TRUE]
      BY <1>1, <1>2, <2>2
    <3>2. O!Merge(p, On(b).options) = O!Merge(p, [b.options EXCEPT !.hold = TRUE])
      BY <1>1, <1>2, <2>2
    <3> QED
      BY <1>3, <1>4, <3>1, <3>2
  <2> QED
    BY <2>1, <2>2
<1>6. <<On(a), On(b)>> \in After(p)
  BY <1>1, <1>2, <1>5, AfterIs
<1> QED
  BY <1>6 DEF On

LEMMA ReadAfter ==
    ASSUME NEW p \in Parsed, NEW a, NEW b, <<a, b>> \in After(p), NEW arg \in Args
    PROVE  <<O!ParseArgument(a, arg), O!ParseArgument(b, arg)>> \in After(p)
<1> DEFINE Read(st) == O!ParseArgument(st, arg)
<1>1. /\ a \in States /\ b \in States /\ a.refused = b.refused /\ a.awaits = b.awaits /\ a.literal = b.literal
      /\ ~a.refused => a.options = O!Merge(p, b.options)
  BY AfterIs
<1>2. O!AsText(arg) \in Texts /\ O!AsText(arg) # <<>> /\ arg.text \in Texts
  BY TextOfArgument
<1>3. Read(a) \in States /\ Read(b) \in States
  BY <1>1, ArgumentKeepsState
<1>4. a.awaits \in {""} \union Taking
  BY <1>1 DEF States
<1>5. CASE a.refused
  BY <1>1, <1>5 DEF O!ParseArgument
<1>6. CASE ~a.refused /\ a.awaits # ""
  <2>1. Read(a) = O!Take(a, a.awaits, O!AsText(arg)) /\ Read(b) = O!Take(b, a.awaits, O!AsText(arg))
    BY <1>1, <1>6 DEF O!ParseArgument
  <2> QED
    BY <1>2, <1>4, <1>6, <2>1, TakeAfter
<1>7. CASE ~a.refused /\ a.awaits = "" /\ (a.literal \/ arg.flag = "" \/ arg = O!DashDash)
  <2>1. ASSUME NEW st \in {a, b}
        PROVE  Read(st) = IF a.literal \/ arg.flag = "" THEN [st EXCEPT !.operands = Append(@, O!AsText(arg))]
                          ELSE [st EXCEPT !.literal = TRUE]
    BY <1>1, <1>7 DEF O!ParseArgument
  <2>2. ASSUME NEW st \in {a, b}
        PROVE  /\ Read(st).refused = st.refused /\ Read(st).awaits = st.awaits /\ Read(st).options = st.options
               /\ Read(st).literal = IF a.literal \/ arg.flag = "" THEN st.literal ELSE TRUE
    BY <1>1, <2>1 DEF States
  <2> HIDE DEF Read
  <2>3. /\ Read(a).refused = a.refused /\ Read(a).awaits = a.awaits /\ Read(a).options = a.options
        /\ Read(b).refused = b.refused /\ Read(b).awaits = b.awaits /\ Read(b).options = b.options
        /\ Read(a).literal = Read(b).literal
    BY <1>1, <2>2
  <2>4. <<Read(a), Read(b)>> \in After(p)
    BY <1>1, <1>3, <2>3, AfterIs
  <2> QED
    BY <2>4 DEF Read
<1>8. CASE ~a.refused /\ a.awaits = "" /\ ~(a.literal \/ arg.flag = "" \/ arg = O!DashDash)
  <2>1. CASE arg.flag \notin O!Allowed \/ (arg.flag \in {"V", "h"} /\ arg.text # <<>>)
    <3>1. Read(a) = O!Refuse(a) /\ Read(b) = O!Refuse(b)
      BY <1>1, <1>8, <2>1 DEF O!ParseArgument
    <3> QED
      BY <3>1, RefuseAfter
  <2>2. CASE arg.flag \in {"V", "h"} /\ arg.text = <<>>
    <3>1. Read(a) = O!Switch(a, arg.flag) /\ Read(b) = O!Switch(b, arg.flag)
      BY <1>1, <1>8, <2>2 DEF O!ParseArgument, O!Allowed
    <3> QED
      BY <2>2, <3>1, SwitchAfter
  <2>3. CASE arg.flag \in O!Allowed /\ arg.flag \notin {"V", "h"} /\ arg.text = <<>>
    <3>1. Read(a) = [a EXCEPT !.awaits = arg.flag] /\ Read(b) = [b EXCEPT !.awaits = arg.flag]
      BY <1>1, <1>8, <2>3 DEF O!ParseArgument
    <3>2. ASSUME NEW st \in {a, b}
          PROVE  /\ Read(st).refused = st.refused /\ Read(st).awaits = arg.flag /\ Read(st).options = st.options
                 /\ Read(st).literal = st.literal
      BY <1>1, <3>1 DEF States
    <3> HIDE DEF Read
    <3>3. <<Read(a), Read(b)>> \in After(p)
      BY <1>1, <1>3, <3>2, AfterIs
    <3> QED
      BY <3>3 DEF Read
  <2>4. CASE arg.flag \in O!Allowed /\ arg.flag \notin {"V", "h"} /\ arg.text # <<>>
    <3>1. Read(a) = O!Take(a, arg.flag, arg.text) /\ Read(b) = O!Take(b, arg.flag, arg.text)
      BY <1>1, <1>8, <2>4 DEF O!ParseArgument
    <3>2. arg.flag \in Taking
      BY <2>4 DEF O!Allowed, Taking
    <3> QED
      BY <1>2, <2>4, <3>1, <3>2, TakeAfter
  <2> QED
    BY <2>1, <2>2, <2>3, <2>4
<1> QED
  BY <1>5, <1>6, <1>7, <1>8

LEMMA StartState == O!Start \in States /\ O!NewOptions \in Parsed
<1>1. [f \in O!Fields |-> <<>>] \in Valued
  BY DEF Valued, Texts
<1>2. [x \in Variables |-> <<>>] \in Environments
  BY DEF Environments, Texts
<1>3. O!NewOptions \in Parsed
  BY <1>1, <1>2 DEF O!NewOptions, Parsed
<1> QED
  BY <1>3 DEF O!Start, States

LEMMA ReadState ==
    ASSUME NEW st \in States, NEW args \in Seq(Args)
    PROVE  Reading!Fold(st, args) \in States
<1>1. \A t \in States : \A arg \in Args : O!ParseArgument(t, arg) \in States
  BY ArgumentKeepsState
<1> QED
  BY <1>1, Reading!FoldKeeps, Zenon

LEMMA ParseIs ==
    ASSUME NEW args \in Seq(Args), NEW st, st = Reading!Fold(O!Start, args)
    PROVE  /\ st \in States
           /\ O!Parse(args) = IF st.awaits # "" THEN O!Refuse(st) ELSE st
           /\ O!Parse(args) \in States
<1>1. st \in States
  BY ReadState, StartState
<1>2. O!Parse(args) = IF st.awaits # "" THEN O!Refuse(st) ELSE st
  BY FoldsAreThese, Zenon DEF O!Parse
<1> QED
  BY <1>1, <1>2, RefusedState

LEMMA ReadParts ==
    ASSUME NEW st, NEW args \in Seq(Args), NEW more \in Seq(Args)
    PROVE  Reading!Fold(st, args \o more) = Reading!Fold(Reading!Fold(st, args), more)
BY Reading!FoldConcat

(* What is refused is refused to the end.                                  *)
LEMMA RefusedStays ==
    ASSUME NEW st \in States, st.refused, NEW args \in Seq(Args)
    PROVE  Reading!Fold(st, args).refused
<1> DEFINE T == {t \in States : t.refused}
<1>1. \A t \in T : \A arg \in Args : O!ParseArgument(t, arg) \in T
  BY DEF O!ParseArgument
<1>2. st \in T
  OBVIOUS
<1> HIDE DEF T
<1>3. Reading!Fold(st, args) \in T
  BY <1>1, <1>2, Reading!FoldKeeps, Zenon
<1> QED
  BY <1>3 DEF T

LEMMA MergeOfNothing ==
    ASSUME NEW p \in Parsed
    PROVE  O!Merge(p, O!NewOptions) = p
<1> DEFINE m == O!Merge(p, O!NewOptions)
<1>1. m \in Parsed /\ O!NewOptions \in Parsed
  BY StartState, MergeFields
<1>2. /\ \A f \in O!Fields : O!NewOptions.values[f] = <<>>
      /\ \A x \in Variables : O!NewOptions.environment[x] = <<>>
      /\ ~O!NewOptions.exportAll /\ ~O!NewOptions.hold
  BY DEF O!NewOptions
<1>3. /\ \A f \in O!Fields : m.values[f] = p.values[f]
      /\ \A x \in Variables : m.environment[x] = p.environment[x]
      /\ m.exportAll <=> p.exportAll
      /\ m.hold <=> p.hold
  BY <1>1, <1>2, MergeFields
<1> HIDE DEF m
<1>4. m.values = p.values
  BY <1>1, <1>3 DEF Parsed, Valued
<1>5. m.environment = p.environment
  BY <1>1, <1>3 DEF Parsed, Environments
<1>6. m.exportAll = p.exportAll /\ m.hold = p.hold
  BY <1>1, <1>3 DEF Parsed
<1>7. m = p
  BY <1>1, <1>4, <1>5, <1>6 DEF Parsed
<1> QED
  BY <1>7 DEF m

LEMMA SequenceIsCut ==
    ASSUME NEW S, NEW seq \in Seq(S), NEW n \in 0..Len(seq)
    PROVE  /\ SubSeq(seq, 1, n) \in Seq(S) /\ SubSeq(seq, n + 1, Len(seq)) \in Seq(S)
           /\ SubSeq(seq, 1, n) \o SubSeq(seq, n + 1, Len(seq)) = seq
<1>1. PICK k \in Nat : k = Len(seq)
  BY LenProperties
<1>2. n \in Nat /\ n <= k
  BY <1>1
<1>3. \A i \in 1..k : seq[i] \in S
  BY <1>1, ElementOfSeq
<1>4. SubSeq(seq, 1, n) \in Seq(S)
  <2>1. \A i \in 1..n : seq[i] \in S
    BY <1>2, <1>3
  <2>2. 1 \in Int /\ n \in Int
    BY <1>2
  <2> QED
    BY <2>1, <2>2, SubSeqProperties, Zenon
<1>5. SubSeq(seq, n + 1, k) \in Seq(S)
  <2>1. \A i \in (n + 1)..k : seq[i] \in S
    BY <1>2, <1>3
  <2>2. n + 1 \in Int /\ k \in Int
    BY <1>2
  <2> QED
    BY <2>1, <2>2, SubSeqProperties, Zenon
<1>6. SubSeq(seq, 1, n) \o SubSeq(seq, n + 1, k) = SubSeq(seq, 1, k)
  <2>1. 1 \in 1..Len(seq) + 1 /\ n \in (1 - 1)..Len(seq) /\ k \in n..Len(seq)
    BY <1>1, <1>2
  <2> QED
    BY <2>1, ConcatAdjacentSubSeq, Zenon
<1>7. SubSeq(seq, 1, k) = seq
  BY <1>1, SubSeqFull
<1> QED
  BY <1>1, <1>4, <1>5, <1>6, <1>7

(* A command line is read at once as in two pieces, whose options are      *)
(* merged.                                                                 *)
LEMMA RereadingMerges ==
    ASSUME cli \in Seq(Args)
    PROVE  O!MergeIsRereading
<1> SUFFICES ASSUME ~O!Command.refused, NEW n \in 0..Len(cli),
                    NEW first, first = O!FoldLeft(O!ParseArgument, O!Start, SubSeq(cli, 1, n)),
                    first.awaits = "", ~first.literal,
                    NEW rest, rest = O!Parse(SubSeq(cli, n + 1, Len(cli)))
             PROVE  O!Command.options = O!Merge(first.options, rest.options)
  BY Zenon DEF O!MergeIsRereading
<1> DEFINE before == SubSeq(cli, 1, n)
           after == SubSeq(cli, n + 1, Len(cli))
           whole == Reading!Fold(O!Start, cli)
           second == Reading!Fold(O!Start, after)
<1>1. before \in Seq(Args) /\ after \in Seq(Args) /\ before \o after = cli
  BY SequenceIsCut
<1> HIDE DEF before, after
<1>2. first = Reading!Fold(O!Start, before) /\ first \in States
  <2>1. first = Reading!Fold(O!Start, before)
    BY FoldsAreThese, Zenon DEF before
  <2> QED
    BY <1>1, <2>1, ParseIs, Zenon
<1>3. whole = Reading!Fold(first, after)
  <2>1. Reading!Fold(O!Start, before \o after) = Reading!Fold(Reading!Fold(O!Start, before), after)
    BY <1>1, ReadParts, Zenon
  <2> QED
    BY <1>1, <1>2, <2>1, Zenon
<1>4. /\ whole \in States /\ O!Command = IF whole.awaits # "" THEN O!Refuse(whole) ELSE whole
      /\ second \in States /\ rest = IF second.awaits # "" THEN O!Refuse(second) ELSE second
  <2>1. O!Command = O!Parse(cli) /\ rest = O!Parse(after)
    BY Zenon DEF O!Command, after
  <2> QED
    BY <1>1, <2>1, ParseIs, Zenon
<1>5. whole.awaits = "" /\ O!Command = whole /\ ~whole.refused
  <2>1. O!Refuse(whole).refused
    BY <1>4 DEF O!Refuse, States
  <2> QED
    BY <1>4, <2>1
<1>6. ~first.refused
  BY <1>1, <1>2, <1>3, <1>5, RefusedStays
<1>7. first.options \in Parsed
  BY <1>2 DEF States
<1>8. <<first, O!Start>> \in After(first.options)
  <2>1. /\ O!Start.options = O!NewOptions /\ O!Start.refused = FALSE /\ O!Start.literal = FALSE
        /\ O!Start.awaits = ""
    BY DEF O!Start
  <2>2. first.refused = FALSE /\ first.literal = FALSE
    BY <1>2, <1>6 DEF States
  <2>3. first.options = O!Merge(first.options, O!Start.options)
    BY <1>7, <2>1, MergeOfNothing
  <2> QED
    BY <1>2, <2>1, <2>2, <2>3, StartState, AfterIs
<1>9. <<whole, second>> \in After(first.options)
  <2>1. \A c, d : \A arg \in Args : <<c, d>> \in After(first.options) =>
           <<O!ParseArgument(c, arg), O!ParseArgument(d, arg)>> \in After(first.options)
    BY <1>7, ReadAfter
  <2>2. <<Reading!Fold(first, after), Reading!Fold(O!Start, after)>> \in After(first.options)
    BY <1>1, <1>8, <2>1, Reading!FoldRelated, Zenon
  <2> QED
    BY <1>3, <2>2, Zenon
<1> DEFINE p == first.options
<1> HIDE DEF whole, second, p
<1>10. rest = second /\ whole.options = O!Merge(first.options, second.options)
  <2>1. <<whole, second>> \in After(p)
    BY <1>9 DEF p
  <2>2. whole.awaits = second.awaits /\ (~whole.refused => whole.options = O!Merge(p, second.options))
    BY <2>1, AfterMerges, Zenon
  <2> QED
    BY <1>4, <1>5, <2>2 DEF p
<1> QED
  BY <1>5, <1>10

-----------------------------------------------------------------------------
(* What is sent                                                            *)

(* A finite set, as a sequence.                                            *)
Lists(q, S) == q \in Seq(S) /\ S = {q[i] : i \in DOMAIN q}

LEMMA SetIsListed ==
    ASSUME NEW S, IsFiniteSet(S)
    PROVE  Lists(O!SetToSeq(S), S)
<1> DEFINE n == Cardinality(S)
           q == O!SetToSeq(S)
<1>1. n \in Nat /\ O!Cardinality(S) = n
  <2>1. O!Cardinality(S) = Cardinality(S)
    BY Zenon DEF O!Cardinality, Cardinality
  <2> QED
    BY <2>1, FS_CardinalityType
<1>2. \E f \in [1..n -> S] : O!IsInjective(f)
  <2>1. ExistsBijection(1..n, S)
    BY FS_CardinalityType
  <2>2. PICK f \in Bijection(1..n, S) : TRUE
    BY <2>1 DEF ExistsBijection
  <2>3. f \in [1..n -> S] /\ \A i, j \in DOMAIN f : f[i] = f[j] => i = j
    BY <2>2 DEF Bijection, Injection, Surjection, IsInjective
  <2> QED
    BY <2>3 DEF O!IsInjective
<1>3. q \in [1..n -> S] /\ O!IsInjective(q)
  BY <1>1, <1>2, Zenon DEF O!SetToSeq
<1> HIDE DEF q
<1>4. \A i, j \in DOMAIN q : q[i] = q[j] => i = j
  BY <1>3 DEF O!IsInjective
<1>5. S = {q[i] : i \in DOMAIN q}
  <2>1. IsFiniteSet(1..n) /\ Cardinality(1..n) = n
    BY <1>1, FS_Interval
  <2>2. q \in Injection(1..n, S)
    BY <1>3, <1>4 DEF Injection, IsInjective
  <2>3. q \in Surjection(1..n, S)
    BY <1>1, <2>1, <2>2, FS_Injection
  <2> QED
    BY <1>3, <2>3 DEF Surjection
<1>6. q \in Seq(S)
  BY <1>1, <1>3
<1> QED
  BY <1>5, <1>6 DEF Lists, q

(* Some of the options o, and the reading that has them, or has them and a *)
(* flag whose value is next.                                               *)
Only(o, F, X) ==
    [values |-> [f \in O!Fields |-> IF f \in F THEN o.values[f] ELSE <<>>],
     environment |-> [x \in Variables |-> IF x \in X THEN o.environment[x] ELSE <<>>],
     exportAll |-> FALSE, hold |-> FALSE]
Expecting(p, flag) ==
    [options |-> p, operands |-> <<>>, awaits |-> flag, literal |-> FALSE, refused |-> FALSE]
HasRead(p) == Expecting(p, "")
WithField(p, f, text) == [p EXCEPT !.values[f] = text]
WithVariable(p, x, text) == [p EXCEPT !.environment[x] = text]

(* Setting a field or a variable of the options that have been read.       *)
LEMMA FieldIsSet ==
    ASSUME NEW p, NEW flag, NEW f, NEW text
    PROVE  O!Set(Expecting(p, flag), f, text) = HasRead(WithField(p, f, text))
<1> DEFINE q == [p EXCEPT !.values[f] = text]
           none == <<>>
           next == ""
           no == FALSE
           rejected == FALSE
           Reads(r, w) == [options |-> r, operands |-> none, awaits |-> w, literal |-> no, refused |-> rejected]
<1>1. Expecting(p, flag) = Reads(p, flag) /\ HasRead(q) = Reads(q, next)
  BY DEF Expecting, HasRead
<1>2. O!Set(Expecting(p, flag), f, text) = [Reads(p, flag) EXCEPT !.options.values[f] = text, !.awaits = next]
  BY <1>1, Zenon DEF O!Set
<1> HIDE DEF none, next, no, rejected
<1>3. [Reads(p, flag) EXCEPT !.options.values[f] = text, !.awaits = next] = Reads(q, next)
  <2>1. [Reads(p, flag) EXCEPT !.options.values[f] = text, !.awaits = next]
           = [Reads(p, flag) EXCEPT !.options = q, !.awaits = next]
    OBVIOUS
  <2> HIDE DEF q
  <2>2. [Reads(p, flag) EXCEPT !.options = q] = Reads(q, flag)
    OBVIOUS
  <2>3. [Reads(q, flag) EXCEPT !.awaits = next] = Reads(q, next)
    OBVIOUS
  <2> HIDE DEF Reads
  <2>4. [Reads(p, flag) EXCEPT !.options = q, !.awaits = next]
           = [[Reads(p, flag) EXCEPT !.options = q] EXCEPT !.awaits = next]
    OBVIOUS
  <2> QED
    BY <2>1, <2>2, <2>3, <2>4
<1> HIDE DEF Reads
<1> QED
  BY <1>1, <1>2, <1>3, Zenon DEF q, WithField, WithVariable

LEMMA VariableIsSet ==
    ASSUME NEW p, NEW flag, NEW e, e.key \in Variables \ Managed
    PROVE  O!Assignment(Expecting(p, flag), e) = HasRead(WithVariable(p, e.key, <<e>>))
<1> DEFINE x == e.key
           text == <<e>>
<1> DEFINE q == [p EXCEPT !.environment[x] = text]
           none == <<>>
           next == ""
           no == FALSE
           rejected == FALSE
           Reads(r, w) == [options |-> r, operands |-> none, awaits |-> w, literal |-> no, refused |-> rejected]
<1>1. Expecting(p, flag) = Reads(p, flag) /\ HasRead(q) = Reads(q, next)
  BY DEF Expecting, HasRead
<1>2. O!Assignment(Expecting(p, flag), e)
         = [Reads(p, flag) EXCEPT !.options.environment[x] = text, !.awaits = next]
  <2>1. ~(e.key \notin Variables \/ e.key \in Managed)
    OBVIOUS
  <2> QED
    BY <1>1, <2>1, Zenon DEF O!Assignment
<1> HIDE DEF x, text, none, next, no, rejected
<1>3. [Reads(p, flag) EXCEPT !.options.environment[x] = text, !.awaits = next] = Reads(q, next)
  <2>1. [Reads(p, flag) EXCEPT !.options.environment[x] = text, !.awaits = next]
           = [Reads(p, flag) EXCEPT !.options = q, !.awaits = next]
    OBVIOUS
  <2> HIDE DEF q
  <2>2. [Reads(p, flag) EXCEPT !.options = q] = Reads(q, flag)
    OBVIOUS
  <2>3. [Reads(q, flag) EXCEPT !.awaits = next] = Reads(q, next)
    OBVIOUS
  <2> HIDE DEF Reads
  <2>4. [Reads(p, flag) EXCEPT !.options = q, !.awaits = next]
           = [[Reads(p, flag) EXCEPT !.options = q] EXCEPT !.awaits = next]
    OBVIOUS
  <2> QED
    BY <2>1, <2>2, <2>3, <2>4
<1> HIDE DEF Reads
<1> QED
  BY <1>1, <1>2, <1>3, Zenon DEF q, x, text, WithVariable

(* One more field, and one more variable.                                  *)
LEMMA OneMoreField ==
    ASSUME NEW o, NEW F, NEW X, NEW f \in O!Fields
    PROVE  WithField(Only(o, F, X), f, o.values[f]) = Only(o, F \union {f}, X)
<1> DEFINE vals(G) == [g \in O!Fields |-> IF g \in G THEN o.values[g] ELSE <<>>]
           env == [x \in Variables |-> IF x \in X THEN o.environment[x] ELSE <<>>]
<1>1. [vals(F) EXCEPT ![f] = o.values[f]] = vals(F \union {f})
  OBVIOUS
<1> DEFINE no == FALSE
<1>2. \A G : Only(o, G, X) = [values |-> vals(G), environment |-> env, exportAll |-> no, hold |-> no]
  BY DEF Only
<1> HIDE DEF vals, env, no
<1> QED
  BY <1>1, <1>2 DEF WithField, WithVariable

LEMMA OneMoreVariable ==
    ASSUME NEW o, NEW F, NEW X, NEW x \in Variables
    PROVE  WithVariable(Only(o, F, X), x, o.environment[x]) = Only(o, F, X \union {x})
<1> DEFINE vals == [f \in O!Fields |-> IF f \in F THEN o.values[f] ELSE <<>>]
           env(Y) == [y \in Variables |-> IF y \in Y THEN o.environment[y] ELSE <<>>]
<1>1. [env(X) EXCEPT ![x] = o.environment[x]] = env(X \union {x})
  OBVIOUS
<1> DEFINE no == FALSE
<1>2. \A Y : Only(o, F, Y) = [values |-> vals, environment |-> env(Y), exportAll |-> no, hold |-> no]
  BY DEF Only
<1> HIDE DEF vals, env, no
<1> QED
  BY <1>1, <1>2 DEF WithField, WithVariable

(* A value is the same text after it was sent, if it looks like a flag too. *)
LEMMA SameText ==
    ASSUME NEW text
    PROVE  O!AsText(O!Word(text)) = text /\ O!AsText(O!AsArgument(text)) = text
<1>1. O!AsText(O!Word(text)) = text
  BY DEF O!AsText, O!Word
<1>2. O!AsText(O!Flag("V")) = O!Plain("flag")
  BY DEF O!AsText, O!Flag
<1> QED
  BY <1>1, <1>2, Zenon DEF O!AsArgument

(* A flag and its value as the next argument.                              *)
LEMMA PairIsRead ==
    ASSUME NEW p, NEW flag \in Taking, NEW arg
    PROVE  Reading!Fold(HasRead(p), <<O!Flag(flag), arg>>)
              = O!Take(Expecting(p, flag), flag, O!AsText(arg))
<1> DEFINE st == Expecting(p, flag)
<1>1. O!Flag(flag) # O!DashDash /\ O!Flag(flag).flag = flag /\ O!Flag(flag).text = <<>>
  BY DEF O!Flag, O!DashDash, Taking
<1>2. flag # "" /\ flag \in O!Allowed /\ flag \notin {"V", "h"}
  BY DEF Taking, O!Allowed
<1>3. ~HasRead(p).refused /\ HasRead(p).awaits = "" /\ ~HasRead(p).literal
  BY DEF HasRead, Expecting
<1>4. [HasRead(p) EXCEPT !.awaits = flag] = st
  <2> DEFINE none == <<>>
             next == ""
             no == FALSE
             rejected == FALSE
             Reads(r, w) == [options |-> r, operands |-> none, awaits |-> w, literal |-> no, refused |-> rejected]
  <2>1. st = Reads(p, flag) /\ HasRead(p) = Reads(p, next)
    BY DEF Expecting, HasRead
  <2> HIDE DEF none, next, no, rejected, st
  <2> QED
    BY <2>1
<1>5. O!ParseArgument(HasRead(p), O!Flag(flag)) = [HasRead(p) EXCEPT !.awaits = flag]
  BY <1>1, <1>2, <1>3 DEF O!ParseArgument
<1>6. ~st.refused /\ st.awaits = flag
  BY DEF Expecting
<1> HIDE DEF st
<1>7. O!ParseArgument(st, arg) = O!Take(st, flag, O!AsText(arg))
  BY <1>2, <1>6 DEF O!ParseArgument
<1>8. Reading!Fold(HasRead(p), <<O!Flag(flag), arg>>)
         = O!ParseArgument(O!ParseArgument(HasRead(p), O!Flag(flag)), arg)
  BY Reading!FoldTwo
<1> QED
  BY <1>4, <1>5, <1>7, <1>8 DEF st

(* What is sent of one field or variable adds it to what has been read.    *)
LEMMA FieldIsRead ==
    ASSUME NEW o \in Parsed, NEW F, NEW X, NEW f \in O!Fields, o.values[f] # <<>>
    PROVE  Reading!Fold(HasRead(Only(o, F, X)), O!ArgumentsOf(o, f)) = HasRead(Only(o, F \union {f}, X))
<1> DEFINE text == o.values[f]
           p == Only(o, F, X)
           flag == IF f \in O!Resources THEN "l" ELSE IF f = "depend" THEN "W" ELSE f
           st == Expecting(p, flag)
<1>1. Fits(f, text) /\ text \in Texts
  BY DEF Parsed, Valued
<1>2. flag \in Taking /\ O!ArgumentsOf(o, f) = <<O!Flag(flag), O!AsArgument(text)>>
  BY DEF O!ArgumentsOf, O!Fields, O!Resources, Taking
<1>3. O!Take(st, flag, text) = O!Set(st, f, text)
  <2>1. CASE f \in O!Resources
    <3>1. PICK e \in Entries : text = <<e>> /\ e.key = f /\ ~e.chunk /\ e.value # O!Absent
      BY <1>1, <2>1 DEF Fits
    <3>2. O!Take(st, flag, text) = O!FoldLeft(O!Resource, st, <<e>>)
      BY <2>1, <3>1 DEF O!Take
    <3>3. O!FoldLeft(O!Resource, st, <<e>>) = O!Resource(st, e)
      BY FoldsAreThese, Listing!FoldOne, Zenon
    <3>4. [e EXCEPT !.chunk = FALSE] = e
      <4>1. e.chunk = FALSE
        BY <3>1 DEF Entries
      <4> QED
        BY <4>1 DEF Entries
    <3> HIDE DEF st, text
    <3>5. O!Resource(st, e) = O!Set(st, f, <<e>>)
      BY <2>1, <3>1, <3>4 DEF O!Resource
    <3> QED
      BY <3>1, <3>2, <3>3, <3>5
  <2>2. CASE f = "depend"
    BY <1>1, <2>2 DEF O!Take, O!Resources, Fits
  <2>3. CASE f \notin O!Resources /\ f # "depend"
    BY <2>3 DEF O!Take, O!Fields, O!Resources
  <2> QED
    BY <2>1, <2>2, <2>3
<1>4. O!Set(st, f, text) = HasRead(WithField(p, f, text))
  BY FieldIsSet, Zenon
<1>5. WithField(p, f, text) = Only(o, F \union {f}, X)
  BY OneMoreField
<1>6. Reading!Fold(HasRead(p), <<O!Flag(flag), O!AsArgument(text)>>) = O!Take(st, flag, text)
  <2> HIDE DEF p, flag, text
  <2>1. Reading!Fold(HasRead(p), <<O!Flag(flag), O!AsArgument(text)>>)
           = O!Take(st, flag, O!AsText(O!AsArgument(text)))
    BY <1>2, PairIsRead, Zenon
  <2>2. O!AsText(O!AsArgument(text)) = text
    BY SameText, Zenon
  <2> QED
    BY <2>1, <2>2, Zenon
<1> HIDE DEF p, st, flag, text
<1>7. Reading!Fold(HasRead(p), O!ArgumentsOf(o, f)) = HasRead(Only(o, F \union {f}, X))
  BY <1>2, <1>3, <1>4, <1>5, <1>6, Zenon
<1> QED
  BY <1>7, Zenon DEF p

LEMMA VariableIsRead ==
    ASSUME NEW o \in Parsed, NEW F, NEW X, NEW x \in Variables, o.environment[x] # <<>>
    PROVE  Reading!Fold(HasRead(Only(o, F, X)), <<O!Flag("v"), O!Word(o.environment[x])>>)
              = HasRead(Only(o, F, X \union {x}))
<1> DEFINE text == o.environment[x]
           p == Only(o, F, X)
           st == Expecting(p, "v")
<1>1. Names(x, text)
  BY DEF Parsed, Environments
<1>2. PICK e \in Entries : text = <<e>> /\ e.key = x
  BY <1>1 DEF Names
<1>3. O!Take(st, "v", text) = O!FoldLeft(O!Assignment, st, <<e>>)
  BY <1>2 DEF O!Take
<1>4. O!FoldLeft(O!Assignment, st, <<e>>) = O!Assignment(st, e)
  BY FoldsAreThese, Assigning!FoldOne, Zenon
<1>5. e.key \in Variables \ Managed
  BY <1>1, <1>2 DEF Names
<1>6. O!Assignment(st, e) = HasRead(WithVariable(p, x, text))
  <2>1. O!Assignment(st, e) = HasRead(WithVariable(p, e.key, <<e>>))
    BY <1>5, VariableIsSet
  <2> QED
    BY <1>2, <2>1
<1>7. WithVariable(p, x, text) = Only(o, F, X \union {x})
  BY OneMoreVariable
<1>8. Reading!Fold(HasRead(p), <<O!Flag("v"), O!Word(text)>>) = O!Take(st, "v", text)
  <2>1. "v" \in Taking
    BY DEF Taking
  <2> HIDE DEF p, text
  <2>2. Reading!Fold(HasRead(p), <<O!Flag("v"), O!Word(text)>>) = O!Take(st, "v", O!AsText(O!Word(text)))
    BY <2>1, PairIsRead, Zenon
  <2>3. O!AsText(O!Word(text)) = text
    BY SameText, Zenon
  <2> QED
    BY <2>2, <2>3, Zenon
<1> HIDE DEF p, st, text
<1>9. Reading!Fold(HasRead(p), <<O!Flag("v"), O!Word(text)>>) = HasRead(Only(o, F, X \union {x}))
  BY <1>3, <1>4, <1>6, <1>7, <1>8, Zenon
<1> QED
  BY <1>9, Zenon DEF p, text

(* Readings that each add what one of the keys names add, one after the    *)
(* other, what all of them name.                                           *)
(* Each piece adds what its key names; the pieces of all keys, in one line. *)
Adds(at, piece, K) ==
    \A F \in SUBSET K, k \in K : /\ piece[k] \in Seq(Args)
                                /\ Reading!Fold(at[F], piece[k]) = at[F \union {k}]
Joined(piece, keys) == Joining!Fold(<<>>, [i \in DOMAIN keys |-> piece[keys[i]]])

LEMMA PiecesAreRead ==
    ASSUME NEW K, NEW keys, Lists(keys, K), NEW piece, NEW at, Adds(at, piece, K)
    PROVE  Joined(piece, keys) \in Seq(Args) /\ Reading!Fold(at[{}], Joined(piece, keys)) = at[K]
<1> DEFINE n == Len(keys)
           first(k) == [i \in 1..k |-> piece[keys[i]]]
           text(k) == Joining!Fold(<<>>, first(k))
           named(k) == {keys[i] : i \in 1..k}
           Right(k) == text(k) \in Seq(Args) /\ Reading!Fold(at[{}], text(k)) = at[named(k)]
           Wrong == {k \in 0..n : ~Right(k)}
<1>0. keys \in Seq(K) /\ K = {keys[i] : i \in DOMAIN keys}
  BY DEF Lists
<1>1. n \in Nat /\ DOMAIN keys = 1..n /\ \A i \in 1..n : keys[i] \in K
  BY <1>0, LenProperties, ElementOfSeq
<1>2. Wrong = {}
  <2>1. SUFFICES ASSUME Wrong # {} PROVE FALSE
    OBVIOUS
  <2>2. PICK m \in Wrong : \A k \in Wrong : m <= k
    <3>1. Wrong \subseteq Nat
      BY <1>1
    <3> HIDE DEF Wrong
    <3> QED
      BY <2>1, <3>1, Reading!HasLeast, Zenon
  <2>3. m \in 0..n /\ ~Right(m)
    OBVIOUS
  <2>4. m # 0
    <3>1. first(0) = <<>> /\ named(0) = {}
      OBVIOUS
    <3>2. text(0) = <<>>
      BY <3>1, Joining!FoldEmpty, Zenon
    <3>3. Reading!Fold(at[{}], <<>>) = at[{}] /\ <<>> \in Seq(Args)
      BY Reading!FoldEmpty
    <3>4. Right(0)
      BY <3>1, <3>2, <3>3, Zenon
    <3> HIDE DEF Right
    <3> QED
      BY <2>3, <3>4
  <2> DEFINE k == m - 1
             e == keys[m]
  <2>5. k \in Nat /\ m = k + 1 /\ k \in 0..n /\ m \in 1..n
    BY <1>1, <2>3, <2>4
  <2>6. Right(k)
    <3>1. ~(m <= k)
      BY <2>5
    <3>2. k \notin Wrong
      BY <2>2, <3>1
    <3> HIDE DEF Right, k
    <3> QED
      BY <2>5, <3>2
  <2>7. text(m) = text(k) \o piece[e]
    <3>1. DOMAIN first(k) = 1..k /\ DOMAIN first(m) = 1..(k + 1)
          /\ (\A i \in 1..k : first(k)[i] = first(m)[i]) /\ first(m)[k + 1] = piece[e]
      BY <2>5
    <3> HIDE DEF first, k, e
    <3>2. Joining!Fold(<<>>, first(m)) = Join(Joining!Fold(<<>>, first(k)), first(m)[k + 1])
      BY <2>5, <3>1, Joining!FoldOneMore
    <3> QED
      BY <3>1, <3>2 DEF Join
  <2>8. e \in K /\ named(k) \in SUBSET K /\ named(m) = named(k) \union {e}
    <3>1. e \in K
      BY <1>1, <2>5
    <3>2. named(k) \in SUBSET K
      BY <1>1, <2>5
    <3>3. 1..m = 1..k \union {m}
      BY <2>5
    <3> QED
      BY <3>1, <3>2, <3>3
  <2> HIDE DEF text, named, e, k
  <2>9. text(k) \in Seq(Args) /\ piece[e] \in Seq(Args)
    BY <2>6, <2>8 DEF Adds
  <2>10. text(m) \in Seq(Args)
    BY <2>7, <2>9, ConcatProperties
  <2>11. Reading!Fold(at[{}], text(k) \o piece[e]) = Reading!Fold(Reading!Fold(at[{}], text(k)), piece[e])
    BY <2>9, ReadParts
  <2>12. Reading!Fold(at[named(k)], piece[e]) = at[named(k) \union {e}]
    BY <2>8 DEF Adds
  <2>13. Reading!Fold(at[{}], text(m)) = at[named(m)]
    BY <2>6, <2>7, <2>8, <2>11, <2>12, Zenon
  <2> QED
    BY <2>3, <2>10, <2>13
<1>3. Right(n)
  <2>1. n \in 0..n
    BY <1>1
  <2> HIDE DEF Right, n
  <2> QED
    BY <1>2, <2>1
<1>4. text(n) = Joined(piece, keys) /\ named(n) = K
  <2>1. first(n) = [i \in DOMAIN keys |-> piece[keys[i]]]
    BY <1>1
  <2>2. named(n) = K
    BY <1>0, <1>1
  <2> QED
    BY <2>1, <2>2, Zenon DEF Joined
<1> HIDE DEF text, named, n
<1> QED
  BY <1>3, <1>4

(* The arguments that are made are arguments.                              *)
LEMMA SentIsTyped ==
    /\ \A flag \in Flags : flag # "" => O!Flag(flag) \in Args
    /\ \A text \in Texts : text # <<>> => O!Word(text) \in Args /\ O!AsArgument(text) \in Args
<1>1. <<>> \in Texts
  BY DEF Texts
<1>2. ASSUME NEW flag \in Flags, flag # "" PROVE O!Flag(flag) \in Args
  BY <1>1, <1>2 DEF O!Flag, Args
<1>3. ASSUME NEW text \in Texts, text # <<>> PROVE O!Word(text) \in Args
  <2>1. "" \in Flags
    BY DEF Flags
  <2> QED
    BY <1>3, <2>1 DEF O!Word, Args
<1>4. "V" \in Flags /\ "V" # ""
  BY DEF Flags
<1> QED
  BY <1>2, <1>3, <1>4, Zenon DEF O!AsArgument

LEMMA PieceIsTyped ==
    ASSUME NEW o \in Parsed
    PROVE  /\ \A f \in O!Fields : o.values[f] # <<>> => O!ArgumentsOf(o, f) \in Seq(Args)
           /\ \A x \in Variables : o.environment[x] # <<>>
                 => <<O!Flag("v"), O!Word(o.environment[x])>> \in Seq(Args)
           /\ <<O!Flag("V")>> \in Seq(Args) /\ <<O!Flag("h")>> \in Seq(Args)
<1>1. ASSUME NEW f \in O!Fields, o.values[f] # <<>> PROVE O!ArgumentsOf(o, f) \in Seq(Args)
  <2> DEFINE flag == IF f \in O!Resources THEN "l" ELSE IF f = "depend" THEN "W" ELSE f
  <2>1. flag \in Flags /\ flag # ""
    BY DEF Flags, O!Fields, O!Resources
  <2>2. o.values[f] \in Texts
    BY DEF Parsed, Valued
  <2>3. O!ArgumentsOf(o, f) = <<O!Flag(flag), O!AsArgument(o.values[f])>>
    BY DEF O!ArgumentsOf
  <2> HIDE DEF flag
  <2>4. O!Flag(flag) \in Args /\ O!AsArgument(o.values[f]) \in Args
    BY <1>1, <2>1, <2>2, SentIsTyped
  <2> QED
    BY <2>3, <2>4
<1>2. ASSUME NEW x \in Variables, o.environment[x] # <<>>
      PROVE  <<O!Flag("v"), O!Word(o.environment[x])>> \in Seq(Args)
  <2>1. o.environment[x] \in Texts
    BY DEF Parsed, Environments
  <2>2. O!Flag("v") \in Args /\ O!Word(o.environment[x]) \in Args
    BY <1>2, <2>1, SentIsTyped DEF Flags
  <2> QED
    BY <2>2
<1>3. O!Flag("V") \in Args /\ O!Flag("h") \in Args
  BY SentIsTyped DEF Flags
<1> QED
  BY <1>1, <1>2, <1>3

(* Options, by their parts; the switches add the last two.                 *)
Having(values, environment, exportAll, hold) ==
    [values |-> values, environment |-> environment, exportAll |-> exportAll, hold |-> hold]

LEMMA SwitchIsRead ==
    ASSUME NEW v, NEW e, NEW x, NEW h
    PROVE  /\ Reading!Fold(HasRead(Having(v, e, x, h)), <<O!Flag("V")>>) = HasRead(Having(v, e, TRUE, h))
           /\ Reading!Fold(HasRead(Having(v, e, x, h)), <<O!Flag("h")>>) = HasRead(Having(v, e, x, TRUE))
<1> DEFINE p == Having(v, e, x, h)
           none == <<>>
           next == ""
           no == FALSE
           rejected == FALSE
           yes == TRUE
           Reads(r) == [options |-> r, operands |-> none, awaits |-> next, literal |-> no, refused |-> rejected]
<1>1. \A r : HasRead(r) = Reads(r)
  BY DEF Expecting, HasRead
<1>2. ASSUME NEW flag \in {"V", "h"}
      PROVE  Reading!Fold(HasRead(p), <<O!Flag(flag)>>) = O!Switch(HasRead(p), flag)
  <2>1. O!Flag(flag) # O!DashDash /\ O!Flag(flag).flag = flag /\ O!Flag(flag).text = <<>>
    BY DEF O!Flag, O!DashDash
  <2>2. flag # "" /\ flag \in O!Allowed
    BY DEF O!Allowed
  <2>3. ~HasRead(p).refused /\ HasRead(p).awaits = "" /\ ~HasRead(p).literal
    BY DEF HasRead, Expecting
  <2> HIDE DEF p
  <2>4. O!ParseArgument(HasRead(p), O!Flag(flag)) = O!Switch(HasRead(p), flag)
    BY <2>1, <2>2, <2>3 DEF O!ParseArgument
  <2> QED
    BY <2>4, Reading!FoldOne
<1>3. /\ O!Switch(HasRead(p), "V") = [Reads(p) EXCEPT !.options.exportAll = yes]
      /\ O!Switch(HasRead(p), "h") = [Reads(p) EXCEPT !.options.hold = yes]
  <2>1. HasRead(p) = Reads(p)
    BY <1>1, Zenon
  <2> HIDE DEF p, Reads
  <2> QED
    BY <2>1 DEF O!Switch
<1> HIDE DEF none, next, no, rejected, yes
<1>4. /\ [p EXCEPT !.exportAll = yes] = Having(v, e, yes, h)
      /\ [p EXCEPT !.hold = yes] = Having(v, e, x, yes)
  BY DEF Having
<1> HIDE DEF p
<1>5. [Reads(p) EXCEPT !.options.exportAll = yes] = Reads([p EXCEPT !.exportAll = yes])
  OBVIOUS
<1>6. [Reads(p) EXCEPT !.options.hold = yes] = Reads([p EXCEPT !.hold = yes])
  OBVIOUS
<1> HIDE DEF Reads
<1>7. /\ O!Switch(HasRead(p), "V") = HasRead(Having(v, e, yes, h))
      /\ O!Switch(HasRead(p), "h") = HasRead(Having(v, e, x, yes))
  BY <1>1, <1>3, <1>4, <1>5, <1>6
<1>8. yes = TRUE
  BY DEF yes
<1> QED
  BY <1>2, <1>7, <1>8 DEF p

(* All fields, and then all variables, are read from what is made of them. *)
LEMMA FieldsAreRead ==
    ASSUME NEW o \in Parsed, NEW G, G = {f \in O!Fields : o.values[f] # <<>>},
           NEW keys, keys = O!SetToSeq(G),
           NEW joined, joined = O!FoldLeft(\o, <<>>, [i \in DOMAIN keys |-> O!ArgumentsOf(o, keys[i])])
    PROVE  /\ joined \in Seq(Args)
           /\ Reading!Fold(HasRead(Only(o, {}, {})), joined) = HasRead(Only(o, G, {}))
<1> DEFINE piece == [f \in G |-> O!ArgumentsOf(o, f)]
           at == [F \in SUBSET G |-> HasRead(Only(o, F, {}))]
<1>1. IsFiniteSet(G)
  <2>1. IsFiniteSet(O!Resources)
    <3>1. O!Resources = {"ncpus"} \union ({"mem"} \union ({"ngpus"} \union {"walltime"}))
      BY DEF O!Resources
    <3>2. IsFiniteSet({"ncpus"}) /\ IsFiniteSet({"mem"}) /\ IsFiniteSet({"ngpus"}) /\ IsFiniteSet({"walltime"})
      BY FS_Singleton
    <3> QED
      BY <3>1, <3>2, FS_Union, Zenon
  <2>2. IsFiniteSet({"N"} \union ({"q"} \union ({"j"} \union {"depend"})))
    <3>1. IsFiniteSet({"N"}) /\ IsFiniteSet({"q"}) /\ IsFiniteSet({"j"}) /\ IsFiniteSet({"depend"})
      BY FS_Singleton
    <3> QED
      BY <3>1, FS_Union, Zenon
  <2>3. O!Fields = O!Resources \union ({"N"} \union ({"q"} \union ({"j"} \union {"depend"})))
    BY DEF O!Fields
  <2>4. IsFiniteSet(O!Fields)
    BY <2>1, <2>2, <2>3, FS_Union, Zenon
  <2>5. G \subseteq O!Fields
    OBVIOUS
  <2> QED
    BY <2>4, <2>5, FS_Subset
<1>2. Lists(keys, G)
  BY <1>1, SetIsListed
<1>3. \A f \in G : piece[f] \in Seq(Args)
  BY PieceIsTyped
<1>4. Adds(at, piece, G)
  <2> SUFFICES ASSUME NEW F \in SUBSET G, NEW f \in G
               PROVE  Reading!Fold(at[F], piece[f]) = at[F \union {f}]
    BY <1>3, Zenon DEF Adds
  <2>1. f \in O!Fields /\ o.values[f] # <<>> /\ o \in Parsed
    OBVIOUS
  <2>2. at[F] = HasRead(Only(o, F, {})) /\ piece[f] = O!ArgumentsOf(o, f)
        /\ at[F \union {f}] = HasRead(Only(o, F \union {f}, {}))
    OBVIOUS
  <2> HIDE DEF at, piece
  <2>3. Reading!Fold(HasRead(Only(o, F, {})), O!ArgumentsOf(o, f)) = HasRead(Only(o, F \union {f}, {}))
    BY ONLY <2>1, FieldIsRead
  <2> QED
    BY <2>2, <2>3, Zenon
<1>5. joined = Joined(piece, keys)
  <2>1. \A i \in DOMAIN keys : keys[i] \in G
    BY <1>2 DEF Lists
  <2>2. [i \in DOMAIN keys |-> O!ArgumentsOf(o, keys[i])] = [i \in DOMAIN keys |-> piece[keys[i]]]
    BY <2>1
  <2> DEFINE pieces == [i \in DOMAIN keys |-> piece[keys[i]]]
  <2>3. joined = O!FoldLeft(\o, <<>>, pieces)
    BY <2>2, Zenon
  <2> HIDE DEF pieces
  <2>4. O!FoldLeft(\o, <<>>, pieces) = Joining!Fold(<<>>, pieces)
    BY FoldsAreThese
  <2> QED
    BY <2>3, <2>4, Zenon DEF pieces, Joined
<1>6. at[{}] = HasRead(Only(o, {}, {})) /\ at[G] = HasRead(Only(o, G, {}))
  OBVIOUS
<1> HIDE DEF at, piece
<1>7. joined \in Seq(Args) /\ Reading!Fold(at[{}], joined) = at[G]
  BY ONLY <1>2, <1>4, <1>5, PiecesAreRead
<1> QED
  BY <1>6, <1>7, Zenon

LEMMA VariablesAreRead ==
    ASSUME NEW o \in Parsed, NEW G, NEW H, H = {x \in Variables : o.environment[x] # <<>>},
           NEW keys, keys = O!SetToSeq(H),
           NEW joined,
           joined = O!FoldLeft(\o, <<>>, [i \in DOMAIN keys |-> <<O!Flag("v"), O!Word(o.environment[keys[i]])>>])
    PROVE  /\ joined \in Seq(Args)
           /\ Reading!Fold(HasRead(Only(o, G, {})), joined) = HasRead(Only(o, G, H))
<1> DEFINE piece == [x \in H |-> <<O!Flag("v"), O!Word(o.environment[x])>>]
           at == [X \in SUBSET H |-> HasRead(Only(o, G, X))]
<1>1. IsFiniteSet(H)
  <2>1. H \subseteq Variables
    OBVIOUS
  <2> QED
    BY <2>1, OptionsAssumption, FS_Subset
<1>2. Lists(keys, H)
  BY <1>1, SetIsListed
<1>3. \A x \in H : piece[x] \in Seq(Args)
  BY PieceIsTyped
<1>4. Adds(at, piece, H)
  <2> SUFFICES ASSUME NEW X \in SUBSET H, NEW x \in H
               PROVE  Reading!Fold(at[X], piece[x]) = at[X \union {x}]
    BY <1>3, Zenon DEF Adds
  <2>1. x \in Variables /\ o.environment[x] # <<>> /\ o \in Parsed
    OBVIOUS
  <2>2. at[X] = HasRead(Only(o, G, X)) /\ piece[x] = <<O!Flag("v"), O!Word(o.environment[x])>>
        /\ at[X \union {x}] = HasRead(Only(o, G, X \union {x}))
    OBVIOUS
  <2> HIDE DEF at, piece
  <2>3. Reading!Fold(HasRead(Only(o, G, X)), <<O!Flag("v"), O!Word(o.environment[x])>>)
           = HasRead(Only(o, G, X \union {x}))
    BY ONLY <2>1, VariableIsRead
  <2> QED
    BY <2>2, <2>3, Zenon
<1>5. joined = Joined(piece, keys)
  <2>1. \A i \in DOMAIN keys : keys[i] \in H
    BY <1>2 DEF Lists
  <2>2. [i \in DOMAIN keys |-> <<O!Flag("v"), O!Word(o.environment[keys[i]])>>]
           = [i \in DOMAIN keys |-> piece[keys[i]]]
    BY <2>1
  <2> DEFINE pieces == [i \in DOMAIN keys |-> piece[keys[i]]]
  <2>3. joined = O!FoldLeft(\o, <<>>, pieces)
    BY <2>2, Zenon
  <2> HIDE DEF pieces
  <2>4. O!FoldLeft(\o, <<>>, pieces) = Joining!Fold(<<>>, pieces)
    BY FoldsAreThese
  <2> QED
    BY <2>3, <2>4, Zenon DEF pieces, Joined
<1>6. at[{}] = HasRead(Only(o, G, {})) /\ at[H] = HasRead(Only(o, G, H))
  OBVIOUS
<1> HIDE DEF at, piece
<1>7. joined \in Seq(Args) /\ Reading!Fold(at[{}], joined) = at[H]
  BY ONLY <1>2, <1>4, <1>5, PiecesAreRead
<1> QED
  BY <1>6, <1>7, Zenon

(* What has been parsed is read again from the arguments made of it.       *)
LEMMA ArgumentsAreRead ==
    ASSUME NEW o \in Parsed
    PROVE  O!Arguments(o) \in Seq(Args) /\ Reading!Fold(O!Start, O!Arguments(o)) = HasRead(o)
<1> DEFINE G == {f \in O!Fields : o.values[f] # <<>>}
           H == {x \in Variables : o.environment[x] # <<>>}
           fields == O!SetToSeq(G)
           variables == O!SetToSeq(H)
           first == O!FoldLeft(\o, <<>>, [i \in DOMAIN fields |-> O!ArgumentsOf(o, fields[i])])
           second == O!FoldLeft(\o, <<>>, [i \in DOMAIN variables |->
                                              <<O!Flag("v"), O!Word(o.environment[variables[i]])>>])
           third == IF o.exportAll THEN <<O!Flag("V")>> ELSE <<>>
           fourth == IF o.hold THEN <<O!Flag("h")>> ELSE <<>>
           have(x, h) == HasRead(Having(o.values, o.environment, x, h))
<1>1. first \in Seq(Args) /\ Reading!Fold(HasRead(Only(o, {}, {})), first) = HasRead(Only(o, G, {}))
  BY FieldsAreRead
<1>2. second \in Seq(Args) /\ Reading!Fold(HasRead(Only(o, G, {})), second) = HasRead(Only(o, G, H))
  BY VariablesAreRead
<1>3. third \in Seq(Args) /\ fourth \in Seq(Args)
  BY PieceIsTyped
<1>4. HasRead(Only(o, {}, {})) = O!Start
  BY DEF HasRead, Expecting, Only, O!Start, O!NewOptions
<1>5. Only(o, G, H) = Having(o.values, o.environment, FALSE, FALSE)
  <2>1. o.values = [f \in O!Fields |-> IF f \in G THEN o.values[f] ELSE <<>>]
    BY DEF Parsed, Valued
  <2>2. o.environment = [x \in Variables |-> IF x \in H THEN o.environment[x] ELSE <<>>]
    BY DEF Parsed, Environments
  <2> HIDE DEF G, H
  <2> QED
    BY <2>1, <2>2, Zenon DEF Only, Having
<1>6. o.exportAll \in BOOLEAN /\ o.hold \in BOOLEAN
  BY DEF Parsed
<1>7. Reading!Fold(have(FALSE, FALSE), third) = have(o.exportAll, FALSE)
  <2>1. CASE o.exportAll
    <3>1. o.exportAll = TRUE /\ third = <<O!Flag("V")>>
      BY <1>6, <2>1
    <3>2. Reading!Fold(have(FALSE, FALSE), <<O!Flag("V")>>) = have(TRUE, FALSE)
      BY SwitchIsRead
    <3> HIDE DEF third, have
    <3> QED
      BY <3>1, <3>2
  <2>2. CASE ~o.exportAll
    <3>1. o.exportAll = FALSE /\ third = <<>>
      BY <1>6, <2>2
    <3> QED
      BY <3>1, Reading!FoldEmpty, Zenon
  <2> QED
    BY <2>1, <2>2
<1>8. Reading!Fold(have(o.exportAll, FALSE), fourth) = have(o.exportAll, o.hold)
  <2>1. CASE o.hold
    <3>1. o.hold = TRUE /\ fourth = <<O!Flag("h")>>
      BY <1>6, <2>1
    <3> QED
      BY <3>1, SwitchIsRead, Zenon
  <2>2. CASE ~o.hold
    <3>1. o.hold = FALSE /\ fourth = <<>>
      BY <1>6, <2>2
    <3> QED
      BY <3>1, Reading!FoldEmpty, Zenon
  <2> QED
    BY <2>1, <2>2
<1>9. have(o.exportAll, o.hold) = HasRead(o)
  <2>1. o = Having(o.values, o.environment, o.exportAll, o.hold)
    BY DEF Parsed, Having
  <2> QED
    BY <2>1, Zenon
<1>10. O!Arguments(o) = ((first \o second) \o third) \o fourth
  BY Zenon DEF O!Arguments
<1> HIDE DEF G, H, fields, variables, first, second, third, fourth, have
<1>11. /\ first \o second \in Seq(Args) /\ (first \o second) \o third \in Seq(Args)
       /\ ((first \o second) \o third) \o fourth \in Seq(Args)
  BY <1>1, <1>2, <1>3, ConcatProperties
<1>12. Reading!Fold(O!Start, first \o second) = HasRead(Only(o, G, H))
  <2>1. Reading!Fold(O!Start, first \o second) = Reading!Fold(Reading!Fold(O!Start, first), second)
    BY <1>1, <1>2, ReadParts
  <2> QED
    BY <1>1, <1>2, <1>4, <2>1, Zenon
<1>13. Reading!Fold(O!Start, (first \o second) \o third) = have(o.exportAll, FALSE)
  <2>1. Reading!Fold(O!Start, (first \o second) \o third)
           = Reading!Fold(Reading!Fold(O!Start, first \o second), third)
    BY <1>3, <1>11, ReadParts
  <2>2. HasRead(Only(o, G, H)) = have(FALSE, FALSE)
    BY <1>5, Zenon DEF have
  <2> QED
    BY <1>7, <1>12, <2>1, <2>2, Zenon
<1>14. Reading!Fold(O!Start, ((first \o second) \o third) \o fourth) = HasRead(o)
  <2>1. Reading!Fold(O!Start, ((first \o second) \o third) \o fourth)
           = Reading!Fold(Reading!Fold(O!Start, (first \o second) \o third), fourth)
    BY <1>3, <1>11, ReadParts
  <2> QED
    BY <1>8, <1>9, <1>13, <2>1, Zenon
<1> QED
  BY <1>10, <1>11, <1>14, Zenon

(* qsub sends what it has parsed.                                          *)
LEMMA SentIsRead ==
    ASSUME cli \in Seq(Args)
    PROVE  /\ O!Command \in States /\ O!Command.options \in Parsed
           /\ O!Sent = HasRead(O!Command.options)
           /\ O!Sent = [O!Start EXCEPT !.options = O!Command.options]
<1> DEFINE o == O!Command.options
<1>1. O!Command \in States
  <2>1. O!Parse(cli) \in States
    BY ParseIs
  <2> QED
    BY <2>1, Zenon DEF O!Command
<1>2. o \in Parsed
  BY <1>1 DEF States
<1> HIDE DEF o
<1>3. O!Parse(O!Arguments(o)) = HasRead(o)
  <2>1. O!Arguments(o) \in Seq(Args) /\ Reading!Fold(O!Start, O!Arguments(o)) = HasRead(o)
    BY <1>2, ArgumentsAreRead
  <2>2. O!Parse(O!Arguments(o)) = IF HasRead(o).awaits # "" THEN O!Refuse(HasRead(o)) ELSE HasRead(o)
    BY <2>1, ParseIs
  <2>3. HasRead(o).awaits = ""
    BY DEF HasRead, Expecting
  <2> QED
    BY <2>2, <2>3
<1>4. HasRead(o) = [O!Start EXCEPT !.options = o]
  <2> DEFINE none == <<>>
             next == ""
             no == FALSE
             rejected == FALSE
             Reads(r) == [options |-> r, operands |-> none, awaits |-> next, literal |-> no, refused |-> rejected]
  <2>1. HasRead(o) = Reads(o) /\ O!Start = Reads(O!NewOptions)
    BY Zenon DEF HasRead, Expecting, O!Start
  <2> HIDE DEF none, next, no, rejected
  <2>2. [Reads(O!NewOptions) EXCEPT !.options = o] = Reads(o)
    OBVIOUS
  <2> HIDE DEF Reads
  <2> QED
    BY <2>1, <2>2
<1>5. O!Sent = O!Parse(O!Arguments(o))
  BY Zenon DEF O!Sent, o
<1> QED
  BY <1>1, <1>2, <1>3, <1>4, <1>5, Zenon DEF o

-----------------------------------------------------------------------------
(* What is granted                                                         *)

(* The lines of the script, one after the other (Directives).              *)
OverLine(o, line) == O!Merge(o, O!Parse(line).options)
Overlaying == INSTANCE Folding WITH Op <- OverLine

LEMMA DirectivesAreParsed ==
    ASSUME NEW script \in Seq(Seq(Args))
    PROVE  O!Directives(script).options \in Parsed
<1> DEFINE over == Overlaying!Fold(O!NewOptions, script)
<1>1. O!Directives(script).options = over
  BY ONLY Zenon DEF Overlaying!Fold, Overlaying!FoldLeft, Overlaying!MapThenFoldSet, Overlaying!Max,
     O!FoldLeft, O!MapThenFoldSet, O!Max, O!Directives, OverLine
<1>2. \A p \in Parsed : \A line \in Seq(Args) : OverLine(p, line) \in Parsed
  <2> SUFFICES ASSUME NEW p \in Parsed, NEW line \in Seq(Args) PROVE OverLine(p, line) \in Parsed
    OBVIOUS
  <2>1. O!Parse(line) \in States
    BY ParseIs
  <2>2. O!Parse(line).options \in Parsed
    BY <2>1 DEF States
  <2> QED
    BY <2>2, MergeFields DEF OverLine
<1>3. over \in Parsed
  BY <1>2, StartState, Overlaying!FoldKeeps, Zenon
<1> QED
  BY <1>1, <1>3

LEMMA AskedGranted ==
    ASSUME lines \in Seq(Seq(Args)), cli \in Seq(Args)
    PROVE  O!AskedIsGranted
<1> SUFFICES ASSUME O!Accepted PROVE O!AskedIsGranted
  BY DEF O!AskedIsGranted
<1> DEFINE d == O!Directives(lines).options
           c == O!Command.options
           m == O!Merged
<1>1. c \in Parsed /\ O!Sent.options = c
  BY SentIsRead DEF HasRead, Expecting
<1>2. d \in Parsed
  BY DirectivesAreParsed
<1>3. m = O!Merge(d, c)
  BY <1>1, Zenon DEF O!Merged
<1> HIDE DEF d, c, m
<1>4. /\ m \in Parsed
      /\ \A f \in O!Fields : m.values[f] = IF c.values[f] # <<>> THEN c.values[f] ELSE d.values[f]
  BY <1>1, <1>2, <1>3, MergeFields
<1>5. \A f \in O!Fields : O!Given(c, f) => O!Given(m, f) /\ m.values[f] = c.values[f]
  BY <1>4 DEF O!Given
<1>6. "ngpus" \in O!Fields /\ "q" \in O!Fields
  BY DEF O!Fields, O!Resources
<1>7. O!Acceptable(m)
  BY Zenon DEF O!Accepted, m
<1>8. ASSUME O!Given(m, "ngpus") PROVE O!DevicesOf(m) = m.values["ngpus"][1].value
  BY <1>8, Zenon DEF O!DevicesOf, O!Requested
<1>9. ASSUME O!Given(m, "q") PROVE O!QueueOf(m) = m.values["q"][1].key
  BY <1>9, Zenon DEF O!QueueOf
<1>10. \A o \in {m, c} : O!Given(o, "ngpus") => O!DevicesOf(m) = o.values["ngpus"][1].value
  BY <1>5, <1>6, <1>8
<1>11. O!Given(c, "q") => O!QueueOf(m) = c.values["q"][1].key
  BY <1>5, <1>6, <1>9
<1>12. O!DevicesOf(m) > 0 <=> O!QueueOf(m) = "gpu"
  BY <1>7, Zenon DEF O!Acceptable
<1>13. O!RequestGranted
  BY <1>10, <1>11, <1>12, Zenon DEF O!RequestGranted, m, c
<1>14. /\ \A x \in O!Named(c) : x \in O!Named(m) /\ O!NamedValue(m, x) = O!NamedValue(c, x)
       /\ \A x \in O!Named(d) \ O!Named(c) : x \in O!Named(m) /\ O!NamedValue(m, x) = O!NamedValue(d, x)
  BY <1>1, <1>2, <1>3, MergeFields DEF O!Named, O!NamedValue
<1>15. O!Named(m) \intersect Managed = {}
  BY <1>4 DEF O!Named, Parsed, Environments, Names
<1>16. /\ O!Inherited(m) \intersect Managed = {} /\ O!Inherited(m) \subseteq DOMAIN Submitted
       /\ m.exportAll => O!Inherited(m) = DOMAIN Submitted \ Managed
       /\ (DOMAIN Submitted \ Managed) \intersect Baseline \subseteq O!Inherited(m)
       /\ ~m.exportAll => O!Inherited(m) \subseteq Baseline
  BY DEF O!Inherited
<1> DEFINE given == O!Export(m)
           D == O!Inherited(m) \union O!Named(m) \union {"PATH", "SHELL"}
<1>17. /\ DOMAIN given = D
       /\ \A x \in D : given[x] = IF x = "SHELL" THEN Shell
                                   ELSE IF x \in O!Named(m) THEN O!NamedValue(m, x)
                                   ELSE IF x \in O!Inherited(m) THEN Submitted[x]
                                   ELSE DefaultPath
  BY DEF O!Export
<1> HIDE DEF given
<1>18. {"PATH", "SHELL"} \intersect Managed = {} /\ "PATH" \in Baseline
  BY OptionsAssumption
<1>19. \A x \in O!Named(c) \ {"SHELL"} : given[x] = O!NamedValue(c, x)
  BY <1>14, <1>17
<1>20. \A x \in O!Named(d) \ (O!Named(c) \union {"SHELL"}) : given[x] = O!NamedValue(d, x)
  BY <1>14, <1>17
<1>21. \A x \in DOMAIN given \ (O!Named(m) \union {"SHELL"}) :
          IF x \in DOMAIN Submitted THEN given[x] = Submitted[x] ELSE x = "PATH" /\ given[x] = DefaultPath
  BY <1>16, <1>17, <1>18
<1>22. "PATH" \in DOMAIN given /\ given["SHELL"] = Shell
  BY <1>17
<1>23. /\ DOMAIN given \intersect Managed = {}
       /\ IF m.exportAll THEN DOMAIN Submitted \ Managed \subseteq DOMAIN given
          ELSE DOMAIN given \subseteq Baseline \union O!Named(m) \union {"PATH", "SHELL"}
  BY <1>15, <1>16, <1>17, <1>18
<1>24. O!EnvironmentGranted
  BY <1>19, <1>20, <1>21, <1>22, <1>23, Zenon DEF O!EnvironmentGranted, given, m, c, d
<1> QED
  BY <1>13, <1>24, Zenon DEF O!AskedIsGranted

-----------------------------------------------------------------------------
(* Script and command line consist of arguments.                           *)
OptionsInv == lines \in Seq(Seq(Args)) /\ cli \in Seq(Args)

LEMMA OptionsNext == OptionsInv /\ [O!Next]_optionVars => OptionsInv'
<1> SUFFICES ASSUME OptionsInv, [O!Next]_optionVars PROVE OptionsInv'
  OBVIOUS
<1>1. CASE UNCHANGED optionVars
  BY <1>1 DEF OptionsInv, optionVars
<1>2. CASE O!Next
  <2>1. PICK arg \in Menu : O!StartLine(arg) \/ O!ContinueLine(arg) \/ O!WriteOption(arg)
    BY <1>2 DEF O!Next
  <2>2. arg \in Args
    BY MenuIsTyped
  <2>3. CASE O!StartLine(arg)
    <3>1. lines' = Append(lines, <<arg>>) /\ cli' = cli
      BY <2>3 DEF O!StartLine
    <3>2. <<arg>> \in Seq(Args)
      BY <2>2
    <3> QED
      BY <3>1, <3>2, AppendProperties DEF OptionsInv
  <2>4. CASE O!ContinueLine(arg)
    <3>1. lines' = [lines EXCEPT ![Len(lines)] = Append(lines[Len(lines)], arg)] /\ cli' = cli /\ lines # <<>>
      BY <2>4 DEF O!ContinueLine
    <3> DEFINE n == Len(lines)
    <3>2. n \in Nat /\ DOMAIN lines = 1..n /\ lines \in [1..n -> Seq(Args)] /\ n # 0
      BY <3>1, LenProperties, EmptySeq DEF OptionsInv
    <3> HIDE DEF n
    <3>3. n \in 1..n
      BY <3>2
    <3>4. Append(lines[n], arg) \in Seq(Args)
      BY <2>2, <3>2, <3>3, AppendProperties
    <3>5. lines' \in [1..n -> Seq(Args)]
      BY <3>1, <3>2, <3>4 DEF n
    <3>6. lines' \in Seq(Seq(Args))
      BY <3>2, <3>5
    <3> QED
      BY <3>1, <3>6 DEF OptionsInv
  <2>5. CASE O!WriteOption(arg)
    <3>1. cli' = Append(cli, arg) /\ lines' = lines
      BY <2>5 DEF O!WriteOption
    <3> QED
      BY <2>2, <3>1, AppendProperties DEF OptionsInv
  <2> QED
    BY <2>1, <2>3, <2>4, <2>5
<1> QED
  BY <1>1, <1>2

LEMMA OptionsStep ==
    [PartsNext]_<<vars, optionVars, timeVars, rangeVars>> => [O!Next]_optionVars
BY DEF PartsNext, optionVars

LEMMA OptionsInvHolds == PartsSpec => []OptionsInv
<1>1. PartsInit => OptionsInv
  BY DEF PartsInit, O!Init, OptionsInv
<1> QED
  BY <1>1, OptionsNext, OptionsStep, PTL DEF PartsSpec

(* A command line means the same to qsub and to the daemon: the daemon's   *)
(* Parse makes of the arguments qsub sends what qsub's own Parse has made  *)
(* (Arguments), whether a field is given once, again, or in a select chunk, *)
(* attached to its flag or after it, or looks like a flag; and a command   *)
(* line cut in two between options, parsed in two pieces and merged, is    *)
(* the one parsed at once (Merge), for any length.                         *)
THEOREM CommandLinesReadAlike == PartsSpec => []ReadAlike
<1>1. OptionsInv => O!SentAsParsed
  BY SentIsRead, Zenon DEF OptionsInv, O!SentAsParsed
<1>2. OptionsInv => O!MergeIsRereading
  BY RereadingMerges, Zenon DEF OptionsInv
<1>3. OptionsInv => ReadAlike
  BY <1>1, <1>2, Zenon DEF ReadAlike
<1> QED
  BY <1>3, OptionsInvHolds, PTL

(* No default overrides what script or command line ask for, the command   *)
(* line has the last word, and a job's environment has the values -v and   *)
(* -V ask for, but for SHELL, which is the configured one, and variables   *)
(* pbotd sets itself (Resolve and Export on the merged options of any      *)
(* number of lines).                                                       *)
THEOREM WhatIsAskedIsGranted == PartsSpec => []AskedIsGranted
<1>1. OptionsInv => AskedIsGranted
  BY AskedGranted, Zenon DEF OptionsInv, AskedIsGranted
<1> QED
  BY <1>1, OptionsInvHolds, PTL
=============================================================================
