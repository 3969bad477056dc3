----------------------------- MODULE Submission -----------------------------
(***************************************************************************)
(* A submission makes rows and files that belong together: the job's row   *)
(* (an array's parent and subjobs), its directory and its script snapshot. *)
(* The rows appear with the commit of one transaction, the directory and   *)
(* the snapshot before it, and either may fail or be cut off by a crash.   *)
(* IDs come from SQLite's AUTOINCREMENT, which the transaction rolls back  *)
(* with the rest: the next submission gets the same ID again.              *)
(***************************************************************************)
EXTENDS Integers, FiniteSets

CONSTANTS
    MaxID,        \* bound: IDs handed out
    Subjobs,      \* numbers of subjobs an array may have
    MaxFaults     \* bound: crashes and failed file or database calls

ASSUME BoundsAssumption == MaxID \in Nat /\ MaxFaults \in Nat
ASSUME SubjobsAssumption == Subjobs \subseteq Nat \ {0}

IDs == 1..MaxID

VARIABLES
    rows,         \* committed rows of the jobs table
    parent,       \* parent[i]: ParentID of a committed row, 0 for none
    directory,    \* directory[i]: jobs/<i>: "none", "made" or "snapshot" in it
    pc,           \* where the daemon is
    new,          \* IDs created by the open transaction, the job's own first
    size,         \* subjobs of the submission, 0 for an ordinary job
    createdDir,   \* the directory was made by this submission
    stuck,        \* history: a removal failed since the daemon started
    faults

vars == <<rows, parent, directory, pc, new, size, createdDir, stuck, faults>>

Places == {"down", "clean", "idle", "mkdir", "write", "create", "commit", "undo"}

TypeOK ==
    /\ rows \subseteq IDs
    /\ parent \in [IDs -> 0..MaxID]
    /\ directory \in [IDs -> {"none", "made", "snapshot"}]
    /\ pc \in Places
    /\ new \subseteq IDs /\ new \intersect rows = {}
    /\ size \in Subjobs \union {0}
    /\ createdDir \in BOOLEAN /\ stuck \in BOOLEAN
    /\ faults \in 0..MaxFaults

Init ==
    /\ rows = {} /\ parent = [i \in IDs |-> 0]
    /\ directory = [i \in IDs |-> "none"]
    /\ pc = "down" /\ new = {} /\ size = 0
    /\ createdDir = FALSE /\ stuck = FALSE
    /\ faults = 0

(* The next of the sequence, a rolled-back one included.                   *)
NextID == Cardinality(rows \union new) + 1
Own == CHOOSE i \in new : \A k \in new : i <= k

Goto(place) == pc' = place
Fault == faults < MaxFaults /\ faults' = faults + 1

-----------------------------------------------------------------------------
(* Starting                                                                *)

StartUp ==
    /\ pc = "down"
    /\ Goto("clean") /\ stuck' = FALSE
    /\ UNCHANGED <<rows, parent, directory, new, size, createdDir, faults>>

(* Mutant: subjobs, which are not submitted by themselves, are not known.  *)
KnownSubmitted == {i \in rows : parent[i] = 0}

Known == rows

(* cleanOrphans: one directory after the other.                            *)
CleanOrphan(i) ==
    /\ pc = "clean" /\ i \notin Known /\ directory[i] # "none"
    /\ directory' = [directory EXCEPT ![i] = "none"]
    /\ UNCHANGED <<rows, parent, pc, new, size, createdDir, stuck, faults>>

Cleaned == \A i \in IDs : directory[i] # "none" => i \in Known

Ready ==
    /\ pc = "clean" /\ Cleaned
    /\ Goto("idle")
    /\ UNCHANGED <<rows, parent, directory, new, size, createdDir, stuck, faults>>

-----------------------------------------------------------------------------
(* Submitting                                                              *)

(* The transaction is begun and the job's row inserted.                    *)
Submit(n) ==
    /\ pc = "idle" /\ NextID + n <= MaxID
    /\ new' = {NextID} /\ size' = n
    /\ Goto("mkdir")
    /\ UNCHANGED <<rows, parent, directory, createdDir, stuck, faults>>

MakeDirectory ==
    /\ pc = "mkdir" /\ directory[Own] = "none"
    /\ directory' = [directory EXCEPT ![Own] = "made"]
    /\ createdDir' = TRUE
    /\ Goto("write")
    /\ UNCHANGED <<rows, parent, new, size, stuck, faults>>

(* A directory is there already: it is not this submission's to remove.    *)
DirectoryExists ==
    /\ pc = "mkdir" /\ directory[Own] # "none"
    /\ Goto("undo")
    /\ UNCHANGED <<rows, parent, directory, new, size, createdDir, stuck, faults>>

(* Mutant: the error of the write is not looked at.                        *)
WriteSnapshotUnchecked ==
    /\ pc = "write"
    /\ \E wrote \in BOOLEAN : directory' = [directory EXCEPT ![Own] = IF wrote THEN "snapshot" ELSE @]
    /\ Goto("create")
    /\ UNCHANGED <<rows, parent, new, size, createdDir, stuck, faults>>

WriteSnapshot ==
    /\ pc = "write"
    /\ directory' = [directory EXCEPT ![Own] = "snapshot"]
    /\ Goto("create")
    /\ UNCHANGED <<rows, parent, new, size, createdDir, stuck, faults>>

CreateSubjobs ==
    /\ pc = "create"
    /\ new' = Own..(Own + size)
    /\ Goto("commit")
    /\ UNCHANGED <<rows, parent, directory, size, createdDir, stuck, faults>>

Ended == new' = {} /\ size' = 0 /\ createdDir' = FALSE

Commit ==
    /\ pc = "commit"
    /\ rows' = rows \union new
    /\ parent' = [i \in IDs |-> IF i \in new \ {Own} THEN Own ELSE parent[i]]
    /\ Ended
    /\ Goto("idle")
    /\ UNCHANGED <<directory, stuck, faults>>

(* Any call fails: the transaction is rolled back.                         *)
Fails ==
    /\ pc \in {"mkdir", "write", "create", "commit"}
    /\ Fault
    /\ Goto("undo")
    /\ UNCHANGED <<rows, parent, directory, new, size, createdDir, stuck>>

(* Mutant: what was made stays.                                            *)
RemovedNever == FALSE

Removed == createdDir

(* What was made is removed; if that fails nobody hears of it.             *)
Undo ==
    /\ pc = "undo"
    /\ \E ok \in BOOLEAN :
          /\ IF ok THEN UNCHANGED <<stuck, faults>>
             ELSE createdDir /\ Fault /\ stuck' = TRUE
          /\ directory' = IF Removed /\ ok THEN [directory EXCEPT ![Own] = "none"]
                          ELSE directory
    /\ Ended
    /\ Goto("idle")
    /\ UNCHANGED <<rows, parent>>

(* The first launch of a job or subjob makes its attempt directory, and    *)
(* jobs/<i> with it (launch, PrivateDir).                                  *)
Launch(i) ==
    /\ pc = "idle" /\ i \in rows /\ directory[i] = "none"
    /\ directory' = [directory EXCEPT ![i] = "made"]
    /\ UNCHANGED <<rows, parent, pc, new, size, createdDir, stuck, faults>>

DaemonDies ==
    /\ pc # "down" /\ Fault
    /\ Goto("down")
    /\ Ended
    /\ UNCHANGED <<rows, parent, directory, stuck>>

Next ==
    \/ StartUp \/ (\E i \in IDs : CleanOrphan(i)) \/ Ready
    \/ \E n \in Subjobs \union {0} : Submit(n)
    \/ MakeDirectory \/ DirectoryExists \/ WriteSnapshot \/ CreateSubjobs \/ Commit
    \/ Fails \/ Undo
    \/ \E i \in IDs : Launch(i)
    \/ DaemonDies

Spec == Init /\ [][Next]_vars

-----------------------------------------------------------------------------
(* Properties                                                              *)

(* A committed job has its snapshot, a subjob that of its array: "print    *)
(* the durable job ID after the snapshot and job record are committed"; no *)
(* interrupted submission and no cleaning takes it away.                   *)
SnapshotKept ==
    \A i \in rows : directory[IF parent[i] = 0 THEN i ELSE parent[i]] = "snapshot"

(* Cleaning removes nothing of a committed job: attempts of subjobs lie in *)
(* directories of their own, which no submission made (cleanOrphans).      *)
CommittedKept ==
    [][\A i \in rows : directory[i] # "none" => directory'[i] # "none"]_vars

(* No submission meets the directory an earlier one has left, though IDs   *)
(* are handed out again, unless a removal failed since the daemon started. *)
NeverInTheWay == pc = "mkdir" /\ directory[Own] # "none" => stuck
=============================================================================
