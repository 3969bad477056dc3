----------------------------- MODULE AttemptDir -----------------------------
(***************************************************************************)
(* The private directory of an execution attempt: the files through which  *)
(* the daemon and a detached runner talk.  Every file is published whole   *)
(* (fsutil.AtomicWrite: temporary file, sync, rename, directory sync), so  *)
(* a file is either absent or has a complete content, and what was         *)
(* published survives any crash.                                           *)
(*                                                                         *)
(* An attempt is a pair <<j, n>>: the n-th attempt of job j.  The code     *)
(* names attempts by fresh UUIDs; n stands for the freshness.              *)
(***************************************************************************)
EXTENDS Integers, FiniteSets

CONSTANTS
    Jobs,         \* the ordinary jobs and subjobs (array parents never run)
    MaxAttempts   \* bound: how often one job may be reserved

ASSUME MaxAttemptsAssumption == MaxAttempts \in Nat

Attempts == Jobs \X (1..MaxAttempts)

VARIABLES
    dir,          \* dir[a]: the attempt directory exists
    ready,        \* ready[a]: runner.json, the identity of a runner that is up
    control,      \* control[a]: control.json
    granted,      \* granted[a]: authorize.json
    started,      \* started[a]: started.json, the identity of the gated workload
    result        \* result[a]: result.json

fileVars == <<dir, ready, control, granted, started, result>>

-----------------------------------------------------------------------------
(* A control intent, and whether its timestamp lies after the end of the   *)
(* walltime.  Of a control's timestamp nothing else is ever compared with  *)
(* an event of the attempt but the stamping of its result (Daemon.tla).    *)

Kinds == {"none", "cancel", "rerun"}
Controls == [kind : Kinds, past : BOOLEAN]
NoControl == [kind |-> "none", past |-> FALSE]

(* What result.json and the attempt row say: a terminal job state, and     *)
(* apart from it the two outcomes only the daemon can make up.             *)
Outcomes == {"COMPLETED", "FAILED", "CANCELLED", "TIMEOUT"}
MadeUp == {"LostRunner", "UnknownExecution"}

DirTypeOK ==
    /\ dir \in [Attempts -> BOOLEAN]
    /\ ready \in [Attempts -> BOOLEAN]
    /\ control \in [Attempts -> Controls]
    /\ granted \in [Attempts -> BOOLEAN]
    /\ started \in [Attempts -> BOOLEAN]
    /\ result \in [Attempts -> Outcomes \union {"none"}]

DirInit ==
    /\ dir = [a \in Attempts |-> FALSE]
    /\ ready = [a \in Attempts |-> FALSE]
    /\ control = [a \in Attempts |-> NoControl]
    /\ granted = [a \in Attempts |-> FALSE]
    /\ started = [a \in Attempts |-> FALSE]
    /\ result = [a \in Attempts |-> "none"]
=============================================================================
