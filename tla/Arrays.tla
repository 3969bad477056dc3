------------------------------- MODULE Arrays -------------------------------
(***************************************************************************)
(* The ranges of an array job, qsub -J ranges[%limit] (internal/pbs/       *)
(* array.go): comma-separated segments n, n-m or n-m:step that may overlap. *)
(* The segments are read one after the other, as the loop does.            *)
(***************************************************************************)
EXTENDS Integers, FiniteSets, Sequences

CONSTANTS
    MaxMembers,   \* 10000
    MaxIndex,     \* 2^31 - 1
    Numbers,      \* bound: the numbers that are written
    MaxSegments   \* bound: segments of a value

VARIABLES
    segments,     \* the segments read so far
    seen,         \* the members they name
    refused       \* the value has been refused

vars == <<segments, seen, refused>>

(* A segment n is ~ranged and ends where it starts; without a step, which  *)
(* is ~stepped, the step is 1.                                             *)
Segments == [start : Numbers, end : Numbers, step : Numbers \union {1},
             ranged : BOOLEAN, stepped : BOOLEAN]
Written == {s \in Segments : (s.ranged \/ s.end = s.start) /\ (s.stepped \/ s.step = 1)}

TypeOK ==
    /\ segments \in Seq(Written) /\ Len(segments) <= MaxSegments
    /\ seen \subseteq 0..MaxIndex /\ Cardinality(seen) <= MaxMembers
    /\ refused \in BOOLEAN

Init == segments = <<>> /\ seen = {} /\ refused = FALSE

(* ParseUint(..., 10, 31).                                                 *)
Parses(n) == n <= MaxIndex

(* Mutant: the end of a range may lie before its start.                    *)
IllFormedBackwards(s) ==
    \/ s.stepped /\ (~Parses(s.step) \/ s.step = 0)
    \/ ~Parses(s.start) \/ ~Parses(s.end)
    \/ s.stepped /\ ~s.ranged

IllFormed(s) ==
    \/ s.stepped /\ (~Parses(s.step) \/ s.step = 0)
    \/ ~Parses(s.start) \/ ~Parses(s.end) \/ s.end < s.start
    \/ s.stepped /\ ~s.ranged

(* A range too large is refused before its members are counted out.        *)
TooMany(s) == (s.end - s.start) \div s.step + 1 > MaxMembers

(* The loop adds members one by one and stops at the first too many.       *)
Overflows(s, more) == Cardinality(seen \union more) > MaxMembers

(* for n := start; n <= end; n += step                                     *)
Members(s) == {s.start + k * s.step : k \in 0..((s.end - s.start) \div s.step)}

Read(s) ==
    /\ ~refused /\ Len(segments) < MaxSegments
    /\ segments' = Append(segments, s)
    /\ IF IllFormed(s) \/ TooMany(s) \/ Overflows(s, Members(s))
       THEN refused' = TRUE /\ UNCHANGED seen
       ELSE seen' = seen \union Members(s) /\ UNCHANGED refused

Next == \E s \in Written : Read(s)

Spec == Init /\ [][Next]_vars

-----------------------------------------------------------------------------
(* Properties                                                              *)

(* A number is a member of the segment as the documents have it.           *)
Names(s, n) == s.start <= n /\ n <= s.end /\ (n - s.start) % s.step = 0

WellFormed(s) ==
    /\ s.start <= s.end /\ s.end <= MaxIndex
    /\ s.stepped => s.ranged /\ s.step \in 1..MaxIndex

(* What all segments name, an ill-formed one nothing.                      *)
Named ==
    {n \in 0..MaxIndex : \E i \in 1..Len(segments) :
        WellFormed(segments[i]) /\ Names(segments[i], n)}

(* An accepted value has exactly the members its segments name, each once; *)
(* a refused one has an ill-formed segment or names more than the limit,   *)
(* overlapping segments counted once (the two tests against 10000).        *)
MembersExact ==
    IF refused
    THEN \/ \E i \in 1..Len(segments) : ~WellFormed(segments[i])
         \/ Cardinality(Named) > MaxMembers
    ELSE /\ \A i \in 1..Len(segments) : WellFormed(segments[i])
         /\ seen = Named
=============================================================================
