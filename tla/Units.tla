------------------------------- MODULE Units --------------------------------
(***************************************************************************)
(* Memory and walltime values (internal/resource/units.go), in signed      *)
(* integers of any width: a value is accepted only if it can be written    *)
(* without wrapping, and a walltime only if the runner's timer can count   *)
(* it.  The loop over the parts of a walltime is read part by part; that a *)
(* part is a row of digits is taken for granted.                           *)
(***************************************************************************)
EXTENDS Integers, Sequences

CONSTANTS
    MaxInt,       \* math.MaxInt64
    PerSecond,    \* ticks of a time.Duration in a second
    Factors,      \* what the memory units stand for: 1, 2^10, 2^20 ...
    Numbers       \* bound: the numbers that are written

VARIABLES
    parts,        \* the parts of a walltime read so far
    seconds,      \* the variable of the loop
    refused       \* the value has been refused

vars == <<parts, seconds, refused>>

TypeOK ==
    /\ parts \in Seq(Numbers) /\ Len(parts) <= 3
    /\ seconds \in 0..MaxInt
    /\ refused \in BOOLEAN

Init == parts = <<>> /\ seconds = 0 /\ refused = FALSE

(* What an int64 holds of the number x.                                    *)
Wrapped(x) == ((x + MaxInt + 1) % (2 * (MaxInt + 1))) - (MaxInt + 1)

TooLong(n) == seconds > (MaxInt - n) \div 60

ReadPart(n) ==
    /\ ~refused /\ Len(parts) < 3
    /\ parts' = Append(parts, n)
    /\ IF n > MaxInt \/ (parts # <<>> /\ n >= 60) \/ TooLong(n)
       THEN refused' = TRUE /\ UNCHANGED seconds
       ELSE seconds' = Wrapped(seconds * 60 + n) /\ UNCHANGED refused

Next == \E n \in Numbers : ReadPart(n)

Spec == Init /\ [][Next]_vars

(* Mutant: what is tested is what is returned.                             *)
MaxSecondsInt == MaxInt

MaxSeconds == MaxInt \div PerSecond

(* Walltime returns the seconds read.                                      *)
WalltimeAccepted ==
    ~refused /\ Len(parts) \in {1, 3} /\ 0 < seconds /\ seconds <= MaxSeconds

MemoryTooLarge(n, factor) == n > MaxInt \div factor

(* Memory: refused, or the number of bytes.                                *)
Refused == -1
Memory(n, factor) ==
    IF n > MaxInt \/ MemoryTooLarge(n, factor) THEN Refused ELSE Wrapped(n * factor)

-----------------------------------------------------------------------------
(* Properties                                                              *)

(* What the parts read are worth, counted as the last of them is.          *)
Worth ==
    CASE parts = <<>> -> 0
      [] Len(parts) = 1 -> parts[1]
      [] Len(parts) = 2 -> parts[1] * 60 + parts[2]
      [] OTHER -> parts[1] * 3600 + parts[2] * 60 + parts[3]

(* The loop never wraps, and refuses no value for its size that an int64   *)
(* could hold (the guard before seconds*60+n).                             *)
WalltimeExact ==
    IF refused
    THEN Worth > MaxInt \/ \E i \in 2..Len(parts) : parts[i] >= 60
    ELSE seconds = Worth

(* The runner multiplies the walltime by time.Second: an accepted one can  *)
(* be counted and is not zero ("time.Duration bounds the runner's timer"). *)
WalltimeCounts ==
    WalltimeAccepted => /\ Wrapped(seconds * PerSecond) = seconds * PerSecond
                        /\ seconds * PerSecond > 0

(* Memory, of any number written, returns the product if an int64 holds it *)
(* and refuses it otherwise.                                               *)
MemoryExact ==
    \A i \in 1..Len(parts) : \A factor \in Factors :
        LET bytes == parts[i] * factor
        IN Memory(parts[i], factor) = IF bytes <= MaxInt THEN bytes ELSE Refused
=============================================================================
