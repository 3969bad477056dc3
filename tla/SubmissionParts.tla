--------------------------- MODULE SubmissionParts ---------------------------
(***************************************************************************)
(* A submission on its way: qsub reads its options, the values in them are *)
(* parsed, and the daemon makes rows and files of them.  The four parts    *)
(* share no state, so only one of them moves in a behaviour, while the     *)
(* others are as they started.                                             *)
(***************************************************************************)
EXTENDS Submission, Sequences

CONSTANTS Menu, MaxArguments, Variables, Managed, Baseline, Submitted,
          Shell, DefaultPath                                              \* of Options
CONSTANTS MaxInt, PerSecond, Factors, Amounts                             \* of Units
CONSTANTS MaxMembers, MaxIndex, Indices, MaxSegments                      \* of Arrays

(* Arguments are those of a process, finitely many variables are named,    *)
(* pbotd's own are called PBS_ or PBOTD_ something, PATH is inherited; a   *)
(* text is split at its commas into one entry at least.                    *)
ASSUME OptionsAssumption ==
    /\ IsFiniteSet(Variables) /\ {"PATH", "SHELL"} \intersect Managed = {}
    /\ "PATH" \in Baseline
    /\ \A arg \in Menu :
          /\ arg \in [flag : STRING, text : Seq([chunk : BOOLEAN, key : STRING, value : Int])]
          /\ arg.flag = "" => arg.text # <<>>

(* A second has some ticks and a memory unit some bytes; the numbers that  *)
(* are written are rows of digits.                                         *)
ASSUME ValuesAssumption ==
    /\ MaxInt \in Nat /\ PerSecond \in Nat \ {0}
    /\ Factors \subseteq Nat \ {0} /\ Amounts \subseteq Nat

(* 10000 members, of 31 bits.                                              *)
ASSUME RangesAssumption ==
    MaxMembers \in Nat /\ MaxIndex \in Nat /\ MaxSegments \in Nat /\ Indices \subseteq Nat

VARIABLES lines, cli                  \* of Options
VARIABLES parts, seconds, tooLong     \* of Units
VARIABLES segments, seen, refused     \* of Arrays

optionVars == <<lines, cli>>
timeVars == <<parts, seconds, tooLong>>
rangeVars == <<segments, seen, refused>>

O == INSTANCE Options
U == INSTANCE Units WITH Numbers <- Amounts, refused <- tooLong
A == INSTANCE Arrays WITH Numbers <- Indices

-----------------------------------------------------------------------------
PartsInit == Init /\ O!Init /\ U!Init /\ A!Init

PartsNext ==
    \/ Next /\ O!Init /\ U!Init /\ A!Init /\ UNCHANGED <<optionVars, timeVars, rangeVars>>
    \/ O!Next /\ Init /\ U!Init /\ A!Init /\ UNCHANGED <<vars, timeVars, rangeVars>>
    \/ U!Next /\ Init /\ O!Init /\ A!Init /\ UNCHANGED <<vars, optionVars, rangeVars>>
    \/ A!Next /\ Init /\ O!Init /\ U!Init /\ UNCHANGED <<vars, optionVars, timeVars>>

PartsSpec == PartsInit /\ [][PartsNext]_<<vars, optionVars, timeVars, rangeVars>>

-----------------------------------------------------------------------------
(* Properties of the parts, by name                                        *)

(* A command line means to the daemon what it means to qsub: sent again as *)
(* arguments, and in two pieces that are merged (Options).                 *)
ReadAlike == O!SentAsParsed /\ O!MergeIsRereading

(* A job has the devices, queue and environment it asks for (Options).     *)
AskedIsGranted == O!AskedIsGranted

(* No memory or walltime wraps, and none that fits is refused (Units).     *)
ValuesExact == U!WalltimeExact /\ U!WalltimeCounts /\ U!MemoryExact

(* An array has exactly the members its ranges name (Arrays).              *)
MembersExact == A!MembersExact
=============================================================================
