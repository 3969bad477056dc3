---------------------------- MODULE MCSubmission ----------------------------
(***************************************************************************)
(* Instances of SubmissionParts for TLC: the arguments that are written,   *)
(* integers of 14 bits, and numbers around every limit.                    *)
(***************************************************************************)
EXTENDS SubmissionParts

Names == {"HOME", "PATH", "SHELL", "MINE", "PBS_JOBID"}
SubmissionEnvironment == [x \in {"HOME", "SHELL", "MINE", "PBS_JOBID"} |-> 1]

(* Arguments as Options has them.                                          *)
Flag(flag) == [flag |-> flag, text |-> <<>>]
Word(text) == [flag |-> "", text |-> text]
Attached(flag, text) == [flag |-> flag, text |-> text]
Entry(key, value) == [chunk |-> FALSE, key |-> key, value |-> value]
Chunk(key, value) == [chunk |-> TRUE, key |-> key, value |-> value]
Bare(key) == Entry(key, -1)

FewArguments ==
    {Flag("N"), Flag("V"), Flag("h"), Flag("l"), Flag("--"), Attached("l", <<Entry("ngpus", 0)>>),
     Word(<<Bare("job")>>), Word(<<Entry("ngpus", 0)>>),
     Attached("q", <<Bare("gpu")>>), Attached("W", <<Entry("depend", 1)>>),
     Attached("l", <<Chunk("ncpus", 2), Chunk("ngpus", 1)>>),
     Attached("l", <<Chunk("walltime", 60)>>),
     Attached("v", <<Entry("HOME", 2), Entry("PATH", 2), Entry("SHELL", 2), Bare("MINE")>>),
     Attached("v", <<Entry("HOME", 3)>>),
     Attached("v", <<Entry("PBS_JOBID", 1)>>)}
=============================================================================
