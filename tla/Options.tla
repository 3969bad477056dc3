------------------------------ MODULE Options -------------------------------
(***************************************************************************)
(* The options of a job (internal/pbs/options.go): they are read from the  *)
(* #PBS lines of the script and from the command line of qsub, which sends *)
(* what it has parsed as arguments again for the daemon to parse; the      *)
(* daemon merges both and resolves them against the defaults.              *)
(*                                                                         *)
(* An argument is a word, a flag, a flag with its value attached, or "--". *)
(* The text of a word or value is a sequence of entries key=value; a plain *)
(* one is the single entry of that key without a value.  Values are        *)
(* numbers; an entry of a select chunk is marked, and depend=afterok: is   *)
(* the key depend.  The options -o, -e and -J are read as -N is.           *)
(***************************************************************************)
EXTENDS Integers, SequencesExt

CONSTANTS
    Menu,         \* bound: the arguments that are written
    MaxArguments, \* bound: arguments in script and command line together
    Variables,    \* the names of environment variables
    Managed,      \* of these, the ones pbotd sets itself
    Baseline,     \* of these, the ones a job gets in any case
    Submitted,    \* the submission environment: a function on a part of them
    Shell,        \* the configured execution shell
    DefaultPath   \* the PATH of a job that has no other

Absent == -1      \* no value: "key" or "key="
Resources == {"ncpus", "mem", "ngpus", "walltime"}
Fields == Resources \union {"N", "q", "j", "depend"}
Allowed == {"N", "q", "l", "j", "V", "v", "W", "h"}

Entry(key, value) == [chunk |-> FALSE, key |-> key, value |-> value]
Plain(key) == <<Entry(key, Absent)>>

Word(text) == [flag |-> "", text |-> text]
Flag(flag) == [flag |-> flag, text |-> <<>>]
Attached(flag, text) == [flag |-> flag, text |-> text]
DashDash == Flag("--")

(* An argument taken as a value is its text; that of a flag means nothing. *)
(* Sent as an argument of its own such a value is a flag again.            *)
AsText(arg) == IF arg.flag = "" THEN arg.text ELSE Plain("flag")
AsArgument(text) == IF text = Plain("flag") THEN Flag("V") ELSE Word(text)

-----------------------------------------------------------------------------
(* Parse, one argument at a time                                           *)

NewOptions == [values |-> [f \in Fields |-> <<>>],
               environment |-> [x \in Variables |-> <<>>],
               exportAll |-> FALSE, hold |-> FALSE]

Start == [options |-> NewOptions, operands |-> <<>>,
          awaits |-> "", literal |-> FALSE, refused |-> FALSE]

Refuse(st) == [st EXCEPT !.refused = TRUE, !.awaits = ""]
Set(st, field, text) == [st EXCEPT !.options.values[field] = text, !.awaits = ""]

(* resources: -l, entry by entry; a chunk may not have a walltime.         *)
Resource(st, e) ==
    IF e.value = Absent \/ e.key \notin Resources \/ (e.chunk /\ e.key = "walltime")
    THEN Refuse(st)
    ELSE Set(st, e.key, <<[e EXCEPT !.chunk = FALSE]>>)

Assignment(st, e) ==
    IF e.key \notin Variables \/ e.key \in Managed THEN Refuse(st)
    ELSE [st EXCEPT !.options.environment[e.key] = <<e>>, !.awaits = ""]

Take(st, flag, text) ==
    IF flag = "l" THEN FoldLeft(Resource, st, text)
    ELSE IF flag = "v" THEN FoldLeft(Assignment, st, text)
    ELSE IF flag = "W"
         THEN IF text[1].key = "depend" THEN Set(st, "depend", text) ELSE Refuse(st)
    ELSE Set(st, flag, text)

Switch(st, flag) ==
    IF flag = "V" THEN [st EXCEPT !.options.exportAll = TRUE]
    ELSE [st EXCEPT !.options.hold = TRUE]

ParseArgument(st, arg) ==
    IF st.refused THEN st
    ELSE IF st.awaits # "" THEN Take(st, st.awaits, AsText(arg))
    ELSE IF st.literal \/ arg.flag = "" THEN [st EXCEPT !.operands = Append(@, AsText(arg))]
    ELSE IF arg = DashDash THEN [st EXCEPT !.literal = TRUE]
    ELSE IF arg.flag \notin Allowed THEN Refuse(st)
    ELSE IF arg.flag \in {"V", "h"}
         THEN IF arg.text # <<>> THEN Refuse(st) ELSE Switch(st, arg.flag)
    ELSE IF arg.text = <<>> THEN [st EXCEPT !.awaits = arg.flag]
    ELSE Take(st, arg.flag, arg.text)

Parse(args) ==
    LET st == FoldLeft(ParseArgument, Start, args)
    IN IF st.awaits # "" THEN Refuse(st) ELSE st

Merge(o, other) ==
    [values |-> [f \in Fields |-> IF other.values[f] # <<>> THEN other.values[f] ELSE o.values[f]],
     environment |-> [x \in Variables |-> IF other.environment[x] # <<>>
                                          THEN other.environment[x] ELSE o.environment[x]],
     exportAll |-> o.exportAll \/ other.exportAll, hold |-> o.hold \/ other.hold]

(* Mutant: every field is sent under its own flag.                         *)
ArgumentsOfPlain(o, f) == <<Flag(f), AsArgument(o.values[f])>>

ArgumentsOf(o, f) ==
    IF f \in Resources THEN <<Flag("l"), AsArgument(o.values[f])>>
    ELSE <<Flag(IF f = "depend" THEN "W" ELSE f), AsArgument(o.values[f])>>

(* Arguments: what has been parsed, as arguments again.                    *)
Arguments(o) ==
    LET Given == SetToSeq({f \in Fields : o.values[f] # <<>>})
        Named == SetToSeq({x \in Variables : o.environment[x] # <<>>})
    IN FoldLeft(\o, <<>>, [i \in DOMAIN Given |-> ArgumentsOf(o, Given[i])])
       \o FoldLeft(\o, <<>>, [i \in DOMAIN Named |-> <<Flag("v"), Word(o.environment[Named[i]])>>])
       \o (IF o.exportAll THEN <<Flag("V")>> ELSE <<>>)
       \o (IF o.hold THEN <<Flag("h")>> ELSE <<>>)

-----------------------------------------------------------------------------
(* Resolve and Export                                                      *)

Default == [ncpus |-> 1, mem |-> 1, ngpus |-> 0, walltime |-> 0]

Given(o, f) == o.values[f] # <<>>
Requested(o, f) == IF Given(o, f) THEN o.values[f][1].value ELSE Default[f]

(* The queue that was asked for, or the one the devices suggest.           *)
QueueOf(o) ==
    IF Given(o, "q") THEN o.values.q[1].key
    ELSE IF Requested(o, "ngpus") > 0 THEN "gpu" ELSE "cpu"

DevicesOf(o) ==
    IF QueueOf(o) = "gpu" /\ ~Given(o, "ngpus") /\ Default.ngpus = 0 THEN 1
    ELSE Requested(o, "ngpus")

Acceptable(o) ==
    /\ QueueOf(o) \in {"cpu", "gpu"}
    /\ QueueOf(o) = "gpu" <=> DevicesOf(o) > 0
    /\ Requested(o, "ncpus") >= 1 /\ Requested(o, "mem") >= 1
    /\ Given(o, "walltime") => Requested(o, "walltime") > 0
    /\ Given(o, "j") => o.values.j[1].key \in {"oe", "eo", "n"}

Inherited(o) ==
    {x \in DOMAIN Submitted : x \notin Managed /\ (o.exportAll \/ x \in Baseline)}

(* The variables of -v; a bare name must be set.                           *)
Named(o) == {x \in Variables : o.environment[x] # <<>>}
NamedValue(o, x) == LET value == o.environment[x][1].value
                    IN IF value = Absent THEN Submitted[x] ELSE value
Exportable(o) ==
    \A x \in Named(o) : o.environment[x][1].value = Absent => x \in DOMAIN Submitted

(* Mutant: the submission environment is laid over what -v says.           *)
ExportInheritedLast(o) ==
    [x \in Inherited(o) \union Named(o) \union {"PATH", "SHELL"} |->
        IF x = "SHELL" THEN Shell
        ELSE IF x \in Inherited(o) THEN Submitted[x]
        ELSE IF x \in Named(o) THEN NamedValue(o, x)
        ELSE DefaultPath]

(* The later assignment first: SHELL is always the configured one, -v goes *)
(* over what is inherited, and PATH is there in any case.                  *)
Export(o) ==
    [x \in Inherited(o) \union Named(o) \union {"PATH", "SHELL"} |->
        IF x = "SHELL" THEN Shell
        ELSE IF x \in Named(o) THEN NamedValue(o, x)
        ELSE IF x \in Inherited(o) THEN Submitted[x]
        ELSE DefaultPath]

-----------------------------------------------------------------------------
(* Script and command line are written argument by argument.               *)

VARIABLES
    lines,        \* the arguments of each #PBS line
    cli           \* the arguments of qsub

vars == <<lines, cli>>

Room == Len(FlattenSeq(lines)) + Len(cli) < MaxArguments

Init == lines = <<>> /\ cli = <<>>

StartLine(arg) == Room /\ lines' = Append(lines, <<arg>>) /\ UNCHANGED cli
ContinueLine(arg) ==
    /\ Room /\ lines # <<>>
    /\ lines' = [lines EXCEPT ![Len(lines)] = Append(@, arg)]
    /\ UNCHANGED cli
WriteOption(arg) == Room /\ cli' = Append(cli, arg) /\ UNCHANGED lines

Next == \E arg \in Menu : StartLine(arg) \/ ContinueLine(arg) \/ WriteOption(arg)

Spec == Init /\ [][Next]_vars

(* Directives: no line has operands; later lines are merged over earlier.  *)
Directives(script) ==
    LET Over(o, line) == Merge(o, Parse(line).options)
    IN [options |-> FoldLeft(Over, NewOptions, script),
        refused |-> \E i \in DOMAIN script :
                        LET st == Parse(script[i]) IN st.refused \/ st.operands # <<>>]

(* requestFor: qsub has one operand, the script.                           *)
Command == Parse(cli)
Sent == Parse(Arguments(Command.options))
Sendable == ~Command.refused /\ Len(Command.operands) = 1

(* submit, up to the resolved options.                                     *)
Merged == Merge(Directives(lines).options, Sent.options)
Accepted ==
    /\ ~Directives(lines).refused /\ Sendable /\ ~Sent.refused
    /\ Acceptable(Merged) /\ Exportable(Merged)

-----------------------------------------------------------------------------
(* Properties                                                              *)

(* "Arguments sends the parsed CLI overrides for independent validation by *)
(* the daemon": it understands what the client has understood.             *)
SentAsParsed == Sendable => Sent = [Start EXCEPT !.options = Command.options]

(* Reading two pieces of a command line and merging them is reading it at  *)
(* once, wherever it is cut between two options: precedence within a       *)
(* source and between sources is the same, field by field.                 *)
MergeIsRereading ==
    ~Command.refused =>
        \A n \in 0..Len(cli) :
            LET first == FoldLeft(ParseArgument, Start, SubSeq(cli, 1, n))
                rest == Parse(SubSeq(cli, n + 1, Len(cli)))
            IN first.awaits = "" /\ ~first.literal
                   => Command.options = Merge(first.options, rest.options)

(* A job gets the devices and the queue it asks for in either source, the  *)
(* command line having the last word (Resolve).                            *)
RequestGranted ==
    /\ \A o \in {Merged, Command.options} : Given(o, "ngpus")
          => DevicesOf(Merged) = o.values.ngpus[1].value
    /\ Given(Command.options, "q") => QueueOf(Merged) = Command.options.values.q[1].key
    /\ DevicesOf(Merged) > 0 <=> QueueOf(Merged) = "gpu"

(* A variable has the value -v gives it, on the command line if it is      *)
(* named there and else in the script, but SHELL, which is the configured  *)
(* one whatever -v and -V say; what -v does not name is as it was          *)
(* submitted, or the default PATH.  -V means the whole environment, and    *)
(* without it nothing comes in but the baseline; what pbotd sets itself    *)
(* never does (Export).                                                    *)
EnvironmentGranted ==
    LET script == Directives(lines).options
        command == Command.options
        given == Export(Merged)
    IN /\ \A x \in Named(command) \ {"SHELL"} : given[x] = NamedValue(command, x)
       /\ \A x \in Named(script) \ (Named(command) \union {"SHELL"}) :
             given[x] = NamedValue(script, x)
       /\ \A x \in DOMAIN given \ (Named(Merged) \union {"SHELL"}) :
             IF x \in DOMAIN Submitted THEN given[x] = Submitted[x]
             ELSE x = "PATH" /\ given[x] = DefaultPath
       /\ "PATH" \in DOMAIN given /\ given["SHELL"] = Shell
       /\ DOMAIN given \intersect Managed = {}
       /\ IF Merged.exportAll THEN DOMAIN Submitted \ Managed \subseteq DOMAIN given
          ELSE DOMAIN given \subseteq Baseline \union Named(Merged) \union {"PATH", "SHELL"}

(* What is accepted is granted: devices, queue and environment are those   *)
(* that were asked for, value by value, and no default overrides them.     *)
AskedIsGranted == Accepted => RequestGranted /\ EnvironmentGranted
=============================================================================
