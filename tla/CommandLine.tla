---------------------------- MODULE CommandLine ----------------------------
(***************************************************************************)
(* How a configuration struct gets its values: okapicli registers a flag   *)
(* for every field, lets environment variables replace the defaults,       *)
(* parses the command line over them and writes the flags back to the      *)
(* struct.  A CLI without commands does that for its own struct, Execute   *)
(* for the struct of the command it picks.                                 *)
(*                                                                         *)
(* Values are abstract; Zero is a field's zero value, Bad a text that does *)
(* not parse.                                                              *)
(***************************************************************************)
EXTENDS Naturals, Sequences, FiniteSets

CONSTANTS
    Fields,      \* the fields with a cli tag
    Kind,        \* their types
    Values,      \* values other than Zero
    Tags, Envs,  \* the default tags a struct may have, the environments of a process
    Lines,       \* command lines: sequences of <<"flag", field, value>> and <<"word", name>>
    CommandNames \* commands that may be registered; their structs have the same fields

Zero      == "zero"
Bad       == "bad"
Unset     == "unset"     \* no tag, no variable, not on the line
NoCommand == "no command"

Texts  == Values \cup {Bad, Unset}
Stored == Values \cup {Zero}

ASSUME CommandLineAssumption ==
    /\ Values \cap {Zero, Bad, Unset} = {}
    /\ Kind \in [Fields -> {"string", "int", "sizedInt", "bool", "float64", "float32",
                            "duration"}]
    /\ Tags \subseteq [Fields -> Texts] /\ Envs \subseteq [Fields -> Texts]
    /\ NoCommand \notin CommandNames

VARIABLES
    commands, defaultCommand,  \* c.commands, c.defaultCommand
    current,  \* the struct before
    tag,      \* its default tags
    env,      \* the environment variables of its fields
    line,     \* os.Args[1:]
    step,    \* "declare", "pick", "env", "parse", "populate", "done" or "failed"
    matched,  \* the command Execute picked, or NoCommand
    pending,  \* fields whose variable applyEnvVars has yet to read
    flags,    \* the value of each field's flag
    struct    \* the struct

inputs == <<commands, defaultCommand, current, tag, env, line>>
commandLineVars == <<inputs, step, matched, pending, flags, struct>>

CommandLineTypeOK ==
    /\ commands \subseteq CommandNames /\ defaultCommand \in commands \cup {NoCommand}
    /\ current \in [Fields -> Stored] /\ tag \in Tags /\ env \in Envs /\ line \in Lines
    /\ step \in {"declare", "pick", "env", "parse", "populate", "done", "failed"}
    /\ matched \in CommandNames \cup {NoCommand}
    /\ pending \subseteq Fields
    /\ flags \in [Fields -> Stored] /\ struct \in [Fields -> Stored]

CommandLineInit ==
    /\ commands \in SUBSET CommandNames /\ defaultCommand \in commands \cup {NoCommand}
    /\ current \in [Fields -> Stored] /\ tag \in Tags /\ env \in Envs /\ line \in Lines
    /\ \A f \in Fields : Kind[f] = "string" => Bad \notin {tag[f], env[f]}
    /\ step = "declare" /\ matched = NoCommand /\ pending = Fields
    /\ flags = [f \in Fields |-> Zero] /\ struct = current

\* FromStruct: a flag's default is the tag, or without one what the field holds, which is
\* looked at for the plain types only.
KeepsCurrent(f) == Kind[f] \notin {"sizedInt", "float32"}

FlagDefault(f) ==
    IF tag[f] \in Values THEN tag[f]
    ELSE IF tag[f] = Unset /\ KeepsCurrent(f) THEN current[f]
    ELSE Zero

FromStruct ==
    /\ step = "declare"
    /\ flags' = [f \in Fields |-> FlagDefault(f)]
    /\ step' = "pick"
    /\ UNCHANGED <<inputs, matched, pending, struct>>

\* Execute: the first word is the command's name; without a command of that name, the default
\* command gets the whole line.
WordsAt == {i \in DOMAIN line : line[i][1] = "word"}
NamedCommand   == IF WordsAt = {} THEN NoCommand
           ELSE line[CHOOSE i \in WordsAt : \A j \in WordsAt : i <= j][2]

Execute ==
    /\ step = "pick"
    /\ \/ commands = {} /\ step' = "env" /\ UNCHANGED matched
       \/ NamedCommand \in commands /\ matched' = NamedCommand /\ step' = "env"
       \/ commands # {} /\ NamedCommand \notin commands /\ matched' = defaultCommand
          /\ step' = IF defaultCommand = NoCommand THEN "failed" ELSE "env"
    /\ UNCHANGED <<inputs, pending, flags, struct>>

\* The part of the line that is parsed: after the command's name.
ParsedFrom ==
    IF NamedCommand \in commands THEN (CHOOSE i \in WordsAt : \A j \in WordsAt : i <= j) + 1 ELSE 1

\* applyEnvVars: one variable, in any order; an empty one is not set.
ApplyEnvVar(f) ==
    /\ step = "env" /\ f \in pending
    /\ pending' = pending \ {f}
    /\ IF env[f] = Bad THEN step' = "failed" /\ UNCHANGED flags
       ELSE /\ flags' = IF env[f] = Unset THEN flags ELSE [flags EXCEPT ![f] = env[f]]
            /\ UNCHANGED step
    /\ UNCHANGED <<inputs, matched, struct>>

EnvApplied ==
    /\ step = "env" /\ pending = {}
    /\ step' = "parse"
    /\ UNCHANGED <<inputs, matched, pending, flags, struct>>

\* What the parsed part of the line says of field f; the last flag wins.
OnLine(f) ==
    LET at == {i \in DOMAIN line :
                 i >= ParsedFrom /\ line[i][1] = "flag" /\ line[i][2] = f}
    IN  IF at = {} THEN Unset ELSE line[CHOOSE i \in at : \A j \in at : i >= j][3]

HasBadFlag == \E i \in DOMAIN line :
                 i >= ParsedFrom /\ line[i][1] = "flag" /\ line[i][3] = Bad

\* Bug: a variable wins over the command line.
ParseArgsUnderEnv ==
    /\ step = "parse"
    /\ flags' = [f \in Fields |->
                   IF OnLine(f) = Unset \/ env[f] # Unset THEN flags[f] ELSE OnLine(f)]
    /\ step' = "populate"
    /\ UNCHANGED <<inputs, matched, pending, struct>>

\* pflag's Parse; a flag that does not parse ends the process (ExitOnError).
ParseArgs ==
    /\ step = "parse"
    /\ IF HasBadFlag THEN step' = "failed" /\ UNCHANGED flags
       ELSE /\ flags' = [f \in Fields |-> IF OnLine(f) = Unset THEN flags[f] ELSE OnLine(f)]
            /\ step' = "populate"
    /\ UNCHANGED <<inputs, matched, pending, struct>>

\* populateStruct: a CLI's own asks for durations as integers and gets none.
WritesBack(f) == matched # NoCommand \/ Kind[f] # "duration"

PopulateStruct ==
    /\ step = "populate"
    /\ struct' = [f \in Fields |-> IF WritesBack(f) THEN flags[f] ELSE struct[f]]
    /\ step' = "done"
    /\ UNCHANGED <<inputs, matched, pending, flags>>

CommandLineNext ==
    \/ FromStruct \/ Execute \/ EnvApplied \/ ParseArgs \/ PopulateStruct
    \/ \E f \in Fields : ApplyEnvVar(f)

CommandLineSpec == CommandLineInit /\ [][CommandLineNext]_commandLineVars

-----------------------------------------------------------------------------
\* The first source that says something of field f, flags before environment before tag.
FirstSaid(f) ==
    IF OnLine(f) # Unset THEN OnLine(f)
    ELSE IF env[f] # Unset THEN env[f]
    ELSE IF tag[f] # Unset THEN tag[f]
    ELSE current[f]

\* A struct that was filled holds for each field what the command line says, else the
\* environment, else the tag, else what it held: for a command as for a CLI without
\* commands, whatever the order the environment is read in.  A struct that could not be
\* filled is left alone.  Without a source, the integers of a given size and float32 fall
\* back to zero, and a CLI's own durations are never written.
ConfigPrecedence ==
    /\ step = "done" =>
         \A f \in Fields :
            /\ WritesBack(f) /\ tag[f] # Bad
            /\ KeepsCurrent(f) \/ {OnLine(f), env[f], tag[f]} # {Unset}
            => struct[f] = FirstSaid(f)
    /\ step = "failed" => struct = current
=============================================================================
