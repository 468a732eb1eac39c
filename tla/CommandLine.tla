----------------------------- MODULE CommandLine -----------------------------
(***************************************************************************)
(* Cli::parse (src/src/cli.rs): the arguments are read one after the other *)
(* until they are used up or one of them ends the parse.                   *)
(*                                                                         *)
(* An argument is a record of its text and of what it reads as where an    *)
(* option is expected: option, or "word" (positional) or "unknown", and    *)
(* the value joined to it by "=", or None.                                 *)
(***************************************************************************)
EXTENDS Integers, Sequences

CONSTANT None

VARIABLES given,       \* the whole command line
          dxlConfig,   \* the variable DXL_CONFIG, or None
          args,        \* arguments still to be read
          cli,         \* what they have set so far
          positional,  \* the CONFIG argument, or None
          outcome      \* "parsing", "parsed", "answer" (help, version) or "error"

cliVars == <<given, dxlConfig, args, cli, positional, outcome>>

ArgumentKinds == {"help", "version", "quiet", "config", "format", "only", "word", "unknown"}

ValuesOf == [format |-> {"cef", "json", "plain"}, only |-> {"all", "events", "detections"}]

Default == [config |-> None, format |-> "cef", only |-> "all", quiet |-> FALSE]

ParseInit == /\ args = given
             /\ cli = Default
             /\ positional = None
             /\ outcome = "parsing"

Reading(options) == outcome = "parsing" /\ args # <<>> /\ Head(args).option \in options

AnswerHelp == /\ Reading({"help", "version"})
              /\ outcome' = "answer"
              /\ UNCHANGED <<given, dxlConfig, args, cli, positional>>

BeQuiet == /\ Reading({"quiet"})
           /\ cli' = [cli EXCEPT !.quiet = TRUE]
           /\ args' = Tail(args)
           /\ UNCHANGED <<given, dxlConfig, positional, outcome>>

Joined == Head(args).value # None

\* The value of the option read: joined to it, or whatever the next argument is.
Value == IF Joined THEN Head(args).value ELSE args[2].text

HasValue == Joined \/ Len(args) > 1

Accepts(option, value) == option \in DOMAIN ValuesOf => value \in ValuesOf[option]

\* Mutant of SetOption: the first -c stays.
SetOptionOnce ==
    /\ Reading({"config", "format", "only"})
    /\ HasValue
    /\ Accepts(Head(args).option, Value)
    /\ cli' = IF Head(args).option = "config" /\ cli.config # None THEN cli
              ELSE [cli EXCEPT ![Head(args).option] = Value]
    /\ args' = IF Joined THEN Tail(args) ELSE Tail(Tail(args))
    /\ UNCHANGED <<given, dxlConfig, positional, outcome>>

SetOption ==
    /\ Reading({"config", "format", "only"})
    /\ HasValue
    /\ Accepts(Head(args).option, Value)
    /\ cli' = [cli EXCEPT ![Head(args).option] = Value]
    /\ args' = IF Joined THEN Tail(args) ELSE Tail(Tail(args))
    /\ UNCHANGED <<given, dxlConfig, positional, outcome>>

TakePositional ==
    /\ Reading({"word"})
    /\ positional = None
    /\ positional' = Head(args).text
    /\ args' = Tail(args)
    /\ UNCHANGED <<given, dxlConfig, cli, outcome>>

\* A value that is missing or no choice, an unknown option, a second CONFIG.
RejectArgument ==
    /\ \/ /\ Reading({"config", "format", "only"})
          /\ HasValue => ~Accepts(Head(args).option, Value)
       \/ Reading({"unknown"})
       \/ Reading({"word"}) /\ positional # None
    /\ outcome' = "error"
    /\ UNCHANGED <<given, dxlConfig, args, cli, positional>>

\* -c wins over the positional, which wins over the environment.
EndOfArguments ==
    /\ outcome = "parsing" /\ args = <<>>
    /\ outcome' = "parsed"
    /\ cli' = IF cli.config # None THEN cli
              ELSE [cli EXCEPT !.config = IF positional # None THEN positional ELSE dxlConfig]
    /\ UNCHANGED <<given, dxlConfig, args, positional>>

Parse == AnswerHelp \/ BeQuiet \/ SetOption \/ TakePositional \/ RejectArgument \/ EndOfArguments

-----------------------------------------------------------------------------
(* How the documentation reads a command line, as a whole *)

Valued(arg) == arg.option \in {"config", "format", "only"} /\ arg.value = None

\* The positions that hold the value of the option in front of them.
ValuePositions ==
    LET taken[i \in 0 .. Len(given)] == i > 1 /\ ~taken[i - 1] /\ Valued(given[i - 1])
    IN  {i \in DOMAIN given : taken[i]}

Options == {i \in DOMAIN given : i \notin ValuePositions}

ConfigOptions == {i \in Options : given[i].option = "config"}

ConfigWords == {i \in Options : given[i].option = "word"}

\* Where the configuration comes from: the last -c, the CONFIG argument, DXL_CONFIG.
DocumentedConfig ==
    IF ConfigOptions # {}
    THEN LET i == CHOOSE i \in ConfigOptions : \A j \in ConfigOptions : j <= i
         IN  IF given[i].value # None THEN given[i].value ELSE given[i + 1].text
    ELSE IF ConfigWords # {} THEN given[CHOOSE i \in ConfigWords : TRUE].text
    ELSE dxlConfig

\* README 161: -c, then the positional argument, then DXL_CONFIG, however the
\* arguments are mixed and repeated and whatever they take for a value.  What
\* --help prints of the same is HelpIsFollowed.
ConfigFollowsPrecedence == outcome = "parsed" => cli.config = DocumentedConfig

\* The help of the program (cli.rs:24-26) names CONFIG, then -c/--config, then
\* DXL_CONFIG, "in that order of precedence": a CONFIG argument is what is read.
HelpIsFollowed ==
    outcome = "parsed" => \A i \in ConfigWords : cli.config = given[i].text
=============================================================================
