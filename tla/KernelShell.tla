----------------------------- MODULE KernelShell -----------------------------
(***************************************************************************)
(* The kernel's shell, kernel/src/shell: the parser of command lines, the  *)
(* interpreter with its history, aliases and environment, and the built-in *)
(* commands.  The global SHELL_INTERPRETER is behind a lock, so each       *)
(* operation is one step.                                                  *)
(*                                                                         *)
(* A line is a sequence of pieces: a space, a quote, | or a run of other   *)
(* characters, of which <, > and & stand alone.  A token is the sequence   *)
(* of the pieces it was put together from.                                 *)
(***************************************************************************)
EXTENDS Naturals, Sequences, SequencesExt, FiniteSetsExt

CONSTANTS
  Inputs,            \* lines that are executed
  AliasNames,        \* tokens
  AliasValues,       \* lines
  EnvKeys, EnvValues,
  MAX_HISTORY_SIZE,
  MaxEntered,        \* bound: lines executed since the history was cleared
  Texts, Words       \* lines and tokens to parse, for the values

VARIABLES
  history,   \* CommandHistory: lines
  aliases,   \* token -> line
  env,       \* key -> value
  entered    \* history: [line, result] of what was executed since clear_history

vars == <<history, aliases, env, entered>>

Quotes == {"'", "\""}
Redirections == {<<"<">>, <<">">>, <<"2", ">">>}

ConstantsOK ==
  /\ Inputs \cup AliasValues \cup Texts \subseteq Seq(STRING)
  /\ AliasNames \cup Words \subseteq Seq(STRING) \ {<<>>}
  /\ MAX_HISTORY_SIZE \in Nat \ {0} /\ MaxEntered \in Nat

-----------------------------------------------------------------------------
(* CommandParser; what fails is empty, what does not is in brackets *)

IsSpace(piece) == piece = " "

Trim(line) ==
  LET text == {i \in DOMAIN line : ~IsSpace(line[i])}
  IN  IF text = {} THEN <<>> ELSE SubSeq(line, Min(text), Max(text))

(* tokenize: quotes of one kind are text between quotes of the other, and  *)
(* a token that is empty is dropped, also in quotes                        *)
Tokenize(line) ==
  LET Ended(s) == IF s.current = <<>> THEN s.tokens ELSE Append(s.tokens, s.current)
      Read(s, piece) ==
        CASE IsSpace(piece) /\ s.quote = <<>> ->
               [s EXCEPT !.tokens = Ended(s), !.current = <<>>]
          [] piece \in Quotes /\ s.quote = <<piece>> -> [s EXCEPT !.quote = <<>>]
          [] piece \in Quotes /\ s.quote = <<>> -> [s EXCEPT !.quote = <<piece>>]
          [] OTHER -> [s EXCEPT !.current = Append(@, piece)]
      end == FoldLeft(Read, [tokens |-> <<>>, current |-> <<>>, quote |-> <<>>], line)
  IN  IF end.quote # <<>> THEN <<>> ELSE << Ended(end) >>

NewCommand(name) ==
  [name |-> name, args |-> <<>>, redirs |-> [r \in Redirections |-> <<>>],
   background |-> FALSE]

(* A redirection takes the next token as its file, whatever that is *)
Took(s, token) ==
  CASE s.wants # <<>> ->
         [wants |-> <<>>, cmd |-> [s.cmd EXCEPT !.redirs[s.wants[1]] = <<token>>]]
    [] s.wants = <<>> /\ token \in Redirections -> [s EXCEPT !.wants = <<token>>]
    [] s.wants = <<>> /\ token = <<"&">> -> [s EXCEPT !.cmd.background = TRUE]
    [] OTHER -> [s EXCEPT !.cmd.args = Append(@, token)]

(* parse: the first token is the name, also if it is a redirection *)
Parse(line) ==
  LET read == Tokenize(Trim(line))
  IN  IF read \in {<<>>, << <<>> >>} THEN <<>>
      ELSE LET tokens == read[1]
               end == FoldLeft(Took, [wants |-> <<>>, cmd |-> NewCommand(tokens[1])], Tail(tokens))
           IN  IF end.wants # <<>> THEN <<>> ELSE <<end.cmd>>

(* split at every bar, in quotes or not *)
Segments(line) ==
  FoldLeft(LAMBDA parts, piece :
             IF piece = "|" THEN Append(parts, <<>>)
             ELSE [parts EXCEPT ![Len(parts)] = Append(@, piece)],
           << <<>> >>, line)

ParsePipeline(line) ==
  LET segments == Segments(Trim(line))
      commands == [i \in DOMAIN segments |-> Parse(segments[i])]
  IN  CASE Trim(line) = <<>> -> << <<>> >>
        [] \E i \in DOMAIN commands : commands[i] = <<>> -> <<>>
        [] OTHER -> << [i \in DOMAIN commands |-> commands[i][1]] >>

-----------------------------------------------------------------------------
(* The built-in commands; a result is the kind of error, or Ok with the    *)
(* command and the text that its output shows                              *)

Builtins == {"help", "version", "ps", "ls", "cat", "echo", "clear", "info"}

Fails(error) == [error |-> error]
Succeeds(name, text) == [error |-> "Ok", output |-> <<name, text>>]

Joined(args) ==
  FlattenSeq([i \in DOMAIN args |-> IF i = 1 THEN args[i] ELSE <<" ">> \o args[i]])

(* execute_command *)
Ran(cmd) ==
  LET args == cmd.args
  IN  CASE cmd.name \notin {<<b>> : b \in Builtins} -> Fails("CommandNotFound")
        [] cmd.name = <<"echo">> -> Succeeds("echo", Joined(args))
        [] cmd.name = <<"ls">> -> Succeeds("ls", IF args = <<>> THEN <<"/">> ELSE args[1])
        [] cmd.name = <<"cat">> ->
             IF args = <<>> THEN Fails("InsufficientArguments") ELSE Succeeds("cat", args[1])
        [] OTHER -> Succeeds(cmd.name[1], <<>>)

(* execute_pipeline stops at the first command that fails; no command is   *)
(* given what the one before it has written                                *)
RanPipeline(commands) ==
  FoldLeft(LAMBDA last, cmd : IF last.error = "Ok" THEN Ran(cmd) ELSE last,
           Succeeds("", <<>>), commands)

-----------------------------------------------------------------------------
(* ShellInterpreter *)

Init ==
  /\ history = <<>>
  /\ aliases = <<>>
  /\ env = [k \in EnvKeys \cap {"PATH", "HOME", "SHELL", "TERM", "LANG"} |-> "default"]
  /\ entered = <<>>

(* AliasManager::expand: the first word of the line, once *)
Expanded(line) ==
  LET spaces == {i \in DOMAIN line : IsSpace(line[i])}
      end == IF spaces = {} THEN Len(line) ELSE Min(spaces) - 1
      name == SubSeq(line, 1, end)
  IN  IF name \in DOMAIN aliases
      THEN aliases[name] \o SubSeq(line, end + 1, Len(line))
      ELSE line

Pushed(lines, line) ==
  CASE lines # <<>> /\ Last(lines) = line -> lines
    [] (lines = <<>> \/ Last(lines) # line) /\ Len(lines) >= MAX_HISTORY_SIZE ->
         Append(Tail(lines), line)
    [] OTHER -> Append(lines, line)

(* The history has the line as it was entered, before its aliases were     *)
(* expanded, if it could be parsed                                         *)
Execute(input) ==
  LET line == Trim(input)
      parsed == ParsePipeline(Expanded(line))
      Returns(result, lines) ==
        /\ history' = lines
        /\ entered' = Append(entered, [line |-> line, result |-> result])
  IN  /\ Len(entered) < MaxEntered
      /\ CASE line = <<>> -> Returns(Succeeds("", <<>>), history)
           [] line # <<>> /\ parsed = <<>> -> Returns(Fails("SyntaxError"), history)
           [] line # <<>> /\ parsed = << <<>> >> -> Returns(Succeeds("", <<>>), history)
           [] OTHER -> Returns(RanPipeline(parsed[1]), Pushed(history, line))
      /\ UNCHANGED <<aliases, env>>

ClearHistory ==
  /\ history' = <<>>
  /\ entered' = <<>>
  /\ UNCHANGED <<aliases, env>>

SetAlias(name, value) ==
  /\ aliases' = [a \in DOMAIN aliases \cup {name} |-> IF a = name THEN value ELSE aliases[a]]
  /\ UNCHANGED <<history, env, entered>>

(* remove_alias and clear_aliases *)
RemoveAliases(names) ==
  /\ names \subseteq DOMAIN aliases
  /\ aliases' = [a \in DOMAIN aliases \ names |-> aliases[a]]
  /\ UNCHANGED <<history, env, entered>>

SetEnv(key, value) ==
  /\ env' = [k \in DOMAIN env \cup {key} |-> IF k = key THEN value ELSE env[k]]
  /\ UNCHANGED <<history, aliases, entered>>

(* remove_env and clear_env_vars *)
RemoveEnv(keys) ==
  /\ keys \subseteq DOMAIN env
  /\ env' = [k \in DOMAIN env \ keys |-> env[k]]
  /\ UNCHANGED <<history, aliases, entered>>

Next ==
  \/ \E input \in Inputs : Execute(input)
  \/ ClearHistory
  \/ \E name \in AliasNames :
       \/ \E value \in AliasValues : SetAlias(name, value)
       \/ RemoveAliases({name})
  \/ RemoveAliases(DOMAIN aliases)
  \/ \E key \in EnvKeys :
       \/ \E value \in EnvValues : SetEnv(key, value)
       \/ RemoveEnv({key})
  \/ RemoveEnv(DOMAIN env)

Spec == Init /\ [][Next]_vars

-----------------------------------------------------------------------------

TypeOK ==
  /\ ToSet(history) \subseteq {Trim(line) : line \in Inputs}
  /\ DOMAIN aliases \subseteq AliasNames /\ \A a \in DOMAIN aliases : aliases[a] \in AliasValues
  /\ DOMAIN env \subseteq EnvKeys
  /\ Len(entered) <= MaxEntered

(* The history has the latest lines that could be parsed and were not      *)
(* empty, whether their commands exist or not, each run of equal lines     *)
(* once and as they were entered (execute and CommandHistory::push).       *)
HistoryExact ==
  LET Kept(e) == e.result.error # "SyntaxError" /\ e.result # Succeeds("", <<>>)
      Once(lines, e) ==
        IF lines # <<>> /\ Last(lines) = e.line THEN lines ELSE Append(lines, e.line)
      lines == FoldLeft(Once, <<>>, SelectSeq(entered, Kept))
      n == Len(lines)
  IN  history = SubSeq(lines, IF n > MAX_HISTORY_SIZE THEN n - MAX_HISTORY_SIZE + 1 ELSE 1, n)

(* A line with an open quote is refused, and exactly one of the two quotes *)
(* closes it; any quote behind a line without one opens it (tokenize).     *)
QuotesClose ==
  \A line \in Texts :
    LET closing == {q \in Quotes : Tokenize(Append(line, q)) # <<>>}
    IN  IF Tokenize(line) = <<>> THEN Cardinality(closing) = 1 ELSE closing = {}

(* In quotes a token is taken as it is, unless it has the quote itself;    *)
(* only as an argument of a command it must be none of the operators,      *)
(* which quotes do not hide, and a bar in quotes makes the whole line      *)
(* invalid (tokenize, parse, parse_pipeline).                              *)
QuotedExact ==
  \A w, v \in Words, q \in Quotes :
    LET Quoted(token) == <<q>> \o token \o <<q>>
        line == <<"echo", " ">> \o Quoted(w) \o <<" ">> \o Quoted(v)
        read == ToSet(w) \cup ToSet(v)
        operators == Redirections \cup {<<"&">>}
    IN  q \notin read =>
          /\ Tokenize(line) = << << <<"echo">>, w, v>> >>
          /\ "|" \in read => ParsePipeline(line) = <<>>
          /\ "|" \notin read /\ {w, v} \cap operators = {} =>
               ParsePipeline(line) = << <<[NewCommand(<<"echo">>) EXCEPT !.args = <<w, v>>]>> >>

(* A bar splits wherever it stands: a pipeline is valid exactly when the   *)
(* lines on both of its sides are and say something, and has the commands  *)
(* of both (parse_pipeline).                                               *)
BarsSplit ==
  \A a, b \in Texts :
    LET left == ParsePipeline(a)
        right == ParsePipeline(b)
        both == ParsePipeline(a \o <<"|">> \o b)
    IN  IF {left, right} \cap {<<>>, << <<>> >>} # {} THEN both = <<>>
        ELSE both = << left[1] \o right[1] >>

LinesExact == QuotesClose /\ QuotedExact /\ BarsSplit

=============================================================================
