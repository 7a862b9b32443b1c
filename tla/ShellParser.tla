----------------------------- MODULE ShellParser -----------------------------
(***************************************************************************)
(* The parser of the shell of p5 (shell.c): read_pipeline() reads one line *)
(* of the standard input as commands, main() hands it to the executor, and *)
(* so on up to the end of the input.                                       *)
(*                                                                         *)
(* Characters are read one by one, with at most one given back; no other   *)
(* line of the program reads the input, so a step is one turn of the loop  *)
(* of read_command(): a word, the look-ahead behind it, and what is done   *)
(* with the word.                                                          *)
(***************************************************************************)
EXTENDS ShellGrammar

CONSTANTS
  Char,      \* the characters of an input
  MaxInput   \* the length of an input

Space     == " "
Newline   == "n"
Quote     == "q"
Byte255   == "ff"
Delimiter == {"<", ">", "&", "|", Newline}

\* Other values of a status are the delimiter that was read.
Normal == "normal"
EOF    == "EOF"

\* EOF is what getchar() returns instead of a character: an int, which the parser
\* keeps in one everywhere but behind a | (see LookAhead).
ASSUME CharAssumption == Delimiter \cup {Space, Quote} \subseteq Char /\ EOF \notin Char
ASSUME InputAssumption == MaxInput \in Nat

VARIABLES
  pc,          \* "start", "command": in read_command(), "main": back in main(), "exit"
  input,       \* what the standard input holds
  next,        \* the next character to be read
  status,      \* status of read_command(), then of main()
  error,
  cmd,         \* what read_command() has read so far
  background,
  pipeline,    \* commands of the line
  begin,       \* where the line begins
  lines        \* what main() made of the lines before it

vars == <<pc, input, next, status, error, cmd, background, pipeline, begin, lines>>

NoWord     == <<>>
NewCommand == [argv |-> <<>>, in |-> NoWord, out |-> NoWord, mode |-> "pipe"]

Init ==
  /\ pc = "start" /\ input = <<>> /\ next = 1
  /\ status = Normal /\ error = "none"
  /\ cmd = NewCommand /\ background = FALSE /\ pipeline = <<>>
  /\ begin = 1 /\ lines = <<>>

-----------------------------------------------------------------------------
(* Words *)

\* getchar(): at the end of the input it is EOF again and again.
Getchar(p) == IF p <= Len(input) THEN input[p] ELSE EOF
After(p)   == IF p <= Len(input) THEN p + 1 ELSE p

\* skip_spaces(): the first position from p on without a space.
SkipSpaces(p) ==
  CHOOSE s \in p .. Len(input) + 1 :
    /\ Getchar(s) # Space
    /\ \A t \in p .. s - 1 : input[t] = Space

\* The characters from p to q - 1 leave a quotation open.
InQuotes(p, q) == Cardinality({t \in p .. q - 1 : input[t] = Quote}) % 2 = 1

\* copy_word(): the word of these characters; an empty one is none (NULL).
WordOf(p, q) ==
  FlattenSeq([k \in 1 .. q - p + 1 |->
    IF input[p + k - 1] = Quote THEN <<>> ELSE <<input[p + k - 1]>>])

\* Mutation: a newline in quotes is part of the word.
StopsQuoted(p) ==
  {q \in p .. Len(input) : ~InQuotes(p, q) /\ input[q] \in Delimiter \cup {Space}}

\* Where read_word() stops: behind a word, or at the end of a line in quotes.
Stops(p) ==
  {q \in p .. Len(input) :
     IF InQuotes(p, q) THEN input[q] = Newline ELSE input[q] \in Delimiter \cup {Space}}

\* A word with its status and error, and where it leaves the input.  Until somebody
\* looks at what follows it, the mode of the command is a pipe; to is the command
\* with the word in it.
WordRead(w, s, n, e) ==
  [word |-> w, status |-> s, next |-> n, error |-> e,
   mode |-> "pipe", background |-> FALSE, to |-> cmd]

\* read_word().  A word that the end of the input follows is lost.
ReadWord(from) ==
  LET p == SkipSpaces(from)
      q == Min(Stops(p))
  IN  IF Stops(p) = {}
        THEN WordRead(NoWord, EOF, Len(input) + 1,
                      IF InQuotes(p, Len(input) + 1) THEN "eof" ELSE "none")
      ELSE IF InQuotes(p, q) THEN WordRead(NoWord, Newline, q + 1, "line")
      ELSE WordRead(WordOf(p, q - 1), IF input[q] = Space THEN Normal ELSE input[q],
                    q + 1, "none")

-----------------------------------------------------------------------------
(* read_command() *)

\* Mutation: what follows a single | is not given back.
ConsumesAny(s, c) == s \in {"&", "|"}
\* The character behind a & is read.  The one behind a | is given back unless it is
\* a | too, but it is kept in a char: where chars are signed (gcc for x86), the byte
\* 255 is EOF there, and ungetc() of EOF gives nothing back.
Consumes(s, c) == s = "&" \/ (s = "|" /\ c \in {"|", Byte255})

\* The word with what the character behind it makes of a & or a |: the mode is a
\* pipe behind a | whatever that character is.
LookAhead(w) ==
  LET c == Getchar(w.next)
  IN  [w EXCEPT
        !.status = CASE @ = "&" /\ c \in {EOF, Newline} -> c
                     [] @ = "&" /\ c = "&" -> "|"
                     [] OTHER -> @,
        !.error  = IF w.status = "&" /\ c \notin {EOF, Newline, "&"} THEN "amp" ELSE @,
        !.next   = IF Consumes(w.status, c) THEN After(@) ELSE @,
        !.mode   = CASE w.status = "&" /\ c = "&" -> "and"
                     [] w.status = "|" /\ c = "|" -> "or"
                     [] OTHER -> @,
        !.background = w.status = "&" /\ c \in {EOF, Newline}]

\* read_address() after "<".
Input(w) ==
  IF w.word = NoWord THEN [w EXCEPT !.error = "redirect"]
  ELSE [w EXCEPT !.to.in = w.word]

\* read_address() after ">".  Behind a second ">" it reads a word of its own, and
\* nothing looks ahead behind that one.  Its outmode is never used: >> is >.
Output(w) ==
  LET again == w.word = NoWord /\ w.status = ">"
      v     == IF again THEN ReadWord(w.next) ELSE w
  IN  IF v.error # "none" THEN v
      ELSE IF v.word = NoWord THEN [v EXCEPT !.error = "redirect"]
      ELSE [v EXCEPT !.to.out = v.word]

\* Any other word is an argument.
Argument(w) == IF w.word = NoWord THEN w ELSE [w EXCEPT !.to.argv = Append(@, w.word)]

InCommand ==
  /\ pc = "command"
  /\ error = "none" /\ status \notin {Newline, "|", EOF, "&"}

\* What is done with a word.
Use(w) ==
  IF w.error # "none" THEN w
  ELSE IF status = "<" THEN Input(w)
  ELSE IF status = ">" THEN Output(w)
  ELSE Argument(w)

\* One turn of the loop.
ReadTurn ==
  /\ InCommand
  /\ \E r \in {Use(LookAhead(ReadWord(next)))} :
       /\ cmd' = [r.to EXCEPT !.mode = r.mode]
       /\ background' = r.background
       /\ status' = r.status /\ error' = r.error /\ next' = r.next
  /\ UNCHANGED <<pc, input, pipeline, begin, lines>>

\* The command is appended to the pipeline unless it is empty.
Commands == IF cmd.argv = <<>> THEN pipeline ELSE Append(pipeline, cmd)

\* Mutation: read_pipeline() goes on at the end of the input.
LineEnded(s) == s = Newline
LineEnds(s) == s \in {Newline, EOF}

\* read_pipeline() goes on behind an operator.
NextCommand ==
  /\ pc = "command" /\ error = "none" /\ ~InCommand /\ ~LineEnds(status)
  /\ pipeline' = Commands
  /\ cmd' = NewCommand /\ status' = Normal /\ background' = FALSE
  /\ UNCHANGED <<pc, input, next, error, begin, lines>>

\* read_pipeline() ends with the line.
EndPipeline ==
  /\ pc = "command" /\ error = "none" /\ LineEnds(status)
  /\ pipeline' = Commands
  /\ pc' = "main"
  /\ UNCHANGED <<input, next, status, error, cmd, background, begin, lines>>

\* finish_line(): where the input goes on behind the line.
FinishLine(p) ==
  LET ends == {q \in p .. Len(input) : input[q] = Newline}
  IN  IF ends = {} THEN Len(input) + 1 ELSE Min(ends) + 1

\* Mutation: an error at the end of a line costs the next line too.
AbandonNext ==
  /\ pc = "command" /\ error # "none"
  /\ next' = FinishLine(next)
  /\ status' = IF Getchar(FinishLine(next) - 1) = Newline THEN Newline ELSE EOF
  /\ pc' = "main"
  /\ UNCHANGED <<input, error, cmd, background, pipeline, begin, lines>>

\* After an error the rest of the line is skipped.
Abandon ==
  /\ pc = "command" /\ error # "none"
  /\ IF status \in {Newline, EOF}
       THEN UNCHANGED <<next, status>>
       ELSE LET e == FinishLine(next)
            IN  /\ next' = e
                /\ status' = IF e > next /\ input[e - 1] = Newline THEN Newline ELSE EOF
  /\ pc' = "main"
  /\ UNCHANGED <<input, error, cmd, background, pipeline, begin, lines>>

-----------------------------------------------------------------------------
(* main() *)

\* One turn of main(): the pipeline is executed, or there was an error, or the
\* input ends, even if a command stands before its end.
EndLine ==
  /\ pc = "main"
  /\ lines' = Append(lines,
       [first |-> begin, last |-> next - 1,
        ran |-> error = "none" /\ status # EOF,
        commands |-> pipeline, background |-> background])
  /\ begin' = next
  /\ pipeline' = <<>> /\ cmd' = NewCommand /\ background' = FALSE /\ error' = "none"
  /\ IF status = EOF
       THEN pc' = "exit" /\ UNCHANGED status
       ELSE pc' = "command" /\ status' = Normal
  /\ UNCHANGED <<input, next>>

\* Any input; main() calls read_pipeline() for its first line.
Start ==
  /\ pc = "start"
  /\ input' \in SeqOf(Char, MaxInput)
  /\ pc' = "command"
  /\ UNCHANGED <<next, status, error, cmd, background, pipeline, begin, lines>>

Next == Start \/ ReadTurn \/ NextCommand \/ EndPipeline \/ Abandon \/ EndLine

Spec == Init /\ [][Next]_vars

-----------------------------------------------------------------------------
(* Properties *)

\* Words are not empty and hold no quotation mark and, since the input was read
\* once, no line end; a line that ran was read without an error.
TypeOK ==
  /\ pc \in {"start", "command", "main", "exit"}
  /\ next \in 1 .. Len(input) + 1 /\ begin \in 1 .. next
  /\ status \in Delimiter \cup {Normal, EOF}
  /\ error \in {"none", "eof", "line", "amp", "redirect"}
  /\ background \in BOOLEAN
  /\ \A c \in ToSet(pipeline) \cup {cmd} :
       /\ c.mode \in {"pipe", "and", "or"}
       /\ \A w \in ToSet(c.argv) : w # NoWord
       /\ \A w \in ToSet(c.argv) \cup {c.in, c.out} : ToSet(w) \cap {Quote, Newline} = {}

\* The lines main() sees are the lines of the input, whatever stands in them: each
\* begins behind the end of the one before and ends at the next line end.  No look-
\* ahead, quotation or error makes a line end before its line end or behind it.
WholeLines ==
  \A k \in DOMAIN lines :
    LET l == lines[k]
    IN  /\ l.first = (IF k = 1 THEN 1 ELSE lines[k - 1].last + 1)
        /\ Newline \notin ToSet(SubSeq(input, l.first, l.last - 1))
        /\ l.last < Len(input) => l.last >= l.first /\ input[l.last] = Newline

\* The byte 255 stands right behind a single |.
Lost(line, tokens) ==
  \E k \in DOMAIN tokens :
    /\ tokens[k].op = "|" /\ tokens[k].end \in DOMAIN line
    /\ line[tokens[k].end] = Byte255

\* A line of the grammar runs, as what it means: the commands, the operators
\* between them, the redirections, the background.  Two kinds of line are not read
\* so: those with a & or a | right behind the target of >>, and those with the byte
\* 255 right behind a single |, which is lost.
ParsesRight ==
  lines # <<>> /\ begin = next =>
    LET l      == Last(lines)
        line   == SubSeq(input, l.first, l.last - 1)
        tokens == Tokens(line)
        calls  == Calls(Body(line, tokens))
    IN  /\ l.last >= l.first /\ input[l.last] = Newline
        /\ Unquoted(line, Len(line) + 1)
        /\ Proper(calls) /\ ~Glued(line, tokens) /\ ~Lost(line, tokens)
        => /\ l.ran
           /\ l.commands = Meaning(calls)
           /\ l.background = InBackground(line, tokens)

\* How far the shell is from its exit when no more is read.
Rank ==
  CASE pc = "start" -> 5
    [] pc = "command" /\ status \in {Newline, "|", "&"} -> 4
    [] pc = "main" /\ status # EOF -> 3
    [] pc = "command" /\ status \in {Normal, "<", ">"} -> 2
    [] pc \in {"command", "main"} /\ status = EOF -> IF pc = "command" THEN 1 ELSE 0
    [] OTHER -> -1

\* No loop of the parser turns for ever: every step reads on, or gets nearer to the
\* exit.  The end of the input, read any number of times, ends all of them.
Advances == [][next' > next \/ Rank' < Rank]_vars
=============================================================================
