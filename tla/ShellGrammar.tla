----------------------------- MODULE ShellGrammar -----------------------------
(***************************************************************************)
(* What a line of the shell of p5 means, from 4.txt and the operators the  *)
(* source knows: calls with operators between them, a call has words and   *)
(* redirections, the line may end in &.  A line is first cut into tokens,  *)
(* then into calls; nothing of the parser is used.                         *)
(***************************************************************************)
EXTENDS Integers, SequencesExt

Doubles == [c \in {"&", "|", ">"} |->
              CASE c = "&" -> "&&" [] c = "|" -> "||" [] c = ">" -> ">>"]

\* The numbers of a set in ascending order.
Ordered(S) ==
  [k \in 1 .. Cardinality(S) |-> CHOOSE x \in S : Cardinality({y \in S : y < x}) = k - 1]

Unquoted(line, i) == Cardinality({t \in 1 .. i - 1 : line[t] = "q"}) % 2 = 0

\* The characters that are not part of a word.
Meta(line) ==
  {i \in DOMAIN line : Unquoted(line, i) /\ line[i] \in {" ", "<", ">", "&", "|"}}

\* The second characters of &&, || and >>: an odd number of the same is in front.
Second(line) ==
  {i \in Meta(line) :
     /\ line[i] \in DOMAIN Doubles
     /\ Cardinality({t \in Meta(line) :
          t < i /\ \A u \in t .. i : u \in Meta(line) /\ line[u] = line[i]}) % 2 = 1}

\* Where the tokens begin.
Begins(line) ==
  {i \in DOMAIN line :
     IF i \in Meta(line) THEN line[i] # " " /\ i \notin Second(line)
     ELSE i = 1 \/ i - 1 \in Meta(line)}

WordEnd(line, i) == Min({m \in Meta(line) : m > i} \cup {Len(line) + 1})

\* What stands from i up to before j, without the quotation marks.
Bare(line, i, j) ==
  FlattenSeq([k \in 1 .. j - i |-> IF line[i + k - 1] = "q" THEN <<>> ELSE <<line[i + k - 1]>>])

Token(line, i) ==
  IF i \notin Meta(line)
    THEN [op |-> "word", end |-> WordEnd(line, i),
          word |-> Bare(line, i, WordEnd(line, i))]
  ELSE IF i + 1 \in Second(line)
    THEN [op |-> Doubles[line[i]], end |-> i + 2, word |-> <<>>]
  ELSE [op |-> line[i], end |-> i + 1, word |-> <<>>]

Tokens(line) ==
  LET at == Ordered(Begins(line))
  IN  [k \in DOMAIN at |-> Token(line, at[k])]

\* A line may end in one &.
InBackground(line, tokens) ==
  tokens # <<>> /\ Last(tokens).op = "&" /\ Last(tokens).end = Len(line) + 1

Body(line, tokens) == IF InBackground(line, tokens) THEN Front(tokens) ELSE tokens

Operators == [o \in {"|", "||", "&&"} |->
                CASE o = "|" -> "pipe" [] o = "||" -> "or" [] o = "&&" -> "and"]
Redirections == {"<", ">", ">>"}

\* The calls of the tokens t: what stands between the operators, with the operator
\* behind it; behind the last one there is none, which reads as a pipe.
Calls(t) ==
  LET ops  == Ordered({k \in DOMAIN t : t[k].op \in DOMAIN Operators})
      ends == <<0>> \o ops \o <<Len(t) + 1>>
  IN  [c \in 1 .. Len(ops) + 1 |->
         [tokens |-> SubSeq(t, ends[c] + 1, ends[c + 1] - 1),
          mode |-> IF c <= Len(ops) THEN Operators[t[ops[c]].op] ELSE "pipe"]]

\* The words of a call that are not the target of a redirection.
Arguments(t) ==
  LET at == {k \in DOMAIN t : t[k].op = "word" /\ ~(k > 1 /\ t[k - 1].op \in Redirections)}
      s  == Ordered(at)
  IN  [k \in DOMAIN s |-> t[s[k]].word]

\* The last target of these redirections: none is the empty word.
Target(t, ops) ==
  LET at == {k \in DOMAIN t : t[k].op \in ops}
  IN  IF at = {} THEN <<>> ELSE t[Max(at) + 1].word

\* What a line with these calls runs.
Meaning(calls) ==
  [c \in DOMAIN calls |->
     [argv |-> Arguments(calls[c].tokens),
      in   |-> Target(calls[c].tokens, {"<"}),
      out  |-> Target(calls[c].tokens, {">", ">>"}),
      mode |-> calls[c].mode]]

\* Words are not empty, calls have a command, a redirection has a target, and no &
\* is left.
Proper(calls) ==
  \A c \in DOMAIN calls :
    LET t == calls[c].tokens
    IN  /\ \A k \in DOMAIN t :
             /\ t[k].op # "&"
             /\ t[k].op = "word" => t[k].word # <<>>
             /\ t[k].op \in Redirections => k < Len(t) /\ t[k + 1].op = "word"
        /\ Arguments(t) # <<>>

\* A & or a | stands right behind the target of >>.
Glued(line, tokens) ==
  \E k \in DOMAIN tokens :
    /\ tokens[k].op = ">>" /\ k < Len(tokens)
    /\ tokens[k + 1].end \in DOMAIN line /\ line[tokens[k + 1].end] \in {"&", "|"}
===============================================================================
