---------------------------- MODULE ParserProofs ----------------------------
(***************************************************************************)
(* Proofs about the parser of the shell, for every input: main() sees the  *)
(* lines of the input, every loop of the parser ends, what it makes of a   *)
(* line is made of words, and a line of the grammar runs as what it means. *)
(***************************************************************************)
EXTENDS ShellParser, ListTheorems

-----------------------------------------------------------------------------
(* Where the parser stands in the input *)

NoLineEnd(p, q) == \A t \in p .. q : input[t] # Newline

\* From p on, the characters up to n have been read, the last with status s.
Stands(p, n, s) ==
  /\ n \in 1 .. Len(input) + 1 /\ p \in 1 .. n
  /\ s \in Delimiter \cup {Normal, EOF}
  /\ IF s = Newline THEN n > p /\ input[n - 1] = Newline /\ NoLineEnd(p, n - 2)
     ELSE NoLineEnd(p, n - 1)
  /\ s = EOF => n = Len(input) + 1

LEMMA SkipSpacesStops ==
  ASSUME input \in Seq(Char), NEW p \in 1 .. Len(input) + 1
  PROVE  /\ SkipSpaces(p) \in p .. Len(input) + 1
         /\ NoLineEnd(p, SkipSpaces(p) - 1)
<1>1. Len(input) \in Nat /\ p \in Nat
  OBVIOUS
<1> DEFINE S == {s \in p .. Len(input) + 1 : Getchar(s) # Space}
           Q(s) == Getchar(s) # Space /\ \A t \in p .. s - 1 : input[t] = Space
<1>2. S \subseteq Nat /\ Len(input) + 1 \in S
  <2>1. Len(input) + 1 \in p .. Len(input) + 1 /\ ~ (Len(input) + 1 <= Len(input))
    BY <1>1
  <2>2. Getchar(Len(input) + 1) # Space
    BY <2>1 DEF Getchar, EOF, Space
  <2> QED BY <1>1, <2>1, <2>2
<1>3. PICK m \in S : \A x \in S : m <= x
  BY <1>2, LeastNumber
<1>4. \A t \in p .. m - 1 : input[t] = Space
  <2> TAKE t \in p .. m - 1
  <2>1. m \in Nat /\ m <= Len(input) + 1 /\ t \in p .. Len(input) + 1 /\ ~ (m <= t) /\ t <= Len(input)
    BY <1>1, <1>2, <1>3
  <2>2. t \notin S
    BY <1>3, <2>1
  <2> QED BY <2>1, <2>2 DEF Getchar
<1>5. m \in p .. Len(input) + 1 /\ Q(m)
  BY <1>3, <1>4
<1> HIDE DEF Q
<1>6. SkipSpaces(p) = CHOOSE s \in p .. Len(input) + 1 : Q(s)
  BY DEF SkipSpaces, Q
<1>7. SkipSpaces(p) \in p .. Len(input) + 1 /\ Q(SkipSpaces(p))
  BY <1>5, <1>6
<1> QED BY <1>7 DEF Q, NoLineEnd, Space, Newline

\* The end of a word is the first place that ends it: no line end is passed, in quotes
\* or out of them.
LEMMA WordStops ==
  ASSUME input \in Seq(Char), NEW p \in 1 .. Len(input) + 1
  PROVE  IF Stops(p) = {} THEN NoLineEnd(p, Len(input))
         ELSE /\ Min(Stops(p)) \in p .. Len(input)
              /\ NoLineEnd(p, Min(Stops(p)) - 1)
              /\ IF InQuotes(p, Min(Stops(p))) THEN input[Min(Stops(p))] = Newline
                 ELSE input[Min(Stops(p))] \in Delimiter \cup {Space}
<1>1. Len(input) \in Nat /\ p \in Nat
  OBVIOUS
<1>2. \A t \in p .. Len(input) : input[t] = Newline => t \in Stops(p)
  BY DEF Stops, Delimiter
<1>3. CASE Stops(p) = {}
  BY <1>2, <1>3 DEF NoLineEnd
<1>4. CASE Stops(p) # {}
  <2>1. Stops(p) \subseteq p .. Len(input)
    BY DEF Stops
  <2>2. Stops(p) \subseteq Nat
    BY <1>1, <2>1
  <2>3. PICK m \in Stops(p) : \A x \in Stops(p) : m <= x
    BY <1>4, <2>2, LeastNumber
  <2>4. Min(Stops(p)) \in Stops(p) /\ \A x \in Stops(p) : Min(Stops(p)) <= x
    BY <2>3 DEF Min
  <2> DEFINE q == Min(Stops(p))
  <2> HIDE DEF q
  <2>5. q \in Stops(p) /\ q \in p .. Len(input) /\ \A x \in Stops(p) : q <= x
    BY <2>1, <2>4 DEF q
  <2>6. NoLineEnd(p, q - 1)
    <3> SUFFICES ASSUME NEW t \in p .. q - 1 PROVE input[t] # Newline
      BY DEF NoLineEnd
    <3>1. t \in p .. Len(input) /\ ~ (q <= t)
      BY <1>1, <2>5
    <3> QED BY <1>2, <2>5, <3>1
  <2>7. IF InQuotes(p, q) THEN input[q] = Newline ELSE input[q] \in Delimiter \cup {Space}
    BY <2>5 DEF Stops
  <2> QED BY <1>4, <2>5, <2>6, <2>7 DEF q
<1> QED BY <1>3, <1>4

\* A word read, as it is handed on.
IsWord(w) ==
  w = [word |-> w.word, status |-> w.status, next |-> w.next, error |-> w.error,
       mode |-> w.mode, background |-> w.background, to |-> w.to]

LEMMA WordReadIs ==
  ASSUME NEW x, NEW s, NEW n, NEW e
  PROVE  /\ IsWord(WordRead(x, s, n, e))
         /\ WordRead(x, s, n, e).next = n /\ WordRead(x, s, n, e).status = s
BY DEF IsWord, WordRead

\* read_word() from f on, in a line that begins at b.
LEMMA ReadWordStands ==
  ASSUME input \in Seq(Char), NEW b, NEW f, NEW s, Stands(b, f, s), s # Newline,
         NEW w, w = ReadWord(f)
  PROVE  /\ Stands(b, w.next, w.status)
         /\ w.next >= f /\ (f <= Len(input) => w.next > f)
         /\ f = Len(input) + 1 => w.status = EOF
         /\ IsWord(w)
<1> DEFINE p == SkipSpaces(f)
           q == Min(Stops(p))
           r1 == WordRead(NoWord, EOF, Len(input) + 1,
                          IF InQuotes(p, Len(input) + 1) THEN "eof" ELSE "none")
           r2 == WordRead(NoWord, Newline, q + 1, "line")
           r3 == WordRead(WordOf(p, q - 1), IF input[q] = Space THEN Normal ELSE input[q],
                          q + 1, "none")
<1>1. /\ Len(input) \in Nat /\ f \in 1 .. Len(input) + 1 /\ b \in 1 .. f
      /\ NoLineEnd(b, f - 1)
  BY DEF Stands
<1>2. p \in f .. Len(input) + 1 /\ NoLineEnd(f, p - 1)
  BY <1>1, SkipSpacesStops
<1>3. w = IF Stops(p) = {} THEN r1 ELSE IF InQuotes(p, q) THEN r2 ELSE r3
  BY DEF ReadWord
<1> HIDE DEF p
<1>4. p \in 1 .. Len(input) + 1
  BY <1>1, <1>2
<1>5. CASE Stops(p) = {}
  <2>1. NoLineEnd(p, Len(input))
    BY <1>4, <1>5, WordStops
  <2>2. w = r1
    BY <1>3, <1>5
  <2>3. NoLineEnd(b, Len(input))
    BY <1>1, <1>2, <2>1 DEF NoLineEnd
  <2>4. w.next = Len(input) + 1 /\ w.status = EOF /\ IsWord(w)
    BY <2>2, WordReadIs
  <2> HIDE DEF r1
  <2>5. Stands(b, w.next, w.status)
    BY <1>1, <2>3, <2>4 DEF Stands, EOF, Newline
  <2> QED BY <1>1, <2>4, <2>5
<1>6. CASE Stops(p) # {}
  <2>1. /\ q \in p .. Len(input) /\ NoLineEnd(p, q - 1)
        /\ IF InQuotes(p, q) THEN input[q] = Newline ELSE input[q] \in Delimiter \cup {Space}
    BY <1>4, <1>6, WordStops
  <2> HIDE DEF q
  <2>2. NoLineEnd(b, q - 1)
    BY <1>1, <1>2, <2>1 DEF NoLineEnd
  <2>3. /\ q + 1 \in 1 .. Len(input) + 1 /\ b \in 1 .. q + 1 /\ q + 1 > b /\ q + 1 > f /\ q + 1 >= f
        /\ f # Len(input) + 1
        /\ (q + 1) - 1 = q /\ (q + 1) - 2 = q - 1 /\ q \in Int
    BY <1>1, <1>2, <2>1
  <2>4. ASSUME w.next = q + 1, w.status = Newline, input[q] = Newline
        PROVE  Stands(b, w.next, w.status)
    BY <2>2, <2>3, <2>4 DEF Stands, Delimiter, Newline, EOF
  <2>5. ASSUME w.next = q + 1, w.status \in Delimiter \cup {Normal}, w.status # Newline, input[q] # Newline
        PROVE  Stands(b, w.next, w.status)
    <3>1. NoLineEnd(b, q)
      BY <2>2, <2>3, <2>5 DEF NoLineEnd
    <3> QED BY <2>3, <2>5, <3>1 DEF Stands, Delimiter, EOF, Normal
  <2>6. CASE InQuotes(p, q)
    <3>1. w = r2
      BY <1>3, <1>6, <2>6
    <3>2. w.next = q + 1 /\ w.status = Newline
      BY <3>1, WordReadIs
    <3>3. IsWord(w)
      BY <3>1, WordReadIs
    <3>4. Stands(b, w.next, w.status)
      BY <2>1, <2>4, <2>6, <3>2
    <3> HIDE DEF r1, r2, r3
    <3> QED BY <2>3, <3>2, <3>3, <3>4
  <2>7. CASE ~ InQuotes(p, q)
    <3>1. w = r3
      BY <1>3, <1>6, <2>7
    <3>2. w.next = q + 1 /\ w.status = IF input[q] = Space THEN Normal ELSE input[q]
      BY <3>1, WordReadIs
    <3>3. Stands(b, w.next, w.status)
      BY <2>1, <2>4, <2>5, <2>7, <3>2 DEF Space, Newline, Normal, Delimiter
    <3>4. IsWord(w)
      BY <3>1, WordReadIs
    <3> HIDE DEF r1, r2, r3
    <3> QED BY <2>3, <3>2, <3>3, <3>4
  <2> QED BY <2>6, <2>7
<1> QED BY <1>5, <1>6
\* A word w, read from f on in a line that begins at b, with the status behind it.
Reading(w, b, f) ==
  /\ Stands(b, w.next, w.status)
  /\ w.next >= f /\ (f <= Len(input) => w.next > f)
  /\ f = Len(input) + 1 => w.status = EOF

LEMMA LookAheadStands ==
  ASSUME input \in Seq(Char), NEW b, NEW f \in Nat, NEW w, IsWord(w), Reading(w, b, f),
         NEW v, v = LookAhead(w)
  PROVE  IsWord(v) /\ Reading(v, b, f)
<1> DEFINE c == Getchar(w.next)
           s == CASE w.status = "&" /\ c \in {EOF, Newline} -> c
                  [] w.status = "&" /\ c = "&" -> "|"
                  [] OTHER -> w.status
           n == IF Consumes(w.status, c) THEN After(w.next) ELSE w.next
           e == IF w.status = "&" /\ c \notin {EOF, Newline, "&"} THEN "amp" ELSE w.error
           mode == CASE w.status = "&" /\ c = "&" -> "and"
                     [] w.status = "|" /\ c = "|" -> "or"
                     [] OTHER -> w.mode
           back == w.status = "&" /\ c \in {EOF, Newline}
<1>1. v = [w EXCEPT !.status = s, !.error = e, !.next = n, !.mode = mode, !.background = back]
  BY DEF LookAhead
<1> HIDE DEF s, n, e, mode, back
<1>2. IsWord(v) /\ v.next = n /\ v.status = s
  BY <1>1 DEF IsWord
<1>3. /\ Len(input) \in Nat /\ w.next \in 1 .. Len(input) + 1 /\ b \in 1 .. w.next
      /\ w.status \in Delimiter \cup {Normal, EOF}
  BY DEF Reading, Stands
<1>4. /\ w.next <= Len(input) => c = input[w.next] /\ c \in Char
      /\ w.next = Len(input) + 1 => c = EOF
  BY <1>3 DEF Getchar
<1> HIDE DEF c
<1>5. EOF \notin Char
  BY CharAssumption
<1>6. CASE ~ Consumes(w.status, c)
  <2>1. w.status # "&" /\ n = w.next
    BY <1>6 DEF Consumes, n
  <2>2. s = w.status
    BY <2>1 DEF s
  <2> QED BY <1>2, <2>1, <2>2 DEF Reading
<1>7. CASE Consumes(w.status, c) /\ w.next = Len(input) + 1
  <2>1. c = EOF /\ n = w.next /\ w.status = "&"
    BY <1>3, <1>4, <1>7 DEF Consumes, n, After, EOF, Byte255
  <2>2. s = EOF
    BY <2>1 DEF s, EOF, Newline
  <2>3. Stands(b, n, EOF)
    BY <1>7, <2>1, <1>3 DEF Reading, Stands, Newline, EOF
  <2>4. v.next = n /\ v.status = EOF
    BY <1>2, <2>2
  <2> QED BY <1>2, <2>1, <2>3, <2>4 DEF Reading
<1>8. CASE Consumes(w.status, c) /\ w.next # Len(input) + 1
  <2>1. w.next <= Len(input) /\ n = w.next + 1 /\ c = input[w.next] /\ c # EOF
    BY <1>3, <1>4, <1>5, <1>8 DEF n, After
  <2>2. w.status \in {"&", "|"} /\ (w.status = "|" => c \in {"|", Byte255})
    BY <1>8 DEF Consumes
  <2>3. NoLineEnd(b, w.next - 1)
    BY <2>2 DEF Reading, Stands, Newline
  <2>4. /\ w.next + 1 \in 1 .. Len(input) + 1 /\ b \in 1 .. w.next + 1 /\ w.next + 1 > b
        /\ (w.next + 1) - 1 = w.next /\ (w.next + 1) - 2 = w.next - 1
    BY <1>3, <2>1
  <2>5. CASE c = Newline
    <3>1. w.status = "&" /\ s = Newline
      BY <2>2, <2>5 DEF s, Newline, Byte255
    <3>2. Stands(b, n, s)
      BY <2>1, <2>3, <2>4, <2>5, <3>1 DEF Stands, Delimiter, Newline, EOF
    <3>3. n >= f /\ n > f
      BY <1>3, <2>1 DEF Reading
    <3>4. v.next = n /\ v.status = s
      BY <1>2
    <3>5. f # Len(input) + 1
      BY <2>2 DEF Reading, EOF
    <3> QED BY <1>2, <3>2, <3>3, <3>4, <3>5 DEF Reading
  <2>6. CASE c # Newline
    <3>1. s \in {"&", "|"}
      BY <2>1, <2>2, <2>6 DEF s
    <3>2. NoLineEnd(b, w.next)
      BY <1>3, <2>1, <2>3, <2>6 DEF NoLineEnd
    <3>3. Stands(b, n, s)
      BY <2>1, <2>4, <3>1, <3>2 DEF Stands, Delimiter, Newline, EOF
    <3>4. n >= f /\ n > f
      BY <1>3, <2>1 DEF Reading
    <3>5. v.next = n /\ v.status = s
      BY <1>2
    <3>6. f # Len(input) + 1
      BY <2>2 DEF Reading, EOF
    <3> QED BY <1>2, <3>3, <3>4, <3>5, <3>6 DEF Reading
  <2> QED BY <2>5, <2>6
<1> QED BY <1>3, <1>6, <1>7, <1>8

LEMMA UseStands ==
  ASSUME input \in Seq(Char), NEW b, NEW f \in Nat, NEW w, IsWord(w), Reading(w, b, f)
  PROVE  Reading(Use(w), b, f)
<1>1. ASSUME NEW v, IsWord(v), Reading(v, b, f), NEW x
      PROVE  /\ Reading([v EXCEPT !.error = x], b, f)
             /\ Reading([v EXCEPT !.to = x], b, f)
  <2>1. /\ [v EXCEPT !.error = x].next = v.next /\ [v EXCEPT !.error = x].status = v.status
        /\ [v EXCEPT !.to = x].next = v.next /\ [v EXCEPT !.to = x].status = v.status
    BY <1>1 DEF IsWord
  <2> QED BY <1>1, <2>1 DEF Reading
<1>2. Reading(Input(w), b, f)
  BY <1>1 DEF Input
<1>3. Reading(Argument(w), b, f)
  BY <1>1 DEF Argument
<1>4. Reading(Output(w), b, f)
  <2> DEFINE again == w.word = NoWord /\ w.status = ">"
             z == ReadWord(w.next)
             v == IF again THEN z ELSE w
  <2>1. Reading(v, b, f) /\ IsWord(v)
    <3>1. CASE ~ again
      BY <3>1
    <3>2. CASE again
      <4>1. /\ Stands(b, w.next, ">") /\ ">" # Newline /\ f # Len(input) + 1
            /\ w.next >= f /\ (f <= Len(input) => w.next > f) /\ w.next \in 1 .. Len(input) + 1
        BY <3>2 DEF Reading, Stands, Newline, EOF
      <4>2. /\ Stands(b, z.next, z.status) /\ z.next >= w.next
            /\ IsWord(z)
        BY <4>1, ReadWordStands
      <4> HIDE DEF z
      <4>3. z.next \in Int /\ w.next \in Int /\ Len(input) \in Nat
        BY <4>1, <4>2 DEF Stands
      <4>4. z.next >= f /\ (f <= Len(input) => z.next > f)
        BY <4>1, <4>2, <4>3
      <4> QED BY <3>2, <4>1, <4>2, <4>4 DEF Reading
    <3> QED BY <3>1, <3>2
  <2> HIDE DEF v
  <2> QED BY <1>1, <2>1 DEF Output, v
<1> QED BY <1>2, <1>3, <1>4 DEF Use
-----------------------------------------------------------------------------
(* The lines *)

\* Where the parser stands in the line that begins at `begin'.
Place ==
  /\ input \in Seq(Char)
  /\ pc \in {"start", "command", "main", "exit"}
  /\ Stands(begin, next, status)
  /\ pc = "start" => next = 1 /\ begin = 1 /\ status = Normal /\ lines = <<>>
  /\ pc \in {"main", "exit"} => status \in {Newline, EOF}

\* The line being read follows the last one made.
Chained ==
  /\ lines \in Seq(ToSet(lines))
  /\ begin = IF lines = <<>> THEN 1 ELSE lines[Len(lines)].last + 1

\* The inductive invariant.
IInv == Place /\ Chained /\ WholeLines

LEMMA InputIs ==
  ASSUME NEW s \in SeqOf(Char, MaxInput)
  PROVE  s \in Seq(Char)
BY InputAssumption DEF SeqOf

\* Every turn reads on, or the input has ended.
LEMMA TurnStands ==
  ASSUME Place, ReadTurn
  PROVE  /\ Stands(begin, next', status')
         /\ next' > next \/ status' = EOF
<1>1. /\ input \in Seq(Char) /\ Stands(begin, next, status) /\ status # Newline
      /\ next \in 1 .. Len(input) + 1 /\ Len(input) \in Nat
  BY DEF Place, ReadTurn, InCommand, Stands
<1> DEFINE w == ReadWord(next)
           v == LookAhead(w)
           r == Use(v)
<1>2. next' = r.next /\ status' = r.status
  BY DEF ReadTurn
<1>3. IsWord(w) /\ Reading(w, begin, next)
  BY <1>1, ReadWordStands DEF Reading
<1> HIDE DEF w
<1>4. IsWord(v) /\ Reading(v, begin, next)
  BY <1>1, <1>3, LookAheadStands
<1> HIDE DEF v
<1>5. Reading(r, begin, next)
  BY <1>1, <1>4, UseStands
<1> HIDE DEF r
<1> QED BY <1>1, <1>2, <1>5 DEF Reading

\* finish_line(): behind the line, or at the end of the input.
LEMMA FinishStands ==
  ASSUME Place, status \notin {Newline, EOF}
  PROVE  LET e == FinishLine(next)
             s == IF e > next /\ input[e - 1] = Newline THEN Newline ELSE EOF
         IN  /\ Stands(begin, e, s) /\ e >= next
             /\ e > next \/ s = EOF
<1> DEFINE e == FinishLine(next)
           s == IF e > next /\ input[e - 1] = Newline THEN Newline ELSE EOF
           ends == {q \in next .. Len(input) : input[q] = Newline}
<1>1. /\ Len(input) \in Nat /\ next \in 1 .. Len(input) + 1 /\ begin \in 1 .. next
      /\ NoLineEnd(begin, next - 1)
  BY DEF Place, Stands
<1>2. CASE ends = {}
  <2>1. e = Len(input) + 1
    BY <1>2 DEF FinishLine
  <2>2. NoLineEnd(begin, Len(input))
    BY <1>1, <1>2 DEF NoLineEnd
  <2> HIDE DEF e
  <2>3. s = EOF
    <3>1. ASSUME e > next PROVE input[e - 1] # Newline
      <4>1. e - 1 \in begin .. Len(input)
        BY <1>1, <2>1, <3>1
      <4> QED BY <2>2, <4>1 DEF NoLineEnd
    <3> QED BY <3>1
  <2>4. Stands(begin, e, EOF)
    BY <1>1, <2>1, <2>2 DEF Stands, EOF, Newline
  <2> HIDE DEF s
  <2> QED BY <1>1, <2>1, <2>3, <2>4 DEF e, s
<1>3. CASE ends # {}
  <2>1. ends \subseteq Nat
    BY <1>1
  <2>2. PICK m \in ends : \A x \in ends : m <= x
    BY <1>3, <2>1, LeastNumber
  <2>3. Min(ends) \in ends /\ \A x \in ends : Min(ends) <= x
    BY <2>2 DEF Min
  <2> DEFINE q == Min(ends)
  <2>4. e = q + 1
    BY <1>3 DEF FinishLine
  <2> HIDE DEF q, e
  <2>5. q \in ends /\ \A x \in ends : q <= x
    BY <2>3 DEF q
  <2>6. /\ q \in next .. Len(input) /\ input[q] = Newline
        /\ \A t \in next .. q - 1 : input[t] # Newline
    <3>1. q \in next .. Len(input) /\ input[q] = Newline
      BY <2>5
    <3>2. ASSUME NEW t \in next .. q - 1 PROVE input[t] # Newline
      <4>1. t \in next .. Len(input) /\ ~ (q <= t)
        BY <1>1, <3>1
      <4> QED BY <2>5, <4>1
    <3> QED BY <3>1, <3>2
  <2>7. NoLineEnd(begin, q - 1)
    BY <1>1, <2>6 DEF NoLineEnd
  <2>8. /\ e \in 1 .. Len(input) + 1 /\ begin \in 1 .. e /\ e > begin /\ e > next /\ e >= next
        /\ e - 1 = q /\ e - 2 = q - 1
    BY <1>1, <2>4, <2>6
  <2>9. s = Newline
    BY <2>6, <2>8
  <2>10. Stands(begin, e, Newline)
    BY <2>6, <2>7, <2>8 DEF Stands, Delimiter, Newline, EOF
  <2> HIDE DEF s
  <2> QED BY <2>8, <2>9, <2>10 DEF e, s
<1> QED BY <1>2, <1>3

LEMMA AbandonStands ==
  ASSUME Place, Abandon
  PROVE  /\ Stands(begin, next', status') /\ status' \in {Newline, EOF}
         /\ \/ status \in {Newline, EOF} /\ UNCHANGED <<next, status>>
            \/ status \notin {Newline, EOF} /\ (next' > next \/ status' = EOF)
<1>1. CASE status \in {Newline, EOF}
  BY <1>1 DEF Abandon, Place
<1>2. CASE status \notin {Newline, EOF}
  <2> DEFINE e == FinishLine(next)
             s == IF e > next /\ input[e - 1] = Newline THEN Newline ELSE EOF
  <2>1. Stands(begin, e, s) /\ (e > next \/ s = EOF)
    BY <1>2, FinishStands
  <2>2. next' = e /\ status' = s
    BY <1>2 DEF Abandon
  <2>3. s \in {Newline, EOF}
    OBVIOUS
  <2> HIDE DEF e, s
  <2> QED BY <1>2, <2>1, <2>2, <2>3
<1> QED BY <1>1, <1>2

\* A list with one more entry.
LEMMA OneMore ==
  ASSUME NEW l, l \in Seq(ToSet(l)), NEW x
  PROVE  LET a == Append(l, x)
         IN  /\ a \in Seq(ToSet(a)) /\ a # <<>>
             /\ Len(l) \in Nat /\ DOMAIN l = 1 .. Len(l)
             /\ Len(a) = Len(l) + 1 /\ DOMAIN a = 1 .. Len(l) + 1
             /\ a[Len(l) + 1] = x /\ \A k \in 1 .. Len(l) : a[k] = l[k]
<1> DEFINE a == Append(l, x)
           S == ToSet(l) \cup {x}
<1>1. l \in Seq(S) /\ x \in S
  <2>1. ToSet(l) \subseteq S
    OBVIOUS
  <2> HIDE DEF S
  <2>2. l \in [1 .. Len(l) -> ToSet(l)] /\ Len(l) \in Nat
    OBVIOUS
  <2>3. l \in [1 .. Len(l) -> S]
    BY <2>1, <2>2
  <2> QED BY <2>2, <2>3 DEF S
<1> HIDE DEF S
<1>2. /\ a \in Seq(S) /\ Len(a) = Len(l) + 1 /\ Len(l) \in Nat
      /\ a[Len(l) + 1] = x /\ \A k \in 1 .. Len(l) : a[k] = l[k]
  BY <1>1
<1>3. DOMAIN a = 1 .. Len(l) + 1 /\ DOMAIN l = 1 .. Len(l)
  BY <1>1, <1>2
<1> HIDE DEF a
<1>4. a \in [1 .. Len(l) + 1 -> ToSet(a)]
  <2>1. a = [k \in 1 .. Len(l) + 1 |-> a[k]]
    BY <1>2, <1>3
  <2> QED BY <1>3, <2>1 DEF ToSet
<1>5. a \in Seq(ToSet(a)) /\ a # <<>>
  BY <1>2, <1>3, <1>4
<1> QED BY <1>2, <1>3, <1>5 DEF a
LEMMA EndLineKeeps ==
  ASSUME IInv, EndLine
  PROVE  IInv'
<1> DEFINE l == [first |-> begin, last |-> next - 1,
                 ran |-> error = "none" /\ status # EOF,
                 commands |-> pipeline, background |-> background]
           n == Len(lines)
<1>1. /\ pc = "main" /\ lines' = Append(lines, l) /\ begin' = next
      /\ UNCHANGED <<input, next>>
      /\ IF status = EOF THEN pc' = "exit" /\ status' = status
         ELSE pc' = "command" /\ status' = Normal
  BY DEF EndLine
<1>2. /\ input \in Seq(Char) /\ Stands(begin, next, status) /\ status \in {Newline, EOF}
      /\ Len(input) \in Nat /\ next \in 1 .. Len(input) + 1 /\ begin \in 1 .. next
  BY <1>1 DEF IInv, Place, Stands
<1>3. /\ l.first = begin /\ l.last = next - 1
  OBVIOUS
<1> HIDE DEF l
<1>4. /\ lines' \in Seq(ToSet(lines')) /\ lines' # <<>>
      /\ n \in Nat /\ DOMAIN lines = 1 .. n
      /\ Len(lines') = n + 1 /\ DOMAIN lines' = 1 .. n + 1
      /\ lines'[n + 1] = l /\ \A k \in 1 .. n : lines'[k] = lines[k]
  BY <1>1, OneMore DEF IInv, Chained
<1> HIDE DEF n
<1>5. Place'
  <2>1. Stands(next, next, IF status = EOF THEN EOF ELSE Normal)
    BY <1>2 DEF Stands, NoLineEnd, Normal, EOF, Newline
  <2>2. /\ next' = next /\ begin' = next /\ input' = input
        /\ status' = IF status = EOF THEN EOF ELSE Normal
    BY <1>1
  <2>3. Stands(begin, next, status)'
    BY <2>1, <2>2 DEF Stands, NoLineEnd
  <2>4. /\ pc' \in {"command", "exit"} /\ (pc' = "exit" => status' \in {Newline, EOF})
        /\ input' \in Seq(Char)
    BY <1>1, <1>2
  <2> QED BY <2>3, <2>4 DEF Place
<1>6. Chained'
  <2>1. begin' = lines'[Len(lines')].last + 1
    BY <1>1, <1>2, <1>3, <1>4
  <2> QED BY <1>4, <2>1 DEF Chained
<1>7. WholeLines'
  <2> SUFFICES ASSUME NEW k \in DOMAIN lines'
               PROVE  /\ lines'[k].first = (IF k = 1 THEN 1 ELSE lines'[k - 1].last + 1)
                      /\ Newline \notin ToSet(SubSeq(input, lines'[k].first, lines'[k].last - 1))
                      /\ lines'[k].last < Len(input) =>
                           lines'[k].last >= lines'[k].first /\ input[lines'[k].last] = Newline
    BY <1>1 DEF WholeLines
  <2>1. CASE k \in 1 .. n
    <3>1. k \in DOMAIN lines /\ lines'[k] = lines[k]
      BY <1>4, <2>1
    <3>2. k # 1 => lines'[k - 1] = lines[k - 1]
      <4>1. k # 1 => k - 1 \in 1 .. n
        BY <1>4, <2>1
      <4> QED BY <1>4, <4>1
    <3> QED BY <3>1, <3>2 DEF IInv, WholeLines
  <2>2. CASE k = n + 1
    <3>1. lines'[k] = l
      BY <1>4, <2>2
    <3>2. begin = IF k = 1 THEN 1 ELSE lines'[k - 1].last + 1
      <4>1. n = 0 => lines = <<>>
        BY <1>4 DEF IInv, Chained, n
      <4>2. n # 0 => lines # <<>> /\ n \in 1 .. n
        BY <1>4 DEF n
      <4>3. k = 1 <=> n = 0
        BY <1>4, <2>2
      <4>4. k - 1 = n
        BY <1>4, <2>2
      <4> QED BY <1>4, <4>1, <4>2, <4>3, <4>4 DEF IInv, Chained, n
    <3>3. NoLineEnd(begin, next - 2)
      <4>1. status = Newline \/ NoLineEnd(begin, next - 1)
        BY <1>2 DEF Stands
      <4> QED BY <1>2, <4>1 DEF Stands, NoLineEnd
    <3>4. Newline \notin ToSet(SubSeq(input, begin, (next - 1) - 1))
      <4> DEFINE s == SubSeq(input, begin, (next - 1) - 1)
      <4>1. ASSUME NEW i \in DOMAIN s PROVE s[i] # Newline
        <5>1. begin + i - 1 \in begin .. next - 2 /\ s[i] = input[begin + i - 1]
          BY <1>2
        <5> QED BY <3>3, <5>1 DEF NoLineEnd
      <4> QED BY <4>1 DEF ToSet
    <3>5. next - 1 < Len(input) => next - 1 >= begin /\ input[next - 1] = Newline
      BY <1>2 DEF Stands, Newline, EOF
    <3> QED BY <1>3, <3>1, <3>2, <3>4, <3>5
  <2>3. k \in 1 .. n \/ k = n + 1
    BY <1>4
  <2> QED BY <2>1, <2>2, <2>3
<1> QED BY <1>5, <1>6, <1>7 DEF IInv

LEMMA InitIInv == Init => IInv
<1> SUFFICES ASSUME Init PROVE IInv
  OBVIOUS
<1>1. input = <<>> /\ next = 1 /\ begin = 1 /\ lines = <<>> /\ status = Normal /\ pc = "start"
  BY DEF Init
<1>2. Place
  BY <1>1 DEF Place, Stands, NoLineEnd, Normal, Newline, EOF
<1>3. Chained /\ WholeLines
  BY <1>1 DEF Chained, WholeLines, ToSet
<1> QED BY <1>2, <1>3 DEF IInv

LEMMA NextIInv == IInv /\ [Next]_vars => IInv'
<1> SUFFICES ASSUME IInv, [Next]_vars PROVE IInv'
  OBVIOUS
<1>1. ASSUME UNCHANGED <<input, begin, lines>>, Stands(begin, next', status'),
             pc' \in {"command", "main"}, pc' = "main" => status' \in {Newline, EOF}
      PROVE  IInv'
  <2>1. Stands(begin, next, status)'
    BY <1>1 DEF Stands, NoLineEnd
  <2>2. Place'
    BY <1>1, <2>1 DEF IInv, Place
  <2>3. Chained' /\ WholeLines'
    BY <1>1 DEF IInv, Chained, WholeLines
  <2> QED BY <2>2, <2>3 DEF IInv
<1>2. CASE Start
  <2>1. /\ pc = "start" /\ input' \in Seq(Char) /\ pc' = "command"
        /\ UNCHANGED <<next, status, begin, lines>>
    BY <1>2, InputIs DEF Start
  <2>2. next = 1 /\ begin = 1 /\ status = Normal /\ lines = <<>>
    BY <2>1 DEF IInv, Place
  <2>3. Len(input') \in Nat
    BY <2>1
  <2>4. Stands(begin, next, status)'
    BY <2>1, <2>2, <2>3 DEF Stands, NoLineEnd, Normal, Newline, EOF
  <2>5. Place'
    BY <2>1, <2>4 DEF Place
  <2>6. Chained' /\ WholeLines'
    BY <2>1, <2>2 DEF IInv, Chained, WholeLines
  <2> QED BY <2>5, <2>6 DEF IInv
<1>3. CASE ReadTurn
  <2>1. Stands(begin, next', status') /\ pc = "command" /\ UNCHANGED <<pc, input, begin, lines>>
    BY <1>3, TurnStands DEF IInv, ReadTurn, InCommand
  <2> QED BY <1>1, <2>1
<1>4. CASE NextCommand
  <2>1. /\ status \notin {Newline, EOF} /\ status' = Normal /\ pc = "command"
        /\ UNCHANGED <<pc, input, next, begin, lines>>
    BY <1>4 DEF NextCommand, LineEnds
  <2>2. Stands(begin, next', status')
    BY <2>1 DEF IInv, Place, Stands, Normal, Newline, EOF
  <2> QED BY <1>1, <2>1, <2>2
<1>5. CASE EndPipeline
  <2>1. /\ status \in {Newline, EOF} /\ pc' = "main"
        /\ UNCHANGED <<input, next, status, begin, lines>>
    BY <1>5 DEF EndPipeline, LineEnds
  <2> QED BY <1>1, <2>1 DEF IInv, Place
<1>6. CASE Abandon
  <2>1. Stands(begin, next', status') /\ status' \in {Newline, EOF}
    BY <1>6, AbandonStands DEF IInv
  <2>2. pc' = "main" /\ UNCHANGED <<input, begin, lines>>
    BY <1>6 DEF Abandon
  <2> QED BY <1>1, <2>1, <2>2
<1>7. CASE EndLine
  BY <1>7, EndLineKeeps
<1>8. CASE UNCHANGED vars
  BY <1>8 DEF vars, IInv, Place, Chained, WholeLines, Stands, NoLineEnd
<1> QED BY <1>2, <1>3, <1>4, <1>5, <1>6, <1>7, <1>8 DEF Next

LEMMA IInvAlways == Spec => []IInv
<1> QED BY InitIInv, NextIInv, PTL DEF Spec

\* The lines main() sees are the lines of the input, for every input: no look-ahead, no
\* skipped rest of a line with an error, takes a character of the next line or leaves one.
THEOREM LinesAreWhole == Spec => []WholeLines
<1>1. IInv => WholeLines
  BY DEF IInv
<1> QED BY <1>1, IInvAlways, PTL

-----------------------------------------------------------------------------
(* Every loop ends *)

LEMMA NextAdvances ==
  IInv /\ [Next]_vars => [next' > next \/ Rank' < Rank]_vars
<1> SUFFICES ASSUME IInv, Next PROVE next' > next \/ Rank' < Rank
  OBVIOUS
<1>1. next \in Nat /\ status \in Delimiter \cup {Normal, EOF}
  BY DEF IInv, Place, Stands
<1>2. /\ pc = "command" /\ status \in {Newline, "|", "&"} => Rank = 4
      /\ pc = "command" /\ status \in {Normal, "<", ">"} => Rank = 2
      /\ pc = "command" /\ status = EOF => Rank = 1
      /\ pc = "main" /\ status = EOF => Rank = 0
      /\ pc = "main" /\ status # EOF => Rank = 3
      /\ pc = "start" => Rank = 5
      /\ pc = "exit" => Rank = -1
  BY DEF Rank, Newline, Normal, EOF
<1>3. /\ pc' = "command" /\ status' = EOF => Rank' = 1
      /\ pc' = "command" /\ status' \in {Normal, "<", ">"} => Rank' = 2
      /\ pc' = "main" /\ status' = EOF => Rank' = 0
      /\ pc' = "main" /\ status' # EOF => Rank' = 3
      /\ pc' = "exit" => Rank' = -1
  BY DEF Rank, Newline, Normal, EOF
<1>4. CASE Start
  BY <1>2, <1>3, <1>4 DEF Start, IInv, Place
<1>5. CASE ReadTurn
  <2>1. next' > next \/ status' = EOF
    BY <1>5, TurnStands DEF IInv
  <2>2. /\ pc = "command" /\ pc' = "command" /\ status \in {Normal, "<", ">"}
    BY <1>1, <1>5 DEF ReadTurn, InCommand, Delimiter
  <2> QED BY <1>2, <1>3, <2>1, <2>2
<1>6. CASE NextCommand
  <2>1. /\ pc = "command" /\ pc' = "command" /\ status' = Normal
        /\ status \in {Newline, "|", "&"}
    BY <1>6 DEF NextCommand, InCommand, LineEnds
  <2> QED BY <1>2, <1>3, <2>1
<1>7. CASE EndPipeline
  <2>1. pc = "command" /\ pc' = "main" /\ status' = status /\ status \in {Newline, EOF}
    BY <1>7 DEF EndPipeline, LineEnds
  <2> QED BY <1>2, <1>3, <2>1 DEF Newline, EOF
<1>8. CASE Abandon
  <2>1. pc = "command" /\ pc' = "main"
    BY <1>8 DEF Abandon
  <2>2. \/ status \in {Newline, EOF} /\ UNCHANGED <<next, status>>
        \/ status \notin {Newline, EOF} /\ (next' > next \/ status' = EOF)
    BY <1>8, AbandonStands DEF IInv
  <2>3. status \notin {Newline, EOF} => Rank \in {2, 4}
    BY <1>1, <1>2, <2>1 DEF Delimiter
  <2> QED BY <1>2, <1>3, <2>1, <2>2, <2>3 DEF Newline, EOF
<1>9. CASE EndLine
  <2>1. /\ pc = "main"
        /\ IF status = EOF THEN pc' = "exit" /\ status' = status
           ELSE pc' = "command" /\ status' = Normal
    BY <1>9 DEF EndLine
  <2> QED BY <1>2, <1>3, <2>1
<1> QED BY <1>4, <1>5, <1>6, <1>7, <1>8, <1>9 DEF Next

\* No loop of the parser turns for ever, whatever the input: each step reads on or gets
\* nearer to the exit, and the end of the input, however often it is read, ends them all.
THEOREM AlwaysAdvances == Spec => Advances
<1> QED BY NextAdvances, IInvAlways, PTL DEF Spec, Advances
-----------------------------------------------------------------------------
(* Words and commands *)

Word     == Seq(Char \ {Quote, Newline})
Errors   == {"none", "eof", "line", "amp", "redirect"}
Modes    == {"pipe", "and", "or"}
Commanded == [argv : Seq(Word \ {NoWord}), in : Word, out : Word, mode : Modes]

\* A word read, and the command with it, are made of such words.
Handed(w) ==
  /\ IsWord(w)
  /\ w.word \in Word /\ w.error \in Errors /\ w.mode \in Modes
  /\ w.background \in BOOLEAN /\ w.to \in Commanded

\* What the executor gets is made of such commands.
Built ==
  /\ error \in Errors /\ background \in BOOLEAN
  /\ cmd \in Commanded /\ pipeline \in Seq(Commanded)

\* copy_word(): the quotation marks are left out, and no line end was passed.
LEMMA WordOfIs ==
  ASSUME input \in Seq(Char), NEW p \in 1 .. Len(input) + 1, NEW q \in p - 1 .. Len(input),
         NoLineEnd(p, q)
  PROVE  WordOf(p, q) \in Word
<1> DEFINE T == Char \ {Quote, Newline}
           Piece(c) == IF c = Quote THEN <<>> ELSE <<c>>
           n == q - p + 1
           s == [k \in 1 .. n |-> Piece(input[p + k - 1])]
<1>1. n \in Nat /\ Len(input) \in Nat /\ p \in Nat
  OBVIOUS
<1>2. ASSUME NEW k \in 1 .. n PROVE Piece(input[p + k - 1]) \in Seq(T)
  <2>1. p + k - 1 \in p .. q /\ p + k - 1 \in 1 .. Len(input)
    BY <1>1
  <2>2. input[p + k - 1] \in Char /\ input[p + k - 1] # Newline
    BY <2>1 DEF NoLineEnd
  <2> DEFINE c == input[p + k - 1]
  <2>3. c = Quote \/ c \in T
    BY <2>2
  <2> HIDE DEF c, T
  <2>4. Piece(c) \in Seq(T)
    BY <2>3
  <2> QED BY <2>4 DEF c
<1>3. s \in Seq(Seq(T))
  <2>1. s \in [1 .. n -> Seq(T)]
    <3> HIDE DEF T, Piece, n
    <3> QED BY <1>2
  <2> HIDE DEF s, T, n
  <2> QED BY <1>1, <2>1
<1>4. WordOf(p, q) = FlattenSeq(s)
  BY DEF WordOf
<1>5. FlattenSeq(s) \in Seq(T)
  <2> HIDE DEF s, T
  <2>1. PICK f \in [0 .. Len(s) -> Seq(T)] : FlattenSeq(s) = f[Len(s)]
    BY <1>3, FlattenIs
  <2>2. Len(s) \in 0 .. Len(s)
    BY <1>3
  <2> QED BY <2>1, <2>2
<1> QED BY <1>4, <1>5 DEF Word

LEMMA NothingIsWord == NoWord \in Word
BY DEF NoWord, Word

LEMMA WordReadHanded ==
  ASSUME cmd \in Commanded, NEW x \in Word, NEW s, NEW n, NEW e \in Errors
  PROVE  Handed(WordRead(x, s, n, e))
BY DEF Handed, IsWord, WordRead, Modes

LEMMA ReadWordHanded ==
  ASSUME input \in Seq(Char), cmd \in Commanded, NEW f \in 1 .. Len(input) + 1
  PROVE  Handed(ReadWord(f))
<1> DEFINE p == SkipSpaces(f)
           q == Min(Stops(p))
           e == IF InQuotes(p, Len(input) + 1) THEN "eof" ELSE "none"
           s == IF input[q] = Space THEN Normal ELSE input[q]
<1>1. p \in 1 .. Len(input) + 1 /\ Len(input) \in Nat
  <2>1. p \in f .. Len(input) + 1
    BY SkipSpacesStops
  <2> HIDE DEF p
  <2> QED BY <2>1
<1> HIDE DEF p
<1>2. CASE Stops(p) = {}
  <2>1. ReadWord(f) = WordRead(NoWord, EOF, Len(input) + 1, e)
    BY <1>2 DEF ReadWord, p
  <2>2. e \in Errors
    BY DEF Errors
  <2> HIDE DEF e
  <2> QED BY <2>1, <2>2, NothingIsWord, WordReadHanded
<1>3. CASE Stops(p) # {}
  <2>1. q \in p .. Len(input) /\ NoLineEnd(p, q - 1)
    BY <1>1, <1>3, WordStops
  <2>2. ReadWord(f) = IF InQuotes(p, q) THEN WordRead(NoWord, Newline, q + 1, "line")
                      ELSE WordRead(WordOf(p, q - 1), s, q + 1, "none")
    BY <1>3 DEF ReadWord, p
  <2> HIDE DEF q, s
  <2>3. q - 1 \in p - 1 .. Len(input)
    BY <1>1, <2>1
  <2>4. WordOf(p, q - 1) \in Word
    BY <1>1, <2>1, <2>3, WordOfIs
  <2>5. "line" \in Errors /\ "none" \in Errors
    BY DEF Errors
  <2> QED BY <2>2, <2>4, <2>5, NothingIsWord, WordReadHanded
<1> QED BY <1>2, <1>3

LEMMA LookAheadHanded ==
  ASSUME NEW w, Handed(w)
  PROVE  Handed(LookAhead(w))
<1> DEFINE c == Getchar(w.next)
           s == CASE w.status = "&" /\ c \in {EOF, Newline} -> c
                  [] w.status = "&" /\ c = "&" -> "|"
                  [] OTHER -> w.status
           n == IF Consumes(w.status, c) THEN After(w.next) ELSE w.next
           e == IF w.status = "&" /\ c \notin {EOF, Newline, "&"} THEN "amp" ELSE w.error
           mode == CASE w.status = "&" /\ c = "&" -> "and"
                     [] w.status = "|" /\ c = "|" -> "or"
                     [] OTHER -> w.mode
           back == w.status = "&" /\ c \in {EOF, Newline}
           v == LookAhead(w)
<1>1. v = [w EXCEPT !.status = s, !.error = e, !.next = n, !.mode = mode, !.background = back]
  BY DEF LookAhead
<1>2. e \in Errors
  BY DEF Handed, Errors
<1>3. mode \in Modes
  BY DEF Handed, Modes
<1>4. back \in BOOLEAN
  OBVIOUS
<1> HIDE DEF s, n, e, mode, back, v
<1>5. v = [word |-> w.word, status |-> s, next |-> n, error |-> e, mode |-> mode,
           background |-> back, to |-> w.to]
  BY <1>1 DEF Handed, IsWord
<1>6. /\ IsWord(v) /\ v.word = w.word /\ v.error = e /\ v.mode = mode
      /\ v.background = back /\ v.to = w.to
  BY <1>5, Zenon DEF IsWord
<1>7. w.word \in Word /\ w.to \in Commanded
  BY DEF Handed
<1>8. v.background \in BOOLEAN
  BY <1>4, <1>6, Zenon
<1> QED BY <1>2, <1>3, <1>6, <1>7, <1>8, Zenon DEF Handed, v

\* A word handed on, with another error or another command.
LEMMA HandedWith ==
  ASSUME NEW w, Handed(w), NEW e \in Errors, NEW c \in Commanded
  PROVE  Handed([w EXCEPT !.error = e]) /\ Handed([w EXCEPT !.to = c])
<1> DEFINE u == [w EXCEPT !.error = e]
           v == [w EXCEPT !.to = c]
<1>1. /\ u = [word |-> w.word, status |-> w.status, next |-> w.next, error |-> e,
              mode |-> w.mode, background |-> w.background, to |-> w.to]
      /\ v = [word |-> w.word, status |-> w.status, next |-> w.next, error |-> w.error,
              mode |-> w.mode, background |-> w.background, to |-> c]
  BY DEF Handed, IsWord
<1> HIDE DEF u, v
<1>2. /\ IsWord(u) /\ u.word = w.word /\ u.error = e /\ u.mode = w.mode
      /\ u.background = w.background /\ u.to = w.to
  BY <1>1, Zenon DEF IsWord
<1>3. /\ IsWord(v) /\ v.word = w.word /\ v.error = w.error /\ v.mode = w.mode
      /\ v.background = w.background /\ v.to = c
  BY <1>1, Zenon DEF IsWord
<1>4. Handed(u)
  BY <1>2, Zenon DEF Handed
<1>5. Handed(v)
  BY <1>3, Zenon DEF Handed
<1> QED BY <1>4, <1>5 DEF u, v

LEMMA UseHanded ==
  ASSUME input \in Seq(Char), cmd \in Commanded,
         NEW b, NEW f \in Nat, NEW w, Handed(w), Reading(w, b, f)
  PROVE  Handed(Use(w))
<1>1. "redirect" \in Errors
  BY DEF Errors
<1>2. Handed(Input(w))
  <2> DEFINE c == [w.to EXCEPT !.in = w.word]
  <2>1. Input(w) = IF w.word = NoWord THEN [w EXCEPT !.error = "redirect"]
                   ELSE [w EXCEPT !.to = c]
    BY DEF Input, Handed, IsWord
  <2>2. c \in Commanded
    BY DEF Handed, Commanded
  <2> HIDE DEF c
  <2> QED BY <1>1, <2>1, <2>2, HandedWith
<1>3. Handed(Argument(w))
  <2> DEFINE a == Append(w.to.argv, w.word)
             c == [w.to EXCEPT !.argv = a]
  <2>1. Argument(w) = IF w.word = NoWord THEN w ELSE [w EXCEPT !.to = c]
    BY DEF Argument, Handed, IsWord
  <2>2. CASE w.word # NoWord
    <3>1. w.to.argv \in Seq(Word \ {NoWord}) /\ w.word \in Word \ {NoWord}
      BY <2>2 DEF Handed, Commanded
    <3>2. a \in Seq(Word \ {NoWord})
      BY <3>1
    <3> HIDE DEF a
    <3>3. c \in Commanded
      BY <3>2 DEF Handed, Commanded
    <3> HIDE DEF c
    <3> QED BY <1>1, <2>1, <2>2, <3>3, HandedWith
  <2> HIDE DEF c
  <2> QED BY <2>1, <2>2
<1>4. Handed(Output(w))
  <2> DEFINE again == w.word = NoWord /\ w.status = ">"
             z == ReadWord(w.next)
             v == IF again THEN z ELSE w
             c == [v.to EXCEPT !.out = v.word]
  <2>1. Handed(v)
    <3>1. w.next \in 1 .. Len(input) + 1
      BY DEF Reading, Stands
    <3>2. Handed(z)
      BY <3>1, ReadWordHanded
    <3> HIDE DEF z
    <3> QED BY <3>2
  <2> HIDE DEF again, z, v
  <2>2. Output(w) = IF v.error # "none" THEN v
                    ELSE IF v.word = NoWord THEN [v EXCEPT !.error = "redirect"]
                    ELSE [v EXCEPT !.to.out = v.word]
    BY DEF Output, v, again, z
  <2>3. [v EXCEPT !.to.out = v.word] = [v EXCEPT !.to = c]
    BY <2>1 DEF Handed, IsWord
  <2>4. c \in Commanded
    BY <2>1 DEF Handed, Commanded
  <2> HIDE DEF c
  <2> QED BY <1>1, <2>1, <2>2, <2>3, <2>4, HandedWith
<1> QED BY <1>2, <1>3, <1>4 DEF Use

LEMMA EmptyCommand == NewCommand \in Commanded
BY NothingIsWord DEF NewCommand, Commanded, Modes, NoWord

\* Every command read, and every list of them, is made of words.
LEMMA InitBuilt == Init => Built
<1>1. <<>> \in Seq(Commanded) /\ FALSE \in BOOLEAN /\ "none" \in Errors
  BY DEF Errors
<1>2. Init => /\ error \in Errors /\ background \in BOOLEAN
              /\ cmd \in Commanded /\ pipeline \in Seq(Commanded)
  BY <1>1, EmptyCommand, Zenon DEF Init
<1> QED BY <1>2 DEF Built

LEMMA NextBuilt ==
  ASSUME IInv, Built, [Next]_vars
  PROVE  Built'
<1>1. input \in Seq(Char) /\ Stands(begin, next, status) /\ next \in Nat
  BY DEF IInv, Place, Stands
<1>2. pipeline \in Seq(Commanded) /\ cmd \in Commanded /\ Commands \in Seq(Commanded)
  BY DEF Built, Commands
<1>3. CASE Start
  BY <1>3 DEF Start, Built
<1>4. CASE ReadTurn
  <2> DEFINE w == ReadWord(next)
             v == LookAhead(w)
             r == Use(v)
  <2>1. /\ cmd' = [r.to EXCEPT !.mode = r.mode] /\ background' = r.background
        /\ error' = r.error /\ UNCHANGED pipeline
    BY <1>4 DEF ReadTurn
  <2>2. status # Newline
    BY <1>4 DEF ReadTurn, InCommand
  <2>3. Handed(w) /\ IsWord(w) /\ Reading(w, begin, next)
    <3>1. next \in 1 .. Len(input) + 1
      BY <1>1 DEF Stands
    <3>2. Handed(w)
      BY <1>1, <1>2, <3>1, ReadWordHanded
    <3>3. IsWord(w) /\ Reading(w, begin, next)
      BY <1>1, <2>2, ReadWordStands DEF Reading
    <3> QED BY <3>2, <3>3
  <2> HIDE DEF w
  <2>4. Handed(v) /\ Reading(v, begin, next)
    BY <1>1, <2>3, LookAheadHanded, LookAheadStands
  <2> HIDE DEF v
  <2>5. Handed(r)
    BY <1>1, <1>2, <2>4, UseHanded
  <2> HIDE DEF r
  <2>6. [r.to EXCEPT !.mode = r.mode] \in Commanded
    BY <2>5 DEF Handed, Commanded
  <2>7. r.background \in BOOLEAN /\ r.error \in Errors
    BY <2>5 DEF Handed
  <2>8. background' \in BOOLEAN
    BY <2>1, <2>7, Zenon
  <2> QED BY <1>2, <2>1, <2>6, <2>7, <2>8 DEF Built
<1>5. CASE NextCommand
  BY <1>2, <1>5, EmptyCommand DEF NextCommand, Built
<1>6. CASE EndPipeline
  BY <1>2, <1>6 DEF EndPipeline, Built
<1>7. CASE Abandon
  BY <1>7 DEF Abandon, Built
<1>8. CASE EndLine
  <2>1. <<>> \in Seq(Commanded) /\ FALSE \in BOOLEAN /\ "none" \in Errors
    BY DEF Errors
  <2>2. pipeline' = <<>> /\ cmd' = NewCommand /\ background' = FALSE /\ error' = "none"
    BY <1>8 DEF EndLine
  <2>3. /\ error' \in Errors /\ background' \in BOOLEAN
        /\ cmd' \in Commanded /\ pipeline' \in Seq(Commanded)
    BY <2>1, <2>2, EmptyCommand, Zenon
  <2> QED BY <2>3 DEF Built
<1>9. CASE UNCHANGED vars
  BY <1>9 DEF vars, Built
<1> QED BY <1>3, <1>4, <1>5, <1>6, <1>7, <1>8, <1>9 DEF Next

LEMMA BuiltAlways == Spec => [](IInv /\ Built)
<1>1. Init => IInv /\ Built
  BY InitIInv, InitBuilt
<1>2. (IInv /\ Built) /\ [Next]_vars => (IInv /\ Built)'
  BY NextIInv, NextBuilt
<1> QED BY <1>1, <1>2, PTL DEF Spec

\* Of whatever input, no command has an empty argument, and no word of it a quotation
\* mark or, since every line is left behind its first line end, the end of a line.
THEOREM ParserTypes == Spec => []TypeOK
<1>1. ASSUME IInv, Built PROVE TypeOK
  <2>1. /\ pc \in {"start", "command", "main", "exit"}
        /\ next \in 1 .. Len(input) + 1 /\ begin \in 1 .. next
        /\ status \in Delimiter \cup {Normal, EOF}
    BY <1>1 DEF IInv, Place, Stands
  <2>2. error \in {"none", "eof", "line", "amp", "redirect"} /\ background \in BOOLEAN
    BY <1>1 DEF Built, Errors
  <2>3. ASSUME NEW c \in ToSet(pipeline) \cup {cmd}
        PROVE  /\ c.mode \in {"pipe", "and", "or"}
               /\ \A w \in ToSet(c.argv) : w # NoWord
               /\ \A w \in ToSet(c.argv) \cup {c.in, c.out} : ToSet(w) \cap {Quote, Newline} = {}
    <3>1. c \in Commanded
      BY <1>1 DEF Built, ToSet
    <3>2. ToSet(c.argv) \subseteq Word \ {NoWord} /\ c.in \in Word /\ c.out \in Word
      BY <3>1 DEF Commanded, ToSet
    <3>3. ASSUME NEW w \in Word PROVE ToSet(w) \cap {Quote, Newline} = {}
      BY <3>3 DEF Word, ToSet
    <3>4. c.mode \in {"pipe", "and", "or"}
      BY <3>1 DEF Commanded, Modes
    <3> QED BY <3>2, <3>3, <3>4
  <2> QED BY <2>1, <2>2, <2>3 DEF TypeOK
<1> QED BY <1>1, BuiltAlways, PTL

-----------------------------------------------------------------------------
(* Characters of a line *)

\* A number and the next one, odd and even.
LEMMA Parity ==
  ASSUME NEW n \in Nat
  PROVE  /\ n % 2 \in {0, 1} /\ (n + 1) % 2 \in {0, 1}
         /\ (n + 1) % 2 = 0 <=> n % 2 = 1
         /\ (n + 1) % 2 = 1 <=> n % 2 = 0
OBVIOUS

\* The quotation marks in front of a character.
LEMMA CountsOne ==
  ASSUME NEW S, IsFiniteSet(S), NEW x, x \notin S
  PROVE  /\ Cardinality(S) \in Nat /\ IsFiniteSet(S \cup {x})
         /\ Cardinality(S \cup {x}) = Cardinality(S) + 1
BY FS_CardinalityType, FS_AddElement

\* The beginning of a line is not in quotes.
LEMMA NoQuote ==
  ASSUME NEW L
  PROVE  Unquoted(L, 1)
<1>1. {t \in 1 .. 1 - 1 : L[t] = "q"} = {}
  OBVIOUS
<1>2. Cardinality({t \in 1 .. 1 - 1 : L[t] = "q"}) = 0
  BY <1>1, FS_EmptySet
<1> QED BY <1>2 DEF Unquoted

\* A quotation mark opens or ends a quotation.
LEMMA QuoteNext ==
  ASSUME NEW L, NEW i \in Nat \ {0}
  PROVE  Unquoted(L, i + 1) <=> IF L[i] = "q" THEN ~ Unquoted(L, i) ELSE Unquoted(L, i)
<1> DEFINE Q(j) == {t \in 1 .. j - 1 : L[t] = "q"}
<1>1. IsFiniteSet(Q(i))
  <2>1. IsFiniteSet(1 .. i - 1)
    BY FS_Interval
  <2> QED BY <2>1, FS_Subset
<1>2. CASE L[i] = "q"
  <2>1. Q(i + 1) = Q(i) \cup {i} /\ i \notin Q(i)
    BY <1>2
  <2> HIDE DEF Q
  <2>2. Cardinality(Q(i)) \in Nat /\ Cardinality(Q(i + 1)) = Cardinality(Q(i)) + 1
    BY <1>1, <2>1, CountsOne
  <2>3. Cardinality(Q(i + 1)) % 2 = 0 <=> ~ (Cardinality(Q(i)) % 2 = 0)
    <3> DEFINE n == Cardinality(Q(i))
    <3>1. n \in Nat /\ Cardinality(Q(i + 1)) = n + 1
      BY <2>2
    <3> HIDE DEF n
    <3>2. (n + 1) % 2 = 0 <=> ~ (n % 2 = 0)
      BY ONLY <3>1, Parity
    <3> QED BY <3>1, <3>2 DEF n
  <2> QED BY <1>2, <2>3 DEF Unquoted, Q
<1>3. CASE L[i] # "q"
  <2>1. Q(i + 1) = Q(i)
    BY <1>3
  <2> QED BY <1>3, <2>1 DEF Unquoted
<1> QED BY <1>2, <1>3

\* What is not quoted goes on behind a character that is not a quotation mark.
LEMMA MetaIs ==
  ASSUME NEW L, NEW i
  PROVE  i \in Meta(L) <=> /\ i \in DOMAIN L /\ Unquoted(L, i)
                           /\ L[i] \in {" ", "<", ">", "&", "|"}
BY DEF Meta

\* The same characters in front of a character.
Run(L, i) == {t \in Meta(L) : t < i /\ \A u \in t .. i : u \in Meta(L) /\ L[u] = L[i]}

LEMMA SecondIs ==
  ASSUME NEW L, NEW i
  PROVE  i \in Second(L) <=> /\ i \in Meta(L) /\ L[i] \in {"&", "|", ">"}
                             /\ Cardinality(Run(L, i)) % 2 = 1
BY DEF Second, Run, Doubles

\* The run of a character goes on with the same character, and starts anew with another.
LEMMA RunIs ==
  ASSUME NEW T, NEW L \in Seq(T), NEW i \in 1 .. Len(L)
  PROVE  /\ Run(L, 1) = {}
         /\ IsFiniteSet(Run(L, i)) /\ i \notin Run(L, i)
         /\ ~ (i \in Meta(L) /\ L[i] = L[i + 1]) => Run(L, i + 1) = {}
         /\ i \in Meta(L) /\ i + 1 \in Meta(L) /\ L[i] = L[i + 1] =>
              Run(L, i + 1) = Run(L, i) \cup {i}
<1>1. Meta(L) \subseteq 1 .. Len(L) /\ Len(L) \in Nat
  <2>1. DOMAIN L = 1 .. Len(L) /\ Len(L) \in Nat
    OBVIOUS
  <2> QED BY <2>1, MetaIs
<1>2. Run(L, 1) = {}
  BY <1>1 DEF Run
<1>3. IsFiniteSet(Run(L, i)) /\ i \notin Run(L, i)
  <2>1. IsFiniteSet(1 .. Len(L))
    BY <1>1, FS_Interval
  <2>2. Run(L, i) \subseteq 1 .. Len(L)
    BY <1>1 DEF Run
  <2>3. i \notin Run(L, i)
    BY DEF Run
  <2> QED BY <2>1, <2>2, <2>3, FS_Subset
<1>4. ASSUME NEW t \in Run(L, i + 1) PROVE i \in Meta(L) /\ L[i] = L[i + 1]
  <2>1. t \in 1 .. Len(L) /\ t < i + 1 /\ \A u \in t .. i + 1 : u \in Meta(L) /\ L[u] = L[i + 1]
    BY <1>1 DEF Run
  <2>2. i \in t .. i + 1
    BY <2>1
  <2> QED BY <2>1, <2>2
<1>5. ASSUME i \in Meta(L), i + 1 \in Meta(L), L[i] = L[i + 1]
      PROVE  Run(L, i + 1) = Run(L, i) \cup {i}
  <2>1. ASSUME NEW t \in Meta(L)
        PROVE  t \in Run(L, i + 1) <=> t \in Run(L, i) \/ t = i
    <3>1. t \in Int
      BY <1>1
    <3>2. \A u \in t .. i + 1 : u \in t .. i \/ u = i + 1
      BY <3>1
    <3>3. \A u \in t .. i : u \in t .. i + 1
      BY <3>1
    <3>4. t < i + 1 <=> t < i \/ t = i
      BY <3>1
    <3>5. t = i => \A u \in t .. i : u = i
      OBVIOUS
    <3> QED BY <1>5, <3>2, <3>3, <3>4, <3>5 DEF Run
  <2> QED BY <1>5, <2>1 DEF Run
<1> QED BY <1>2, <1>3, <1>4, <1>5

\* The second character of a pair is behind a first one, which is the same, and no second.
LEMMA SecondNext ==
  ASSUME NEW T, NEW L \in Seq(T), NEW i \in 1 .. Len(L)
  PROVE  /\ 1 \notin Second(L)
         /\ i + 1 \in Second(L) => i \in Meta(L) \ Second(L) /\ L[i] = L[i + 1]
         /\ i \in Meta(L) \ Second(L) /\ i + 1 \in DOMAIN L /\ L[i] = L[i + 1]
            /\ L[i] \in {"&", "|", ">"} => i + 1 \in Second(L)
<1>1. 1 \notin Second(L)
  <2>1. Cardinality(Run(L, 1)) = 0
    BY RunIs, FS_EmptySet
  <2> QED BY <2>1, SecondIs
<1> DEFINE c == Cardinality(Run(L, i))
           d == Cardinality(Run(L, i + 1))
<1>2. ASSUME i \in Meta(L), i + 1 \in Meta(L), L[i] = L[i + 1]
      PROVE  d % 2 = 1 <=> ~ (c % 2 = 1)
  <2>1. c \in Nat /\ d = c + 1
    BY <1>2, RunIs, CountsOne
  <2> HIDE DEF c, d
  <2> QED BY <2>1, Parity
<1>3. ASSUME i + 1 \in Second(L) PROVE i \in Meta(L) \ Second(L) /\ L[i] = L[i + 1]
  <2>1. i + 1 \in Meta(L) /\ d % 2 = 1
    BY <1>3, SecondIs
  <2>2. i \in Meta(L) /\ L[i] = L[i + 1]
    <3> SUFFICES ASSUME ~ (i \in Meta(L) /\ L[i] = L[i + 1]) PROVE FALSE
      OBVIOUS
    <3>1. d = 0
      BY RunIs, FS_EmptySet
    <3> QED BY <2>1, <3>1
  <2>3. i \notin Second(L)
    BY <1>2, <2>1, <2>2, SecondIs
  <2> QED BY <2>2, <2>3
<1>4. ASSUME i \in Meta(L) \ Second(L), i + 1 \in DOMAIN L, L[i] = L[i + 1],
             L[i] \in {"&", "|", ">"}
      PROVE  i + 1 \in Second(L)
  <2>1. Unquoted(L, i + 1)
    <3>1. Unquoted(L, i) /\ L[i] # "q"
      BY <1>4, MetaIs
    <3>2. i \in Nat \ {0}
      OBVIOUS
    <3> QED BY <3>1, <3>2, QuoteNext
  <2>2. i + 1 \in Meta(L)
    BY <1>4, <2>1, MetaIs
  <2> QED BY <1>2, <1>4, <2>2, SecondIs
<1> QED BY <1>1, <1>3, <1>4

LEMMA LineIs ==
  ASSUME NEW T, NEW L \in Seq(T)
  PROVE  DOMAIN L = 1 .. Len(L) /\ Len(L) \in Nat
OBVIOUS

LEMMA InLine ==
  ASSUME NEW T, NEW L \in Seq(T), NEW i \in 1 .. Len(L)
  PROVE  /\ i + 1 \in 1 .. Len(L) + 1 /\ (i + 1) - 1 = i /\ i \in Nat \ {0} /\ i # Len(L) + 1
         /\ i \in Int /\ i + 1 \in Int /\ Len(L) + 1 \in Int /\ i < i + 1 /\ i <= Len(L)
         /\ DOMAIN L = 1 .. Len(L) /\ Len(L) \in Nat
OBVIOUS

-----------------------------------------------------------------------------
(* Tokens of a line *)

\* A space.
Blank(L, i) == L[i] = " "

LEMMA MinIs ==
  ASSUME NEW S \in SUBSET Nat, S # {}
  PROVE  Min(S) \in S /\ \A x \in S : Min(S) <= x
<1>1. PICK m \in S : \A x \in S : m <= x
  BY LeastNumber
<1> QED BY <1>1 DEF Min

\* No token is being read at i.
Bound(L, i) ==
  /\ i \in 1 .. Len(L) + 1 /\ Unquoted(L, i) /\ i \notin Second(L)
  /\ i = 1 \/ i - 1 \in Meta(L) \/ i \in Meta(L) \/ i = Len(L) + 1

\* No token begins from i to j.
NoBegin(L, i, j) == \A t \in i .. j : t \notin Begins(L)

\* A space between tokens is skipped.
LEMMA BoundSpace ==
  ASSUME NEW T, NEW L \in Seq(T), NEW i \in 1 .. Len(L), Bound(L, i), Blank(L, i)
  PROVE  i \in Meta(L) /\ i \notin Begins(L) /\ Bound(L, i + 1)
<1>1. i \in 1 .. Len(L) /\ DOMAIN L = 1 .. Len(L)
  BY InLine
<1>2. i \in Meta(L)
  BY <1>1, MetaIs DEF Bound, Blank
<1>3. i \notin Begins(L)
  BY <1>2 DEF Begins, Blank
<1>4. i \in Nat \ {0} /\ L[i] # "q" /\ Unquoted(L, i)
  BY InLine DEF Bound, Blank
<1>5. Unquoted(L, i + 1)
  BY <1>4, QuoteNext
<1>6. i + 1 \notin Second(L)
  <2>1. i + 1 \in Second(L) => L[i] = L[i + 1] /\ L[i + 1] \in {"&", "|", ">"}
    BY <1>1, SecondNext, SecondIs
  <2> QED BY <2>1 DEF Blank
<1>7. i + 1 \in 1 .. Len(L) + 1 /\ (i + 1) - 1 = i
  BY InLine
<1> QED BY <1>2, <1>3, <1>5, <1>6, <1>7 DEF Bound

\* Between tokens, a character that is no space begins one.
LEMMA BoundBegins ==
  ASSUME NEW T, NEW L \in Seq(T), NEW i \in 1 .. Len(L), Bound(L, i), ~ Blank(L, i)
  PROVE  i \in Begins(L)
<1>1. i \in 1 .. Len(L) /\ Len(L) \in Nat /\ DOMAIN L = 1 .. Len(L) /\ i # Len(L) + 1
  BY InLine
<1> QED BY <1>1 DEF Bound, Begins, Blank

\* A word ends at the next character that is not part of it.
LEMMA WordEndIs ==
  ASSUME NEW T, NEW L \in Seq(T), Unquoted(L, Len(L) + 1),
         NEW i \in Begins(L), i \notin Meta(L), NEW q, q = WordEnd(L, i)
  PROVE  /\ q \in i + 1 .. Len(L) + 1 /\ Bound(L, q) /\ NoBegin(L, i + 1, q - 1)
         /\ q = Len(L) + 1 \/ q \in Meta(L)
         /\ \A j \in i .. q - 1 : j \notin Meta(L)
<1> DEFINE S == {m \in Meta(L) : m > i} \cup {Len(L) + 1}
<1>0. DOMAIN L = 1 .. Len(L) /\ Len(L) \in Nat
  BY LineIs
<1>1. i \in 1 .. Len(L) /\ Len(L) \in Nat /\ DOMAIN L = 1 .. Len(L)
  BY <1>0 DEF Begins
<1>2. Meta(L) \subseteq 1 .. Len(L)
  BY <1>1, MetaIs
<1>3. q \in S /\ \A x \in S : q <= x
  <2>1. S \in SUBSET Nat /\ S # {}
    BY <1>1, <1>2
  <2>2. q = Min(S)
    BY DEF WordEnd
  <2> HIDE DEF S
  <2> QED BY <2>1, <2>2, MinIs
<1>4. q \in i + 1 .. Len(L) + 1 /\ (q = Len(L) + 1 \/ q \in Meta(L)) /\ q \in Nat
  BY <1>1, <1>2, <1>3
<1>5. ASSUME NEW j \in i .. q - 1 PROVE j \notin Meta(L)
  <2>1. CASE j = i
    BY <2>1
  <2>2. CASE j > i
    <3>1. ~ (q <= j)
      BY <1>1, <1>4
    <3> QED BY <1>3, <2>2, <3>1
  <2> QED BY <1>1, <2>1, <2>2
<1>6. NoBegin(L, i + 1, q - 1)
  <2> SUFFICES ASSUME NEW j \in i + 1 .. q - 1 PROVE j \notin Begins(L)
    BY DEF NoBegin
  <2>1. j \in i .. q - 1 /\ j - 1 \in i .. q - 1 /\ j # 1
    BY <1>1, <1>4
  <2>2. j \notin Meta(L) /\ j - 1 \notin Meta(L)
    BY <1>5, <2>1
  <2> QED BY <2>1, <2>2 DEF Begins
<1>7. Unquoted(L, q)
  BY <1>4, MetaIs
<1>8. q \notin Second(L)
  <2>1. q - 1 \in 1 .. Len(L) /\ (q - 1) + 1 = q /\ q - 1 \in i .. q - 1
    BY <1>1, <1>4
  <2>2. q - 1 \notin Meta(L)
    BY <1>5, <2>1
  <2>3. (q - 1) + 1 \in Second(L) => q - 1 \in Meta(L)
    BY <2>1, SecondNext
  <2> QED BY <2>1, <2>2, <2>3
<1>9. Bound(L, q)
  <2>1. q \in 1 .. Len(L) + 1
    BY <1>1, <1>4
  <2> QED BY <1>4, <1>7, <1>8, <2>1 DEF Bound
<1> QED BY <1>4, <1>5, <1>6, <1>9

\* An operator ends behind its one or two characters.
OperatorEnd(L, i) == IF i + 1 \in Second(L) THEN i + 2 ELSE i + 1

LEMMA OperatorEndIs ==
  ASSUME NEW T, NEW L \in Seq(T), NEW i \in Begins(L), i \in Meta(L), NEW q, q = OperatorEnd(L, i)
  PROVE  /\ q \in i + 1 .. Len(L) + 1 /\ Bound(L, q) /\ NoBegin(L, i + 1, q - 1)
         /\ L[i] \in {"<", ">", "&", "|"}
         /\ i + 1 \in Second(L) <=> i + 1 <= Len(L) /\ L[i + 1] = L[i] /\ L[i] # "<"
<1>0. DOMAIN L = 1 .. Len(L) /\ Len(L) \in Nat
  BY LineIs
<1>1. i \in 1 .. Len(L) /\ Len(L) \in Nat /\ DOMAIN L = 1 .. Len(L)
  BY <1>0 DEF Begins
<1>2. i \notin Second(L) /\ L[i] # " "
  BY DEF Begins
<1>3. L[i] \in {"<", ">", "&", "|"} /\ Unquoted(L, i)
  BY <1>2, MetaIs
<1>4. i + 1 \in Second(L) <=> i + 1 <= Len(L) /\ L[i + 1] = L[i] /\ L[i] # "<"
  <2>1. ASSUME i + 1 \in Second(L) PROVE i + 1 <= Len(L) /\ L[i + 1] = L[i] /\ L[i] # "<"
    <3>1. L[i] = L[i + 1]
      BY <1>1, <2>1, SecondNext
    <3>2. i + 1 \in 1 .. Len(L) /\ L[i + 1] \in {"&", "|", ">"}
      BY <1>1, <2>1, SecondIs, MetaIs
    <3> QED BY <3>1, <3>2
  <2>2. ASSUME i + 1 <= Len(L), L[i + 1] = L[i], L[i] # "<" PROVE i + 1 \in Second(L)
    <3>1. i + 1 \in DOMAIN L /\ L[i] \in {"&", "|", ">"}
      BY <1>1, <1>3, <2>2
    <3> QED BY <1>1, <1>2, <2>2, <3>1, SecondNext
  <2> QED BY <2>1, <2>2
<1>5. Unquoted(L, i + 1)
  <2>1. i \in Nat \ {0} /\ L[i] # "q"
    BY <1>1, <1>3
  <2> QED BY <1>3, <2>1, QuoteNext
<1>6. CASE i + 1 \notin Second(L)
  <2>1. q = i + 1 /\ q \in 1 .. Len(L) + 1 /\ q - 1 = i
    BY <1>1, <1>6 DEF OperatorEnd
  <2>2. Bound(L, q)
    BY <1>5, <1>6, <2>1 DEF Bound
  <2>3. NoBegin(L, i + 1, q - 1)
    BY <1>1, <2>1 DEF NoBegin
  <2>4. q \in i + 1 .. Len(L) + 1
    BY <1>1, <2>1
  <2> QED BY <1>3, <1>4, <2>2, <2>3, <2>4
<1>7. CASE i + 1 \in Second(L)
  <2>1. i + 1 \in 1 .. Len(L) /\ (i + 1) + 1 = i + 2 /\ i + 1 \in Nat \ {0}
    BY <1>1, <1>4, <1>7
  <2>2. q = i + 2 /\ q \in 1 .. Len(L) + 1 /\ q - 1 = i + 1 /\ q \in i + 1 .. Len(L) + 1
    BY <1>1, <1>7, <2>1 DEF OperatorEnd
  <2>3. i + 1 \in Meta(L) /\ L[i + 1] # "q"
    BY <1>7, SecondIs
  <2>4. Unquoted(L, q)
    BY <1>5, <2>1, <2>2, <2>3, QuoteNext
  <2>5. (i + 1) + 1 \notin Second(L)
    BY <1>7, <2>1, SecondNext
  <2>6. Bound(L, q)
    BY <2>1, <2>2, <2>3, <2>4, <2>5 DEF Bound
  <2>7. i + 1 \notin Begins(L)
    BY <1>7, <2>3 DEF Begins
  <2>8. NoBegin(L, i + 1, q - 1)
    BY <1>1, <2>2, <2>7 DEF NoBegin
  <2> QED BY <1>3, <1>4, <2>2, <2>6, <2>8
<1> QED BY <1>6, <1>7

\* Where the tokens begin, in order.
At(L) == Ordered(Begins(L))

LEMMA AtIs ==
  ASSUME NEW T, NEW L \in Seq(T)
  PROVE  /\ Ascends(At(L), Begins(L)) /\ Begins(L) \subseteq 1 .. Len(L) /\ Begins(L) \in SUBSET Int
         /\ DOMAIN Tokens(L) = 1 .. Len(At(L)) /\ Len(Tokens(L)) = Len(At(L)) /\ Len(At(L)) \in Nat
         /\ \A k \in 1 .. Len(At(L)) : /\ At(L)[k] \in Begins(L)
                                       /\ Tokens(L)[k] = Token(L, At(L)[k])
<1> DEFINE a == At(L)
<1>0. DOMAIN L = 1 .. Len(L) /\ Len(L) \in Nat
  BY LineIs
<1>1. Begins(L) \subseteq 1 .. Len(L)
  BY <1>0 DEF Begins
<1>2. IsFiniteSet(Begins(L)) /\ Begins(L) \subseteq Int
  <2>1. IsFiniteSet(1 .. Len(L)) /\ 1 .. Len(L) \subseteq Int
    BY FS_Interval
  <2> QED BY <1>1, <2>1, FS_Subset
<1>3. Ascends(a, Begins(L))
  BY <1>2, ListedAscends DEF At, Ordered
<1>4. Tokens(L) = [k \in DOMAIN a |-> Token(L, a[k])]
  BY DEF Tokens, At
<1> HIDE DEF a
<1>5. DOMAIN a = 1 .. Len(a) /\ Len(a) \in Nat /\ \A k \in 1 .. Len(a) : a[k] \in Begins(L)
  BY <1>3 DEF Ascends
<1> DEFINE t == Tokens(L)
<1>6. t = [k \in 1 .. Len(a) |-> Token(L, a[k])]
  BY <1>4, <1>5
<1>7. Len(t) = Len(a) /\ DOMAIN t = 1 .. Len(a)
  <2> HIDE DEF t
  <2> QED BY <1>5, <1>6
<1> QED BY <1>1, <1>2, <1>3, <1>5, <1>6, <1>7 DEF a

-----------------------------------------------------------------------------
(* A list of numbers, read up to a place *)

\* The first k numbers of s are the ones below i.
Split(s, i, k) == k \in 0 .. Len(s) /\ \A j \in 1 .. Len(s) : j <= k <=> s[j] < i

\* Nothing is below the least number.
LEMMA SplitFirst ==
  ASSUME NEW S \in SUBSET Int, NEW s, Ascends(s, S), NEW i \in Int, \A x \in S : i <= x
  PROVE  Split(s, i, 0)
<1>1. Len(s) \in Nat /\ \A j \in 1 .. Len(s) : s[j] \in S
  BY DEF Ascends
<1>2. ASSUME NEW j \in 1 .. Len(s) PROVE ~ (s[j] < i) /\ ~ (j <= 0)
  <2>1. s[j] \in S
    BY <1>1
  <2>2. s[j] \in Int /\ i <= s[j]
    BY <2>1
  <2> QED BY <1>1, <2>2
<1> QED BY <1>1, <1>2 DEF Split

\* Numbers that are not in the list are passed.
LEMMA SplitOver ==
  ASSUME NEW S \in SUBSET Int, NEW s, Ascends(s, S), NEW i \in Int, NEW k, Split(s, i, k),
         NEW j \in Int, i <= j, \A t \in i .. j - 1 : t \notin S
  PROVE  Split(s, j, k)
<1>1. Len(s) \in Nat /\ \A l \in 1 .. Len(s) : s[l] \in S
  BY DEF Ascends
<1>2. ASSUME NEW l \in 1 .. Len(s) PROVE s[l] < i <=> s[l] < j
  <2>1. s[l] \in S /\ s[l] \in Int
    BY <1>1
  <2>2. ~ (s[l] \in i .. j - 1)
    BY <2>1
  <2> QED BY <2>1, <2>2
<1> QED BY <1>2 DEF Split

\* The next number of the list is passed.
LEMMA SplitNext ==
  ASSUME NEW S \in SUBSET Int, NEW s, Ascends(s, S), NEW i \in S, NEW k, Split(s, i, k)
  PROVE  k + 1 \in 1 .. Len(s) /\ s[k + 1] = i /\ Split(s, i + 1, k + 1)
<1>1. /\ Len(s) \in Nat /\ k \in 0 .. Len(s) /\ i \in Int
      /\ \A l \in 1 .. Len(s) : s[l] \in Int
  BY DEF Ascends, Split
<1>2. PICK m \in 1 .. Len(s) : s[m] = i
  BY DEF Ascends
<1>3. ~ (m <= k)
  BY <1>1, <1>2 DEF Split
<1>4. k + 1 \in 1 .. Len(s) /\ ~ (k + 1 <= k)
  BY <1>1, <1>3
<1>5. ~ (s[k + 1] < i)
  BY <1>4 DEF Split
<1>6. k + 1 < m => s[k + 1] < s[m]
  BY <1>4 DEF Ascends
<1>7. m = k + 1
  BY <1>1, <1>2, <1>3, <1>4, <1>5, <1>6
<1>8. ASSUME NEW l \in 1 .. Len(s) PROVE l <= k + 1 <=> s[l] < i + 1
  <2>1. l <= k <=> s[l] < i
    BY DEF Split
  <2>2. k + 1 < l => s[k + 1] < s[l]
    BY <1>4 DEF Ascends
  <2> QED BY <1>1, <1>2, <1>4, <1>7, <2>1, <2>2
<1>9. k + 1 \in 0 .. Len(s)
  BY <1>4
<1> QED BY <1>2, <1>4, <1>7, <1>8, <1>9 DEF Split

\* Above all numbers, the list has been read.
LEMMA SplitEnd ==
  ASSUME NEW S \in SUBSET Int, NEW s, Ascends(s, S), NEW i \in Int, NEW k, Split(s, i, k),
         \A x \in S : x < i
  PROVE  k = Len(s)
<1>1. /\ Len(s) \in Nat /\ k \in 0 .. Len(s) /\ \A l \in 1 .. Len(s) : s[l] \in S
  BY DEF Ascends, Split
<1>2. Len(s) \in 1 .. Len(s) => Len(s) <= k
  BY <1>1 DEF Split
<1> QED BY <1>1, <1>2

-----------------------------------------------------------------------------
(* A line, read up to a token *)

LEMMA WordToken ==
  ASSUME NEW L, NEW i, i \notin Meta(L)
  PROVE  /\ Token(L, i).op = "word" /\ Token(L, i).end = WordEnd(L, i)
         /\ Token(L, i).word = Bare(L, i, WordEnd(L, i))
BY DEF Token

LEMMA OperatorToken ==
  ASSUME NEW L, NEW i, i \in Meta(L), L[i] \in {"<", ">", "&", "|"}
  PROVE  /\ Token(L, i).end = OperatorEnd(L, i)
         /\ i + 1 \notin Second(L) => Token(L, i).op = L[i]
         /\ i + 1 \in Second(L) /\ L[i] = "&" => Token(L, i).op = "&&"
         /\ i + 1 \in Second(L) /\ L[i] = "|" => Token(L, i).op = "||"
         /\ i + 1 \in Second(L) /\ L[i] = ">" => Token(L, i).op = ">>"
<1>1. CASE i + 1 \notin Second(L)
  <2>1. Token(L, i) = [op |-> L[i], end |-> i + 1, word |-> <<>>]
    BY <1>1 DEF Token
  <2> QED BY <1>1, <2>1 DEF OperatorEnd
<1>2. CASE i + 1 \in Second(L)
  <2>1. Token(L, i) = [op |-> Doubles[L[i]], end |-> i + 2, word |-> <<>>]
    BY <1>2 DEF Token
  <2>2. Token(L, i).op = Doubles[L[i]] /\ Token(L, i).end = OperatorEnd(L, i)
    BY <1>2, <2>1 DEF OperatorEnd
  <2>3. Doubles["&"] = "&&" /\ Doubles["|"] = "||" /\ Doubles[">"] = ">>"
    BY DEF Doubles
  <2> QED BY <1>2, <2>2, <2>3
<1> QED BY <1>1, <1>2

\* No token is being read at i, and k tokens are in front of it.
Reached(L, i, k) == Bound(L, i) /\ Split(At(L), i, k)

\* At the beginning of a line no token has been read; a space adds none.
LEMMA ReachedFirst ==
  ASSUME NEW T, NEW L \in Seq(T)
  PROVE  Reached(L, 1, 0)
<1>1. DOMAIN L = 1 .. Len(L) /\ Len(L) \in Nat
  BY LineIs
<1>2. 1 \notin Second(L)
  <2>1. CASE 1 \in 1 .. Len(L)
    BY <2>1, SecondNext
  <2>2. CASE 1 \notin 1 .. Len(L)
    BY <1>1, <2>2, SecondIs, MetaIs
  <2> QED BY <2>1, <2>2
<1>3. 1 \in 1 .. Len(L) + 1
  BY <1>1
<1>4. Bound(L, 1)
  BY <1>2, <1>3, NoQuote DEF Bound
<1>5. Ascends(At(L), Begins(L)) /\ Begins(L) \in SUBSET Int /\ \A x \in Begins(L) : 1 <= x
  <2>1. Ascends(At(L), Begins(L)) /\ Begins(L) \subseteq 1 .. Len(L)
    BY AtIs
  <2> QED BY <2>1
<1>6. Split(At(L), 1, 0)
  BY <1>5, SplitFirst
<1> QED BY <1>4, <1>6 DEF Reached

LEMMA ReachedSpace ==
  ASSUME NEW T, NEW L \in Seq(T), NEW i \in 1 .. Len(L), NEW k, Reached(L, i, k), Blank(L, i)
  PROVE  Reached(L, i + 1, k)
<1>1. Bound(L, i + 1) /\ i \notin Begins(L)
  BY BoundSpace DEF Reached
<1>2. Ascends(At(L), Begins(L)) /\ Begins(L) \in SUBSET Int
  BY AtIs
<1>3. i \in Int /\ i + 1 \in Int /\ i <= i + 1 /\ \A t \in i .. (i + 1) - 1 : t = i
  <2>1. i \in Int
    BY InLine
  <2> QED BY ONLY <2>1
<1>4. Split(At(L), i + 1, k)
  <2>1. Split(At(L), i, k) /\ \A t \in i .. (i + 1) - 1 : t \notin Begins(L)
    BY <1>1, <1>3 DEF Reached
  <2> HIDE DEF Reached
  <2> QED BY ONLY <1>2, <1>3, <2>1, SplitOver
<1> QED BY <1>1, <1>4 DEF Reached

\* Spaces are in front of the next token.
LEMMA ReachedSpaces ==
  ASSUME NEW T, NEW L \in Seq(T), NEW i \in 1 .. Len(L) + 1, NEW k, Reached(L, i, k),
         NEW j \in i .. Len(L) + 1, \A t \in i .. j - 1 : Blank(L, t)
  PROVE  Reached(L, j, k)
<1> DEFINE n == j - i
           P == {m \in 0 .. n : Reached(L, i + m, k)}
<1>0. Len(L) \in Nat /\ j \in Int /\ i \in Int
  <2>1. Len(L) \in Nat
    BY LineIs
  <2> QED BY <2>1
<1>1. n \in Nat /\ i + n = j /\ i + 0 = i /\ 0 \in 0 .. n
  BY <1>0
<1> HIDE DEF n
<1>2. 0 \in P
  BY <1>1
<1>3. ASSUME NEW m \in 0 .. n, m < n, m \in P PROVE m + 1 \in P
  <2>1. i + m \in 1 .. Len(L) /\ i + m \in i .. j - 1 /\ (i + m) + 1 = i + (m + 1) /\ m + 1 \in 0 .. n
    BY ONLY <1>0, <1>1, <1>3, j \in i .. Len(L) + 1, i \in 1 .. Len(L) + 1
  <2>2. Blank(L, i + m)
    BY <2>1
  <2>3. Reached(L, i + m, k)
    BY <1>3
  <2>4. Reached(L, (i + m) + 1, k)
    BY <2>1, <2>2, <2>3, ReachedSpace
  <2>5. Reached(L, i + (m + 1), k)
    BY <2>1, <2>4
  <2> QED BY <2>1, <2>5
<1> HIDE DEF P
<1>4. n \in P
  <2>1. \A m \in 0 .. n : m \in P
    BY <1>1, <1>2, <1>3, StepwiseHolds
  <2> QED BY <1>1, <2>1
<1> QED BY <1>1, <1>4 DEF P

\* The next token, and what follows it.
LEMMA ReachedToken ==
  ASSUME NEW T, NEW L \in Seq(T), Unquoted(L, Len(L) + 1),
         NEW i \in 1 .. Len(L), NEW k, Reached(L, i, k), ~ Blank(L, i),
         NEW q, q = Token(L, i).end
  PROVE  /\ i \in Begins(L)
         /\ k + 1 \in 1 .. Len(Tokens(L)) /\ Tokens(L)[k + 1] = Token(L, i)
         /\ q \in i + 1 .. Len(L) + 1 /\ Reached(L, q, k + 1)
<1>1. i \in Begins(L)
  BY BoundBegins DEF Reached
<1>2. q \in i + 1 .. Len(L) + 1 /\ Bound(L, q) /\ NoBegin(L, i + 1, q - 1)
  <2>1. CASE i \notin Meta(L)
    <3>1. q = WordEnd(L, i)
      BY <2>1, WordToken
    <3> QED BY <1>1, <2>1, <3>1, WordEndIs
  <2>2. CASE i \in Meta(L)
    <3>1. L[i] \in {"<", ">", "&", "|"}
      BY <1>1, <2>2, OperatorEndIs
    <3>2. q = OperatorEnd(L, i)
      BY <2>2, <3>1, OperatorToken
    <3> QED BY <1>1, <2>2, <3>2, OperatorEndIs
  <2> QED BY <2>1, <2>2
<1>3. Ascends(At(L), Begins(L)) /\ Begins(L) \in SUBSET Int
  BY AtIs
<1>4. k + 1 \in 1 .. Len(At(L)) /\ At(L)[k + 1] = i /\ Split(At(L), i + 1, k + 1)
  <2>1. Split(At(L), i, k)
    BY DEF Reached
  <2> QED BY ONLY <1>1, <1>3, <2>1, SplitNext
<1>5. q \in Int /\ i + 1 \in Int /\ i + 1 <= q
  <2>1. i + 1 \in Int /\ Len(L) + 1 \in Int
    BY InLine
  <2> QED BY ONLY <1>2, <2>1
<1>6. Split(At(L), q, k + 1)
  <2>1. \A t \in i + 1 .. q - 1 : t \notin Begins(L)
    BY <1>2 DEF NoBegin
  <2> QED BY ONLY <1>3, <1>4, <1>5, <2>1, SplitOver
<1>7. k + 1 \in 1 .. Len(Tokens(L)) /\ Tokens(L)[k + 1] = Token(L, i)
  BY <1>4, AtIs
<1> QED BY <1>1, <1>2, <1>6, <1>7 DEF Reached

\* At the end of a line all its tokens have been read.
LEMMA ReachedEnd ==
  ASSUME NEW T, NEW L \in Seq(T), NEW k, Reached(L, Len(L) + 1, k)
  PROVE  k = Len(Tokens(L))
<1>1. Len(L) \in Nat /\ Len(L) + 1 \in Int
  BY LineIs
<1>2. /\ Ascends(At(L), Begins(L)) /\ Begins(L) \in SUBSET Int
      /\ \A x \in Begins(L) : x < Len(L) + 1
  <2>1. Ascends(At(L), Begins(L)) /\ Begins(L) \subseteq 1 .. Len(L)
    BY AtIs
  <2> QED BY <1>1, <2>1
<1>3. k = Len(At(L))
  <2>1. Split(At(L), Len(L) + 1, k)
    BY DEF Reached
  <2> QED BY ONLY <1>1, <1>2, <2>1, SplitEnd
<1> QED BY <1>3, AtIs

-----------------------------------------------------------------------------
(* The parser on a line *)

\* The line L is the input from b up to the line end at e, and leaves no quotation open.
LineAt(L, b, e) ==
  /\ b \in Nat \ {0} /\ e \in b .. Len(input) /\ L \in Seq(Char)
  /\ Len(L) = e - b /\ \A t \in 1 .. Len(L) : L[t] = input[b + t - 1]
  /\ input[e] = Newline /\ NoLineEnd(b, e - 1)
  /\ Unquoted(L, Len(L) + 1)

\* The same place in the line and in the input.
LEMMA Places ==
  ASSUME input \in Seq(Char), NEW L, NEW b, NEW e, LineAt(L, b, e), NEW i \in 1 .. Len(L) + 1
  PROVE  /\ b + i - 1 \in b .. e /\ b + i - 1 \in 1 .. Len(input) /\ b + i - 1 \in Int
         /\ Len(L) \in Nat /\ i \in Nat \ {0} /\ b \in Int /\ e \in Int
         /\ i # Len(L) + 1 => i \in 1 .. Len(L) /\ b + i - 1 \in b .. e - 1
         /\ i = Len(L) + 1 => b + i - 1 = e
BY DEF LineAt

LEMMA SameCharacter ==
  ASSUME input \in Seq(Char), NEW L, NEW b, NEW e, LineAt(L, b, e), NEW i \in 1 .. Len(L)
  PROVE  /\ input[b + i - 1] = L[i] /\ L[i] # Newline
         /\ Getchar(b + i - 1) = L[i]
<1>1. b + i - 1 \in b .. e - 1 /\ b + i - 1 <= Len(input)
  BY DEF LineAt
<1>2. input[b + i - 1] = L[i]
  BY DEF LineAt
<1>3. input[b + i - 1] # Newline
  BY <1>1 DEF LineAt, NoLineEnd
<1> QED BY <1>1, <1>2, <1>3 DEF Getchar

LEMMA LastCharacter ==
  ASSUME input \in Seq(Char), NEW L, NEW b, NEW e, LineAt(L, b, e)
  PROVE  input[e] = Newline /\ Getchar(e) = Newline
<1>1. e <= Len(input) /\ input[e] = Newline
  BY DEF LineAt
<1> QED BY <1>1 DEF Getchar

\* Quotations of the parser, as it reads on.
LEMMA QuotesNone ==
  ASSUME NEW p, NEW q, \A t \in p .. q - 1 : input[t] # Quote
  PROVE  ~ InQuotes(p, q)
<1>1. {t \in p .. q - 1 : input[t] = Quote} = {}
  OBVIOUS
<1>2. Cardinality({t \in p .. q - 1 : input[t] = Quote}) = 0
  BY <1>1, FS_EmptySet
<1> QED BY <1>2 DEF InQuotes

LEMMA QuotesNext ==
  ASSUME NEW p \in Int, NEW q \in Int, p <= q
  PROVE  InQuotes(p, q + 1) <=> IF input[q] = Quote THEN ~ InQuotes(p, q) ELSE InQuotes(p, q)
<1> DEFINE Q(j) == {t \in p .. j - 1 : input[t] = Quote}
<1>1. IsFiniteSet(Q(q))
  <2>1. IsFiniteSet(p .. q - 1)
    BY FS_Interval
  <2> QED BY <2>1, FS_Subset
<1>2. CASE input[q] = Quote
  <2>1. Q(q + 1) = Q(q) \cup {q} /\ q \notin Q(q)
    BY <1>2
  <2> HIDE DEF Q
  <2>2. Cardinality(Q(q)) \in Nat /\ Cardinality(Q(q + 1)) = Cardinality(Q(q)) + 1
    BY <1>1, <2>1, CountsOne
  <2>3. Cardinality(Q(q + 1)) % 2 = 1 <=> ~ (Cardinality(Q(q)) % 2 = 1)
    <3> DEFINE n == Cardinality(Q(q))
    <3>1. n \in Nat /\ Cardinality(Q(q + 1)) = n + 1
      BY <2>2
    <3> HIDE DEF n
    <3>2. (n + 1) % 2 = 1 <=> ~ (n % 2 = 1)
      BY ONLY <3>1, Parity
    <3> QED BY <3>1, <3>2 DEF n
  <2> QED BY <1>2, <2>3 DEF InQuotes, Q
<1>3. CASE input[q] # Quote
  <2>1. Q(q + 1) = Q(q)
    BY <1>3
  <2> QED BY <1>3, <2>1 DEF InQuotes
<1> QED BY <1>2, <1>3

\* Quotations of a word are quotations of the line.
LEMMA SameQuotes ==
  ASSUME input \in Seq(Char), NEW L, NEW b, NEW e, LineAt(L, b, e),
         NEW i \in 1 .. Len(L) + 1, Unquoted(L, i), NEW j \in i .. Len(L) + 1
  PROVE  InQuotes(b + i - 1, b + j - 1) <=> ~ Unquoted(L, j)
<1> DEFINE n == j - i
           Same(m) == InQuotes(b + i - 1, b + (i + m) - 1) <=> ~ Unquoted(L, i + m)
           P == {m \in 0 .. n : Same(m)}
<1>1. n \in Nat /\ i + n = j /\ b \in Int /\ i \in Nat \ {0} /\ Len(L) \in Nat
  <2>1. b \in Int /\ i \in Nat \ {0} /\ Len(L) \in Nat
    BY Places
  <2> QED BY <2>1
<1> HIDE DEF n
<1>2. 0 \in P
  <2>1. b + (i + 0) - 1 = b + i - 1 /\ i + 0 = i /\ 0 \in 0 .. n
    BY <1>1
  <2>2. ~ InQuotes(b + i - 1, b + i - 1)
    <3>1. \A t \in b + i - 1 .. (b + i - 1) - 1 : input[t] # Quote
      BY <1>1
    <3> QED BY <3>1, QuotesNone
  <2> QED BY <2>1, <2>2
<1>3. ASSUME NEW m \in 0 .. n, m < n, m \in P PROVE m + 1 \in P
  <2>1. /\ i + m \in 1 .. Len(L) /\ (i + m) + 1 = i + (m + 1) /\ m + 1 \in 0 .. n
        /\ i + m \in Nat \ {0} /\ m \in Int
    BY ONLY <1>1, <1>3, j \in i .. Len(L) + 1, i \in 1 .. Len(L) + 1
  <2>2. /\ b + (i + m) - 1 \in Int /\ b + i - 1 \in Int /\ b + i - 1 <= b + (i + m) - 1
        /\ (b + (i + m) - 1) + 1 = b + (i + (m + 1)) - 1
    BY ONLY <1>1, <2>1, m \in 0 .. n
  <2>3. input[b + (i + m) - 1] = L[i + m]
    BY <2>1, SameCharacter
  <2>4. Unquoted(L, (i + m) + 1) <=> IF L[i + m] = "q" THEN ~ Unquoted(L, i + m) ELSE Unquoted(L, i + m)
    BY <2>1, QuoteNext
  <2>5. InQuotes(b + i - 1, (b + (i + m) - 1) + 1) <=>
          IF input[b + (i + m) - 1] = Quote THEN ~ InQuotes(b + i - 1, b + (i + m) - 1)
          ELSE InQuotes(b + i - 1, b + (i + m) - 1)
    BY ONLY <2>2, QuotesNext
  <2>6. Same(m)
    BY <1>3
  <2>7. Same(m + 1)
    BY <2>1, <2>2, <2>3, <2>4, <2>5, <2>6 DEF Quote
  <2> QED BY <2>1, <2>7
<1> HIDE DEF P
<1>4. n \in P
  <2>1. \A m \in 0 .. n : m \in P
    BY <1>1, <1>2, <1>3, StepwiseHolds
  <2> QED BY <1>1, <2>1
<1> QED BY <1>1, <1>4 DEF P

\* Spaces from i up to j, and no more.
Spaces(L, i, j) ==
  (\A t \in i .. j - 1 : Blank(L, t)) /\ (j = Len(L) + 1 \/ ~ Blank(L, j))

\* skip_spaces() skips the spaces of the line.
LEMMA SpacesSkipped ==
  ASSUME input \in Seq(Char), NEW L, NEW b, NEW e, LineAt(L, b, e),
         NEW i \in 1 .. Len(L) + 1, NEW j \in i .. Len(L) + 1, Spaces(L, i, j)
  PROVE  SkipSpaces(b + i - 1) = b + j - 1
<1> DEFINE p == b + i - 1
           Q(s) == Getchar(s) # Space /\ \A t \in p .. s - 1 : input[t] = Space
<1>0. j \in 1 .. Len(L) + 1
  BY Places
<1>1. /\ b + j - 1 \in p .. Len(input) + 1 /\ b \in Int /\ i \in Int /\ j \in Int /\ Len(L) \in Nat
      /\ b + j - 1 \in Int /\ p \in Int /\ Len(input) \in Int
  <2>1. /\ b + j - 1 \in 1 .. Len(input) /\ b \in Int /\ i \in Int /\ j \in Int /\ Len(L) \in Nat
        /\ Len(input) \in Nat
    BY <1>0, Places
  <2> QED BY <2>1
<1>2. Getchar(b + j - 1) # Space
  <2>1. CASE j = Len(L) + 1
    <3>1. b + j - 1 = e
      BY <1>0, <2>1, Places
    <3> QED BY <3>1, LastCharacter DEF Newline, Space
  <2>2. CASE j # Len(L) + 1
    <3>1. j \in 1 .. Len(L) /\ ~ Blank(L, j)
      BY <1>0, <2>2, Places DEF Spaces
    <3>2. Getchar(b + j - 1) = L[j]
      BY <3>1, SameCharacter
    <3> QED BY <3>1, <3>2 DEF Blank, Space
  <2> QED BY <2>1, <2>2
<1>3. ASSUME NEW t \in p .. (b + j - 1) - 1 PROVE input[t] = Space /\ Getchar(t) = Space
  <2> DEFINE u == t - b + 1
  <2>1. u \in i .. j - 1 /\ u \in 1 .. Len(L) /\ b + u - 1 = t
    BY <1>1
  <2> HIDE DEF u
  <2>2. Blank(L, u)
    BY <2>1 DEF Spaces
  <2>3. L[u] = " "
    BY <2>2 DEF Blank
  <2>4. input[b + u - 1] = L[u] /\ Getchar(b + u - 1) = L[u]
    BY <2>1, SameCharacter
  <2> QED BY <2>1, <2>3, <2>4 DEF Space
<1>4. Q(b + j - 1)
  BY <1>2, <1>3
<1>5. ASSUME NEW s \in p .. Len(input) + 1, Q(s) PROVE s = b + j - 1
  <2>1. s \in Int
    BY <1>1
  <2>2. CASE s < b + j - 1
    <3>1. s \in p .. (b + j - 1) - 1
      BY <1>1, <2>1, <2>2
    <3> QED BY <1>3, <1>5, <3>1
  <2>3. CASE b + j - 1 < s
    <3>1. b + j - 1 \in p .. s - 1 /\ b + j - 1 <= Len(input)
      BY <1>1, <2>1, <2>3
    <3>2. input[b + j - 1] = Space
      BY <1>5, <3>1
    <3> QED BY <1>2, <3>1, <3>2 DEF Getchar
  <2> QED BY <1>1, <2>1, <2>2, <2>3
<1> HIDE DEF Q
<1>6. SkipSpaces(p) = CHOOSE s \in p .. Len(input) + 1 : Q(s)
  BY DEF SkipSpaces, Q
<1> HIDE DEF p
<1>7. SkipSpaces(p) = b + j - 1
  BY <1>1, <1>4, <1>5, <1>6
<1> QED BY <1>7 DEF p

\* The place where a word ends: no character in front of it ends one.
WordUpTo(L, j, q) ==
  (\A t \in j .. q - 1 : t \notin Meta(L)) /\ (q = Len(L) + 1 \/ q \in Meta(L))

\* read_word() stops where the word ends in the line.
LEMMA WordStopped ==
  ASSUME input \in Seq(Char), NEW L, NEW b, NEW e, LineAt(L, b, e),
         NEW j \in 1 .. Len(L) + 1, Unquoted(L, j), NEW q \in j .. Len(L) + 1, WordUpTo(L, j, q)
  PROVE  /\ Stops(b + j - 1) # {} /\ Min(Stops(b + j - 1)) = b + q - 1
         /\ ~ InQuotes(b + j - 1, b + q - 1)
<1> DEFINE p == b + j - 1
           r == b + q - 1
<1>0. q \in 1 .. Len(L) + 1 /\ j \in j .. Len(L) + 1 /\ j \in Nat \ {0} /\ q \in Int /\ Len(L) \in Nat
  BY Places
<1>1. /\ r \in p .. Len(input) /\ b \in Nat \ {0} /\ p \in Nat /\ r \in Int
  <2>1. r \in 1 .. Len(input) /\ b \in Int
    BY <1>0, Places
  <2>2. b \in Nat \ {0}
    BY DEF LineAt
  <2> QED BY <1>0, <2>1, <2>2
<1>2. ~ InQuotes(p, r)
  <2>1. Unquoted(L, q)
    BY <1>0, MetaIs DEF WordUpTo, LineAt
  <2> QED BY <2>1, SameQuotes
<1>3. input[r] \in Delimiter \cup {Space}
  <2>1. CASE q = Len(L) + 1
    <3>1. r = e
      BY <1>0, <2>1, Places
    <3> QED BY <3>1, LastCharacter DEF Delimiter
  <2>2. CASE q # Len(L) + 1
    <3>1. q \in Meta(L) /\ q \in 1 .. Len(L)
      BY <1>0, <2>2, Places DEF WordUpTo
    <3>2. input[r] = L[q] /\ L[q] \in {" ", "<", ">", "&", "|"}
      BY <3>1, SameCharacter, MetaIs
    <3> QED BY <3>2 DEF Delimiter, Space
  <2> QED BY <2>1, <2>2
<1>4. r \in Stops(p)
  BY <1>1, <1>2, <1>3 DEF Stops
<1>5. ASSUME NEW x \in Stops(p) PROVE r <= x
  <2> SUFFICES ASSUME x < r PROVE FALSE
    BY <1>1 DEF Stops
  <2>1. /\ x \in p .. Len(input)
        /\ IF InQuotes(p, x) THEN input[x] = Newline ELSE input[x] \in Delimiter \cup {Space}
    BY DEF Stops
  <2> DEFINE t == x - b + 1
  <2>2. t \in j .. q - 1 /\ t \in 1 .. Len(L) /\ t \in j .. Len(L) + 1 /\ b + t - 1 = x
    BY <1>0, <1>1, <2>1
  <2> HIDE DEF t
  <2>3. input[x] = L[t] /\ L[t] # Newline
    BY <2>2, SameCharacter
  <2>4. ~ InQuotes(p, x) /\ L[t] \in Delimiter \cup {Space}
    BY <2>1, <2>3
  <2>5. L[t] \in {" ", "<", ">", "&", "|"}
    BY <2>3, <2>4 DEF Delimiter, Space
  <2>6. Unquoted(L, t)
    BY <2>2, <2>4, SameQuotes
  <2>7. t \in DOMAIN L
    <3>1. DOMAIN L = 1 .. Len(L)
      BY LineIs DEF LineAt
    <3> QED BY <2>2, <3>1
  <2>8. t \in Meta(L)
    BY <2>5, <2>6, <2>7, MetaIs
  <2> QED BY <2>2, <2>8 DEF WordUpTo
<1>6. Min(Stops(p)) = r
  <2>1. Stops(p) \in SUBSET Nat
    BY <1>1 DEF Stops
  <2>2. Min(Stops(p)) \in Stops(p) /\ \A x \in Stops(p) : Min(Stops(p)) <= x
    BY <1>4, <2>1, MinIs
  <2>3. Min(Stops(p)) \in Nat /\ Min(Stops(p)) <= r /\ r <= Min(Stops(p))
    BY <1>4, <1>5, <2>1, <2>2
  <2> QED BY <1>1, <2>3
<1> QED BY <1>2, <1>4, <1>6

\* What stands behind a word.
Behind(L, q) ==
  IF q = Len(L) + 1 THEN Newline ELSE IF L[q] = Space THEN Normal ELSE L[q]

\* copy_word() leaves out the quotation marks.
LEMMA SameWord ==
  ASSUME input \in Seq(Char), NEW L, NEW b, NEW e, LineAt(L, b, e),
         NEW j \in 1 .. Len(L) + 1, NEW q \in j .. Len(L) + 1
  PROVE  WordOf(b + j - 1, (b + q - 1) - 1) = Bare(L, j, q)
<1>0. q \in 1 .. Len(L) + 1 /\ j \in Nat \ {0} /\ q \in Int /\ Len(L) \in Nat /\ b \in Int
  BY Places
<1> DEFINE F == [k \in 1 .. ((b + q - 1) - 1) - (b + j - 1) + 1 |->
                   IF input[(b + j - 1) + k - 1] = Quote THEN <<>>
                   ELSE <<input[(b + j - 1) + k - 1]>>]
           G == [k \in 1 .. q - j |-> IF L[j + k - 1] = "q" THEN <<>> ELSE <<L[j + k - 1]>>]
<1>1. ((b + q - 1) - 1) - (b + j - 1) + 1 = q - j
  BY <1>0
<1>2. ASSUME NEW k \in 1 .. q - j PROVE input[(b + j - 1) + k - 1] = L[j + k - 1]
  <2>1. j + k - 1 \in 1 .. Len(L) /\ (b + j - 1) + k - 1 = b + (j + k - 1) - 1
    BY <1>0
  <2>2. input[b + (j + k - 1) - 1] = L[j + k - 1]
    BY <2>1, SameCharacter
  <2> QED BY <2>1, <2>2
<1>3. F = G
  BY <1>1, <1>2 DEF Quote
<1> QED BY <1>3 DEF WordOf, Bare

\* read_word() reads the word of the line, and what stands behind it.
LEMMA ReadWordIs ==
  ASSUME input \in Seq(Char), NEW L, NEW b, NEW e, LineAt(L, b, e),
         NEW i \in 1 .. Len(L) + 1, NEW j \in i .. Len(L) + 1, Spaces(L, i, j),
         Unquoted(L, j), NEW q \in j .. Len(L) + 1, WordUpTo(L, j, q)
  PROVE  ReadWord(b + i - 1) = WordRead(Bare(L, j, q), Behind(L, q), b + q, "none")
<1>0. j \in 1 .. Len(L) + 1 /\ q \in 1 .. Len(L) + 1
  <2>1. j \in 1 .. Len(L) + 1
    BY Places
  <2> QED BY <2>1, Places
<1>1. SkipSpaces(b + i - 1) = b + j - 1
  BY SpacesSkipped
<1>2. /\ Stops(b + j - 1) # {} /\ Min(Stops(b + j - 1)) = b + q - 1
      /\ ~ InQuotes(b + j - 1, b + q - 1)
  BY <1>0, WordStopped
<1>3. ReadWord(b + i - 1) =
        WordRead(WordOf(b + j - 1, (b + q - 1) - 1),
                 IF input[b + q - 1] = Space THEN Normal ELSE input[b + q - 1],
                 (b + q - 1) + 1, "none")
  BY <1>1, <1>2 DEF ReadWord
<1>4. WordOf(b + j - 1, (b + q - 1) - 1) = Bare(L, j, q)
  BY <1>0, SameWord
<1>5. (b + q - 1) + 1 = b + q
  <2>1. b \in Int /\ q \in Int
    BY <1>0, Places
  <2> QED BY ONLY <2>1
<1>6. Behind(L, q) = IF input[b + q - 1] = Space THEN Normal ELSE input[b + q - 1]
  <2>1. CASE q = Len(L) + 1
    <3>1. b + q - 1 = e
      BY <1>0, <2>1, Places
    <3>2. input[b + q - 1] = Newline
      BY <3>1, LastCharacter
    <3> QED BY <2>1, <3>2 DEF Behind, Newline, Space
  <2>2. CASE q # Len(L) + 1
    <3>1. q \in 1 .. Len(L)
      BY <1>0, <2>2, Places
    <3>2. input[b + q - 1] = L[q]
      BY <3>1, SameCharacter
    <3> QED BY <2>2, <3>2 DEF Behind
  <2> QED BY <2>1, <2>2
<1> QED BY <1>3, <1>4, <1>5, <1>6

LEMMA NothingBare ==
  ASSUME NEW L, NEW j \in Int
  PROVE  Bare(L, j, j) = <<>>
<1> DEFINE F == [k \in 1 .. j - j |-> IF L[j + k - 1] = "q" THEN <<>> ELSE <<L[j + k - 1]>>]
<1>1. Bare(L, j, j) = FlattenSeq(F)
  BY DEF Bare
<1>2. 1 .. j - j = {}
  OBVIOUS
<1>3. F = <<>>
  BY <1>2
<1> HIDE DEF F
<1>4. <<>> \in Seq(Seq({})) /\ Len(<<>>) = 0
  OBVIOUS
<1>5. FlattenSeq(<<>>) = <<>>
  <2> DEFINE z == <<>>
  <2>1. z \in Seq(Seq({})) /\ Len(z) = 0
    BY <1>4
  <2> HIDE DEF z
  <2>2. FlattenSeq(z) = <<>>
    BY <2>1, FlattenIs
  <2> QED BY <2>2 DEF z
<1> QED BY <1>1, <1>3, <1>5

\* A word w with its end q, read behind the token k: the token k + 1, or none.
Found(L, b, k, l, q, w) ==
  /\ w = WordRead(w.word, Behind(L, q), b + q, "none")
  /\ q \in 1 .. Len(L) + 1 /\ Reached(L, q, l) /\ (q = Len(L) + 1 \/ q \in Meta(L))
  /\ \/ l = k /\ w.word = <<>> /\ (q = Len(L) + 1 \/ ~ Blank(L, q))
     \/ /\ l = k + 1 /\ l \in 1 .. Len(Tokens(L))
        /\ Tokens(L)[l].op = "word" /\ Tokens(L)[l].word = w.word /\ Tokens(L)[l].end = q

\* Spaces end.
LEMMA SpacesEnd ==
  ASSUME NEW T, NEW L \in Seq(T), NEW i \in 1 .. Len(L) + 1
  PROVE  \E j \in i .. Len(L) + 1 : Spaces(L, i, j)
<1> DEFINE S == {t \in i .. Len(L) + 1 : t = Len(L) + 1 \/ ~ Blank(L, t)}
<1>1. Len(L) \in Nat
  BY LineIs
<1>2. S \in SUBSET Nat /\ Len(L) + 1 \in S
  BY <1>1
<1>3. PICK m \in S : \A x \in S : m <= x
  <2> HIDE DEF S
  <2>1. S # {} /\ S \subseteq Nat
    BY <1>2
  <2> QED BY <2>1, LeastNumber
<1>4. ASSUME NEW t \in i .. m - 1 PROVE Blank(L, t)
  <2>1. m \in i .. Len(L) + 1
    BY <1>3
  <2>2. t \in i .. Len(L) + 1 /\ ~ (m <= t) /\ t # Len(L) + 1
    BY <1>1, <2>1
  <2>3. t \notin S
    BY <1>3, <2>2
  <2> QED BY <2>2, <2>3
<1>5. m \in i .. Len(L) + 1 /\ (m = Len(L) + 1 \/ ~ Blank(L, m))
  BY <1>3
<1>6. Spaces(L, i, m)
  BY <1>4, <1>5 DEF Spaces
<1> QED BY <1>5, <1>6

\* read_word() behind the token k reads the next token if it is a word, and nothing if not.
LEMMA Reads ==
  ASSUME input \in Seq(Char), NEW L, NEW b, NEW e, LineAt(L, b, e),
         NEW i \in 1 .. Len(L) + 1, NEW k, Reached(L, i, k)
  PROVE  \E q, l : Found(L, b, k, l, q, ReadWord(b + i - 1))
<1> DEFINE w == ReadWord(b + i - 1)
<1>0. L \in Seq(Char) /\ Len(L) \in Nat /\ DOMAIN L = 1 .. Len(L) /\ Unquoted(L, Len(L) + 1)
  BY LineIs DEF LineAt
<1>1. PICK j \in i .. Len(L) + 1 : Spaces(L, i, j)
  BY <1>0, SpacesEnd
<1>2. Reached(L, j, k)
  BY <1>0, <1>1, ReachedSpaces DEF Spaces
<1>3. j \in 1 .. Len(L) + 1 /\ j \in j .. Len(L) + 1 /\ j \in Int /\ Unquoted(L, j)
  <2>1. j \in 1 .. Len(L) + 1 /\ j \in j .. Len(L) + 1 /\ j \in Int
    BY <1>0
  <2> QED BY <1>2, <2>1 DEF Reached, Bound
<1>4. ASSUME NEW q \in j .. Len(L) + 1, WordUpTo(L, j, q)
      PROVE  /\ w = WordRead(Bare(L, j, q), Behind(L, q), b + q, "none") /\ w.word = Bare(L, j, q)
             /\ w = WordRead(w.word, Behind(L, q), b + q, "none")
             /\ q \in 1 .. Len(L) + 1 /\ (q = Len(L) + 1 \/ q \in Meta(L))
  <2>1. w = WordRead(Bare(L, j, q), Behind(L, q), b + q, "none")
    BY <1>1, <1>3, <1>4, ReadWordIs
  <2>2. w.word = Bare(L, j, q)
    BY <2>1 DEF WordRead
  <2>3. q \in 1 .. Len(L) + 1
    BY <1>0, <1>3
  <2> QED BY <1>4, <2>1, <2>2, <2>3 DEF WordUpTo
<1> HIDE DEF w
<1>5. ASSUME j = Len(L) + 1 \/ j \in Meta(L) PROVE Found(L, b, k, k, j, w)
  <2>1. WordUpTo(L, j, j)
    BY <1>3, <1>5 DEF WordUpTo
  <2>2. w.word = <<>>
    BY <1>3, <1>4, <2>1, NothingBare
  <2>3. j = Len(L) + 1 \/ ~ Blank(L, j)
    BY <1>1 DEF Spaces
  <2> QED BY <1>2, <1>3, <1>4, <2>1, <2>2, <2>3 DEF Found
<1>6. ASSUME j # Len(L) + 1, j \notin Meta(L) PROVE \E q : Found(L, b, k, k + 1, q, w)
  <2>1. j \in 1 .. Len(L) /\ ~ Blank(L, j)
    BY <1>1, <1>3, <1>6, Places DEF Spaces
  <2> DEFINE q == Token(L, j).end
  <2>2. /\ j \in Begins(L)
        /\ k + 1 \in 1 .. Len(Tokens(L)) /\ Tokens(L)[k + 1] = Token(L, j)
        /\ q \in j + 1 .. Len(L) + 1 /\ Reached(L, q, k + 1)
    BY <1>0, <1>2, <2>1, ReachedToken
  <2>3. Token(L, j).op = "word" /\ q = WordEnd(L, j) /\ Token(L, j).word = Bare(L, j, q)
    BY <1>6, WordToken
  <2> HIDE DEF q
  <2>4. WordUpTo(L, j, q)
    <3>1. /\ (q = Len(L) + 1 \/ q \in Meta(L))
          /\ \A t \in j .. q - 1 : t \notin Meta(L)
      BY <1>0, <1>6, <2>2, <2>3, WordEndIs
    <3> QED BY <3>1 DEF WordUpTo
  <2>5. q \in j .. Len(L) + 1
    BY <1>0, <1>3, <2>2
  <2>6. Tokens(L)[k + 1].op = "word" /\ Tokens(L)[k + 1].word = w.word /\ Tokens(L)[k + 1].end = q
    BY <1>4, <2>2, <2>3, <2>4, <2>5 DEF q
  <2>7. Found(L, b, k, k + 1, q, w)
    BY <1>4, <2>2, <2>4, <2>5, <2>6 DEF Found
  <2> QED BY <2>7
<1> QED BY <1>5, <1>6 DEF w

\* Inside >> there is no word.
LEMMA ReadsAgain ==
  ASSUME input \in Seq(Char), NEW L, NEW b, NEW e, LineAt(L, b, e), NEW i \in Second(L), L[i] = ">"
  PROVE  ReadWord(b + i - 1) = WordRead(<<>>, ">", b + i, "none")
<1>1. i \in Meta(L) /\ i \in DOMAIN L /\ Unquoted(L, i)
  BY SecondIs, MetaIs
<1>2. i \in 1 .. Len(L) /\ i \in 1 .. Len(L) + 1 /\ i \in i .. Len(L) + 1 /\ i \in Int /\ i # Len(L) + 1
  <2>1. DOMAIN L = 1 .. Len(L) /\ Len(L) \in Nat
    BY LineIs DEF LineAt
  <2> QED BY ONLY <1>1, <2>1
<1>3. Spaces(L, i, i)
  <2>1. i .. i - 1 = {}
    BY <1>2
  <2>2. ~ Blank(L, i)
    BY DEF Blank
  <2> QED BY <2>1, <2>2 DEF Spaces
<1>4. WordUpTo(L, i, i)
  BY <1>1, <1>2 DEF WordUpTo
<1>5. ReadWord(b + i - 1) = WordRead(Bare(L, i, i), Behind(L, i), b + i, "none")
  BY <1>1, <1>2, <1>3, <1>4, ReadWordIs
<1>6. Behind(L, i) = ">" /\ Bare(L, i, i) = <<>>
  BY <1>2, NothingBare DEF Behind, Space
<1> QED BY <1>5, <1>6

-----------------------------------------------------------------------------
(* The tokens of a line, but a & at its end *)

\* The tokens of the line L without a & that sends it to the background.
Read(L) == Body(L, Tokens(L))

LEMMA ReadIs ==
  ASSUME NEW T, NEW L \in Seq(T)
  PROVE  /\ Len(Read(L)) \in Nat /\ DOMAIN Read(L) = 1 .. Len(Read(L))
         /\ Read(L) \in Seq({Tokens(L)[k] : k \in 1 .. Len(Tokens(L))})
         /\ Len(Tokens(L)) \in Nat /\ DOMAIN Tokens(L) = 1 .. Len(Tokens(L))
         /\ \A k \in 1 .. Len(Read(L)) : k \in 1 .. Len(Tokens(L)) /\ Read(L)[k] = Tokens(L)[k]
         /\ IF InBackground(L, Tokens(L))
              THEN /\ Len(Tokens(L)) = Len(Read(L)) + 1
                   /\ Tokens(L)[Len(Tokens(L))].op = "&"
                   /\ Tokens(L)[Len(Tokens(L))].end = Len(L) + 1
            ELSE Read(L) = Tokens(L)
<1> DEFINE t == Tokens(L)
           n == Len(t)
<1>1. n \in Nat /\ DOMAIN t = 1 .. n
  BY AtIs
<1>2. t \in Seq({t[k] : k \in 1 .. n})
  <2>1. t = [k \in 1 .. n |-> t[k]]
    <3>1. t = [k \in DOMAIN At(L) |-> Token(L, At(L)[k])]
      BY DEF Tokens, At
    <3> HIDE DEF t
    <3> QED BY <1>1, <3>1
  <2> HIDE DEF t, n
  <2> QED BY <1>1, <2>1
<1> HIDE DEF t, n
<1>3. CASE ~ InBackground(L, t)
  <2>1. Read(L) = t
    BY <1>3 DEF Read, Body, t
  <2> QED BY <1>1, <1>2, <1>3, <2>1 DEF t, n
<1>4. CASE InBackground(L, t)
  <2>1. t # <<>> /\ Last(t).op = "&" /\ Last(t).end = Len(L) + 1
    BY <1>4 DEF InBackground
  <2>2. n # 0
    BY <1>2, <2>1 DEF n
  <2>3. Last(t) = t[n]
    BY DEF Last, n
  <2>4. Read(L) = Front(t)
    BY <1>4 DEF Read, Body, t
  <2>5. Read(L) = [k \in 1 .. n - 1 |-> t[k]]
    <3>1. Front(t) = SubSeq(t, 1, n - 1)
      BY DEF Front, n
    <3> QED BY <1>1, <1>2, <2>2, <2>4, <3>1 DEF n
  <2>6. Len(Read(L)) = n - 1 /\ DOMAIN Read(L) = 1 .. n - 1 /\ n - 1 \in Nat
    BY <1>1, <2>2, <2>5
  <2>7. Read(L) \in Seq({t[k] : k \in 1 .. n})
    BY <1>1, <2>2, <2>5
  <2>8. \A k \in 1 .. n - 1 : k \in 1 .. n /\ Read(L)[k] = t[k]
    BY <1>1, <2>5
  <2>9. n = (n - 1) + 1
    BY <1>1
  <2> QED BY <1>1, <1>4, <2>1, <2>3, <2>6, <2>7, <2>8, <2>9 DEF t, n
<1> QED BY <1>3, <1>4

\* No other & is left.
NoAmp(L) == \A k \in 1 .. Len(Read(L)) : Read(L)[k].op # "&"

LEMMA InRead ==
  ASSUME NEW T, NEW L \in Seq(T), NEW k \in 1 .. Len(Tokens(L)), Tokens(L)[k].op # "&"
  PROVE  k \in 1 .. Len(Read(L)) /\ Read(L)[k] = Tokens(L)[k]
<1>1. CASE ~ InBackground(L, Tokens(L))
  BY <1>1, ReadIs
<1>2. CASE InBackground(L, Tokens(L))
  <2>1. /\ Len(Tokens(L)) = Len(Read(L)) + 1 /\ Len(Read(L)) \in Nat
        /\ Tokens(L)[Len(Tokens(L))].op = "&"
        /\ \A l \in 1 .. Len(Read(L)) : Read(L)[l] = Tokens(L)[l]
    BY <1>2, ReadIs
  <2>2. k # Len(Tokens(L))
    BY <2>1
  <2>3. k \in 1 .. Len(Read(L))
    BY ONLY <2>1, <2>2, k \in 1 .. Len(Tokens(L))
  <2> QED BY <2>1, <2>3
<1> QED BY <1>1, <1>2

-----------------------------------------------------------------------------
(* What follows a word *)

\* Behind any other character nothing looks ahead.
LEMMA LooksNot ==
  ASSUME NEW x, NEW s, NEW n, s \notin {"&", "|"}
  PROVE  LookAhead(WordRead(x, s, n, "none")) = WordRead(x, s, n, "none")
<1> DEFINE w == WordRead(x, s, n, "none")
           c == Getchar(n)
<1>1. w.status = s /\ w.next = n /\ w.error = "none" /\ w.mode = "pipe" /\ w.background = FALSE
      /\ IsWord(w)
  BY DEF WordRead, IsWord
<1>2. LookAhead(w) =
        [w EXCEPT !.status = w.status, !.error = w.error, !.next = w.next, !.mode = w.mode,
                  !.background = FALSE]
  <2>1. ~ Consumes(s, Getchar(w.next))
    BY DEF Consumes
  <2> HIDE DEF w
  <2> QED BY <1>1, <2>1 DEF LookAhead
<1>3. [w EXCEPT !.status = w.status, !.error = w.error, !.next = w.next, !.mode = w.mode,
                !.background = FALSE] = w
  <2> HIDE DEF w
  <2> QED BY <1>1 DEF IsWord
<1> QED BY <1>2, <1>3

\* What the look-ahead behind a & or a | makes of the word x.
Peeked(x, s, n, v) ==
  /\ IsWord(v) /\ v.word = x /\ v.error = "none" /\ v.to = cmd
  /\ s = "|" => v.status = "|" /\ v.background = FALSE
  /\ s = "|" /\ Getchar(n) = "|" => v.mode = "or" /\ v.next = After(n)
  /\ s = "|" /\ Getchar(n) \notin {"|", Byte255} => v.mode = "pipe" /\ v.next = n
  /\ s = "&" => v.next = After(n)
  /\ s = "&" /\ Getchar(n) = "&" => v.status = "|" /\ v.mode = "and" /\ v.background = FALSE
  /\ s = "&" /\ Getchar(n) = Newline => v.status = Newline /\ v.mode = "pipe" /\ v.background = TRUE

LEMMA Looks ==
  ASSUME NEW x, NEW s \in {"&", "|"}, NEW n, s = "&" => Getchar(n) \in {Newline, "&"}
  PROVE  Peeked(x, s, n, LookAhead(WordRead(x, s, n, "none")))
<1> DEFINE c == Getchar(n)
           v == LookAhead(WordRead(x, s, n, "none"))
           w == WordRead(x, s, n, "none")
           S == CASE s = "&" /\ c \in {EOF, Newline} -> c
                  [] s = "&" /\ c = "&" -> "|"
                  [] OTHER -> s
           E == IF s = "&" /\ c \notin {EOF, Newline, "&"} THEN "amp" ELSE "none"
           N == IF Consumes(s, c) THEN After(n) ELSE n
           M == CASE s = "&" /\ c = "&" -> "and"
                  [] s = "|" /\ c = "|" -> "or"
                  [] OTHER -> "pipe"
           B == s = "&" /\ c \in {EOF, Newline}
<1>1. /\ w.status = s /\ w.next = n /\ w.error = "none" /\ w.mode = "pipe" /\ w.background = FALSE
      /\ IsWord(w) /\ w.word = x /\ w.to = cmd
  BY DEF WordRead, IsWord
<1>2. v = [w EXCEPT !.status = S, !.error = E, !.next = N, !.mode = M, !.background = B]
  <2>1. v = LookAhead(w)
    OBVIOUS
  <2> HIDE DEF w, v
  <2> QED BY <1>1, <2>1 DEF LookAhead
<1> HIDE DEF v, w, S, E, N, M, B
<1>3. /\ IsWord(v) /\ v.word = x /\ v.to = cmd
      /\ v.status = S /\ v.error = E /\ v.next = N /\ v.mode = M /\ v.background = B
  BY <1>1, <1>2 DEF IsWord
<1>4. E = "none"
  BY DEF E
<1>5. s = "|" => B = FALSE /\ S = "|"
  BY DEF B, S
<1>6. s = "|" /\ c = "|" => M = "or" /\ N = After(n)
  BY DEF M, N, Consumes
<1>7. s = "|" /\ c \notin {"|", Byte255} => M = "pipe" /\ N = n
  BY DEF M, N, Consumes
<1>8. s = "&" /\ c = "&" => M = "and" /\ N = After(n) /\ B = FALSE /\ S = "|"
  BY DEF M, N, B, S, Consumes, EOF, Newline
<1>9. s = "&" /\ c = Newline => M = "pipe" /\ N = After(n) /\ B = TRUE /\ S = Newline
  BY DEF M, N, B, S, Consumes, Newline
<1>10. s = "&" => c = "&" \/ c = Newline
  OBVIOUS
<1> HIDE DEF c
<1>11. Peeked(x, s, n, v)
  BY <1>3, <1>4, <1>5, <1>6, <1>7, <1>8, <1>9, <1>10 DEF Peeked, c
<1> QED BY <1>11 DEF v

\* The character behind the place q, which may be the line end.
LEMMA NextCharacter ==
  ASSUME input \in Seq(Char), NEW L, NEW b, NEW e, LineAt(L, b, e), NEW q \in 1 .. Len(L)
  PROVE  /\ Getchar(b + q) = IF q = Len(L) THEN Newline ELSE L[q + 1]
         /\ q # Len(L) => L[q + 1] # Newline /\ q + 1 \in 1 .. Len(L)
         /\ After(b + q) = b + q + 1 /\ b + q \in Int
         /\ q = Len(L) => b + q = e
<1>1. q + 1 \in 1 .. Len(L) + 1 /\ b \in Int /\ q \in Int /\ Len(L) \in Nat /\ e \in Int
  <2>1. q \in 1 .. Len(L) + 1
    BY DEF LineAt
  <2>2. b \in Int /\ q \in Int /\ Len(L) \in Nat /\ e \in Int
    BY <2>1, Places
  <2> QED BY <2>2
<1>2. b + (q + 1) - 1 = b + q /\ (q + 1 = Len(L) + 1 <=> q = Len(L))
  BY ONLY <1>1
<1>3. b + q \in 1 .. Len(input) /\ b + q \in Int
  BY <1>1, <1>2, Places
<1>4. After(b + q) = b + q + 1
  BY <1>3 DEF After
<1>5. CASE q = Len(L)
  <2>1. b + q = e
    <3>1. Len(L) = e - b
      BY DEF LineAt
    <3> QED BY ONLY <1>1, <1>5, <3>1
  <2>2. Getchar(b + q) = Newline
    BY <2>1, LastCharacter
  <2> QED BY <1>3, <1>4, <1>5, <2>1, <2>2
<1>6. CASE q # Len(L)
  <2>1. q + 1 \in 1 .. Len(L)
    BY <1>1, <1>6
  <2>2. Getchar(b + q) = L[q + 1] /\ L[q + 1] # Newline
    BY <1>2, <2>1, SameCharacter
  <2> QED BY <1>3, <1>4, <1>6, <2>1, <2>2
<1> QED BY <1>5, <1>6

\* n is the next character behind k tokens, or, in InPair, the second one of >>.
Placed(L, b, k, n) == \E i \in 1 .. Len(L) + 1 : n = b + i - 1 /\ Reached(L, i, k)
InPair(L, b, k, n) == \E i \in Second(L) : L[i] = ">" /\ n = b + i - 1 /\ Reached(L, i + 1, k)

\* A turn v has read the operator k.
Operation(L, b, k, v) ==
  \/ v.status = "<" /\ v.mode = "pipe" /\ Read(L)[k].op = "<" /\ Placed(L, b, k, v.next)
  \/ v.status = ">" /\ v.mode = "pipe" /\ Read(L)[k].op = ">" /\ Placed(L, b, k, v.next)
  \/ v.status = ">" /\ v.mode = "pipe" /\ Read(L)[k].op = ">>" /\ InPair(L, b, k, v.next)
  \/ /\ v.status = "|" /\ Read(L)[k].op \in DOMAIN Operators
     /\ v.mode = Operators[Read(L)[k].op] /\ Placed(L, b, k, v.next)

\* A turn v has read the line end, behind all tokens.
AtEnd(L, e, l, v) ==
  /\ v.status = Newline /\ v.next = e + 1 /\ v.mode = "pipe"
  /\ v.background = InBackground(L, Tokens(L)) /\ l = Len(Read(L))

\* A turn v ends behind the token l, behind an operator, or with the line.
Ends(L, b, e, l, v) ==
  \/ AtEnd(L, e, l, v)
  \/ v.background = FALSE /\ v.mode = "pipe" /\ v.status = Normal /\ Placed(L, b, l, v.next)
  \/ v.background = FALSE /\ l + 1 \in 1 .. Len(Read(L)) /\ Operation(L, b, l + 1, v)

\* A turn ends with the line, at a space, behind a redirection or behind an operator.
LEMMA EndsWithLine ==
  ASSUME input \in Seq(Char), NEW L, NEW b, NEW e, LineAt(L, b, e),
         NEW k \in 0 .. Len(Read(L)), NEW l, NEW w, Found(L, b, k, l, Len(L) + 1, w),
         NEW v, v = LookAhead(w)
  PROVE  v = w /\ AtEnd(L, e, l, v)
<1>0. L \in Seq(Char) /\ Len(L) \in Nat /\ b \in Int /\ e \in Int /\ Len(L) = e - b
  <2>1. L \in Seq(Char) /\ Len(L) = e - b
    BY DEF LineAt
  <2>2. 1 \in 1 .. Len(L) + 1
    BY <2>1, LineIs
  <2> QED BY <2>1, <2>2, Places
<1>1. w = WordRead(w.word, Newline, b + (Len(L) + 1), "none") /\ Reached(L, Len(L) + 1, l)
  BY DEF Found, Behind
<1>2. v = w
  BY <1>1, LooksNot DEF Newline
<1>3. w.status = Newline /\ w.next = b + (Len(L) + 1) /\ w.mode = "pipe" /\ w.background = FALSE
  BY <1>1 DEF WordRead
<1>4. b + (Len(L) + 1) = e + 1
  BY ONLY <1>0
<1>5. l = Len(Tokens(L))
  BY <1>0, <1>1, ReachedEnd
<1>6. InBackground(L, Tokens(L)) = FALSE
  <2> SUFFICES ASSUME InBackground(L, Tokens(L)) PROVE FALSE
    <3>1. InBackground(L, Tokens(L)) \in BOOLEAN
      BY DEF InBackground
    <3> QED BY <3>1
  <2>1. /\ Len(Tokens(L)) = Len(Read(L)) + 1 /\ Len(Read(L)) \in Nat
        /\ Tokens(L)[Len(Tokens(L))].op = "&"
    BY <1>0, ReadIs
  <2>2. l # k
    BY <1>5, <2>1
  <2>3. Tokens(L)[l].op = "word"
    BY <2>2 DEF Found
  <2> QED BY <1>5, <2>1, <2>3
<1>7. l = Len(Read(L))
  BY <1>0, <1>5, <1>6, ReadIs
<1> QED BY <1>2, <1>3, <1>4, <1>6, <1>7 DEF AtEnd

LEMMA EndsBlank ==
  ASSUME input \in Seq(Char), NEW L, NEW b, NEW e, LineAt(L, b, e),
         NEW k, NEW l, NEW q \in 1 .. Len(L), Blank(L, q), NEW w, Found(L, b, k, l, q, w),
         NEW v, v = LookAhead(w)
  PROVE  v = w /\ Ends(L, b, e, l, v)
<1>0. L \in Seq(Char)
  BY DEF LineAt
<1>1. q # Len(L) + 1 /\ q + 1 \in 1 .. Len(L) + 1
  BY <1>0, InLine
<1>2. Behind(L, q) = Normal
  BY <1>1 DEF Behind, Blank, Space
<1>3. w = WordRead(w.word, Normal, b + q, "none") /\ Reached(L, q, l)
  BY <1>2 DEF Found
<1>4. v = w
  BY <1>3, LooksNot DEF Normal
<1>5. w.status = Normal /\ w.next = b + q /\ w.mode = "pipe" /\ w.background = FALSE
  BY <1>3 DEF WordRead
<1>6. Reached(L, q + 1, l)
  BY <1>0, <1>3, ReachedSpace
<1>7. b + q = b + (q + 1) - 1
  <2>1. b \in Int /\ q \in Int
    BY <1>1, Places DEF LineAt
  <2> QED BY ONLY <2>1
<1>8. Placed(L, b, l, v.next)
  BY <1>1, <1>4, <1>5, <1>6, <1>7 DEF Placed
<1> QED BY <1>4, <1>5, <1>8 DEF Ends

\* Behind the token l stands the operator at q.
LEMMA OperatorRead ==
  ASSUME input \in Seq(Char), NEW L, NEW b, NEW e, LineAt(L, b, e),
         NEW k, NEW l, NEW q \in 1 .. Len(L), ~ Blank(L, q), NEW w, Found(L, b, k, l, q, w)
  PROVE  /\ L[q] \in {"<", ">", "&", "|"}
         /\ w = WordRead(w.word, L[q], b + q, "none")
         /\ l + 1 \in 1 .. Len(Tokens(L)) /\ Tokens(L)[l + 1] = Token(L, q)
         /\ Token(L, q).end = OperatorEnd(L, q)
         /\ OperatorEnd(L, q) \in 1 .. Len(L) + 1 /\ Reached(L, OperatorEnd(L, q), l + 1)
         /\ q + 1 \in Second(L) => /\ q + 1 \in 1 .. Len(L) /\ L[q + 1] = L[q] /\ L[q] # "<"
                                   /\ OperatorEnd(L, q) = (q + 1) + 1
         /\ q + 1 \notin Second(L) => /\ OperatorEnd(L, q) = q + 1 /\ Token(L, q).op = L[q]
                                      /\ q # Len(L) => L[q + 1] # L[q] \/ L[q] = "<"
         /\ q + 1 \in Second(L) /\ L[q] = "&" => Token(L, q).op = "&&"
         /\ q + 1 \in Second(L) /\ L[q] = "|" => Token(L, q).op = "||"
         /\ q + 1 \in Second(L) /\ L[q] = ">" => Token(L, q).op = ">>"
<1>0. L \in Seq(Char) /\ Unquoted(L, Len(L) + 1)
  BY DEF LineAt
<1>1. q # Len(L) + 1 /\ q + 1 \in 1 .. Len(L) + 1 /\ q \in Int /\ Len(L) \in Nat
  BY <1>0, InLine
<1>2. q \in Meta(L) /\ Reached(L, q, l) /\ w = WordRead(w.word, Behind(L, q), b + q, "none")
  BY <1>1 DEF Found
<1>3. /\ q \in Begins(L)
      /\ l + 1 \in 1 .. Len(Tokens(L)) /\ Tokens(L)[l + 1] = Token(L, q)
      /\ Token(L, q).end \in q + 1 .. Len(L) + 1 /\ Reached(L, Token(L, q).end, l + 1)
  BY <1>0, <1>2, ReachedToken
<1>4. /\ L[q] \in {"<", ">", "&", "|"}
      /\ q + 1 \in Second(L) <=> q + 1 <= Len(L) /\ L[q + 1] = L[q] /\ L[q] # "<"
  BY <1>0, <1>2, <1>3, OperatorEndIs
<1>5. Behind(L, q) = L[q]
  BY <1>1, <1>4 DEF Behind, Space
<1>6. /\ Token(L, q).end = OperatorEnd(L, q)
      /\ q + 1 \notin Second(L) => Token(L, q).op = L[q]
      /\ q + 1 \in Second(L) /\ L[q] = "&" => Token(L, q).op = "&&"
      /\ q + 1 \in Second(L) /\ L[q] = "|" => Token(L, q).op = "||"
      /\ q + 1 \in Second(L) /\ L[q] = ">" => Token(L, q).op = ">>"
  BY <1>2, <1>4, OperatorToken
<1>7. OperatorEnd(L, q) = IF q + 1 \in Second(L) THEN (q + 1) + 1 ELSE q + 1
  <2>1. q + 2 = (q + 1) + 1
    BY ONLY <1>1
  <2> QED BY <2>1 DEF OperatorEnd
<1>8. OperatorEnd(L, q) \in 1 .. Len(L) + 1
  <2>1. OperatorEnd(L, q) \in q + 1 .. Len(L) + 1
    BY <1>3, <1>6
  <2> QED BY ONLY <1>1, <2>1, q \in 1 .. Len(L)
<1>9. /\ q + 1 \in Int /\ (q + 1 <= Len(L) => q + 1 \in 1 .. Len(L))
      /\ q # Len(L) => q + 1 <= Len(L)
  BY ONLY <1>1, q \in 1 .. Len(L)
<1> HIDE DEF Found, LineAt
<1>10. w = WordRead(w.word, L[q], b + q, "none")
  BY <1>2, <1>5
<1>11. q + 1 \in Second(L) => /\ q + 1 \in 1 .. Len(L) /\ L[q + 1] = L[q] /\ L[q] # "<"
                              /\ OperatorEnd(L, q) = (q + 1) + 1
  BY <1>4, <1>7, <1>9
<1>12. q + 1 \notin Second(L) => /\ OperatorEnd(L, q) = q + 1 /\ Token(L, q).op = L[q]
                                 /\ q # Len(L) => L[q + 1] # L[q] \/ L[q] = "<"
  BY <1>4, <1>6, <1>7, <1>9
<1> QED BY <1>3, <1>4, <1>6, <1>8, <1>10, <1>11, <1>12

\* The place behind a token that ends at q.
LEMMA PlacedAt ==
  ASSUME NEW L, NEW b \in Int, NEW k, NEW q \in Int, q + 1 \in 1 .. Len(L) + 1,
         Reached(L, q + 1, k)
  PROVE  Placed(L, b, k, b + q)
<1>1. b + q = b + (q + 1) - 1
  BY ONLY b \in Int, q \in Int
<1> QED BY <1>1 DEF Placed

LEMMA EndsRedirection ==
  ASSUME input \in Seq(Char), NEW L, NEW b, NEW e, LineAt(L, b, e),
         NEW k, NEW l, NEW q \in 1 .. Len(L), L[q] \in {"<", ">"},
         NEW w, Found(L, b, k, l, q, w), NEW v, v = LookAhead(w)
  PROVE  v = w /\ Ends(L, b, e, l, v)
<1>0. L \in Seq(Char) /\ ~ Blank(L, q) /\ b \in Int /\ q \in Int
  <2>1. ~ Blank(L, q)
    BY DEF Blank
  <2>2. L \in Seq(Char) /\ b \in Int
    BY DEF LineAt
  <2> QED BY <2>1, <2>2, InLine
<1>1. /\ w = WordRead(w.word, L[q], b + q, "none")
      /\ l + 1 \in 1 .. Len(Tokens(L)) /\ Tokens(L)[l + 1] = Token(L, q)
      /\ OperatorEnd(L, q) \in 1 .. Len(L) + 1 /\ Reached(L, OperatorEnd(L, q), l + 1)
  BY <1>0, OperatorRead
<1>2. /\ q + 1 \in Second(L) => /\ q + 1 \in 1 .. Len(L) /\ L[q + 1] = L[q] /\ L[q] # "<"
                                /\ OperatorEnd(L, q) = (q + 1) + 1
      /\ q + 1 \notin Second(L) => OperatorEnd(L, q) = q + 1 /\ Token(L, q).op = L[q]
      /\ q + 1 \in Second(L) /\ L[q] = ">" => Token(L, q).op = ">>"
  BY <1>0, OperatorRead
<1>3. v = w
  BY <1>1, LooksNot
<1>4. w.status = L[q] /\ w.next = b + q /\ w.mode = "pipe" /\ w.background = FALSE
  BY <1>1 DEF WordRead
<1>5. l + 1 \in 1 .. Len(Read(L)) /\ Read(L)[l + 1] = Token(L, q)
  <2>1. Token(L, q).op # "&"
    BY <1>2
  <2> QED BY <1>0, <1>1, <2>1, InRead
<1>6. CASE q + 1 \notin Second(L)
  <2>1. Placed(L, b, l + 1, v.next)
    BY <1>0, <1>1, <1>2, <1>3, <1>4, <1>6, PlacedAt
  <2>2. Operation(L, b, l + 1, v)
    BY <1>2, <1>3, <1>4, <1>5, <1>6, <2>1 DEF Operation
  <2> QED BY <1>3, <1>4, <1>5, <2>2 DEF Ends
<1>7. CASE q + 1 \in Second(L)
  <2>1. L[q + 1] = ">" /\ L[q] = ">" /\ Reached(L, (q + 1) + 1, l + 1) /\ Token(L, q).op = ">>"
    BY <1>1, <1>2, <1>7
  <2>2. b + q = b + (q + 1) - 1
    BY ONLY <1>0
  <2>3. InPair(L, b, l + 1, v.next)
    BY <1>3, <1>4, <1>7, <2>1, <2>2 DEF InPair
  <2>4. Operation(L, b, l + 1, v)
    BY <1>3, <1>4, <1>5, <2>1, <2>3 DEF Operation
  <2> QED BY <1>3, <1>4, <1>5, <2>4 DEF Ends
<1> QED BY <1>6, <1>7

\* What a turn leaves alone behind an operator that ends a command or a line.
Looked(v, w) == IsWord(v) /\ v.word = w.word /\ v.error = "none" /\ v.to = cmd

LEMMA EndsPipe ==
  ASSUME input \in Seq(Char), NEW L, NEW b, NEW e, LineAt(L, b, e),
         ~ Lost(L, Tokens(L)), NEW k, NEW l, NEW q \in 1 .. Len(L), L[q] = "|",
         NEW w, Found(L, b, k, l, q, w), NEW v, v = LookAhead(w)
  PROVE  Looked(v, w) /\ Ends(L, b, e, l, v)
<1>0. L \in Seq(Char) /\ ~ Blank(L, q) /\ b \in Int /\ q \in Int
  <2>1. ~ Blank(L, q)
    BY DEF Blank
  <2>2. L \in Seq(Char) /\ b \in Int
    BY DEF LineAt
  <2> QED BY <2>1, <2>2, InLine
<1>1. /\ w = WordRead(w.word, "|", b + q, "none")
      /\ l + 1 \in 1 .. Len(Tokens(L)) /\ Tokens(L)[l + 1] = Token(L, q)
      /\ OperatorEnd(L, q) \in 1 .. Len(L) + 1 /\ Reached(L, OperatorEnd(L, q), l + 1)
      /\ Token(L, q).end = OperatorEnd(L, q)
  BY <1>0, OperatorRead
<1>2. /\ q + 1 \in Second(L) => /\ q + 1 \in 1 .. Len(L) /\ L[q + 1] = "|"
                                /\ OperatorEnd(L, q) = (q + 1) + 1 /\ Token(L, q).op = "||"
      /\ q + 1 \notin Second(L) => /\ OperatorEnd(L, q) = q + 1 /\ Token(L, q).op = "|"
                                   /\ q # Len(L) => L[q + 1] # "|"
  BY <1>0, OperatorRead
<1>3. l + 1 \in 1 .. Len(Read(L)) /\ Read(L)[l + 1] = Token(L, q)
  <2>1. Token(L, q).op # "&"
    BY <1>2
  <2> QED BY <1>0, <1>1, <2>1, InRead
<1> DEFINE c == Getchar(b + q)
<1>4. /\ c = IF q = Len(L) THEN Newline ELSE L[q + 1]
      /\ After(b + q) = b + q + 1 /\ b + q + 1 = b + (q + 1)
  <2>1. b + q + 1 = b + (q + 1)
    BY ONLY <1>0
  <2> QED BY <2>1, NextCharacter
<1>5. Peeked(w.word, "|", b + q, v)
  <2>1. v = LookAhead(WordRead(w.word, "|", b + q, "none"))
    BY <1>1
  <2>2. "|" \in {"&", "|"} /\ ("|" = "&" => Getchar(b + q) \in {Newline, "&"})
    OBVIOUS
  <2>3. Peeked(w.word, "|", b + q, LookAhead(WordRead(w.word, "|", b + q, "none")))
    BY ONLY <2>2, Looks
  <2> QED BY <2>1, <2>3
<1>6. /\ Looked(v, w) /\ v.status = "|" /\ v.background = FALSE
      /\ c = "|" => v.mode = "or" /\ v.next = After(b + q)
      /\ c \notin {"|", Byte255} => v.mode = "pipe" /\ v.next = b + q
  BY <1>5 DEF Peeked, Looked
<1> HIDE DEF c
<1>7. /\ "|" \in DOMAIN Operators /\ Operators["|"] = "pipe"
      /\ "||" \in DOMAIN Operators /\ Operators["||"] = "or"
  BY DEF Operators
<1>8. CASE q + 1 \notin Second(L)
  <2>0. q # Len(L) => L[q + 1] # Byte255
    <3>1. l + 1 \in DOMAIN Tokens(L) /\ (q # Len(L) => q + 1 \in DOMAIN L)
      BY <1>0, <1>1
    <3> QED BY <1>1, <1>2, <1>8, <3>1 DEF Lost
  <2>1. c \notin {"|", Byte255}
    BY <1>2, <1>4, <1>8, <2>0 DEF Newline, Byte255
  <2>2. Placed(L, b, l + 1, v.next)
    BY <1>0, <1>1, <1>2, <1>6, <1>8, <2>1, PlacedAt
  <2>3. Operation(L, b, l + 1, v)
    BY <1>2, <1>3, <1>6, <1>7, <1>8, <2>1, <2>2 DEF Operation
  <2> QED BY <1>3, <1>6, <2>1, <2>3 DEF Ends
<1>9. CASE q + 1 \in Second(L)
  <2>1. c = "|"
    <3>1. q # Len(L)
      BY <1>0, <1>2, <1>9, LineIs
    <3> QED BY <1>2, <1>4, <1>9, <3>1
  <2>2. v.next = b + (q + 1)
    BY <1>4, <1>6, <2>1
  <2>3. Placed(L, b, l + 1, v.next)
    <3>1. q + 1 \in Int
      BY ONLY <1>0
    <3> QED BY <1>0, <1>1, <1>2, <1>9, <2>2, <3>1, PlacedAt
  <2>4. Operation(L, b, l + 1, v)
    BY <1>2, <1>3, <1>6, <1>7, <1>9, <2>1, <2>3 DEF Operation
  <2> QED BY <1>3, <1>6, <2>1, <2>4 DEF Ends
<1> QED BY <1>8, <1>9

\* A single & ends the line.
LEMMA AmpIsLast ==
  ASSUME NEW T, NEW L \in Seq(T), NoAmp(L), NEW k \in 1 .. Len(Tokens(L)), Tokens(L)[k].op = "&"
  PROVE  /\ InBackground(L, Tokens(L)) = TRUE /\ k = Len(Read(L)) + 1
         /\ Tokens(L)[k].end = Len(L) + 1
<1>1. k \notin 1 .. Len(Read(L))
  <2> SUFFICES ASSUME k \in 1 .. Len(Read(L)) PROVE FALSE
    OBVIOUS
  <2>1. Read(L)[k] = Tokens(L)[k]
    BY ReadIs
  <2> QED BY <2>1 DEF NoAmp
<1>2. InBackground(L, Tokens(L))
  <2> SUFFICES ASSUME ~ InBackground(L, Tokens(L)) PROVE FALSE
    OBVIOUS
  <2>1. Read(L) = Tokens(L)
    BY ReadIs
  <2> QED BY <1>1, <2>1
<1>3. /\ Len(Tokens(L)) = Len(Read(L)) + 1 /\ Len(Read(L)) \in Nat
      /\ Tokens(L)[Len(Tokens(L))].end = Len(L) + 1
  BY <1>2, ReadIs
<1>4. k = Len(Tokens(L))
  BY ONLY <1>1, <1>3, k \in 1 .. Len(Tokens(L))
<1>5. InBackground(L, Tokens(L)) \in BOOLEAN
  BY DEF InBackground
<1> QED BY <1>2, <1>3, <1>4, <1>5

LEMMA EndsAmp ==
  ASSUME input \in Seq(Char), NEW L, NEW b, NEW e, LineAt(L, b, e), NoAmp(L),
         NEW k, NEW l \in Nat, NEW q \in 1 .. Len(L), L[q] = "&",
         NEW w, Found(L, b, k, l, q, w), NEW v, v = LookAhead(w)
  PROVE  Looked(v, w) /\ Ends(L, b, e, l, v)
<1>0. L \in Seq(Char) /\ ~ Blank(L, q) /\ b \in Int /\ q \in Int /\ Len(L) \in Nat
  <2>1. ~ Blank(L, q)
    BY DEF Blank
  <2>2. L \in Seq(Char) /\ b \in Int
    BY DEF LineAt
  <2> QED BY <2>1, <2>2, InLine
<1>1. /\ w = WordRead(w.word, "&", b + q, "none")
      /\ l + 1 \in 1 .. Len(Tokens(L)) /\ Tokens(L)[l + 1] = Token(L, q)
      /\ Token(L, q).end = OperatorEnd(L, q)
      /\ OperatorEnd(L, q) \in 1 .. Len(L) + 1 /\ Reached(L, OperatorEnd(L, q), l + 1)
  BY <1>0, OperatorRead
<1>2. /\ q + 1 \in Second(L) => /\ q + 1 \in 1 .. Len(L) /\ L[q + 1] = "&"
                                /\ OperatorEnd(L, q) = (q + 1) + 1 /\ Token(L, q).op = "&&"
      /\ q + 1 \notin Second(L) => OperatorEnd(L, q) = q + 1 /\ Token(L, q).op = "&"
  BY <1>0, OperatorRead
<1>3. /\ Getchar(b + q) = IF q = Len(L) THEN Newline ELSE L[q + 1]
      /\ After(b + q) = b + q + 1 /\ b + q + 1 = b + (q + 1)
      /\ q = Len(L) => b + q = e
  <2>1. b + q + 1 = b + (q + 1)
    BY ONLY <1>0
  <2> QED BY <2>1, NextCharacter
<1>4. ASSUME Getchar(b + q) \in {Newline, "&"} PROVE Peeked(w.word, "&", b + q, v)
  <2>1. v = LookAhead(WordRead(w.word, "&", b + q, "none"))
    BY <1>1
  <2>2. "&" \in {"&", "|"} /\ ("&" = "&" => Getchar(b + q) \in {Newline, "&"})
    BY <1>4
  <2>3. Peeked(w.word, "&", b + q, LookAhead(WordRead(w.word, "&", b + q, "none")))
    BY ONLY <2>2, Looks
  <2> QED BY <2>1, <2>3
<1>5. CASE q + 1 \in Second(L)
  <2>1. Getchar(b + q) = "&"
    <3>1. q # Len(L)
      BY <1>0, <1>2, <1>5, LineIs
    <3> QED BY <1>2, <1>3, <1>5, <3>1
  <2>2. /\ Looked(v, w) /\ v.status = "|" /\ v.background = FALSE /\ v.mode = "and"
        /\ v.next = b + (q + 1)
    BY <1>3, <1>4, <2>1 DEF Peeked, Looked
  <2>3. l + 1 \in 1 .. Len(Read(L)) /\ Read(L)[l + 1] = Token(L, q)
    BY <1>0, <1>1, <1>2, <1>5, InRead
  <2>4. Placed(L, b, l + 1, v.next)
    <3>1. q + 1 \in Int
      BY ONLY <1>0
    <3> QED BY <1>0, <1>1, <1>2, <1>5, <2>2, <3>1, PlacedAt
  <2>5. "&&" \in DOMAIN Operators /\ Operators["&&"] = "and"
    BY DEF Operators
  <2>6. Operation(L, b, l + 1, v)
    BY <1>2, <1>5, <2>2, <2>3, <2>4, <2>5 DEF Operation
  <2> QED BY <2>2, <2>3, <2>6 DEF Ends
<1>6. CASE q + 1 \notin Second(L)
  <2>1. /\ InBackground(L, Tokens(L)) = TRUE /\ l + 1 = Len(Read(L)) + 1
        /\ Tokens(L)[l + 1].end = Len(L) + 1
    BY <1>0, <1>1, <1>2, <1>6, AmpIsLast
  <2>2. q + 1 = Len(L) + 1
    BY <1>1, <1>2, <1>6, <2>1
  <2>3. q = Len(L)
    BY ONLY <1>0, <2>2
  <2>4. l = Len(Read(L))
    <3>1. Len(Read(L)) \in Nat
      BY <1>0, ReadIs
    <3> QED BY ONLY <2>1, <3>1, l \in Nat
  <2>5. Getchar(b + q) = Newline /\ b + q = e
    BY <1>3, <2>3
  <2>6. /\ Looked(v, w) /\ v.status = Newline /\ v.mode = "pipe" /\ v.background = TRUE
        /\ v.next = e + 1
    <3>1. b + q + 1 = e + 1
      BY <2>5
    <3>2. Newline # "&"
      BY DEF Newline
    <3> QED BY <1>3, <1>4, <2>5, <3>1, <3>2 DEF Peeked, Looked
  <2>7. AtEnd(L, e, l, v)
    BY <2>1, <2>4, <2>6 DEF AtEnd
  <2> QED BY <2>6, <2>7 DEF Ends
<1> QED BY <1>5, <1>6

\* A turn v, read behind the token k, up to the token l: a word or none.
Turned(L, b, e, k, l, v) ==
  /\ IsWord(v) /\ v.error = "none" /\ v.to = cmd
  /\ l \in 0 .. Len(Read(L))
  /\ \/ l = k /\ v.word = <<>>
     \/ /\ l = k + 1 /\ l \in 1 .. Len(Read(L))
        /\ Read(L)[l].op = "word" /\ Read(L)[l].word = v.word
  /\ Ends(L, b, e, l, v)

LEMMA FoundIs ==
  ASSUME NEW T, NEW L \in Seq(T), NEW b, NEW k \in 0 .. Len(Read(L)), NEW l, NEW q, NEW w,
         Found(L, b, k, l, q, w)
  PROVE  /\ Looked(w, w) /\ l \in 0 .. Len(Read(L)) /\ l \in Nat
         /\ \/ l = k /\ w.word = <<>>
            \/ /\ l = k + 1 /\ l \in 1 .. Len(Read(L))
               /\ Read(L)[l].op = "word" /\ Read(L)[l].word = w.word
<1>1. w = WordRead(w.word, Behind(L, q), b + q, "none")
  BY DEF Found
<1>2. Looked(w, w)
  <2>1. w.error = "none" /\ w.to = cmd
    BY <1>1 DEF WordRead
  <2>2. IsWord(w)
    BY <1>1, WordReadIs
  <2> QED BY <2>1, <2>2 DEF Looked
<1>3. Len(Read(L)) \in Nat
  BY ReadIs
<1>4. CASE l = k
  <2>1. k # k + 1 /\ k \in Nat
    BY <1>3
  <2> QED BY <1>2, <1>4, <2>1 DEF Found
<1>5. CASE l # k
  <2>1. /\ l = k + 1 /\ l \in 1 .. Len(Tokens(L))
        /\ Tokens(L)[l].op = "word" /\ Tokens(L)[l].word = w.word
    BY <1>5 DEF Found
  <2>2. l \in 1 .. Len(Read(L)) /\ Read(L)[l] = Tokens(L)[l]
    BY <2>1, InRead
  <2>3. l \in 0 .. Len(Read(L)) /\ l \in Nat
    BY <1>3, <2>2
  <2> QED BY <1>2, <2>1, <2>2, <2>3
<1> QED BY <1>4, <1>5

\* Every turn behind the token k ends behind it or behind the next one.
LEMMA Turns ==
  ASSUME input \in Seq(Char), NEW L, NEW b, NEW e, LineAt(L, b, e), NoAmp(L),
         ~ Lost(L, Tokens(L)),
         NEW k \in 0 .. Len(Read(L)), NEW l, NEW q, NEW w, Found(L, b, k, l, q, w),
         NEW v, v = LookAhead(w)
  PROVE  Turned(L, b, e, k, l, v)
<1>0. L \in Seq(Char)
  BY DEF LineAt
<1>1. /\ Looked(w, w) /\ l \in 0 .. Len(Read(L)) /\ l \in Nat
      /\ \/ l = k /\ w.word = <<>>
         \/ /\ l = k + 1 /\ l \in 1 .. Len(Read(L))
            /\ Read(L)[l].op = "word" /\ Read(L)[l].word = w.word
  BY <1>0, FoundIs
<1>2. Looked(v, w) /\ Ends(L, b, e, l, v)
  <2>1. CASE q = Len(L) + 1
    BY <1>1, <2>1, EndsWithLine DEF Ends
  <2>2. CASE q # Len(L) + 1
    <3>1. q \in 1 .. Len(L) /\ q \in Meta(L)
      <4>1. q \in 1 .. Len(L) + 1 /\ q \in Meta(L)
        BY <2>2 DEF Found
      <4> QED BY <2>2, <4>1, Places
    <3>2. CASE Blank(L, q)
      BY <1>1, <3>1, <3>2, EndsBlank
    <3>3. CASE L[q] \in {"<", ">"}
      BY <1>1, <3>1, <3>3, EndsRedirection
    <3>4. CASE L[q] = "|"
      BY <3>1, <3>4, EndsPipe
    <3>5. CASE L[q] = "&"
      BY <1>1, <3>1, <3>5, EndsAmp
    <3>6. L[q] \in {" ", "<", ">", "&", "|"}
      BY <3>1, MetaIs
    <3> QED BY <3>2, <3>3, <3>4, <3>5, <3>6 DEF Blank
  <2> QED BY <2>1, <2>2
<1> QED BY <1>1, <1>2 DEF Turned, Looked

\* So does one that does not look ahead, unless a & or a | is there.
LEMMA TurnsAlone ==
  ASSUME input \in Seq(Char), NEW L, NEW b, NEW e, LineAt(L, b, e), NoAmp(L),
         ~ Lost(L, Tokens(L)),
         NEW k \in 0 .. Len(Read(L)), NEW l, NEW q, NEW w, Found(L, b, k, l, q, w),
         Behind(L, q) \notin {"&", "|"}
  PROVE  Turned(L, b, e, k, l, w)
<1>1. w = WordRead(w.word, Behind(L, q), b + q, "none")
  BY DEF Found
<1>2. w = LookAhead(w)
  BY <1>1, LooksNot
<1> QED BY <1>2, Turns

-----------------------------------------------------------------------------
(* The tokens of a call *)

\* The tokens from s + 1 to k.
Part(y, s, k) == SubSeq(y, s + 1, k)

LEMMA PartIs ==
  ASSUME NEW T, NEW y \in Seq(T), NEW k \in 0 .. Len(y), NEW s \in 0 .. k
  PROVE  /\ Part(y, s, k) \in Seq(T) /\ Len(Part(y, s, k)) = k - s /\ Len(y) \in Nat
         /\ DOMAIN Part(y, s, k) = 1 .. k - s
         /\ \A j \in 1 .. k - s : Part(y, s, k)[j] = y[s + j]
         /\ s + 1 <= k => Part(y, s, k)[k - s] = y[k]
         /\ Part(y, s, s) = <<>>
         /\ k \in Int /\ s \in Int
<1> DEFINE p == Part(y, s, k)
<1>1. k \in Int /\ s \in Int /\ Len(y) \in Nat
  OBVIOUS
<1>2. p \in Seq(T) /\ Len(p) = k - s
  BY DEF Part
<1>3. DOMAIN p = 1 .. k - s
  <2> HIDE DEF p
  <2> QED BY <1>2
<1>4. ASSUME NEW j \in 1 .. k - s PROVE p[j] = y[s + j]
  BY <1>4 DEF Part
<1>5. s + 1 <= k => p[k - s] = y[k]
  <2> HIDE DEF p
  <2>1. s + 1 <= k => k - s \in 1 .. k - s /\ s + (k - s) = k
    BY ONLY <1>1
  <2> QED BY <1>4, <2>1
<1>6. Part(y, s, s) = <<>>
  BY DEF Part
<1> QED BY <1>1, <1>2, <1>3, <1>4, <1>5, <1>6

LEMMA PartNext ==
  ASSUME NEW T, NEW y \in Seq(T), NEW k \in 0 .. Len(y), NEW s \in 0 .. k, k + 1 \in 1 .. Len(y)
  PROVE  Part(y, s, k + 1) = Append(Part(y, s, k), y[k + 1]) /\ y[k + 1] \in T
<1> DEFINE a == Part(y, s, k)
           z == Part(y, s, k + 1)
<1>1. k + 1 \in 0 .. Len(y) /\ s \in 0 .. k + 1 /\ y[k + 1] \in T /\ k \in Int /\ s \in Int
  OBVIOUS
<1>2. a \in Seq(T) /\ Len(a) = k - s /\ \A j \in 1 .. k - s : a[j] = y[s + j]
  BY DEF Part
<1>3. z \in Seq(T) /\ Len(z) = (k + 1) - s /\ \A j \in 1 .. (k + 1) - s : z[j] = y[s + j]
  BY <1>1 DEF Part
<1> HIDE DEF a, z
<1>4. Append(a, y[k + 1]) = z
  <2>1. Append(a, y[k + 1]) \in Seq(T) /\ Len(Append(a, y[k + 1])) = (k + 1) - s
    BY <1>1, <1>2
  <2>2. ASSUME NEW j \in 1 .. (k + 1) - s PROVE Append(a, y[k + 1])[j] = z[j]
    <3>1. CASE j = (k - s) + 1
      BY <1>1, <1>2, <1>3, <3>1
    <3>2. CASE j \in 1 .. k - s
      BY <1>1, <1>2, <1>3, <3>2
    <3>3. j = (k - s) + 1 \/ j \in 1 .. k - s
      BY <1>1
    <3> QED BY <3>1, <3>2, <3>3
  <2> QED BY <1>3, <2>1, <2>2
<1> QED BY <1>1, <1>4 DEF a, z

\* Where the words of a call stand that are not the target of a redirection.
ArgumentsAt(t) == {k \in DOMAIN t : t[k].op = "word" /\ ~ (k > 1 /\ t[k - 1].op \in Redirections)}

LEMMA OrderedIs ==
  ASSUME NEW S \in SUBSET Int, IsFiniteSet(S)
  PROVE  Ascends(Ordered(S), S)
BY ListedAscends DEF Ordered

LEMMA NoneAscends == Ordered({}) = <<>>
<1>1. Ascends(Ordered({}), {})
  BY OrderedIs, FS_EmptySet
<1>2. Ascends(<<>>, {})
  BY DEF Ascends
<1> HIDE DEF Ordered
<1>3. {} \in SUBSET Int
  OBVIOUS
<1> QED BY <1>1, <1>2, <1>3, OneOrder

LEMMA ArgumentsNone == Arguments(<<>>) = <<>>
<1>1. {k \in DOMAIN <<>> : <<>>[k].op = "word" /\ ~ (k > 1 /\ <<>>[k - 1].op \in Redirections)} = {}
  OBVIOUS
<1>2. Arguments(<<>>) = [k \in DOMAIN <<>> |-> <<>>[(<<>>)[k]].word]
  BY <1>1, NoneAscends DEF Arguments
<1> QED BY <1>2

\* A call continued with the token x.
LEMMA ArgumentsMore ==
  ASSUME NEW T, NEW t \in Seq(T), NEW x \in T
  PROVE  Arguments(Append(t, x)) =
           IF x.op = "word" /\ ~ (t # <<>> /\ t[Len(t)].op \in Redirections)
             THEN Append(Arguments(t), x.word)
           ELSE Arguments(t)
<1> DEFINE u == Append(t, x)
           n == Len(t)
           A == ArgumentsAt(t)
           B == ArgumentsAt(u)
           a == Ordered(A)
           z == Ordered(B)
<1>1. n \in Nat /\ DOMAIN t = 1 .. n /\ u \in Seq(T) /\ Len(u) = n + 1 /\ DOMAIN u = 1 .. n + 1
      /\ u[n + 1] = x /\ (t = <<>> <=> n = 0)
  <2>1. n \in Nat /\ DOMAIN t = 1 .. n /\ u \in Seq(T) /\ Len(u) = n + 1 /\ u[n + 1] = x
        /\ (t = <<>> <=> n = 0)
    OBVIOUS
  <2> HIDE DEF u
  <2>2. DOMAIN u = 1 .. n + 1
    BY <2>1
  <2> QED BY <2>1, <2>2
<1>2. \A k \in 1 .. n : u[k] = t[k]
  OBVIOUS
<1> HIDE DEF u, n
<1>3. A \in SUBSET Int /\ A \subseteq 1 .. n /\ IsFiniteSet(A)
  <2>1. A \subseteq 1 .. n
    BY <1>1 DEF ArgumentsAt
  <2>2. IsFiniteSet(1 .. n)
    BY <1>1, FS_Interval
  <2> HIDE DEF A
  <2>3. IsFiniteSet(A)
    BY <2>1, <2>2, FS_Subset
  <2>4. A \in SUBSET Int
    BY <1>1, <2>1
  <2> QED BY <2>1, <2>3, <2>4
<1>4. Ascends(a, A)
  <2> HIDE DEF A
  <2> QED BY <1>3, OrderedIs
<1>5. /\ Arguments(t) = [k \in DOMAIN a |-> t[a[k]].word]
      /\ Arguments(u) = [k \in DOMAIN z |-> u[z[k]].word]
  BY DEF Arguments, ArgumentsAt
<1>6. ASSUME NEW k \in 1 .. n PROVE k \in A <=> k \in B
  <2>1. k \in 1 .. n + 1 /\ u[k] = t[k]
    BY <1>1, <1>2
  <2>2. k > 1 => k - 1 \in 1 .. n /\ u[k - 1] = t[k - 1]
    <3>1. k > 1 => k - 1 \in 1 .. n
      BY <1>1
    <3> QED BY <1>2, <3>1
  <2> QED BY <1>1, <2>1, <2>2 DEF ArgumentsAt
<1>7. n + 1 \in B <=> x.op = "word" /\ ~ (t # <<>> /\ t[n].op \in Redirections)
  <2>1. n + 1 \in DOMAIN u /\ (n + 1 > 1 <=> t # <<>>) /\ (n + 1) - 1 = n
    BY <1>1
  <2>2. t # <<>> => u[n] = t[n]
    BY <1>1, <1>2
  <2> QED BY <1>1, <2>1, <2>2 DEF ArgumentsAt
<1>8. B \subseteq 1 .. n + 1
  BY <1>1 DEF ArgumentsAt
<1>9. n + 1 \notin A /\ \A k \in A : k < n + 1
  BY <1>1, <1>3
<1>10. DOMAIN a = 1 .. Len(a) /\ Len(a) \in Nat /\ a \in Seq(A) /\ \A k \in 1 .. Len(a) : a[k] \in 1 .. n
  BY <1>3, <1>4 DEF Ascends
<1> HIDE DEF A, B
<1>11. CASE n + 1 \notin B
  <2>1. A = B
    <3>1. ASSUME NEW k PROVE k \in A <=> k \in B
      <4>1. k \in A => k \in 1 .. n
        BY <1>3
      <4>2. k \in B => k \in 1 .. n
        <5>1. k \in B => k \in 1 .. n + 1 /\ k # n + 1
          BY <1>8, <1>11
        <5> QED BY <1>1, <5>1
      <4> QED BY <1>6, <4>1, <4>2
    <3> QED BY <3>1
  <2>2. z = a
    BY <2>1
  <2> HIDE DEF a, z
  <2>3. Arguments(u) = Arguments(t)
    BY <1>2, <1>5, <1>10, <2>2
  <2> QED BY <1>7, <1>11, <2>3 DEF u, n
<1>12. CASE n + 1 \in B
  <2>1. B = A \cup {n + 1}
    <3>1. ASSUME NEW k PROVE k \in A \/ k = n + 1 <=> k \in B
      <4>1. k \in A => k \in 1 .. n
        BY <1>3
      <4>2. k \in B => k \in 1 .. n \/ k = n + 1
        <5>1. k \in B => k \in 1 .. n + 1
          BY <1>8
        <5> QED BY <1>1, <5>1
      <4> QED BY <1>6, <1>12, <4>1, <4>2
    <3> QED BY <3>1
  <2>2. Ascends(Append(a, n + 1), B)
    <3>1. n + 1 \in Int
      BY <1>1
    <3> HIDE DEF a
    <3> QED BY <1>3, <1>4, <1>9, <2>1, <3>1, OrderMore
  <2>3. Ascends(z, B)
    <3>1. B \in SUBSET Int /\ IsFiniteSet(B)
      <4>1. n + 1 \in Int
        BY <1>1
      <4>2. IsFiniteSet(1 .. n + 1)
        BY <4>1, FS_Interval
      <4>3. IsFiniteSet(B)
        BY <1>8, <4>2, FS_Subset
      <4> QED BY <1>3, <2>1, <4>1, <4>3
    <3> QED BY <3>1, OrderedIs
  <2>4. z = Append(a, n + 1)
    <3>1. B \in SUBSET Int
      BY <1>1, <1>3, <2>1
    <3> HIDE DEF a, z
    <3> QED BY <2>2, <2>3, <3>1, OneOrder
  <2> HIDE DEF a, z
  <2> DEFINE m == Len(a)
  <2>5. DOMAIN z = 1 .. m + 1 /\ z[m + 1] = n + 1 /\ \A k \in 1 .. m : z[k] = a[k]
    BY <1>10, <2>4
  <2>6. Arguments(t) = [k \in 1 .. m |-> t[a[k]].word]
    BY <1>5, <1>10
  <2>7. Arguments(u) = [k \in 1 .. m + 1 |-> u[z[k]].word]
    BY <1>5, <2>5
  <2>8. \A k \in 1 .. m : u[z[k]].word = t[a[k]].word
    BY <1>2, <1>10, <2>5
  <2>9. u[z[m + 1]].word = x.word
    BY <1>1, <2>5
  <2>10. Arguments(u) = Append(Arguments(t), x.word)
    <3> DEFINE p == Arguments(t)
    <3>1. Len(p) = m /\ m \in Nat /\ p = [k \in 1 .. m |-> t[a[k]].word]
      BY <1>10, <2>6
    <3>2. Append(p, x.word) = [k \in 1 .. m + 1 |-> IF k = m + 1 THEN x.word ELSE p[k]]
      <4> HIDE DEF p, m
      <4>1. p \in Seq({p[k] : k \in 1 .. m} \cup {x.word})
        BY <3>1
      <4> QED BY <3>1, <4>1
    <3>3. ASSUME NEW k \in 1 .. m + 1 PROVE u[z[k]].word = IF k = m + 1 THEN x.word ELSE p[k]
      <4>1. CASE k = m + 1
        BY <2>9, <4>1
      <4>2. CASE k # m + 1
        <5>1. k \in 1 .. m
          BY <3>1, <4>2
        <5> QED BY <2>8, <3>1, <4>2, <5>1
      <4> QED BY <4>1, <4>2
    <3> HIDE DEF p
    <3> QED BY <2>7, <3>2, <3>3 DEF p
  <2> QED BY <1>7, <1>12, <2>10 DEF u, n
<1> QED BY <1>11, <1>12

\* Where the redirections of a call stand.
TargetAt(t, ops) == {k \in DOMAIN t : t[k].op \in ops}

LEMMA TargetNone ==
  ASSUME NEW ops
  PROVE  Target(<<>>, ops) = <<>>
<1>1. {k \in DOMAIN <<>> : <<>>[k].op \in ops} = {}
  OBVIOUS
<1> QED BY <1>1 DEF Target

\* A list with one more entry.
LEMMA AppendIs ==
  ASSUME NEW T, NEW t \in Seq(T), NEW x \in T, NEW u, u = Append(t, x)
  PROVE  /\ Len(t) \in Nat /\ DOMAIN t = 1 .. Len(t) /\ u \in Seq(T) /\ Len(u) = Len(t) + 1
         /\ DOMAIN u = 1 .. Len(t) + 1 /\ u[Len(t) + 1] = x /\ (t = <<>> <=> Len(t) = 0)
         /\ \A k \in 1 .. Len(t) : u[k] = t[k]
<1>1. /\ Len(t) \in Nat /\ DOMAIN t = 1 .. Len(t) /\ u \in Seq(T) /\ Len(u) = Len(t) + 1
      /\ u[Len(t) + 1] = x /\ (t = <<>> <=> Len(t) = 0)
      /\ \A k \in 1 .. Len(t) : u[k] = t[k]
  OBVIOUS
<1>2. DOMAIN u = 1 .. Len(t) + 1
  <2>1. DOMAIN u = 1 .. Len(u)
    BY ONLY <1>1
  <2> QED BY <1>1, <2>1
<1> QED BY <1>1, <1>2

\* The target of a redirection is the word behind it.
LEMMA TargetTaken ==
  ASSUME NEW T, NEW t \in Seq(T), NEW x \in T, NEW ops,
         t # <<>>, t[Len(t)].op \in ops, x.op \notin ops
  PROVE  Target(Append(t, x), ops) = x.word
<1> DEFINE u == Append(t, x)
           n == Len(t)
           B == TargetAt(u, ops)
<1>1. /\ n \in Nat /\ u[n + 1] = x /\ DOMAIN u = 1 .. n + 1 /\ n # 0
      /\ \A k \in 1 .. n : u[k] = t[k]
  BY AppendIs
<1>2. Target(u, ops) = IF B = {} THEN <<>> ELSE u[Max(B) + 1].word
  BY DEF Target, TargetAt
<1> HIDE DEF u, n
<1>3. n \in B
  BY <1>1 DEF TargetAt, n
<1>4. ASSUME NEW k \in B PROVE k \in Int /\ k <= n
  <2>1. k \in 1 .. n + 1 /\ u[k].op \in ops
    BY <1>1 DEF TargetAt
  <2>2. k # n + 1
    BY <1>1, <2>1
  <2> QED BY <1>1, <2>1, <2>2
<1> HIDE DEF B
<1>5. Max(B) = n
  <2>1. B \subseteq Int /\ \A k \in B : k <= n
    BY <1>4
  <2> QED BY <1>3, <2>1, MaxIs
<1> QED BY <1>1, <1>2, <1>3, <1>5 DEF u

\* Any other word is no target.
LEMMA TargetSkip ==
  ASSUME NEW T, NEW t \in Seq(T), NEW x \in T, NEW ops,
         t = <<>> \/ t[Len(t)].op \notin ops, x.op \notin ops
  PROVE  Target(Append(t, x), ops) = Target(t, ops)
<1> DEFINE u == Append(t, x)
           n == Len(t)
           A == TargetAt(t, ops)
           B == TargetAt(u, ops)
<1>1. /\ n \in Nat /\ u[n + 1] = x /\ DOMAIN u = 1 .. n + 1 /\ DOMAIN t = 1 .. n
      /\ \A k \in 1 .. n : u[k] = t[k]
      /\ t = <<>> <=> n = 0
  BY AppendIs
<1>2. /\ Target(u, ops) = IF B = {} THEN <<>> ELSE u[Max(B) + 1].word
      /\ Target(t, ops) = IF A = {} THEN <<>> ELSE t[Max(A) + 1].word
  BY DEF Target, TargetAt
<1> HIDE DEF u, n
<1>3. A = B
  <2>1. ASSUME NEW k PROVE k \in A <=> k \in B
    <3>1. k \in 1 .. n => (k \in A <=> k \in B)
      <4>1. k \in 1 .. n => k \in 1 .. n + 1
        BY <1>1
      <4> QED BY <1>1, <4>1 DEF TargetAt
    <3>2. k \in A => k \in 1 .. n
      BY <1>1 DEF TargetAt
    <3>3. k \in B => k \in 1 .. n
      <4>1. k \in B => k \in 1 .. n + 1 /\ k # n + 1
        BY <1>1 DEF TargetAt
      <4> QED BY <1>1, <4>1
    <3> QED BY <3>1, <3>2, <3>3
  <2> QED BY <2>1
<1>4. CASE A = {}
  BY <1>2, <1>3, <1>4 DEF u
<1>5. CASE A # {}
  <2>1. A \subseteq 1 .. n
    BY <1>1 DEF TargetAt
  <2>2. n \notin A
    BY <1>1 DEF TargetAt, n
  <2> HIDE DEF A
  <2>3. IsFiniteSet(A) /\ A \subseteq Int
    <3>1. IsFiniteSet(1 .. n)
      BY <1>1, FS_Interval
    <3>2. IsFiniteSet(A)
      BY <2>1, <3>1, FS_Subset
    <3> QED BY <1>1, <2>1, <3>2
  <2>4. PICK m \in A : \A k \in A : k <= m
    BY <1>5, <2>3, GreatestOf
  <2>5. Max(A) = m
    BY <2>3, <2>4, MaxIs
  <2>6. m + 1 \in 1 .. n
    <3>1. m \in 1 .. n /\ m # n
      BY <2>1, <2>2
    <3> QED BY <1>1, <3>1
  <2> QED BY <1>1, <1>2, <1>3, <1>5, <2>5, <2>6 DEF u
<1> QED BY <1>4, <1>5

-----------------------------------------------------------------------------
(* The calls of a line *)

\* Where the operators stand, and in order.
OpsAt(y) == {k \in DOMAIN y : y[k].op \in DOMAIN Operators}
OpsIn(y) == Ordered(OpsAt(y))

\* The operator in front of the call c + 1.
Before(y, c) ==
  IF c = 0 THEN 0 ELSE IF c <= Len(OpsIn(y)) THEN OpsIn(y)[c] ELSE Len(y) + 1

LEMMA OpsAre ==
  ASSUME NEW T, NEW y \in Seq(T)
  PROVE  /\ Ascends(OpsIn(y), OpsAt(y)) /\ OpsAt(y) \in SUBSET Int /\ OpsAt(y) \subseteq 1 .. Len(y)
         /\ Len(OpsIn(y)) \in Nat /\ Len(y) \in Nat /\ OpsIn(y) \in Seq(Int)
         /\ \A c \in 1 .. Len(OpsIn(y)) : OpsIn(y)[c] \in 1 .. Len(y)
<1>0. DOMAIN y = 1 .. Len(y) /\ Len(y) \in Nat
  BY LineIs
<1>1. OpsAt(y) \subseteq 1 .. Len(y)
  BY <1>0 DEF OpsAt
<1>2. OpsAt(y) \in SUBSET Int /\ IsFiniteSet(OpsAt(y))
  <2>1. IsFiniteSet(1 .. Len(y)) /\ 1 .. Len(y) \subseteq Int
    BY <1>0, FS_Interval
  <2> QED BY <1>1, <2>1, FS_Subset
<1>3. Ascends(OpsIn(y), OpsAt(y))
  BY <1>2, OrderedIs DEF OpsIn
<1> DEFINE a == OpsIn(y)
<1> HIDE DEF a
<1>4. Len(a) \in Nat /\ DOMAIN a = 1 .. Len(a) /\ a \in Seq(OpsAt(y))
  BY <1>3 DEF Ascends, a
<1>5. \A c \in 1 .. Len(a) : a[c] \in OpsAt(y)
  BY <1>4
<1>6. a \in Seq(Int)
  BY <1>2, <1>4, <1>5
<1> QED BY <1>0, <1>1, <1>2, <1>3, <1>4, <1>5, <1>6 DEF a

LEMMA EndsAre ==
  ASSUME NEW T, NEW a \in Seq(T), NEW o \in T, NEW n \in T, NEW c \in 0 .. Len(a) + 1
  PROVE  (<<o>> \o a \o <<n>>)[c + 1] =
           IF c = 0 THEN o ELSE IF c <= Len(a) THEN a[c] ELSE n
<1> DEFINE x == <<o>>
           y == <<n>>
           z == x \o a
<1>1. x \in Seq(T) /\ Len(x) = 1 /\ x[1] = o /\ y \in Seq(T) /\ Len(y) = 1 /\ y[1] = n
  OBVIOUS
<1>2. Len(a) \in Nat
  OBVIOUS
<1> HIDE DEF x, y
<1>3. /\ z \in Seq(T) /\ Len(z) = 1 + Len(a)
      /\ \A k \in 1 .. 1 : z[k] = x[k]
      /\ \A k \in 1 .. Len(a) : z[1 + k] = a[k]
  <2>1. /\ z \in Seq(T) /\ Len(z) = Len(x) + Len(a)
        /\ \A k \in 1 .. Len(x) : z[k] = x[k]
        /\ \A k \in 1 .. Len(a) : z[Len(x) + k] = a[k]
    BY <1>1, JoinedIs
  <2> HIDE DEF z
  <2> QED BY <1>1, <2>1
<1> HIDE DEF z
<1>4. /\ \A k \in 1 .. 1 + Len(a) : (z \o y)[k] = z[k]
      /\ \A k \in 1 .. 1 : (z \o y)[1 + Len(a) + k] = y[k]
  <2> DEFINE v == z \o y
  <2>0. z \in Seq(T) /\ y \in Seq(T)
    BY <1>1, <1>3
  <2>1. /\ \A k \in 1 .. Len(z) : v[k] = z[k]
        /\ \A k \in 1 .. Len(y) : v[Len(z) + k] = y[k]
    BY <2>0, JoinedIs
  <2> HIDE DEF v
  <2>2. /\ \A k \in 1 .. 1 + Len(a) : v[k] = z[k]
        /\ \A k \in 1 .. 1 : v[1 + Len(a) + k] = y[k]
    BY <1>1, <1>3, <2>1
  <2> QED BY <2>2 DEF v
<1>5. CASE c = 0
  <2>1. c + 1 = 1 /\ 1 \in 1 .. 1 + Len(a) /\ 1 \in 1 .. 1
    BY <1>2, <1>5
  <2>2. (z \o y)[1] = z[1] /\ z[1] = x[1]
    BY <1>3, <1>4, <2>1
  <2> QED BY <1>1, <1>5, <2>1, <2>2 DEF x, y, z
<1>6. CASE c # 0 /\ c <= Len(a)
  <2>1. c \in 1 .. Len(a) /\ c + 1 \in 1 .. 1 + Len(a) /\ c + 1 = 1 + c
    BY <1>2, <1>6
  <2>2. (z \o y)[c + 1] = z[c + 1] /\ z[c + 1] = a[c]
    BY <1>3, <1>4, <2>1
  <2> QED BY <1>6, <2>2 DEF x, y, z
<1>7. CASE c # 0 /\ ~ (c <= Len(a))
  <2>1. c + 1 = 1 + Len(a) + 1 /\ 1 \in 1 .. 1
    BY <1>2, <1>7
  <2>2. (z \o y)[c + 1] = n
    BY <1>1, <1>4, <2>1
  <2> QED BY <1>7, <2>2 DEF x, y, z
<1> QED BY <1>5, <1>6, <1>7

\* The calls are between the operators.
LEMMA CallsAre ==
  ASSUME NEW T, NEW y \in Seq(T), NEW m, m = Len(OpsIn(y))
  PROVE  /\ DOMAIN Calls(y) = 1 .. m + 1 /\ Len(Calls(y)) = m + 1 /\ m \in Nat
         /\ \A c \in 0 .. m : Calls(y)[c + 1] =
              [tokens |-> Part(y, Before(y, c), Before(y, c + 1) - 1),
               mode |-> IF c + 1 <= m THEN Operators[y[Before(y, c + 1)].op] ELSE "pipe"]
<1> DEFINE ends == <<0>> \o OpsIn(y) \o <<Len(y) + 1>>
           f == [c \in 1 .. m + 1 |->
                   [tokens |-> SubSeq(y, ends[c] + 1, ends[c + 1] - 1),
                    mode |-> IF c <= m THEN Operators[y[OpsIn(y)[c]].op] ELSE "pipe"]]
<1>1. Calls(y) = f
  BY DEF Calls, OpsIn, OpsAt
<1>2. m \in Nat /\ OpsIn(y) \in Seq(Int) /\ Len(y) \in Int
  <2>1. Len(y) \in Nat
    BY LineIs
  <2> QED BY <2>1, OpsAre
<1>3. \A c \in 0 .. m + 1 : ends[c + 1] = Before(y, c)
  <2> DEFINE Z == Int
  <2>1. OpsIn(y) \in Seq(Z) /\ 0 \in Z /\ Len(y) + 1 \in Z
    BY <1>2
  <2> HIDE DEF Z
  <2>2. ASSUME NEW c \in 0 .. m + 1
        PROVE  ends[c + 1] = IF c = 0 THEN 0 ELSE IF c <= m THEN OpsIn(y)[c] ELSE Len(y) + 1
    BY <2>1, EndsAre
  <2> QED BY <2>2 DEF Before
<1> HIDE DEF ends
<1>4. DOMAIN f = 1 .. m + 1 /\ Len(f) = m + 1
  BY <1>2
<1>5. ASSUME NEW c \in 0 .. m
      PROVE  f[c + 1] =
               [tokens |-> Part(y, Before(y, c), Before(y, c + 1) - 1),
                mode |-> IF c + 1 <= m THEN Operators[y[Before(y, c + 1)].op] ELSE "pipe"]
  <2>1. c + 1 \in 1 .. m + 1 /\ c + 1 \in 0 .. m + 1 /\ c \in 0 .. m + 1 /\ c + 1 # 0
    BY <1>2
  <2>2. ends[c + 1] = Before(y, c) /\ ends[(c + 1) + 1] = Before(y, c + 1)
    BY <1>3, <2>1
  <2>3. c + 1 <= m => Before(y, c + 1) = OpsIn(y)[c + 1]
    BY <2>1 DEF Before
  <2> QED BY <2>1, <2>2, <2>3 DEF Part
<1> HIDE DEF f
<1> QED BY <1>1, <1>2, <1>4, <1>5

\* The token k belongs to the call c + 1, which begins behind s.
InCall(y, c, s, k) ==
  /\ c \in 0 .. Len(OpsIn(y)) /\ s = Before(y, c) /\ k \in 0 .. Len(y) /\ s \in 0 .. k
  /\ Split(OpsIn(y), k + 1, c)

\* The first call begins with the line; a call goes on up to an operator, or to the end.
LEMMA InCallFirst ==
  ASSUME NEW T, NEW y \in Seq(T)
  PROVE  InCall(y, 0, 0, 0)
<1>1. Ascends(OpsIn(y), OpsAt(y)) /\ OpsAt(y) \in SUBSET Int /\ \A x \in OpsAt(y) : 0 + 1 <= x
  <2>1. Ascends(OpsIn(y), OpsAt(y)) /\ OpsAt(y) \in SUBSET Int /\ OpsAt(y) \subseteq 1 .. Len(y)
    BY OpsAre
  <2> QED BY <2>1
<1>2. 0 + 1 \in Int
  OBVIOUS
<1>3. Split(OpsIn(y), 0 + 1, 0)
  BY ONLY <1>1, <1>2, SplitFirst
<1>4. Len(OpsIn(y)) \in Nat /\ Len(y) \in Nat
  BY OpsAre
<1>5. 0 \in 0 .. Len(OpsIn(y)) /\ 0 \in 0 .. Len(y) /\ 0 \in 0 .. 0
  BY ONLY <1>4
<1> QED BY <1>3, <1>5 DEF InCall, Before

LEMMA InCallWord ==
  ASSUME NEW T, NEW y \in Seq(T), NEW c, NEW s, NEW k, InCall(y, c, s, k),
         k + 1 \in 1 .. Len(y), y[k + 1].op \notin DOMAIN Operators
  PROVE  InCall(y, c, s, k + 1)
<1>1. Ascends(OpsIn(y), OpsAt(y)) /\ OpsAt(y) \in SUBSET Int /\ Len(y) \in Nat
  BY OpsAre
<1>2. k + 1 \in Int /\ (k + 1) + 1 \in Int /\ k + 1 <= (k + 1) + 1
      /\ \A t \in k + 1 .. ((k + 1) + 1) - 1 : t = k + 1
  <2>1. k + 1 \in Int
    OBVIOUS
  <2> QED BY ONLY <2>1
<1>3. k + 1 \notin OpsAt(y)
  BY DEF OpsAt
<1>4. Split(OpsIn(y), (k + 1) + 1, c)
  <2>1. Split(OpsIn(y), k + 1, c)
    BY DEF InCall
  <2>2. \A t \in k + 1 .. ((k + 1) + 1) - 1 : t \notin OpsAt(y)
    BY <1>2, <1>3
  <2> QED BY ONLY <1>1, <1>2, <2>1, <2>2, SplitOver
<1>5. k + 1 \in 0 .. Len(y) /\ s \in 0 .. k + 1
  <2>1. k \in 0 .. Len(y) /\ s \in 0 .. k
    BY DEF InCall
  <2> QED BY ONLY <1>1, <2>1, k + 1 \in 1 .. Len(y)
<1> QED BY <1>4, <1>5 DEF InCall

LEMMA InCallOp ==
  ASSUME NEW T, NEW y \in Seq(T), NEW c, NEW s, NEW k, InCall(y, c, s, k),
         k + 1 \in 1 .. Len(y), y[k + 1].op \in DOMAIN Operators
  PROVE  /\ InCall(y, c + 1, k + 1, k + 1)
         /\ c \in Nat /\ c + 1 \in DOMAIN Calls(y) /\ Calls(y)[c + 1].tokens = Part(y, s, k)
         /\ Calls(y)[c + 1].mode = Operators[y[k + 1].op]
<1> DEFINE m == Len(OpsIn(y))
<1>1. /\ Ascends(OpsIn(y), OpsAt(y)) /\ OpsAt(y) \in SUBSET Int /\ Len(y) \in Nat /\ m \in Nat
      /\ DOMAIN y = 1 .. Len(y)
  BY OpsAre, LineIs
<1>2. k + 1 \in OpsAt(y)
  BY <1>1 DEF OpsAt
<1>3. c \in 0 .. m /\ s = Before(y, c) /\ k \in 0 .. Len(y) /\ Split(OpsIn(y), k + 1, c)
  BY DEF InCall
<1>4. c + 1 \in 1 .. m /\ OpsIn(y)[c + 1] = k + 1 /\ Split(OpsIn(y), (k + 1) + 1, c + 1)
  BY ONLY <1>1, <1>2, <1>3, SplitNext
<1> HIDE DEF m
<1>5. /\ c + 1 \in 0 .. m /\ k + 1 \in 0 .. Len(y) /\ k + 1 \in 0 .. k + 1 /\ c + 1 # 0 /\ c + 1 <= m
      /\ c + 1 \in 1 .. m + 1 /\ (k + 1) - 1 = k /\ c \in Nat
  BY ONLY <1>1, <1>3, <1>4, k + 1 \in 1 .. Len(y)
<1>6. Before(y, c + 1) = k + 1
  BY <1>4, <1>5 DEF Before, m
<1>7. InCall(y, c + 1, k + 1, k + 1)
  BY <1>4, <1>5, <1>6 DEF InCall, m
<1>8. /\ DOMAIN Calls(y) = 1 .. m + 1
      /\ Calls(y)[c + 1] =
           [tokens |-> Part(y, Before(y, c), Before(y, c + 1) - 1),
            mode |-> IF c + 1 <= m THEN Operators[y[Before(y, c + 1)].op] ELSE "pipe"]
  BY <1>3, CallsAre DEF m
<1>9. /\ Calls(y)[c + 1].tokens = Part(y, Before(y, c), Before(y, c + 1) - 1)
      /\ Calls(y)[c + 1].mode = Operators[y[Before(y, c + 1)].op]
  BY <1>5, <1>8
<1> QED BY <1>3, <1>5, <1>6, <1>7, <1>8, <1>9

LEMMA InCallEnd ==
  ASSUME NEW T, NEW y \in Seq(T), NEW c, NEW s, InCall(y, c, s, Len(y))
  PROVE  /\ Len(Calls(y)) = c + 1 /\ DOMAIN Calls(y) = 1 .. c + 1 /\ c \in Nat
         /\ Calls(y)[c + 1].tokens = Part(y, s, Len(y)) /\ Calls(y)[c + 1].mode = "pipe"
<1> DEFINE m == Len(OpsIn(y))
<1>1. /\ Ascends(OpsIn(y), OpsAt(y)) /\ OpsAt(y) \in SUBSET Int /\ Len(y) \in Nat /\ m \in Nat
      /\ OpsAt(y) \subseteq 1 .. Len(y)
  BY OpsAre
<1>2. c \in 0 .. m /\ s = Before(y, c) /\ Split(OpsIn(y), Len(y) + 1, c)
  BY DEF InCall
<1>3. c = m
  <2>1. Len(y) + 1 \in Int /\ \A x \in OpsAt(y) : x < Len(y) + 1
    BY <1>1
  <2> QED BY ONLY <1>1, <1>2, <2>1, SplitEnd
<1> HIDE DEF m
<1>4. ~ (c + 1 <= m) /\ c + 1 # 0 /\ (Len(y) + 1) - 1 = Len(y)
  BY ONLY <1>1, <1>3
<1>5. Before(y, c + 1) = Len(y) + 1
  BY <1>4 DEF Before, m
<1>6. /\ DOMAIN Calls(y) = 1 .. m + 1 /\ Len(Calls(y)) = m + 1
      /\ Calls(y)[c + 1] =
           [tokens |-> Part(y, Before(y, c), Before(y, c + 1) - 1),
            mode |-> IF c + 1 <= m THEN Operators[y[Before(y, c + 1)].op] ELSE "pipe"]
  BY <1>2, CallsAre DEF m
<1>7. /\ Calls(y)[c + 1].tokens = Part(y, Before(y, c), Before(y, c + 1) - 1)
      /\ Calls(y)[c + 1].mode = "pipe"
  BY <1>4, <1>6
<1> QED BY <1>1, <1>2, <1>3, <1>4, <1>5, <1>6, <1>7

LEMMA InCallToken ==
  ASSUME NEW T, NEW y \in Seq(T), NEW c, NEW s, NEW k, InCall(y, c, s, k),
         k + 1 \in 1 .. Len(y), y[k + 1].op \notin DOMAIN Operators,
         NEW t, t = Calls(y)[c + 1].tokens
  PROVE  /\ c + 1 \in DOMAIN Calls(y) /\ k + 1 - s \in DOMAIN t /\ t[k + 1 - s] = y[k + 1]
         /\ k + 1 - s < Len(t) => k + 2 \in 1 .. Len(y) /\ t[k + 1 - s + 1] = y[k + 2]
<1> DEFINE m == Len(OpsIn(y))
           z == Before(y, c + 1) - 1
<1>1. /\ Ascends(OpsIn(y), OpsAt(y)) /\ OpsAt(y) \in SUBSET Int /\ Len(y) \in Nat /\ m \in Nat
      /\ OpsAt(y) \subseteq 1 .. Len(y)
      /\ \A d \in 1 .. m : OpsIn(y)[d] \in 1 .. Len(y)
  BY OpsAre
<1>2. c \in 0 .. m /\ s = Before(y, c) /\ Split(OpsIn(y), k + 1, c) /\ k \in 0 .. Len(y) /\ s \in 0 .. k
  BY DEF InCall
<1>3. z \in k + 1 .. Len(y)
  <2>1. CASE c + 1 <= m
    <3>1. c + 1 \in 1 .. m /\ c + 1 # 0 /\ ~ (c + 1 <= c)
      BY ONLY <1>1, <1>2, <2>1
    <3>2. ~ (OpsIn(y)[c + 1] < k + 1) /\ OpsIn(y)[c + 1] \in 1 .. Len(y)
      BY <1>1, <1>2, <3>1 DEF Split
    <3>3. OpsIn(y)[c + 1] \in OpsAt(y)
      BY <1>1, <3>1 DEF Ascends
    <3>4. OpsIn(y)[c + 1] # k + 1
      BY <3>3 DEF OpsAt
    <3>5. Before(y, c + 1) = OpsIn(y)[c + 1]
      BY <2>1, <3>1 DEF Before
    <3> QED BY <1>1, <1>2, <3>2, <3>4, <3>5
  <2>2. CASE ~ (c + 1 <= m)
    <3>1. c + 1 # 0
      BY ONLY <1>1, <1>2
    <3>2. Before(y, c + 1) = Len(y) + 1
      BY <2>2, <3>1 DEF Before
    <3> QED BY <1>1, <3>2
  <2> QED BY <2>1, <2>2
<1>4. c + 1 \in DOMAIN Calls(y) /\ t = Part(y, s, z)
  <2>1. /\ DOMAIN Calls(y) = 1 .. m + 1
        /\ Calls(y)[c + 1] =
             [tokens |-> Part(y, Before(y, c), Before(y, c + 1) - 1),
              mode |-> IF c + 1 <= m THEN Operators[y[Before(y, c + 1)].op] ELSE "pipe"]
    BY <1>2, CallsAre
  <2>2. c + 1 \in 1 .. m + 1
    BY ONLY <1>1, <1>2
  <2>3. Calls(y)[c + 1].tokens = Part(y, Before(y, c), Before(y, c + 1) - 1)
    BY <2>1
  <2> QED BY <1>2, <2>1, <2>2, <2>3
<1> HIDE DEF z, m
<1>5. z \in 0 .. Len(y) /\ s \in 0 .. z
  BY ONLY <1>1, <1>2, <1>3
<1>6. /\ Len(t) = z - s /\ DOMAIN t = 1 .. z - s
      /\ \A j \in 1 .. z - s : t[j] = y[s + j]
  <2> DEFINE p == Part(y, s, z)
  <2>1. /\ Len(p) = z - s /\ DOMAIN p = 1 .. z - s
        /\ \A j \in 1 .. z - s : p[j] = y[s + j]
    BY <1>5, PartIs
  <2> HIDE DEF p
  <2>2. t = p
    BY <1>4 DEF p
  <2> QED BY <2>1, <2>2
<1>7. /\ k + 1 - s \in 1 .. z - s /\ s + (k + 1 - s) = k + 1
      /\ k + 1 - s < z - s => /\ k + 2 \in 1 .. Len(y) /\ k + 1 - s + 1 \in 1 .. z - s
                              /\ s + (k + 1 - s + 1) = k + 2
  <2>1. /\ k \in Int /\ s \in Int /\ z \in Int /\ Len(y) \in Int
        /\ 0 <= s /\ s <= k /\ k + 1 <= z /\ z <= Len(y)
    BY ONLY <1>1, <1>2, <1>3
  <2>2. k + 1 - s \in 1 .. z - s /\ s + (k + 1 - s) = k + 1
    BY ONLY <2>1
  <2>3. s + (k + 1 - s + 1) = k + 2
    BY ONLY <2>1
  <2>4. ASSUME k + 1 - s < z - s PROVE k + 2 \in 1 .. Len(y) /\ k + 1 - s + 1 \in 1 .. z - s
    BY ONLY <2>1, <2>4
  <2> QED BY <2>2, <2>3, <2>4
<1> QED BY <1>4, <1>6, <1>7

\* A token of a call that is fine.
ProperToken(y, k) ==
  /\ y[k].op # "&"
  /\ y[k].op = "word" => y[k].word # <<>>
  /\ y[k].op \in Redirections => k + 1 \in 1 .. Len(y) /\ y[k + 1].op = "word"

LEMMA OperatorsAre == DOMAIN Operators = {"|", "||", "&&"}
BY DEF Operators

LEMMA ProperNext ==
  ASSUME NEW T, NEW y \in Seq(T), Proper(Calls(y)), NEW c, NEW s, NEW k, InCall(y, c, s, k),
         k + 1 \in 1 .. Len(y)
  PROVE  ProperToken(y, k + 1)
<1>1. CASE y[k + 1].op \in DOMAIN Operators
  BY <1>1, OperatorsAre DEF ProperToken, Redirections
<1>2. CASE y[k + 1].op \notin DOMAIN Operators
  <2> DEFINE t == Calls(y)[c + 1].tokens
             j == k + 1 - s
  <2>1. /\ c + 1 \in DOMAIN Calls(y) /\ j \in DOMAIN t /\ t[j] = y[k + 1]
        /\ j < Len(t) => k + 2 \in 1 .. Len(y) /\ t[j + 1] = y[k + 2]
    BY <1>2, InCallToken
  <2>2. \A i \in DOMAIN t :
          /\ t[i].op # "&"
          /\ t[i].op = "word" => t[i].word # <<>>
          /\ t[i].op \in Redirections => i < Len(t) /\ t[i + 1].op = "word"
    BY <2>1 DEF Proper
  <2> HIDE DEF t, j
  <2>3. /\ t[j].op # "&"
        /\ t[j].op = "word" => t[j].word # <<>>
        /\ t[j].op \in Redirections => j < Len(t) /\ t[j + 1].op = "word"
    BY <2>1, <2>2
  <2>4. (k + 1) + 1 = k + 2
    <3>1. k \in Int
      <4>1. Len(y) \in Nat
        BY LineIs
      <4> QED BY <4>1 DEF InCall
    <3> QED BY ONLY <3>1
  <2> QED BY <2>1, <2>3, <2>4 DEF ProperToken
<1> QED BY <1>1, <1>2

\* Every token is in a call.
LEMMA CallOf ==
  ASSUME NEW T, NEW y \in Seq(T), NEW k \in 0 .. Len(y)
  PROVE  \E c, s : InCall(y, c, s, k)
<1> DEFINE n == Len(y)
           P == {i \in 0 .. n : \E c, s : InCall(y, c, s, i)}
<1>0. n \in Nat
  BY LineIs
<1>1. 0 \in P
  <2>1. InCall(y, 0, 0, 0)
    BY InCallFirst
  <2> QED BY <1>0, <2>1
<1>2. ASSUME NEW i \in 0 .. n, i < n, i \in P PROVE i + 1 \in P
  <2>1. PICK c, s : InCall(y, c, s, i)
    BY <1>2
  <2>2. i + 1 \in 1 .. n /\ i + 1 \in 0 .. n
    BY <1>0, <1>2
  <2>3. InCall(y, c, s, i + 1) \/ InCall(y, c + 1, i + 1, i + 1)
    BY <2>1, <2>2, InCallWord, InCallOp
  <2> QED BY <2>2, <2>3
<1> HIDE DEF P
<1>3. \A i \in 0 .. n : i \in P
  BY <1>0, <1>1, <1>2, StepwiseHolds
<1> QED BY <1>3 DEF P

\* The tokens of proper calls are fine.
LEMMA ProperTokens ==
  ASSUME NEW T, NEW y \in Seq(T), Proper(Calls(y)), NEW k \in 1 .. Len(y)
  PROVE  ProperToken(y, k)
<1> DEFINE i == k - 1
<1>1. i \in 0 .. Len(y) /\ i + 1 = k /\ i + 1 \in 1 .. Len(y)
  <2>1. Len(y) \in Nat
    BY LineIs
  <2> QED BY <2>1
<1> HIDE DEF i
<1>2. PICK c, s : InCall(y, c, s, i)
  BY <1>1, CallOf
<1>3. ProperToken(y, i + 1)
  BY <1>1, <1>2, ProperNext
<1> QED BY <1>1, <1>3

-----------------------------------------------------------------------------
(* What the tokens of a call mean *)

\* The words and the targets of the tokens from s + 1 to k.
Made(y, s, k, a, i, o) ==
  /\ a = Arguments(Part(y, s, k)) /\ i = Target(Part(y, s, k), {"<"})
  /\ o = Target(Part(y, s, k), {">", ">>"})

\* No redirection waits for its target.
Settled(y, s, k) == k = s \/ y[k].op = "word"

\* A call as it is made, word by word and redirection by redirection.
LEMMA MadeNone ==
  ASSUME NEW T, NEW y \in Seq(T), NEW s \in 0 .. Len(y)
  PROVE  Made(y, s, s, <<>>, <<>>, <<>>)
<1>1. Part(y, s, s) = <<>>
  <2>1. s \in 0 .. s
    OBVIOUS
  <2> QED BY <2>1, PartIs
<1> QED BY <1>1, ArgumentsNone, TargetNone DEF Made

\* The last token of a part that is settled is no redirection.
LEMMA PartSettled ==
  ASSUME NEW T, NEW y \in Seq(T), NEW k \in 0 .. Len(y), NEW s \in 0 .. k, Settled(y, s, k)
  PROVE  /\ Part(y, s, k) \in Seq(T)
         /\ \/ Part(y, s, k) = <<>>
            \/ Part(y, s, k) # <<>> /\ Part(y, s, k)[Len(Part(y, s, k))].op = "word"
<1> DEFINE t == Part(y, s, k)
<1>1. t \in Seq(T) /\ Len(t) = k - s /\ (s + 1 <= k => t[k - s] = y[k]) /\ (s = k => t = <<>>)
  BY PartIs
<1> HIDE DEF t
<1>2. s = k \/ s + 1 <= k
  <2>1. k \in Int /\ s \in Int /\ s <= k
    BY PartIs
  <2> QED BY ONLY <2>1
<1>3. CASE k = s
  BY <1>1, <1>3 DEF t
<1>4. CASE k # s
  <2>1. t[k - s].op = "word"
    BY <1>1, <1>2, <1>4 DEF Settled
  <2>2. t[Len(t)].op = "word"
    BY <1>1, <2>1
  <2> QED BY <1>1, <2>2 DEF t
<1> QED BY <1>3, <1>4

LEMMA MadeWord ==
  ASSUME NEW T, NEW y \in Seq(T), NEW k \in 0 .. Len(y), NEW s \in 0 .. k,
         k + 1 \in 1 .. Len(y), y[k + 1].op = "word", Settled(y, s, k),
         NEW a, NEW i, NEW o, Made(y, s, k, a, i, o)
  PROVE  Made(y, s, k + 1, Append(a, y[k + 1].word), i, o) /\ Settled(y, s, k + 1)
<1> DEFINE t == Part(y, s, k)
           x == y[k + 1]
<1>1. Part(y, s, k + 1) = Append(t, x) /\ x \in T
  BY PartNext
<1>2. /\ t \in Seq(T)
      /\ t = <<>> \/ (t # <<>> /\ t[Len(t)].op = "word")
  BY PartSettled
<1> HIDE DEF t
<1>3. x.op = "word"
  OBVIOUS
<1> HIDE DEF x
<1>4. Arguments(Append(t, x)) = Append(Arguments(t), x.word)
  BY <1>1, <1>2, <1>3, ArgumentsMore DEF Redirections
<1>5. /\ Target(Append(t, x), {"<"}) = Target(t, {"<"})
      /\ Target(Append(t, x), {">", ">>"}) = Target(t, {">", ">>"})
  <2>1. /\ t = <<>> \/ t[Len(t)].op \notin {"<"}
        /\ t = <<>> \/ t[Len(t)].op \notin {">", ">>"}
        /\ x.op \notin {"<"} /\ x.op \notin {">", ">>"}
    BY <1>2, <1>3
  <2> QED BY <1>1, <1>2, <2>1, TargetSkip
<1>6. Made(y, s, k + 1, Append(a, x.word), i, o)
  BY <1>1, <1>4, <1>5 DEF Made, t
<1> QED BY <1>6 DEF x, Settled

LEMMA MadeTarget ==
  ASSUME NEW T, NEW y \in Seq(T), NEW k \in 0 .. Len(y), NEW s \in 0 .. k,
         k + 1 \in 1 .. Len(y), (k + 1) + 1 \in 1 .. Len(y),
         NEW r, r = y[k + 1].op, r \in Redirections,
         NEW x, x = y[(k + 1) + 1], x.op = "word", Settled(y, s, k),
         NEW a, NEW i, NEW o, Made(y, s, k, a, i, o)
  PROVE  /\ Settled(y, s, (k + 1) + 1)
         /\ r = "<" => Made(y, s, (k + 1) + 1, a, x.word, o)
         /\ r # "<" => Made(y, s, (k + 1) + 1, a, i, x.word)
<1> DEFINE t == Part(y, s, k)
           u == Part(y, s, k + 1)
           z == y[k + 1]
<1>1. u = Append(t, z) /\ z \in T
  BY PartNext
<1>2. Part(y, s, (k + 1) + 1) = Append(u, x) /\ x \in T
  <2>1. k + 1 \in 0 .. Len(y) /\ s \in 0 .. k + 1
    OBVIOUS
  <2> DEFINE m == k + 1
  <2>2. m \in 0 .. Len(y) /\ s \in 0 .. m /\ m + 1 \in 1 .. Len(y)
    BY <2>1
  <2> HIDE DEF m
  <2>3. Part(y, s, m + 1) = Append(Part(y, s, m), y[m + 1]) /\ y[m + 1] \in T
    BY <2>2, PartNext
  <2> QED BY <2>3 DEF m
<1>3. /\ t \in Seq(T)
      /\ t = <<>> \/ (t # <<>> /\ t[Len(t)].op = "word")
  BY PartSettled
<1>4. z.op = r
  OBVIOUS
<1> HIDE DEF t, z
<1>5. /\ u \in Seq(T) /\ u # <<>> /\ u[Len(u)] = z
  <2> HIDE DEF u
  <2>1. u \in Seq(T) /\ Len(u) = Len(t) + 1 /\ u[Len(t) + 1] = z /\ Len(t) \in Nat
    BY <1>1, <1>3, AppendIs
  <2>2. u # <<>>
    BY <2>1
  <2> QED BY <2>1, <2>2
<1> HIDE DEF u
<1>6. Arguments(u) = Arguments(t) /\ Arguments(Append(u, x)) = Arguments(u)
  <2>1. z.op # "word"
    BY <1>4 DEF Redirections
  <2>2. Arguments(u) = Arguments(t)
    BY <1>1, <1>3, <2>1, ArgumentsMore
  <2>3. u # <<>> /\ u[Len(u)].op \in Redirections
    BY <1>4, <1>5
  <2>4. Arguments(Append(u, x)) = Arguments(u)
    BY <1>2, <1>5, <2>3, ArgumentsMore
  <2> QED BY <2>2, <2>4
<1>7. ASSUME NEW ops \in {{"<"}, {">", ">>"}}, r \in ops PROVE Target(Append(u, x), ops) = x.word
  <2>1. u[Len(u)].op \in ops /\ x.op \notin ops
    BY <1>4, <1>5, <1>7
  <2> QED BY <1>2, <1>5, <2>1, TargetTaken
<1>8. ASSUME NEW ops \in {{"<"}, {">", ">>"}}, r \notin ops PROVE Target(Append(u, x), ops) = Target(t, ops)
  <2>1. u[Len(u)].op \notin ops /\ x.op \notin ops /\ z.op \notin ops
    BY <1>4, <1>5, <1>8
  <2>2. t = <<>> \/ t[Len(t)].op \notin ops
    BY <1>3
  <2>3. Target(u, ops) = Target(t, ops)
    BY <1>1, <1>3, <2>1, <2>2, TargetSkip
  <2>4. Target(Append(u, x), ops) = Target(u, ops)
    BY <1>2, <1>5, <2>1, TargetSkip
  <2> QED BY <2>3, <2>4
<1>9. a = Arguments(t) /\ i = Target(t, {"<"}) /\ o = Target(t, {">", ">>"})
  BY DEF Made, t
<1>10. CASE r = "<"
  <2>1. Target(Append(u, x), {"<"}) = x.word
    BY <1>7, <1>10
  <2>2. Target(Append(u, x), {">", ">>"}) = o
    BY <1>8, <1>9, <1>10
  <2>3. Made(y, s, (k + 1) + 1, a, x.word, o)
    BY <1>2, <1>6, <1>9, <2>1, <2>2 DEF Made
  <2> QED BY <1>10, <2>3 DEF Settled
<1>11. CASE r # "<"
  <2>1. r \in {">", ">>"} /\ r \notin {"<"}
    BY <1>11 DEF Redirections
  <2>2. Target(Append(u, x), {">", ">>"}) = x.word
    BY <1>7, <2>1
  <2>3. Target(Append(u, x), {"<"}) = i
    BY <1>8, <1>9, <2>1
  <2>4. Made(y, s, (k + 1) + 1, a, i, x.word)
    BY <1>2, <1>6, <1>9, <2>2, <2>3 DEF Made
  <2> QED BY <1>11, <2>4 DEF Settled
<1> QED BY <1>10, <1>11

\* Where a token is a word, a word is found.
LEMMA WordFound ==
  ASSUME input \in Seq(Char), NEW L, NEW b, NEW e, LineAt(L, b, e),
         NEW k \in Nat, NEW l, NEW q, NEW w, Found(L, b, k, l, q, w),
         k + 1 \in 1 .. Len(Read(L)), Read(L)[k + 1].op = "word"
  PROVE  /\ l = k + 1 /\ Tokens(L)[k + 1].end = q /\ w.word = Read(L)[k + 1].word
         /\ q \in 1 .. Len(L) + 1
<1>0. L \in Seq(Char) /\ Unquoted(L, Len(L) + 1)
  BY DEF LineAt
<1>1. k + 1 \in 1 .. Len(Tokens(L)) /\ Tokens(L)[k + 1] = Read(L)[k + 1]
  BY <1>0, ReadIs
<1>2. l # k
  <2> SUFFICES ASSUME l = k PROVE FALSE
    OBVIOUS
  <2>1. k # k + 1
    OBVIOUS
  <2>2. Reached(L, q, k) /\ q \in 1 .. Len(L) + 1 /\ (q = Len(L) + 1 \/ ~ Blank(L, q))
        /\ (q = Len(L) + 1 \/ q \in Meta(L))
    BY <2>1 DEF Found
  <2>3. CASE q = Len(L) + 1
    <3>1. k = Len(Tokens(L))
      BY <1>0, <2>2, <2>3, ReachedEnd
    <3> QED BY <1>1, <3>1
  <2>4. CASE q # Len(L) + 1
    <3>1. q \in 1 .. Len(L) /\ ~ Blank(L, q) /\ q \in Meta(L)
      BY <2>2, <2>4, Places
    <3>2. q \in Begins(L) /\ Tokens(L)[k + 1] = Token(L, q)
      BY <1>0, <2>2, <3>1, ReachedToken
    <3>3. L[q] \in {"<", ">", "&", "|"}
          /\ (q + 1 \in Second(L) => L[q] # "<")
      BY <1>0, <3>1, <3>2, OperatorEndIs
    <3>4. Token(L, q).op # "word"
      BY <3>1, <3>3, OperatorToken
    <3> QED BY <1>1, <3>2, <3>4
  <2> QED BY <2>3, <2>4
<1> QED BY <1>1, <1>2 DEF Found

-----------------------------------------------------------------------------
(* A command and the call it means *)

\* The commands the line L means.
Means(L)     == Meaning(Calls(Read(L)))
\* The first c commands of m.
Prefix(m, c) == [d \in 1 .. c |-> m[d]]

LEMMA PrefixMore ==
  ASSUME NEW m, NEW c \in Nat
  PROVE  /\ Prefix(m, 0) = <<>>
         /\ Append(Prefix(m, c), m[c + 1]) = Prefix(m, c + 1)
<1> DEFINE S == {m[d] : d \in 1 .. c + 1}
           p == Prefix(m, c)
           x == m[c + 1]
           a == Append(p, x)
<1>1. p \in [1 .. c -> S]
  BY DEF Prefix
<1>2. x \in S
  BY SMT
<1> HIDE DEF S
<1>3. p \in Seq(S) /\ Len(p) = c
  BY <1>1
<1>4. \A d \in 1 .. c : p[d] = m[d]
  BY DEF Prefix
<1> HIDE DEF p
<1>5. /\ a \in Seq(S) /\ Len(a) = c + 1 /\ DOMAIN a = 1 .. c + 1 /\ a[c + 1] = x
      /\ \A d \in 1 .. c : a[d] = p[d]
  BY <1>2, <1>3, AppendIs
<1> HIDE DEF a
<1>6. \A d \in 1 .. c + 1 : a[d] = m[d]
  <2> TAKE d \in 1 .. c + 1
  <2>1. d \in 1 .. c \/ d = c + 1
    OBVIOUS
  <2> QED BY <1>4, <1>5, <2>1
<1>7. a = Prefix(m, c + 1)
  <2>1. a = [d \in 1 .. c + 1 |-> a[d]]
    BY <1>5
  <2> QED BY <1>6, <2>1 DEF Prefix
<1>8. Prefix(m, 0) = <<>>
  BY DEF Prefix
<1> QED BY <1>7, <1>8 DEF a, p

IsCommand(r) == r = [argv |-> r.argv, in |-> r.in, out |-> r.out, mode |-> r.mode]

\* A command that is made like a call, with the operator behind it, is what the call means.
LEMMA Meant ==
  ASSUME NEW y, NEW d \in DOMAIN Calls(y), NEW s, NEW k, Calls(y)[d].tokens = Part(y, s, k),
         NEW r, IsCommand(r), r.mode = Calls(y)[d].mode, Made(y, s, k, r.argv, r.in, r.out)
  PROVE  Meaning(Calls(y))[d] = r
BY DEF Meaning, Made, IsCommand

LEMMA MeansAll ==
  ASSUME NEW y, NEW n, DOMAIN Calls(y) = 1 .. n
  PROVE  Meaning(Calls(y)) = Prefix(Meaning(Calls(y)), n)
BY DEF Meaning, Prefix

\* A line of the grammar that is not read as another.
Good(L) == Proper(Calls(Read(L))) /\ ~ Glued(L, Tokens(L)) /\ ~ Lost(L, Tokens(L))

LEMMA GoodIs ==
  ASSUME NEW T, NEW L \in Seq(T), Good(L)
  PROVE  /\ NoAmp(L) /\ ~ Lost(L, Tokens(L))
         /\ \A k \in 1 .. Len(Read(L)) : ProperToken(Read(L), k)
<1> DEFINE y == Read(L)
           S == {Tokens(L)[k] : k \in 1 .. Len(Tokens(L))}
<1>1. y \in Seq(S) /\ Proper(Calls(y))
  BY ReadIs DEF Good
<1> HIDE DEF S, y
<1>2. ASSUME NEW k \in 1 .. Len(y) PROVE ProperToken(y, k)
  BY <1>1, <1>2, ProperTokens
<1>3. ~ Lost(L, Tokens(L))
  BY DEF Good
<1> QED BY <1>2, <1>3 DEF NoAmp, ProperToken, y

\* What w is when it is the word v with the command c.
Given(w, v, c) ==
  /\ w.status = v.status /\ w.next = v.next /\ w.mode = v.mode
  /\ w.background = v.background /\ w.error = "none" /\ w.to = c

LEMMA GivenIs ==
  ASSUME NEW v, IsWord(v), v.error = "none", v.to = cmd, IsCommand(cmd), NEW x
  PROVE  /\ Given([v EXCEPT !.to.in = x], v,
                  [argv |-> cmd.argv, in |-> x, out |-> cmd.out, mode |-> cmd.mode])
         /\ Given([v EXCEPT !.to.out = x], v,
                  [argv |-> cmd.argv, in |-> cmd.in, out |-> x, mode |-> cmd.mode])
         /\ Given([v EXCEPT !.to.argv = Append(@, x)], v,
                  [argv |-> Append(cmd.argv, x), in |-> cmd.in, out |-> cmd.out, mode |-> cmd.mode])
         /\ Given(v, v, cmd)
<1> DEFINE i == [argv |-> cmd.argv, in |-> x, out |-> cmd.out, mode |-> cmd.mode]
           o == [argv |-> cmd.argv, in |-> cmd.in, out |-> x, mode |-> cmd.mode]
           a == [argv |-> Append(cmd.argv, x), in |-> cmd.in, out |-> cmd.out, mode |-> cmd.mode]
<1>1. /\ [v.to EXCEPT !.in = x] = i /\ [v.to EXCEPT !.out = x] = o
      /\ [v.to EXCEPT !.argv = Append(@, x)] = a
  BY DEF IsCommand
<1>2. /\ [v EXCEPT !.to.in = x] = [v EXCEPT !.to = i]
      /\ [v EXCEPT !.to.out = x] = [v EXCEPT !.to = o]
      /\ [v EXCEPT !.to.argv = Append(@, x)] = [v EXCEPT !.to = a]
  BY <1>1 DEF IsWord
<1> HIDE DEF i, o, a
<1>3. ASSUME NEW c PROVE Given([v EXCEPT !.to = c], v, c)
  <2> DEFINE u == [v EXCEPT !.to = c]
  <2>1. u = [word |-> v.word, status |-> v.status, next |-> v.next, error |-> "none",
             mode |-> v.mode, background |-> v.background, to |-> c]
    BY DEF IsWord
  <2> HIDE DEF u
  <2>2. /\ u.status = v.status /\ u.next = v.next /\ u.mode = v.mode
        /\ u.background = v.background /\ u.error = "none" /\ u.to = c
    BY <2>1, Zenon
  <2> QED BY <2>2, Zenon DEF Given, u
<1>4. Given(v, v, cmd)
  BY Zenon DEF Given
<1> QED BY <1>2, <1>3, <1>4 DEF i, o, a

\* Where a line ends depends on what main() and the loop see of a turn.
LEMMA EndsSame ==
  ASSUME NEW L, NEW b, NEW e, NEW l, NEW v, Ends(L, b, e, l, v), NEW u,
         u.status = v.status, u.next = v.next, u.mode = v.mode, u.background = v.background
  PROVE  Ends(L, b, e, l, u)
<1>1. AtEnd(L, e, l, v) => AtEnd(L, e, l, u)
  BY Zenon DEF AtEnd
<1>2. Operation(L, b, l + 1, v) => Operation(L, b, l + 1, u)
  BY Zenon DEF Operation
<1> QED BY <1>1, <1>2, Zenon DEF Ends

-----------------------------------------------------------------------------
(* One turn of the loop, on a line of the grammar *)

\* The calls in p have been read, and of the next one the command x; a turn v ends there.
Midway(L, b, e, p, x, v) ==
  \E c, s, k :
    /\ p = Prefix(Means(L), c) /\ InCall(Read(L), c, s, k)
    /\ Made(Read(L), s, k, x.argv, x.in, x.out) /\ Settled(Read(L), s, k)
    /\ Ends(L, b, e, k, v)

\* The turn r goes on with the line.
Goes(L, b, e, p, r) == r.error = "none" /\ IsCommand(r.to) /\ Midway(L, b, e, p, r.to, r)

\* Of the call c + 1, which begins behind the token s, the tokens up to k are in cmd.
Inside(L, p, c, s, k) ==
  /\ p = Prefix(Means(L), c) /\ InCall(Read(L), c, s, k)
  /\ Made(Read(L), s, k, cmd.argv, cmd.in, cmd.out) /\ Settled(Read(L), s, k)
  /\ IsCommand(cmd)

LEMMA ReadTokens ==
  ASSUME NEW T, NEW L \in Seq(T)
  PROVE  \E S : Read(L) \in Seq(S)
BY ReadIs

\* A turn that reads an argument, or nothing.
LEMMA ArgumentGoes ==
  ASSUME NEW T, NEW L \in Seq(T), Good(L), NEW b, NEW e, NEW p, NEW c, NEW s, NEW k,
         Inside(L, p, c, s, k), NEW l, NEW v, Turned(L, b, e, k, l, v)
  PROVE  Goes(L, b, e, p, Argument(v))
<1> DEFINE y == Read(L)
           r == Argument(v)
           a == [argv |-> Append(cmd.argv, v.word), in |-> cmd.in, out |-> cmd.out,
                 mode |-> cmd.mode]
<1>1. PICK S : y \in Seq(S)
  BY ReadTokens
<1>2. /\ k \in 0 .. Len(y) /\ s \in 0 .. k
  BY DEF Inside, InCall
<1>3. \A j \in 1 .. Len(y) : ProperToken(y, j)
  BY GoodIs
<1> HIDE DEF y
<1>4. IsWord(v) /\ v.error = "none" /\ v.to = cmd /\ IsCommand(cmd) /\ Ends(L, b, e, l, v)
  BY DEF Turned, Inside
<1>5. /\ p = Prefix(Means(L), c) /\ InCall(y, c, s, k)
      /\ Made(y, s, k, cmd.argv, cmd.in, cmd.out) /\ Settled(y, s, k)
  BY DEF Inside, y
<1>6. CASE l = k /\ v.word = <<>>
  <2>1. r = v
    BY <1>6 DEF Argument, NoWord
  <2>2. Midway(L, b, e, p, v.to, v)
    BY <1>4, <1>5, <1>6 DEF Midway, y
  <2> QED BY <1>4, <2>1, <2>2 DEF Goes
<1>7. CASE l = k + 1 /\ l \in 1 .. Len(y) /\ y[l].op = "word" /\ y[l].word = v.word
  <2>1. v.word # <<>>
    BY <1>3, <1>7 DEF ProperToken
  <2>2. r = [v EXCEPT !.to.argv = Append(@, v.word)]
    BY <2>1 DEF Argument, NoWord
  <2>3. Given(r, v, a)
    BY <1>4, <2>2, GivenIs
  <2>4. Made(y, s, k + 1, a.argv, a.in, a.out) /\ Settled(y, s, k + 1)
    BY <1>1, <1>2, <1>5, <1>7, MadeWord
  <2>5. InCall(y, c, s, k + 1)
    <3>1. y[k + 1].op \notin DOMAIN Operators
      BY <1>7, OperatorsAre
    <3> QED BY <1>1, <1>5, <1>7, <3>1, InCallWord
  <2>6. IsCommand(a)
    BY DEF IsCommand
  <2> HIDE DEF a, r
  <2>7. Ends(L, b, e, l, r)
    BY <1>4, <2>3, EndsSame DEF Given
  <2>8. Midway(L, b, e, p, a, r)
    BY <1>5, <1>7, <2>4, <2>5, <2>7 DEF Midway, y
  <2> QED BY <2>3, <2>6, <2>8 DEF Goes, Given, r
<1> QED BY <1>6, <1>7 DEF Turned, y

\* The target of a redirection, read behind it.
LEMMA TargetGoes ==
  ASSUME NEW T, NEW L \in Seq(T), Good(L), NEW b, NEW e, NEW p, NEW c, NEW s, NEW k,
         Inside(L, p, c, s, k), k + 1 \in 1 .. Len(Read(L)), Read(L)[k + 1].op \in Redirections,
         NEW l, NEW v, Turned(L, b, e, k + 1, l, v),
         l = (k + 1) + 1
  PROVE  /\ v.word # <<>>
         /\ Read(L)[k + 1].op = "<" => Goes(L, b, e, p, [v EXCEPT !.to.in = v.word])
         /\ Read(L)[k + 1].op # "<" => Goes(L, b, e, p, [v EXCEPT !.to.out = v.word])
<1> DEFINE y == Read(L)
           i == [argv |-> cmd.argv, in |-> v.word, out |-> cmd.out, mode |-> cmd.mode]
           o == [argv |-> cmd.argv, in |-> cmd.in, out |-> v.word, mode |-> cmd.mode]
           m == (k + 1) + 1
<1>1. PICK S : y \in Seq(S)
  BY ReadTokens
<1>2. k \in 0 .. Len(y) /\ s \in 0 .. k /\ k + 1 \in 1 .. Len(y) /\ y[k + 1].op \in Redirections
  BY DEF Inside, InCall
<1>3. \A j \in 1 .. Len(y) : ProperToken(y, j)
  BY GoodIs
<1> HIDE DEF y
<1>4. IsWord(v) /\ v.error = "none" /\ v.to = cmd /\ IsCommand(cmd) /\ Ends(L, b, e, m, v)
  BY DEF Turned, Inside
<1>5. /\ p = Prefix(Means(L), c) /\ InCall(y, c, s, k)
      /\ Made(y, s, k, cmd.argv, cmd.in, cmd.out) /\ Settled(y, s, k)
  BY DEF Inside, y
<1>6. m \in 1 .. Len(y) /\ y[m].op = "word" /\ y[m].word = v.word
  <2>1. l # k + 1
    BY <1>2
  <2> QED BY <2>1 DEF Turned, y
<1>7. v.word # <<>>
  BY <1>3, <1>6 DEF ProperToken
<1>8. /\ Settled(y, s, m)
      /\ y[k + 1].op = "<" => Made(y, s, m, cmd.argv, v.word, cmd.out)
      /\ y[k + 1].op # "<" => Made(y, s, m, cmd.argv, cmd.in, v.word)
  BY <1>1, <1>2, <1>5, <1>6, MadeTarget
<1>9. InCall(y, c, s, m)
  <2>1. y[k + 1].op \notin DOMAIN Operators /\ y[m].op \notin DOMAIN Operators
    BY <1>2, <1>6, OperatorsAre DEF Redirections
  <2>2. InCall(y, c, s, k + 1)
    BY <1>1, <1>2, <1>5, <2>1, InCallWord
  <2> QED BY <1>1, <1>6, <2>1, <2>2, InCallWord
<1> HIDE DEF m
<1>10. ASSUME NEW r, NEW x, IsCommand(x), Given(r, v, x), Made(y, s, m, x.argv, x.in, x.out)
       PROVE  Goes(L, b, e, p, r)
  <2>1. Ends(L, b, e, m, r)
    BY <1>4, <1>10, EndsSame DEF Given
  <2>2. Midway(L, b, e, p, x, r)
    BY <1>5, <1>8, <1>9, <1>10, <2>1 DEF Midway, y
  <2> QED BY <1>10, <2>2 DEF Goes, Given
<1>11. Given([v EXCEPT !.to.in = v.word], v, i) /\ Given([v EXCEPT !.to.out = v.word], v, o)
  BY <1>4, GivenIs
<1>12. IsCommand(i) /\ IsCommand(o)
  BY DEF IsCommand
<1>13. /\ i.argv = cmd.argv /\ i.in = v.word /\ i.out = cmd.out
       /\ o.argv = cmd.argv /\ o.in = cmd.in /\ o.out = v.word
  OBVIOUS
<1> HIDE DEF i, o
<1>14. y[k + 1].op = "<" => Goes(L, b, e, p, [v EXCEPT !.to.in = v.word])
  BY <1>8, <1>10, <1>11, <1>12, <1>13
<1>15. y[k + 1].op # "<" => Goes(L, b, e, p, [v EXCEPT !.to.out = v.word])
  BY <1>8, <1>10, <1>11, <1>12, <1>13
<1> QED BY <1>7, <1>14, <1>15 DEF y

\* What is seen of the last turn.
Seen == [status |-> status, next |-> next, mode |-> cmd.mode, background |-> background]

LEMMA ReadsToken ==
  ASSUME input \in Seq(Char), NEW L, NEW b, NEW e, LineAt(L, b, e), Good(L),
         NEW k \in 0 .. Len(Read(L)), NEW n, Placed(L, b, k, n)
  PROVE  \E l : Turned(L, b, e, k, l, LookAhead(ReadWord(n)))
<1>1. PICK i \in 1 .. Len(L) + 1 : n = b + i - 1 /\ Reached(L, i, k)
  BY DEF Placed
<1>2. PICK q, l : Found(L, b, k, l, q, ReadWord(n))
  BY <1>1, Reads
<1>3. NoAmp(L) /\ ~ Lost(L, Tokens(L))
  BY GoodIs DEF LineAt
<1> DEFINE w == ReadWord(n)
           v == LookAhead(w)
<1>4. Found(L, b, k, l, q, w)
  BY <1>2
<1> HIDE DEF w
<1>5. Turned(L, b, e, k, l, v)
  BY <1>3, <1>4, Turns
<1> QED BY <1>5 DEF w

\* A turn behind a redirection finds its target.
LEMMA ReadsTarget ==
  ASSUME input \in Seq(Char), NEW L, NEW b, NEW e, LineAt(L, b, e), Good(L),
         NEW k \in 0 .. Len(Read(L)), k + 1 \in 1 .. Len(Read(L)), Read(L)[k + 1].op \in Redirections,
         NEW n, Placed(L, b, k + 1, n)
  PROVE  \E l : l = (k + 1) + 1 /\ Turned(L, b, e, k + 1, l, LookAhead(ReadWord(n)))
<1> DEFINE m == k + 1
<1>1. PICK i \in 1 .. Len(L) + 1 : n = b + i - 1 /\ Reached(L, i, m)
  BY DEF Placed
<1>2. PICK q, l : Found(L, b, m, l, q, ReadWord(n))
  BY <1>1, Reads
<1>3. NoAmp(L) /\ ~ Lost(L, Tokens(L)) /\ ProperToken(Read(L), m)
  BY GoodIs DEF LineAt
<1>4. m \in Nat /\ m \in 0 .. Len(Read(L))
  OBVIOUS
<1>5. m + 1 \in 1 .. Len(Read(L)) /\ Read(L)[m + 1].op = "word"
  BY <1>3 DEF ProperToken
<1> DEFINE w == ReadWord(n)
           v == LookAhead(w)
<1>6. Found(L, b, m, l, q, w)
  BY <1>2
<1> HIDE DEF w, m
<1>7. l = m + 1
  BY <1>4, <1>5, <1>6, WordFound
<1>8. Turned(L, b, e, m, l, v)
  BY <1>3, <1>4, <1>6, Turns
<1> QED BY <1>7, <1>8 DEF w, m

\* The turn behind >> reads twice, and does not look ahead behind the target.
LEMMA ReadsTwice ==
  ASSUME input \in Seq(Char), NEW L, NEW b, NEW e, LineAt(L, b, e), Good(L),
         NEW k \in 0 .. Len(Read(L)), k + 1 \in 1 .. Len(Read(L)), Read(L)[k + 1].op = ">>",
         NEW n, InPair(L, b, k + 1, n)
  PROVE  /\ LookAhead(ReadWord(n)) = WordRead(<<>>, ">", n + 1, "none")
         /\ \E l : l = (k + 1) + 1 /\ Turned(L, b, e, k + 1, l, ReadWord(n + 1))
<1> DEFINE m == k + 1
<1>1. PICK i \in Second(L) : L[i] = ">" /\ n = b + i - 1 /\ Reached(L, i + 1, m)
  BY DEF InPair
<1>2. i + 1 \in 1 .. Len(L) + 1 /\ i \in 1 .. Len(L) /\ i \in Int /\ b \in Int
  <2>1. i + 1 \in 1 .. Len(L) + 1
    BY <1>1 DEF Reached, Bound
  <2>2. i \in DOMAIN L /\ DOMAIN L = 1 .. Len(L)
    <3>1. i \in Meta(L)
      BY SecondIs
    <3>2. i \in DOMAIN L
      BY <3>1, MetaIs
    <3>3. L \in Seq(Char)
      BY DEF LineAt
    <3> QED BY <3>2, <3>3
  <2>3. b \in Int
    BY DEF LineAt
  <2> QED BY <2>1, <2>2, <2>3
<1>3. n + 1 = b + i /\ n + 1 = b + (i + 1) - 1
  BY <1>1, <1>2
<1>4. ReadWord(n) = WordRead(<<>>, ">", n + 1, "none")
  BY <1>1, <1>3, ReadsAgain
<1>5. LookAhead(ReadWord(n)) = WordRead(<<>>, ">", n + 1, "none")
  <2>1. ">" \notin {"&", "|"}
    OBVIOUS
  <2> QED BY <1>4, <2>1, LooksNot
<1>6. PICK q, l : Found(L, b, m, l, q, ReadWord(n + 1))
  BY <1>1, <1>2, <1>3, Reads
<1>7. /\ NoAmp(L) /\ ProperToken(Read(L), m)
      /\ ~ Glued(L, Tokens(L)) /\ ~ Lost(L, Tokens(L))
  BY GoodIs DEF LineAt, Good
<1>8. m \in Nat /\ m \in 0 .. Len(Read(L)) /\ m \in 1 .. Len(Read(L))
  OBVIOUS
<1>9. m + 1 \in 1 .. Len(Read(L)) /\ Read(L)[m + 1].op = "word" /\ Read(L)[m].op = ">>"
  BY <1>7 DEF ProperToken, Redirections
<1> DEFINE w == ReadWord(n + 1)
<1>10. Found(L, b, m, l, q, w)
  BY <1>6
<1> HIDE DEF w, m
<1>11. l = m + 1 /\ Tokens(L)[m + 1].end = q /\ q \in 1 .. Len(L) + 1
  BY <1>8, <1>9, <1>10, WordFound
<1>12. /\ DOMAIN L = 1 .. Len(L) /\ Len(L) \in Nat
       /\ DOMAIN Tokens(L) = 1 .. Len(Tokens(L)) /\ Tokens(L)[m].op = ">>"
       /\ m \in 1 .. Len(Tokens(L)) /\ m + 1 \in 1 .. Len(Tokens(L)) /\ Len(Tokens(L)) \in Nat
  <2>1. L \in Seq(Char)
    BY DEF LineAt
  <2>2. DOMAIN L = 1 .. Len(L) /\ Len(L) \in Nat
    BY <2>1
  <2>3. /\ DOMAIN Tokens(L) = 1 .. Len(Tokens(L)) /\ Len(Tokens(L)) \in Nat
        /\ \A j \in 1 .. Len(Read(L)) : j \in 1 .. Len(Tokens(L)) /\ Read(L)[j] = Tokens(L)[j]
    BY <2>1, ReadIs
  <2> QED BY <1>8, <1>9, <2>2, <2>3
<1>13. Behind(L, q) \notin {"&", "|"}
  <2>1. CASE q \in DOMAIN L
    <3>1. m < Len(Tokens(L))
      BY <1>12
    <3>2. L[q] \notin {"&", "|"}
      BY <1>7, <1>11, <1>12, <2>1, <3>1 DEF Glued
    <3> QED BY <3>2 DEF Behind, Newline, Normal
  <2>2. CASE q = Len(L) + 1
    BY <2>2 DEF Behind, Newline
  <2> QED BY <1>11, <1>12, <2>1, <2>2
<1>14. Turned(L, b, e, m, l, w)
  BY <1>7, <1>8, <1>10, <1>13, TurnsAlone
<1> QED BY <1>5, <1>11, <1>14 DEF w, m

\* Every turn goes on with the line.
LEMMA TurnGoes ==
  ASSUME input \in Seq(Char), NEW L, NEW b, NEW e, LineAt(L, b, e), Good(L),
         NEW p, NEW c, NEW s, NEW k, Inside(L, p, c, s, k), Ends(L, b, e, k, Seen),
         status \notin {Newline, "|"}
  PROVE  Goes(L, b, e, p, Use(LookAhead(ReadWord(next))))
<1> DEFINE w == ReadWord(next)
           v == LookAhead(w)
           y == Read(L)
           g == Goes(L, b, e, p, Use(v))
<1> SUFFICES g
  OBVIOUS
<1> HIDE DEF g
<1>1. k \in 0 .. Len(y) /\ k \in Nat
  BY DEF Inside, InCall
<1>2. L \in Seq(Char)
  BY DEF LineAt
<1> HIDE DEF y
<1>3. \/ status = Normal /\ Placed(L, b, k, next)
      \/ /\ k + 1 \in 1 .. Len(y) /\ status = "<" /\ y[k + 1].op = "<" /\ Placed(L, b, k + 1, next)
      \/ /\ k + 1 \in 1 .. Len(y) /\ status = ">" /\ y[k + 1].op = ">" /\ Placed(L, b, k + 1, next)
      \/ /\ k + 1 \in 1 .. Len(y) /\ status = ">" /\ y[k + 1].op = ">>" /\ InPair(L, b, k + 1, next)
  BY DEF Ends, AtEnd, Operation, Seen, y
<1> HIDE DEF w
<1>4. CASE status = Normal /\ Placed(L, b, k, next)
  <2>1. PICK l : Turned(L, b, e, k, l, v)
    BY <1>1, <1>4, ReadsToken DEF w, y
  <2> HIDE DEF v
  <2>2. Use(v) = Argument(v)
    BY <1>4, <2>1 DEF Use, Turned, Normal
  <2> QED BY <1>2, <2>1, <2>2, ArgumentGoes DEF g, v
<1>5. ASSUME k + 1 \in 1 .. Len(y), y[k + 1].op \in {"<", ">"}, Placed(L, b, k + 1, next),
             status = y[k + 1].op
      PROVE  g
  <2>1. y[k + 1].op \in Redirections
    BY <1>5 DEF Redirections
  <2>2. PICK l : l = (k + 1) + 1 /\ Turned(L, b, e, k + 1, l, v)
    BY <1>1, <1>5, <2>1, ReadsTarget DEF w, y
  <2> HIDE DEF v
  <2>3. /\ v.word # <<>>
        /\ y[k + 1].op = "<" => Goes(L, b, e, p, [v EXCEPT !.to.in = v.word])
        /\ y[k + 1].op # "<" => Goes(L, b, e, p, [v EXCEPT !.to.out = v.word])
    BY <1>2, <1>5, <2>1, <2>2, TargetGoes DEF y
  <2>4. v.error = "none"
    BY <2>2 DEF Turned
  <2>5. y[k + 1].op = "<" => Use(v) = [v EXCEPT !.to.in = v.word]
    BY <1>5, <2>3, <2>4 DEF Use, Input, NoWord
  <2>6. y[k + 1].op # "<" => Use(v) = [v EXCEPT !.to.out = v.word]
    BY <1>5, <2>3, <2>4 DEF Use, Output, NoWord
  <2> QED BY <1>5, <2>3, <2>5, <2>6 DEF g, v
<1>6. ASSUME k + 1 \in 1 .. Len(y), y[k + 1].op = ">>", InPair(L, b, k + 1, next), status = ">"
      PROVE  g
  <2> DEFINE z == ReadWord(next + 1)
  <2>1. v = WordRead(<<>>, ">", next + 1, "none")
    BY <1>1, <1>6, ReadsTwice DEF w, y
  <2>2. PICK l : l = (k + 1) + 1 /\ Turned(L, b, e, k + 1, l, z)
    BY <1>1, <1>6, ReadsTwice DEF y
  <2>3. v.word = <<>> /\ v.status = ">" /\ v.next = next + 1 /\ v.error = "none"
    BY <2>1 DEF WordRead
  <2>4. z = ReadWord(v.next)
    BY <2>3
  <2> HIDE DEF v, z
  <2>5. y[k + 1].op \in Redirections /\ y[k + 1].op # "<"
    BY <1>6 DEF Redirections
  <2>6. z.word # <<>> /\ Goes(L, b, e, p, [z EXCEPT !.to.out = z.word])
    BY <1>2, <1>6, <2>2, <2>5, TargetGoes DEF y
  <2>7. z.error = "none"
    BY <2>2 DEF Turned
  <2>8. Use(v) = [z EXCEPT !.to.out = z.word]
    BY <1>6, <2>3, <2>4, <2>6, <2>7 DEF Use, Output, NoWord
  <2> QED BY <2>6, <2>8 DEF g, v
<1>7. CASE status = "<" /\ y[k + 1].op = "<" /\ k + 1 \in 1 .. Len(y) /\ Placed(L, b, k + 1, next)
  BY <1>5, <1>7
<1>8. CASE status = ">" /\ y[k + 1].op = ">" /\ k + 1 \in 1 .. Len(y) /\ Placed(L, b, k + 1, next)
  BY <1>5, <1>8
<1> QED
  BY <1>3, <1>4, <1>6, <1>7, <1>8

-----------------------------------------------------------------------------
(* What main() gets of a line *)

\* The line L that begins at `begin' is being read, or has been read, as what it means.
BeingRead(L, e) == error = "none" /\ Midway(L, begin, e, pipeline, cmd, Seen)

BeenRead(L, e) ==
  /\ error = "none" /\ status = Newline /\ next = e + 1
  /\ pipeline = Means(L) /\ background = InBackground(L, Tokens(L))

\* The inductive invariant: it speaks of every line L of the grammar that may begin here.
Parsing ==
  /\ pc = "start" => /\ error = "none" /\ pipeline = <<>>
                     /\ cmd = NewCommand /\ background = FALSE
  /\ \A L, e : LineAt(L, begin, e) /\ Good(L) =>
       /\ pc = "command" => BeingRead(L, e)
       /\ pc = "main" => BeenRead(L, e)

\* main() ran the line l as what it means.
RanRight(l) ==
  /\ l.first \in Nat \ {0} /\ l.last \in Int /\ NoLineEnd(l.first, l.last - 1)
  /\ \A L : LineAt(L, l.first, l.last) /\ Good(L) =>
              /\ l.ran /\ l.commands = Means(L)
              /\ l.background = InBackground(L, Tokens(L))

LastRight == lines # <<>> => RanRight(lines[Len(lines)])

\* In front of the first turn of a line or a command.
Fresh(n) == [status |-> Normal, next |-> n, mode |-> "pipe", background |-> FALSE]

LEMMA LineBegins ==
  ASSUME NEW L \in Seq(Char), NEW b \in Int, NEW e
  PROVE  Midway(L, b, e, <<>>, NewCommand, Fresh(b))
<1> DEFINE y == Read(L)
           v == Fresh(b)
<1>2. PICK S : y \in Seq(S)
  BY ReadTokens
<1>3. InCall(y, 0, 0, 0)
  BY <1>2, InCallFirst
<1>4. Made(y, 0, 0, <<>>, <<>>, <<>>) /\ Settled(y, 0, 0)
  <2>1. 0 \in 0 .. Len(y)
    BY <1>2
  <2> HIDE DEF y
  <2> QED BY <1>2, <2>1, MadeNone DEF Settled
<1>5. Placed(L, b, 0, b)
  <2>1. Reached(L, 1, 0)
    BY ReachedFirst
  <2>2. 1 \in 1 .. Len(L) + 1 /\ b = b + 1 - 1
    OBVIOUS
  <2> QED BY <2>1, <2>2 DEF Placed
<1>6. Ends(L, b, e, 0, v)
  <2>1. v.background = FALSE /\ v.mode = "pipe" /\ v.status = Normal /\ v.next = b
    BY DEF Fresh
  <2> QED BY <1>5, <2>1 DEF Ends
<1>7. Prefix(Means(L), 0) = <<>>
  BY PrefixMore
<1>8. NewCommand.argv = <<>> /\ NewCommand.in = <<>> /\ NewCommand.out = <<>>
  BY DEF NewCommand, NoWord
<1> HIDE DEF v
<1> QED BY <1>3, <1>4, <1>6, <1>7, <1>8 DEF Midway, v

LEMMA BuiltIs ==
  ASSUME Built
  PROVE  IsCommand(cmd)
BY DEF Built, Commanded, IsCommand

\* The command in cmd is the call that ends here.
LEMMA CallRead ==
  ASSUME NEW L, Good(L), NEW c \in Nat, c + 1 \in DOMAIN Calls(Read(L)), NEW s, NEW k,
         Inside(L, pipeline, c, s, k), Calls(Read(L))[c + 1].tokens = Part(Read(L), s, k),
         Calls(Read(L))[c + 1].mode = cmd.mode
  PROVE  Commands = Prefix(Means(L), c + 1)
<1> DEFINE y == Read(L)
           m == Means(L)
<1>1. m[c + 1] = cmd
  <2> HIDE DEF y
  <2>1. Meaning(Calls(y))[c + 1] = cmd
    BY Meant DEF Inside, y
  <2> QED BY <2>1 DEF Means, y
<1>2. cmd.argv # <<>>
  <2>1. Arguments(Calls(y)[c + 1].tokens) # <<>>
    BY DEF Good, Proper
  <2> QED BY <2>1 DEF Inside, Made
<1>3. pipeline = Prefix(m, c)
  BY DEF Inside
<1> HIDE DEF m
<1>4. Append(Prefix(m, c), m[c + 1]) = Prefix(m, c + 1)
  BY PrefixMore
<1> QED BY <1>1, <1>2, <1>3, <1>4 DEF Commands, m

\* An operator ends a command, the line end the last one.
LEMMA NextCommandReads ==
  ASSUME NEW L, NEW e, LineAt(L, begin, e), Good(L), Built, BeingRead(L, e), NextCommand
  PROVE  BeingRead(L, e)'
<1> DEFINE y == Read(L)
<1>1. PICK c, s, k : Inside(L, pipeline, c, s, k) /\ Ends(L, begin, e, k, Seen)
  BY BuiltIs DEF BeingRead, Midway, Inside
<1>2. PICK S : y \in Seq(S)
  BY ReadTokens DEF LineAt
<1>3. InCall(y, c, s, k)
  BY <1>1 DEF Inside
<1>4. status \notin {Newline, EOF} /\ status \in {Newline, "|", EOF, "&"}
  BY DEF NextCommand, LineEnds, InCommand
<1>5. /\ k + 1 \in 1 .. Len(y) /\ y[k + 1].op \in DOMAIN Operators
      /\ cmd.mode = Operators[y[k + 1].op] /\ Placed(L, begin, k + 1, next)
  BY <1>1, <1>4 DEF Ends, AtEnd, Operation, Seen, Normal
<1> HIDE DEF y
<1>6. /\ InCall(y, c + 1, k + 1, k + 1)
      /\ c \in Nat /\ c + 1 \in DOMAIN Calls(y) /\ Calls(y)[c + 1].tokens = Part(y, s, k)
      /\ Calls(y)[c + 1].mode = Operators[y[k + 1].op]
  BY <1>2, <1>3, <1>5, InCallOp
<1>7. Commands = Prefix(Means(L), c + 1)
  BY <1>1, <1>5, <1>6, CallRead DEF y
<1>8. Made(y, k + 1, k + 1, <<>>, <<>>, <<>>) /\ Settled(y, k + 1, k + 1)
  <2>1. k + 1 \in 0 .. Len(y)
    BY <1>5
  <2> QED BY <1>2, <2>1, MadeNone DEF Settled
<1>9. /\ pipeline' = Commands /\ cmd' = NewCommand /\ Seen' = Fresh(next) /\ error' = "none"
      /\ begin' = begin
  BY DEF NextCommand, Seen, Fresh, NewCommand
<1>10. Ends(L, begin, e, k + 1, Fresh(next))
  <2>1. /\ Fresh(next).background = FALSE /\ Fresh(next).mode = "pipe"
        /\ Fresh(next).status = Normal /\ Fresh(next).next = next
    BY DEF Fresh
  <2> QED BY <1>5, <2>1 DEF Ends
<1>11. NewCommand.argv = <<>> /\ NewCommand.in = <<>> /\ NewCommand.out = <<>>
  BY DEF NewCommand, NoWord
<1>12. Midway(L, begin, e, Prefix(Means(L), c + 1), NewCommand, Fresh(next))
  BY <1>6, <1>8, <1>10, <1>11 DEF Midway, y
<1> QED BY <1>7, <1>9, <1>12 DEF BeingRead

LEMMA EndPipelineReads ==
  ASSUME NEW L, NEW e, LineAt(L, begin, e), Good(L), Built, BeingRead(L, e), EndPipeline
  PROVE  BeenRead(L, e)'
<1> DEFINE y == Read(L)
<1>1. PICK c, s, k : Inside(L, pipeline, c, s, k) /\ Ends(L, begin, e, k, Seen)
  BY BuiltIs DEF BeingRead, Midway, Inside
<1>2. PICK S : y \in Seq(S)
  BY ReadTokens DEF LineAt
<1>3. status \in {Newline, EOF}
  BY DEF EndPipeline, LineEnds
<1>4. AtEnd(L, e, k, Seen)
  BY <1>1, <1>3 DEF Ends, Operation, Seen, Normal, Newline, EOF
<1>5. /\ status = Newline /\ next = e + 1 /\ cmd.mode = "pipe" /\ k = Len(y)
      /\ background = InBackground(L, Tokens(L))
  BY <1>4, Zenon DEF AtEnd, Seen
<1> HIDE DEF y
<1>6. InCall(y, c, s, Len(y))
  BY <1>1, <1>5 DEF Inside, y
<1>7. /\ DOMAIN Calls(y) = 1 .. c + 1 /\ c \in Nat
      /\ Calls(y)[c + 1].tokens = Part(y, s, k) /\ Calls(y)[c + 1].mode = cmd.mode
  BY <1>2, <1>5, <1>6, InCallEnd
<1>8. Commands = Prefix(Means(L), c + 1)
  <2>1. c + 1 \in DOMAIN Calls(y)
    BY <1>7
  <2> QED BY <1>1, <1>7, <2>1, CallRead DEF y
<1>9. Prefix(Means(L), c + 1) = Means(L)
  BY <1>7, MeansAll DEF Means, y
<1>10. /\ error' = "none" /\ status' = Newline /\ next' = e + 1 /\ pipeline' = Means(L)
  BY <1>5, <1>8, <1>9 DEF EndPipeline, BeingRead
<1>11. background' = InBackground(L, Tokens(L))
  BY <1>5, Zenon DEF EndPipeline
<1> QED BY <1>10, <1>11, Zenon DEF BeenRead

LEMMA TurnReads ==
  ASSUME input \in Seq(Char), NEW L, NEW e, LineAt(L, begin, e), Good(L), Built,
         BeingRead(L, e), ReadTurn
  PROVE  BeingRead(L, e)'
<1> DEFINE r == Use(LookAhead(ReadWord(next)))
<1>1. PICK c, s, k : Inside(L, pipeline, c, s, k) /\ Ends(L, begin, e, k, Seen)
  BY BuiltIs DEF BeingRead, Midway, Inside
<1>2. status \notin {Newline, "|"}
  BY DEF ReadTurn, InCommand
<1>3. Goes(L, begin, e, pipeline, r)
  BY <1>1, <1>2, TurnGoes
<1>4. /\ cmd' = [r.to EXCEPT !.mode = r.mode] /\ background' = r.background
      /\ status' = r.status /\ error' = r.error /\ next' = r.next
      /\ UNCHANGED <<pc, input, pipeline, begin, lines>>
  BY DEF ReadTurn
<1> HIDE DEF r
<1>5. PICK d, t, l :
        /\ pipeline = Prefix(Means(L), d) /\ InCall(Read(L), d, t, l)
        /\ Made(Read(L), t, l, r.to.argv, r.to.in, r.to.out) /\ Settled(Read(L), t, l)
        /\ Ends(L, begin, e, l, r)
  BY <1>3 DEF Goes, Midway
<1>6. /\ cmd'.argv = r.to.argv /\ cmd'.in = r.to.in /\ cmd'.out = r.to.out
      /\ cmd'.mode = r.mode
  BY <1>3, <1>4 DEF Goes, IsCommand
<1>7. /\ Seen'.status = r.status /\ Seen'.next = r.next /\ Seen'.mode = r.mode
      /\ Seen'.background = r.background
  BY <1>4, <1>6, Zenon DEF Seen
<1>8. Ends(L, begin, e, l, Seen')
  BY <1>5, <1>7, EndsSame
<1>9. Midway(L, begin, e, pipeline, cmd', Seen')
  BY <1>5, <1>6, <1>8 DEF Midway
<1>10. error' = "none"
  BY <1>3, <1>4 DEF Goes
<1> QED BY <1>4, <1>9, <1>10 DEF BeingRead

LEMMA SameLine ==
  ASSUME UNCHANGED input
  PROVE  /\ \A L, b, e : LineAt(L, b, e)' <=> LineAt(L, b, e)
         /\ \A l : RanRight(l)' <=> RanRight(l)
<1>1. ASSUME NEW L, NEW b, NEW e PROVE LineAt(L, b, e)' <=> LineAt(L, b, e)
  BY DEF LineAt, NoLineEnd
<1>2. ASSUME NEW l PROVE RanRight(l)' <=> RanRight(l)
  BY <1>1 DEF RanRight, NoLineEnd
<1> QED BY <1>1, <1>2

LEMMA SameLines ==
  ASSUME UNCHANGED <<input, lines>>, LastRight
  PROVE  LastRight'
BY SameLine DEF LastRight

\* The line is handed on, and the next one begins.
LEMMA EndLineReads ==
  ASSUME IInv, Parsing, EndLine
  PROVE  Parsing' /\ LastRight'
<1> DEFINE l == [first |-> begin, last |-> next - 1,
                 ran |-> error = "none" /\ status # EOF,
                 commands |-> pipeline, background |-> background]
<1>1. /\ pc = "main" /\ lines' = Append(lines, l) /\ begin' = next
      /\ pipeline' = <<>> /\ cmd' = NewCommand /\ background' = FALSE /\ error' = "none"
      /\ UNCHANGED <<input, next>>
      /\ IF status = EOF THEN pc' = "exit" /\ status' = status
         ELSE pc' = "command" /\ status' = Normal
  BY DEF EndLine
<1>2. /\ input \in Seq(Char) /\ Stands(begin, next, status)
      /\ Len(input) \in Nat /\ next \in 1 .. Len(input) + 1 /\ begin \in 1 .. next
  BY <1>1 DEF IInv, Place, Stands
<1>3. RanRight(l)
  <2>1. NoLineEnd(begin, (next - 1) - 1)
    <3>1. status = Newline \/ NoLineEnd(begin, next - 1)
      BY <1>2 DEF Stands
    <3> QED BY <1>2, <3>1 DEF Stands, NoLineEnd
  <2>2. begin \in Nat \ {0} /\ next - 1 \in Int /\ (next - 1) + 1 = next
    BY <1>2
  <2>3. ASSUME NEW L, LineAt(L, begin, next - 1), Good(L)
        PROVE  /\ error = "none" /\ status # EOF /\ pipeline = Means(L)
               /\ background = InBackground(L, Tokens(L))
    <3>1. BeenRead(L, next - 1)
      BY <1>1, <2>3 DEF Parsing
    <3> QED BY <3>1, Zenon DEF BeenRead, Newline, EOF
  <2>4. ASSUME NEW L, LineAt(L, begin, next - 1), Good(L)
        PROVE  l.ran /\ l.commands = Means(L) /\ l.background = InBackground(L, Tokens(L))
    <3>1. /\ error = "none" /\ status # EOF /\ pipeline = Means(L)
          /\ background = InBackground(L, Tokens(L))
      BY <2>3, <2>4
    <3> QED BY <3>1, Zenon
  <2>5. l.first = begin /\ l.last = next - 1
    OBVIOUS
  <2> HIDE DEF l
  <2> QED BY <2>1, <2>2, <2>4, <2>5 DEF RanRight
<1> HIDE DEF l
<1>4. LastRight'
  <2>1. PICK x : x = l
    OBVIOUS
  <2>2. lines'[Len(lines')] = x
    <3>1. /\ Len(Append(lines, l)) = Len(lines) + 1
          /\ Append(lines, l)[Len(lines) + 1] = l
      BY OneMore DEF IInv, Chained
    <3> QED BY <1>1, <2>1, <3>1
  <2>3. RanRight(x)'
    BY <1>1, <1>3, <2>1, SameLine
  <2> QED BY <2>2, <2>3 DEF LastRight
<1>5. Parsing'
  <2> SUFFICES ASSUME NEW L, NEW e, LineAt(L, begin, e)', pc' = "command"
               PROVE  BeingRead(L, e)'
    BY <1>1 DEF Parsing
  <2>1. L \in Seq(Char) /\ next \in Int
    BY <1>2 DEF LineAt
  <2>2. Midway(L, next, e, <<>>, NewCommand, Fresh(next))
    BY <2>1, LineBegins
  <2>3. Seen' = Fresh(next)
    BY <1>1 DEF Seen, Fresh, NewCommand
  <2> QED BY <1>1, <2>2, <2>3 DEF BeingRead
<1> QED BY <1>4, <1>5

\* The first line begins.
LEMMA StartReads ==
  ASSUME IInv, Parsing, Start
  PROVE  Parsing' /\ LastRight'
<1>1. /\ pc = "start" /\ pc' = "command"
      /\ UNCHANGED <<next, status, error, cmd, background, pipeline, begin, lines>>
  BY DEF Start
<1>2. next = 1 /\ begin = 1 /\ lines = <<>> /\ status = Normal
  BY <1>1 DEF IInv, Place
<1>3. error = "none" /\ pipeline = <<>> /\ cmd = NewCommand /\ background = FALSE
  BY <1>1 DEF Parsing
<1>4. Parsing'
  <2> SUFFICES ASSUME NEW L, NEW e, LineAt(L, begin, e)', pc' = "command"
               PROVE  BeingRead(L, e)'
    BY <1>1 DEF Parsing
  <2>1. L \in Seq(Char)
    BY DEF LineAt
  <2>2. Midway(L, 1, e, <<>>, NewCommand, Fresh(1))
    BY <2>1, LineBegins
  <2>3. Seen' = Fresh(1)
    BY <1>1, <1>2, <1>3 DEF Seen, Fresh, NewCommand
  <2>4. begin' = 1 /\ pipeline' = <<>> /\ cmd' = NewCommand /\ error' = "none"
    BY <1>1, <1>2, <1>3
  <2> QED BY <2>2, <2>3, <2>4 DEF BeingRead
<1>5. LastRight'
  BY <1>1, <1>2 DEF LastRight
<1> QED BY <1>4, <1>5

LEMMA NextReads ==
  ASSUME IInv, Built, Parsing, LastRight, [Next]_vars
  PROVE  Parsing' /\ LastRight'
<1>1. input \in Seq(Char)
  BY DEF IInv, Place
<1>2. CASE Start
  BY <1>2, StartReads
<1>3. CASE ReadTurn
  <2>1. pc = "command" /\ pc' = pc /\ UNCHANGED <<input, begin, lines>>
    BY <1>3 DEF ReadTurn, InCommand
  <2>2. ASSUME NEW L, NEW e, LineAt(L, begin, e), Good(L) PROVE BeingRead(L, e)'
    <3>1. BeingRead(L, e)
      BY <2>1, <2>2 DEF Parsing
    <3> QED BY <1>1, <1>3, <2>2, <3>1, TurnReads
  <2>3. Parsing'
    BY <2>1, <2>2, SameLine DEF Parsing
  <2> QED BY <2>1, <2>3, SameLines
<1>4. CASE NextCommand
  <2>1. pc = "command" /\ pc' = pc /\ UNCHANGED <<input, begin, lines>>
    BY <1>4 DEF NextCommand
  <2>2. ASSUME NEW L, NEW e, LineAt(L, begin, e), Good(L) PROVE BeingRead(L, e)'
    <3>1. BeingRead(L, e)
      BY <2>1, <2>2 DEF Parsing
    <3> QED BY <1>4, <2>2, <3>1, NextCommandReads
  <2>3. Parsing'
    BY <2>1, <2>2, SameLine DEF Parsing
  <2> QED BY <2>1, <2>3, SameLines
<1>5. CASE EndPipeline
  <2>1. pc = "command" /\ pc' = "main" /\ UNCHANGED <<input, begin, lines>>
    BY <1>5 DEF EndPipeline
  <2>2. ASSUME NEW L, NEW e, LineAt(L, begin, e), Good(L) PROVE BeenRead(L, e)'
    <3>1. BeingRead(L, e)
      BY <2>1, <2>2 DEF Parsing
    <3> QED BY <1>5, <2>2, <3>1, EndPipelineReads
  <2>3. Parsing'
    BY <2>1, <2>2, SameLine DEF Parsing
  <2> QED BY <2>1, <2>3, SameLines
<1>6. CASE Abandon
  <2>1. /\ pc = "command" /\ error # "none" /\ pc' = "main" /\ UNCHANGED <<input, begin, lines>>
    BY <1>6 DEF Abandon
  <2>2. ASSUME NEW L, NEW e, LineAt(L, begin, e), Good(L) PROVE FALSE
    BY <2>1, <2>2 DEF Parsing, BeingRead
  <2>3. Parsing'
    BY <2>1, <2>2, SameLine DEF Parsing
  <2> QED BY <2>1, <2>3, SameLines
<1>7. CASE EndLine
  BY <1>7, EndLineReads
<1>8. CASE UNCHANGED vars
  <2>1. UNCHANGED <<pc, input, next, status, error, cmd, background, pipeline, begin, lines>>
    BY <1>8 DEF vars
  <2>2. Parsing'
    BY <2>1, SameLine DEF Parsing, BeingRead, BeenRead, Seen
  <2> QED BY <2>1, <2>2, SameLines
<1> QED BY <1>2, <1>3, <1>4, <1>5, <1>6, <1>7, <1>8 DEF Next

LEMMA InitReads == Init => Parsing /\ LastRight
<1> SUFFICES ASSUME Init PROVE Parsing /\ LastRight
  OBVIOUS
<1>1. /\ pc = "start" /\ error = "none" /\ pipeline = <<>> /\ cmd = NewCommand
      /\ background = FALSE /\ lines = <<>>
  BY DEF Init
<1> QED BY <1>1, Zenon DEF Parsing, LastRight

\* The text of a line that main() was handed is a line of the input.
LEMMA RightLine ==
  ASSUME input \in Seq(Char), NEW l, RanRight(l), l.last < Len(input) + 1,
         l.last >= l.first, input[l.last] = Newline,
         NEW L, L = SubSeq(input, l.first, l.last - 1), Unquoted(L, Len(L) + 1)
  PROVE  LineAt(L, l.first, l.last)
<1> DEFINE b == l.first
           e == l.last
<1>1. b \in Nat \ {0} /\ e \in Int /\ e < Len(input) + 1 /\ e >= b /\ NoLineEnd(b, e - 1)
      /\ Len(input) \in Nat /\ input[e] = Newline /\ L = SubSeq(input, b, e - 1)
  BY DEF RanRight
<1> HIDE DEF b, e
<1>2. e \in b .. Len(input)
  BY <1>1
<1>3. /\ L \in Seq(Char) /\ Len(L) = e - b /\ \A t \in 1 .. Len(L) : L[t] = input[b + t - 1]
  <2> DEFINE d == e - 1
             c == b - 1
  <2>1. /\ d \in 0 .. Len(input) /\ c \in 0 .. d /\ d - c = e - b /\ c + 1 = b
        /\ \A t \in Int : c + t = b + t - 1
    BY ONLY <1>1, <1>2
  <2>2. L = Part(input, c, d)
    BY <1>1, <2>1 DEF Part
  <2> HIDE DEF c, d
  <2>3. input \in Seq(Char)
    OBVIOUS
  <2>4. d \in 0 .. Len(input) /\ c \in 0 .. d
    BY <2>1
  <2> DEFINE p == Part(input, c, d)
  <2>5. /\ p \in Seq(Char) /\ Len(p) = d - c
        /\ \A t \in 1 .. d - c : p[t] = input[c + t]
    <3>1. Part(input, c, d) \in Seq(Char) /\ Len(Part(input, c, d)) = d - c
      BY ONLY <2>3, <2>4, PartIs
    <3>2. \A t \in 1 .. d - c : Part(input, c, d)[t] = input[c + t]
      BY ONLY <2>3, <2>4, PartIs
    <3> QED BY <3>1, <3>2
  <2> HIDE DEF p
  <2>6. L = p
    BY <2>2 DEF p
  <2>7. Len(p) = e - b /\ \A t \in 1 .. Len(p) : p[t] = input[b + t - 1]
    BY ONLY <2>1, <2>5
  <2> QED BY <2>5, <2>6, <2>7
<1> QED BY <1>1, <1>2, <1>3 DEF LineAt, b, e

\* Every line of the grammar of every input runs as what it means: its commands with their
\* words and redirections, the operators between them, the background; but for a line with
\* a & or a | right behind the target of >> (Glued), and for one with the byte 255 right
\* behind a single |, which read_command() loses (Lost).
THEOREM ReadsTheGrammar == Spec => []ParsesRight
<1>1. ASSUME IInv, LastRight PROVE ParsesRight
  <2> SUFFICES ASSUME lines # <<>>, begin = next
               PROVE  LET l == lines[Len(lines)]
                          L == SubSeq(input, l.first, l.last - 1)
                      IN  /\ l.last >= l.first /\ input[l.last] = Newline
                          /\ Unquoted(L, Len(L) + 1)
                          /\ Proper(Calls(Body(L, Tokens(L)))) /\ ~ Glued(L, Tokens(L))
                          /\ ~ Lost(L, Tokens(L))
                          => /\ l.ran
                             /\ l.commands = Meaning(Calls(Body(L, Tokens(L))))
                             /\ l.background = InBackground(L, Tokens(L))
    BY DEF ParsesRight, Last
  <2> DEFINE l == lines[Len(lines)]
             L == SubSeq(input, l.first, l.last - 1)
  <2>1. RanRight(l) /\ input \in Seq(Char) /\ l.last < Len(input) + 1
    <3>1. RanRight(l)
      BY <1>1 DEF LastRight
    <3>2. begin = l.last + 1 /\ next \in 1 .. Len(input) + 1 /\ input \in Seq(Char)
      BY <1>1 DEF IInv, Chained, Place, Stands
    <3>3. l.last \in Int
      BY <3>1 DEF RanRight
    <3> HIDE DEF l
    <3> QED BY <3>1, <3>2, <3>3
  <2> HIDE DEF l
  <2> SUFFICES ASSUME l.last >= l.first, input[l.last] = Newline, Unquoted(L, Len(L) + 1),
                      Proper(Calls(Body(L, Tokens(L)))), ~ Glued(L, Tokens(L)),
                      ~ Lost(L, Tokens(L))
               PROVE  /\ l.ran /\ l.commands = Meaning(Calls(Body(L, Tokens(L))))
                      /\ l.background = InBackground(L, Tokens(L))
    BY DEF l
  <2>2. LineAt(L, l.first, l.last)
    BY <2>1, RightLine
  <2> HIDE DEF L
  <2>3. Good(L)
    BY DEF Good, Read
  <2> QED BY <2>1, <2>2, <2>3 DEF RanRight, Means, Read
<1>2. Init => IInv /\ Built /\ Parsing /\ LastRight
  BY InitIInv, InitBuilt, InitReads
<1>3. (IInv /\ Built /\ Parsing /\ LastRight) /\ [Next]_vars
        => (IInv /\ Built /\ Parsing /\ LastRight)'
  BY NextIInv, NextBuilt, NextReads
<1> QED BY <1>1, <1>2, <1>3, PTL DEF Spec
=============================================================================
