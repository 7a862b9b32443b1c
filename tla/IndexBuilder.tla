----------------------------- MODULE IndexBuilder -----------------------------
(***************************************************************************)
(* The builder of an inverted index of p4 (index.cpp).  The input, a       *)
(* sequence of documents, is cut into at most max_parts parts; the index   *)
(* of each part goes to a temporary file; then the files are merged word   *)
(* by word, each read through one entry of look-ahead.                     *)
(*                                                                         *)
(* A file has a title, one entry per word in ascending order with the      *)
(* offset of its list and an entry of zeros at the end, and a body, the    *)
(* lists of documents at these offsets.  Offsets are in bytes: an entry of *)
(* the title has 16, a list 4 and 8 for every document.                    *)
(***************************************************************************)
EXTENDS Integers, SequencesExt

CONSTANTS
  MaxParts,   \* max_parts
  DocId, Word,
  MaxDocs,    \* documents of an input
  MaxWords    \* words of a document

\* Word 0 marks the end of a title.
ASSUME WordAssumption == Word \subseteq Int \ {0} /\ DocId \subseteq Int
ASSUME BoundAssumption ==
  MaxParts \in Nat \ {0} /\ MaxDocs \in Nat /\ MaxWords \in Nat

VARIABLES
  pc,       \* "split", "merge", "done"
  input,    \* the documents of the input file
  pos,      \* the next document to be read
  cover,    \* the documents up to this one are in parts
  parts,    \* the temporary files
  reader,   \* need_to_read, last_word, last_offset, return_addr, finished of each part
  todo,     \* unique_word_ids_list, from the iterator on
  offset,   \* body_offset
  output    \* the output file

vars == <<pc, input, pos, cover, parts, reader, todo, offset, output>>

Document == [id : DocId, words : SeqOf(Word, MaxWords)]
NoFile   == [title |-> <<>>, body |-> <<>>]

WordsOf(docs) == UNION {ToSet(docs[i].words) : i \in DOMAIN docs}
ListSize(n)   == 4 + 8 * n
Zeros         == [word |-> 0, offset |-> 0]

\* How often v is in list s.
Count(s, v) == Cardinality({k \in DOMAIN s : s[k] = v})

\* The numbers of a set in ascending order, as std::map and std::set keep them.
Sorted(S) ==
  [k \in 1 .. Cardinality(S) |-> CHOOSE x \in S : Cardinality({y \in S : y < x}) = k - 1]

\* The numbers of a list in ascending order.
Ascending(s) ==
  [k \in DOMAIN s |->
     CHOOSE x \in ToSet(s) : /\ Cardinality({i \in DOMAIN s : s[i] < x}) < k
                             /\ Cardinality({i \in DOMAIN s : s[i] <= x}) >= k]

\* The sums of the first numbers of a list.
Sums(s) ==
  LET upto[k \in 0 .. Len(s)] == IF k = 0 THEN 0 ELSE upto[k - 1] + s[k]
  IN  upto

Init ==
  /\ pc = "split"
  /\ input \in SeqOf(Document, MaxDocs)
  /\ pos = 1 /\ cover = 0
  /\ parts = <<>> /\ reader = <<>> /\ todo = <<>>
  /\ offset = 0 /\ output = NoFile

-----------------------------------------------------------------------------
(* Splitting the input *)

\* The bytes of the input up to each document, of which each has an id and a count.
Upto      == Sums([i \in DOMAIN input |-> 12 + 8 * Len(input[i].words)])
Threshold == Upto[Len(input)] \div MaxParts + 1

\* The last document of the part that starts at pos.
PartEnd ==
  CHOOSE e \in pos - 1 .. Len(input) :
    /\ e = Len(input) \/ Upto[e] - Upto[pos - 1] >= Threshold
    /\ \A f \in pos .. e - 1 : Upto[f] - Upto[pos - 1] < Threshold

\* index_part: for each word the documents that contain it, in the order they
\* are read, as often as they contain it.
IndexPart(docs) ==
  [w \in WordsOf(docs) |->
     FlattenSeq([i \in DOMAIN docs |-> [k \in 1 .. Count(docs[i].words, w) |-> docs[i].id]])]

\* dump_index_part_to_file()
PartFile(index) ==
  LET words == Sorted(DOMAIN index)
      sizes == Sums([k \in DOMAIN words |-> ListSize(Len(index[words[k]]))])
      At(k) == 16 * (Len(words) + 1) + sizes[k - 1]
  IN  [title |-> Append([k \in DOMAIN words |-> [word |-> words[k], offset |-> At(k)]], Zeros),
       body  |-> [o \in {At(k) : k \in DOMAIN words} |->
                    index[words[CHOOSE k \in DOMAIN words : At(k) = o]]]]

\* Mutation: the last part is not read.
MorePartsLess == Len(parts) + 1 < MaxParts
MoreParts     == Len(parts) < MaxParts

\* build_index_part() of a part with words
BuildPart ==
  /\ pc = "split" /\ MoreParts
  /\ LET docs == SubSeq(input, pos, PartEnd)
     IN  /\ WordsOf(docs) # {}
         /\ parts' = Append(parts, PartFile(IndexPart(docs)))
  /\ pos' = PartEnd + 1 /\ cover' = PartEnd
  /\ UNCHANGED <<pc, input, reader, todo, offset, output>>

\* All parts are read, or one has no word (file_finished): the merge begins.
BeginMerge ==
  /\ pc = "split"
  /\ LET none == WordsOf(SubSeq(input, pos, PartEnd)) = {}
     IN  /\ MoreParts => none
         /\ pos' = IF MoreParts THEN PartEnd + 1 ELSE pos
  /\ reader' = [p \in DOMAIN parts |-> [need |-> TRUE, word |-> 0, offset |-> 0,
                                        addr |-> 0, finished |-> FALSE]]
  /\ todo' = Sorted(WordsOf(SubSeq(input, 1, cover)))
  /\ offset' = 16 * (Len(todo') + 1)
  /\ pc' = "merge"
  /\ UNCHANGED <<input, cover, parts, output>>

-----------------------------------------------------------------------------
(* append_doc_ids(): one turn of its loop *)

\* The entry of the title at return_addr.
Entry(p) == parts[p].title[reader[p].addr \div 16 + 1]

\* The offset of the list of word w in part p, if it is found: none or one.
Found(p, w) ==
  LET r == reader[p]
  IN  IF r.finished THEN {}
      ELSE IF ~r.need THEN {o \in {r.offset} : r.word = w}
      ELSE {o \in {Entry(p).offset} : Entry(p).word = w}

\* Mutation: an entry is passed twice.
ReadEntryTwice(p, w) ==
  LET r == reader[p]
      e == Entry(p)
  IN  IF e.word = w
        THEN [r EXCEPT !.addr = @ + 32]
        ELSE [r EXCEPT !.addr = @ + 16, !.need = FALSE, !.word = e.word, !.offset = e.offset,
                       !.finished = (e.word = 0)]

\* The next entry is read; if it is not w's it is kept for later.
ReadEntry(p, w) ==
  LET r == reader[p]
      e == Entry(p)
  IN  IF e.word = w
        THEN [r EXCEPT !.addr = @ + 16]
        ELSE [r EXCEPT !.addr = @ + 16, !.need = FALSE, !.word = e.word, !.offset = e.offset,
                       !.finished = (e.word = 0)]

\* Mutation: an entry that was kept is not followed by the next.
TurnKeeps(p, w) ==
  LET r == reader[p]
  IN  IF r.finished \/ ~r.need THEN r ELSE ReadEntry(p, w)

Turn(p, w) ==
  LET r == reader[p]
  IN  IF r.finished THEN r
      ELSE IF ~r.need THEN [r EXCEPT !.need = (r.word = w)]
      ELSE ReadEntry(p, w)

-----------------------------------------------------------------------------
(* The output file *)

\* Mutation: doc_ids.sort() is forgotten.
ListInOrder(lists) == FlattenSeq(lists)

\* doc_ids: the lists found in the parts, in order.
List(lists) == Ascending(FlattenSeq(lists))

\* Mutation: the count in front of a list is forgotten.
AfterBare(o, n) == o + 8 * n
After(o, n) == o + ListSize(n)

\* One turn of the loop over the words.
WriteWord ==
  /\ pc = "merge" /\ todo # <<>>
  /\ LET w     == Head(todo)
         lists == [p \in DOMAIN parts |->
                     IF Found(p, w) = {} THEN <<>>
                     ELSE parts[p].body[CHOOSE o \in Found(p, w) : TRUE]]
         docs  == List(lists)
     IN  /\ output' = [title |-> Append(output.title, [word |-> w, offset |-> offset]),
                       body  |-> [o \in DOMAIN output.body \cup {offset} |->
                                    IF o = offset THEN docs ELSE output.body[o]]]
         /\ offset' = After(offset, Len(docs))
         /\ reader' = [p \in DOMAIN parts |-> Turn(p, w)]
  /\ todo' = Tail(todo)
  /\ UNCHANGED <<pc, input, pos, cover, parts>>

Finish ==
  /\ pc = "merge" /\ todo = <<>>
  /\ output' = [output EXCEPT !.title = Append(@, Zeros)]
  /\ pc' = "done"
  /\ UNCHANGED <<input, pos, cover, parts, reader, todo, offset>>

Next == BuildPart \/ BeginMerge \/ WriteWord \/ Finish

Spec == Init /\ [][Next]_vars

-----------------------------------------------------------------------------
(* Properties *)

\* part_files[] is large enough, and no title is read beyond its end.
TypeOK ==
  /\ pc \in {"split", "merge", "done"}
  /\ pos \in 1 .. Len(input) + 1 /\ cover \in 0 .. pos - 1
  /\ Len(parts) <= MaxParts
  /\ \A p \in DOMAIN reader :
       /\ reader[p].need => reader[p].addr < 16 * Len(parts[p].title)
       /\ {reader[p].need, reader[p].finished} \subseteq BOOLEAN
  /\ ToSet(todo) \subseteq Word
  /\ \A k \in DOMAIN output.title : output.title[k].word \in Word \cup {0}

\* max_parts parts are enough for every input: what is not in a part comes after
\* a part without a word, which the builder takes for the end of the input.
AllRead ==
  pc # "split" => pos > Len(input) \/ pos > cover + 1

\* The look-ahead of every part is in step with the list of words: the entry kept,
\* or else the next one to be read, is the part's first word not yet written.
InStep ==
  pc = "merge" =>
    \A p \in DOMAIN parts :
      LET title == parts[p].title
          ahead == {k \in DOMAIN title : title[k].word \in ToSet(todo)}
          entry == IF reader[p].need THEN Entry(p).word ELSE reader[p].word
      IN  IF ahead = {} THEN entry = 0 ELSE entry = title[Min(ahead)].word

\* The entries of words in the title of the output.
Entries == {k \in DOMAIN output.title : output.title[k].word # 0}

\* The lists and the title never overlap, and the title is as long as was
\* foreseen before its first entry was written.
ListsApart ==
  pc # "split" =>
    LET FirstByte(k) == output.title[k].offset
        EndByte(k)   == FirstByte(k) + ListSize(Len(output.body[FirstByte(k)]))
    IN  \A k \in Entries :
          /\ 16 * (Cardinality(Entries) + Len(todo) + 1) <= FirstByte(k)
          /\ \A l \in Entries : k < l => EndByte(k) <= FirstByte(l)

\* How often the first n documents have word w in documents of the id d.
Times(w, d, n) ==
  Cardinality({q \in (1 .. n) \X (1 .. MaxWords) :
                 /\ input[q[1]].id = d
                 /\ q[2] \in DOMAIN input[q[1]].words /\ input[q[1]].words[q[2]] = w})

\* The output is the inverted index of the documents read: each word once, in
\* ascending order, with the documents that contain it, in ascending order and
\* as often as they contain it, found at the offset in its title.
IndexRight ==
  pc = "done" =>
    LET WordAt(k) == output.title[k].word
        Docs(k)  == output.body[output.title[k].offset]
    IN  /\ Entries = 1 .. Len(output.title) - 1
        /\ output.title[Len(output.title)] = Zeros
        /\ {WordAt(k) : k \in Entries} = WordsOf(SubSeq(input, 1, cover))
        /\ \A k, l \in Entries : k < l => WordAt(k) < WordAt(l)
        /\ \A k \in Entries :
             /\ \A x, y \in DOMAIN Docs(k) : x < y => Docs(k)[x] <= Docs(k)[y]
             /\ \A d \in DocId : Count(Docs(k), d) = Times(WordAt(k), d, cover)
=============================================================================
