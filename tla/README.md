# Verification of sphere_multithread

The repository holds six small programs of a course on concurrent programming. They share no code and
do not talk to each other; each is a system of its own. This directory models them in TLA+, checks the
models with TLC on small instances, and proves theorems about all of them with TLAPS.

## Inventory

| Part | State | Operations | Talks to |
|---|---|---|---|
| **p1 allocator** (`allocator.cpp`, `allocator.h`) | two tables of `max_ptrs` block descriptors (used, free), the bytes of one buffer, the client's `Pointer` objects, which name a table entry | `alloc`, `realloc`, `free`, `defrag`; inside them `add_block_used`, `add_block_free` (recursive, merges), `shift_block_used` | one client, by calls and exceptions |
| **p2 chat server** (`server.cpp`, `server.h`) | `users`, the epoll batch `events[]`, one non-blocking socket per user, the log | `manage_chat` (loop), `manage_connection`, `read_from_user`, `send_message`, `manage_disconnect`, `~Server` | clients, by TCP |
| **p2 chat client** (`client.cpp`) | one socket | `send_message`, `recieve_message`, `use_chat` | the server |
| **p3 proxy** (`proxy.cpp`) | per session: two bufferevents with their buffers, `closed_sides`; the configuration, read once | `on_accept`, `read_cb`, `special_cb` | a client and a server, by TCP; libevent, by callbacks |
| **p4 index builder** (`index.cpp`) | at most `max_parts` temporary files, a read position and a look-ahead entry per file | `build_index_part`, `dump_index_part_to_file`, `append_doc_ids`, `build_index` | files only |
| **p5 shell parser** (`shell.c`) | one character given back, the word, command and pipeline being read, `status`, `error`, `background` | `read_word`, `read_address`, `read_command`, `read_pipeline`, `finish_line`, the loop of `main` | the executor, by the list of commands of a line |
| **p5 shell executor** (`shell.c`) | the commands of a line with `mode`, `pid`, `fd_in`, `fd_out`, the list of child pids, `siginted` | `pipeline_execution`, `execute_command`, `clear_zombies`; the SIGINT handler | child processes, by fork, wait, pipes and signals |
| **p8 sort** (`sort.cpp`) | one array | `quick_sort` (partition, two OpenMP tasks) | threads that share the array |

What is hard in each, and what makes it correct:

* **p1** No concurrency, but long sequences of calls, and an exception ("Maximum pointers reached") that
  leaves a call half done. Correct: blocks never overlap, every `Pointer` names a block of its own
  wherever `defrag` has put it, an object's bytes change only by its own calls, no byte is lost, free
  bytes are always merged, `defrag` ends and makes one free block.
* **p2** The server works off a batch of events while clients connect, send, close and reset, and
  descriptors are reused; connections are edge-triggered; sends are cut short by full sockets. Correct:
  no event is stale, log and user list agree, each client reads what was sent after it was accepted, in
  order; connections and messages are not forgotten; no client ends the server.
* **p3** Callbacks of two connections interleave with writes, the pending connect, ends of stream and
  resets. Correct: bytes arrive unchanged and in order, each end of stream follows the last byte, one
  half goes on when the other has ended, a session that is over is freed.
* **p4** A merge over several files that are read with one entry of look-ahead, into a file whose title is
  laid out before its lists are known. Correct: each part is in step with the words, all of the input is in a
  part, lists do not overlap, each word gets exactly the documents that contain it.
* **p5 parser** Characters read ahead and given back, errors in the middle of a line, the end of the input
  anywhere. Correct: a line is a line whatever stands in it, a line of the grammar is read as what it means,
  no loop turns for ever.
* **p5 executor** fork, wait and pipes in an order set by operators, interrupted by SIGINT at any point.
  Correct: left-to-right evaluation, every child of a foreground line reaped before the next line,
  SIGINT stops the current line and only it.
* **p8** Two tasks sort parts of one array at the same time, and the scans of the partition have no bound of
  their own. Correct: no scan leaves its segment, no two calls touch a cell at a time, the first call returns
  when the array is sorted, and it returns.

`PROJECT.json` lists every hazard at its line with the properties that cover it, and every definition
with the lines it models.

## The modules

`Allocator` (p1). One module variable per member: `used` and `free` are `blocks_used` and `blocks_free`,
`ptr` is `Pointer::id`, `mem` the buffer; addresses are offsets from `base`. `alloc` and the branches of
`realloc` that free nothing are one step. Whatever runs `add_block_free` is a sequence of steps, one per
recursive call: `op` names the caller, `blk` the argument, `dest` the new block `realloc` holds back until
the call returns. That is where the exception can strike, so the state in the middle of a call matters.
`stale` holds the Pointers whose `free` or `realloc` ended in an exception; the client does not use them
again except to assign to them. `AllocBlock`, `AllocTableFull`, `AllocNoMemory` are the ways `alloc` ends;
`ReallocSame/Shrink/Grow/Move/NoMemory` the branches of `realloc`; `Free`; `Defrag`, `DefragShift`,
`DefragDone` the turns of `defrag`; `AddFreeMerge`, `AddFreeInsert`, `AddFreeTableFull` those of
`add_block_free`, the first of which includes everything the caller does when it returns (`Return`).

`ObjectStore` is what the client is promised: objects, sequences of bytes that only their own calls
change. `AllocatorStore` maps the allocator's state to it (`Object(h)` is what `Pointer.get()` gives access
to) and states `ImplementsStore`. `AllocatorProofs` holds the theorems.

`ChatServer` (p2). The handling of one event is a step, since the server has one thread and nothing it
does in between waits; the clients and the kernel move between any two events. `batch` is the rest of
`events[]`, `ready` epoll's ready list (the listening socket is level-triggered and stays on it, a
connection leaves it when it is reported), `conn` who is behind a descriptor, `peer` what the server's
kernel knows of each connection: `open`, `fin` (the peer has closed), `poked` (the server has sent to it
since), `broken` (the answer, a reset, has arrived: the next send raises SIGPIPE), `reset` (the peer reset
it: the next recv fails). A message is two pieces, so that a send can be cut short. The text of a message
is the list of chunks one `recv` returned. `Only` picks entries of epoll's list; it is a recursive function, so that
`ChatProofs` can reason about it.

`ProxySession` (p3). One session, as sessions share only the process. A step is one callback or one move
of a peer or the network. A byte travels from `wire[d]` (sent by the peer of side d) through the
bufferevent of d, which `read_cb` empties at once into `output` of the other side, to `arrived` of that
side. libevent's part (when it reads, writes and reports) is modelled from how `proxy.cpp` uses it. A peer that closes
before its end of stream resets the connection (`Reset`), which `read()` reports; one that closes after it is not noticed until
the reset that answers what it has not read arrives (`ResetArrives`, `broken`), and then the next `write()` raises SIGPIPE.

`ShellExec` (p5). `pc` is where `pipeline_execution` is; a step is what the shell does up to its next system call
that waits or creates a process, and between any two steps a process may pass its exec or end, and `handler`
may run. `ops` is the line as read, `mode` the operators as the code overwrites them (`Skip`), `pids` the list
`pipeline_pids`, `prev` and `tmp` the code's two positions in the line. A process is `forked` until its exec: a
SIGINT that comes before runs the handler it has inherited, and does not end it. Two places are undefined or nearly so in the
code. `zombie` is tested before it is set (line 592), which is a choice in `Clear`. `status` is declared inside
the loop and `wait4` leaves it alone for a process already reaped: at -O0 it keeps its place on the stack, so it
holds what the last `wait4` stored, and `Wait4` says so. A line in the background is one process that ends when it likes, since it
shares nothing with the shell after its fork; what goes on inside it is the same code without a prompt.
A process may end in any way at any time, killed by anybody included. `Asked` is the reference: whether evaluation from left to right
(`4.txt:17-25`) asks for a command, given how the last one started before it has ended; one that was killed has an exit code
that is not 0. `Goes` takes out the one case in which the code does otherwise (`OrAfterKill`: a `||` behind a command that was killed,
line 765). `Ran` are the commands that were started. `ShellProofs` holds the theorems.

`ShellParser` (p5). A step is one turn of the loop of `read_command`: a word, the look-ahead behind it, and
what becomes of the word; then the command, the line and the turn of `main` end in steps of their own. Nothing else reads
the standard input, so a coarser step would hide nothing and a finer one show nothing. `next` is the position of the
stream with what was given back by `ungetc` counted; `cmd`, `pipeline`, `background`, `status`, `error` are the
code's. `lines` records what `main` did with each line and which characters it was. A word is the sequence of its
characters, an empty one is the code's NULL; `WordRead` is what reading one gives. The end of the input is no character
(`CharAssumption`): `getchar()` returns an int, and the parser keeps it in one everywhere but in line 428, `char cn = getchar()`.
There the byte 255 (`Byte255`) is the same as the end of the input (with gcc on x86, whose char is signed), and `ungetc()` of it gives
nothing back: `Consumes` says that the look-ahead behind a single `|` takes it. `ParserProofs` holds the theorems. `ShellGrammar` is the reference: it cuts a line into tokens, then into
calls; `ShellParser` extends it to state `ParsesRight`, and its actions use nothing of it. The executor's model starts where the parser ends: it takes any sequence of
operators between commands, which is what `ParsesRight` says a line gives; the operator behind the last command, if a
line ends in one, is never looked at.

`IndexBuilder` (p4). `parts` are the temporary files, as their titles (entries of word and offset) and bodies (a list at each
offset); offsets are sums of sizes in bytes, computed as the code computes them. `BuildPart` is
`build_index_part` and the dump of what it returns; `WriteWord` is a turn of the loop over the words, with
one turn of `append_doc_ids` per part (`Turn`, `Found`), which keeps `need_to_read`, `last_word`,
`last_offset`, `return_addr` and `finished` in `reader`. The program is sequential: the nondeterminism is in the input.
What the code leaves to `std::map`, `std::set` and `sort()` is said by what it is: `Sorted` lists the numbers of a set in ascending
order, `Ascending` those of a list; `Sums` are the offsets, one list after the other. `IndexProofs` holds the theorems.

`QuickSort` (p8). The unit of execution is a call of `quick_sort`, `calls` maps its number to its arguments and locals, and any
call that does not wait takes the next step, which reads one cell or exchanges two: that covers
every number of threads and every schedule of OpenMP. Calls on segments with `n < Threshold` run their two
halves one after the other, as the code does below 100. `Sorting` is the promise: exchanges only, and sorted when done.
`SortProofs` holds the theorems.

`Streams` is what a proxy session promises its peers; `ProxySession` states that it implements it, and `ProxyProofs`
proves it.

`ListTheorems` are the facts about numbers, sets and lists that the proofs about the chat server, the shell, the parser and the index builder
share.

`MCAllocator`, `MCChatServer`, `MCProxySession`, `MCShellExec`, `MCShellParser`, `MCIndexBuilder`, `MCQuickSort`
instantiate them for TLC.

## The runs

| Run | Bounds | Shows |
|---|---|---|
| `alloc_heap` | buffer of 4 bytes of two values, 4 table entries, 3 Pointers, sizes 1 to 4 | `TypeOK`, `NoLeak`, `GapsServed` (any free run of bytes can be allocated), `ImplementsStore`, `DefragMakesRoom`, `CallReturns` |
| `alloc_tables` | buffer of 5, 2 entries, 3 Pointers, sizes 0 to 3 | `NoOverlap`, `PointersValid`, `BytesKept` with either table full at any point |
| `chat_safety` | 3 clients, 2 descriptors, 2 events per batch, 1 chunk each, sockets of 3 pieces | `TypeOK`, `EventsStayGood`, `LogTellsUsers`, `InboxInOrder` |
| `chat_liveness` | 2 clients, 1 event per batch, 2 chunks each, recv of 1 | `ConnectionAccepted`, `ChunksRelayed` |
| `chat_end` | 2 clients, 2 chunks | finding: a client that closes is not noticed, or ends the server |
| `proxy_session` | 3 chunks each way, sockets of 2 | `TypeOK`, `InTransit`, `ImplementsStreams`, `SessionEnds`, `HalfOpenFlows` |
| `proxy_end` | same | finding: buffered bytes are dropped at the end of a stream |
| `shell_exec` | 4 processes altogether, 1 SIGINT | `TypeOK`, `LeftToRight`, `StopsAfterSigint`, `ReportsTrue`, `AllReaped`, `LineEnds` |
| `shell_parser` | every input of up to 6 characters out of 9 | `TypeOK`, `WholeLines`, `ParsesRight`, `Advances` |
| `index_build` | 3 documents of up to 2 of 3 words, 3 parts | `TypeOK`, `AllRead`, `InStep`, `ListsApart`, `IndexRight` |
| `quick_sort` | 7 cells of 3 values, parallel from 4 cells on | `TypeOK`, `InBounds`, `NoRace`, `ImplementsSorting`, `Terminates` |
| `shell_sigint` | 3 processes, 1 SIGINT | finding: a process just started does not get the SIGINT |

Why the bounds are enough. A buffer of five bytes (`alloc_tables`) holds two free gaps around three used blocks, one of four
every way of merging on the left, the right and both sides; copies of `defrag` overlap from two bytes on; with
two table entries every `add_block_*` finds its table full after three blocks. Three clients on two
descriptors make `accept` fail, descriptors be reused within a batch, and a broadcast have receivers before
and after the one that is broken; sockets of three pieces take one and a half messages. Streams of three
chunks through sockets of two leave bytes in every buffer at once. Four processes are one line of four commands with
every choice of its three operators (a skipped command between two that run), or two lines with a job in the
background that ends while either is waited for; one SIGINT can fall on the line, on the prompt before it or on
the one after it. Six characters are a line of three
commands with two operators, of two commands with a doubled operator and `&` behind, a redirection of either kind in
front of an operator, or two short lines one of which is broken off by an error; the nine characters are one of each
kind the parser tells apart (a tab is a space to it), the byte 255 included. Three documents in at most three parts give parts of one and of several documents, words that are in some parts
only, a document that repeats a word, and an entry kept over one or two words; one word is negative, so that it
sorts before the zeros that end a title. Seven cells give two parallel calls below a parallel one, with sequential ones below, empty
and single-cell parts, and every pattern of equal values around a pivot. Every property is also checked to be
able to fail: the models define, next to a definition, a mutated form (`TakeFromLate`, `EpollWaitEdge`, ...)
under which TLC finds the property violated.

Deadlock is checked for the allocator only: a server that has ended, one whose clients
have all finished, a shell at the end of its input, an index that is written and an array that is
sorted have nothing more to do.

Fairness. `Allocator`: `WF(InCall)`, the thread does not stop inside a call. `ChatServer`: `WF(ManageChat)`,
the loop goes on while `epoll_wait` has something to report; nothing is assumed of the clients.
`ProxySession`: each pending callback is called (libevent works off all active events of a turn), `connect`
is answered, and the peers read what has arrived. `ShellExec`: the shell does not stop, a process passes its
exec, and a command ends once nothing holds it up (its input has ended and its output has a reader) or once it
was sent SIGINT, and may be killed earlier; `LineEnds` is about executions without SIGINT, as a command may ignore one. `QuickSort`: `WF(Next)`, a free thread of the team takes
some call that is not waiting; which one is left open. The parser and the index builder state no liveness: they wait for nothing,
and `Advances` says of the parser that every step reads on or gets nearer to the exit.

## Where the code and its texts differ

The violation runs show three differences, quoted in `PROJECT.json`. A client's end is not handled as `info.txt:31` says
(`chat_end`): the trace TLC gives ends with the server killed by SIGPIPE in a broadcast (line 156); the exception of
`recv` after a reset (line 72) violates the property as well (`test.py:93-112` closes clients with unread messages and goes
on), and so do a message and an end of stream that arrive together: edge-triggered (line 183) and with one `recv` per event, the
user stays connected for ever. The proxy shuts a socket down that it still has to write to (`proxy_end`; `3.txt:9`). And the
shell does not pass a SIGINT on to a child it has forked but not yet put into its list (`shell_sigint`; `4.txt:33`), for which
it then waits.

Seen while modelling, without a run of their own:

* p3: the proxy does not notice that a peer closes the other half after its end of stream (line 191; `3.txt:10`): its
  bufferevent no longer reads, and a write raises SIGPIPE.
* p4: a part whose documents have no word is taken for the end of the input (line 53), so documents behind it are not
  indexed (`AllRead` says it is the only such case); a word with the id 0 ends a title early (line 180); a document that
  has a word twice is listed twice (line 260; `IndexRight` counts it so).
* p8: `main` passes the size for the index of the last element (line 110, `readme.txt:7` calls N the length): the cell behind the
  array is sorted along with it, and a size of 0 dereferences a null pointer (line 32).
* p5 parser: behind the target of `>>` nothing looks ahead (line 361), so `a>>f||b` is read as `a>>f|b`, `a>>f&&b` is an
  error and `a>>f&` runs in the foreground; `ParsesRight` excludes these lines (`Glued`) and fails without that. `>>`
  truncates like `>`, for `outmode` is not kept in the command (`4.txt:31`). A space behind a final `&` is an error. The byte
  255 right behind a single `|` is lost (line 428 takes it for EOF, line 436 gives nothing back): `a |яb` in CP1251 pipes into `b`; `ParsesRight` excludes these lines too (`Lost`) and fails without that. An empty
  call is dropped without an error (`| b`, `a || && b`), and `""` is not an argument.

The model of the chat server contains three more that are plain to see in the code and have no run: the
sender does not get its own message (`server.cpp:155` against `info.txt:4`), what one `recv` returns is
relayed whether it is a line or not (`server.cpp:60` against `info.txt:8` and `test_nosplit`), and what a
full socket does not take of a message is dropped (`server.cpp:156` against `info.txt:8`). `ChunksRelayed`
is conditional for the same reason as `EndNoticed` fails: what one `recv` leaves waits for the client's next
message.

Of the shell there are more, seen in the code while modelling it and without a run: a `||` behind a command that was killed by a
signal does not run its command (line 765 asks for WIFEXITED), though the value `wait4` stored is not 0 (`4.txt:19`, `4.txt:25`), so that
`crash || b` skips `b` (`LeftToRight` names this exception and fails without it; behind `&&` the code is right); the same process is reported as
"exited: 0" (line 751 prints WEXITSTATUS of any status; `ReportsTrue` takes the printed code for what it is); in `a && b | c` only `b`
writes to the pipe, not the whole expression before it (line 652 against `4.txt:21`); the read end of the pipe that is
made for every command but the last stays open after `&&` and `||` and leaks into the later ones (line 640, 672 against
`4.txt:47`); "Spawned child process" is never printed (`4.txt:27`); the end of a job in the background is told
only when a later line happens to wait (`4.txt:29`); after `&&` or `||` the list still holds a reaped process, so
`clear_zombies` waits until no child is left at all, jobs in the background included (line 592); a SIGINT at the prompt
stops the next line after its first command (line 742, `siginted` is cleared at the end of a line only); a last line
without a line feed is not executed (line 851).

## The proofs

Each theorem is about `Spec` and holds for every value of the constants that the named assumptions of its module allow. The proofs
have one lemma per action, and under it one step per conjunct that the action can disturb. Where a proof needs induction it is drawn
from the least element of a set of naturals (`LeastNumber`).

### The allocator: blocks and Pointers (`AllocatorProofs`)

* `TypeCorrect`: `Spec => []TypeOK`. `TypeOK` says of every block that it lies in the buffer.
* `PointersAlwaysValid`: `Spec => []PointersValid`.
* `BlocksNeverOverlap`: `Spec => []NoOverlap`.

Assumptions: the four named in `Allocator` (the sizes are positive, requests are naturals, there is a byte
value, NULL is not a block).

The argument. That blocks lie in the buffer cannot be shown alone: `free` and `realloc` use `used[ptr[h]]`
without a look at it, so it must be known to be a block, which is `PointersValid`; and `PointersValid` in
the middle of a call depends on which of `blk` and `dest` are in use, which is `CallState`. `TypeInv` is
`TypeOK`, `CallState` and `PointersValid` together, and is inductive (`AlwaysTyped`). `Inv` adds `NoOverlap`,
in which the blocks that a call holds outside the tables count too: a merge extends `blk` by a block of
`free`, so it stays apart from the rest only because the absorbed block was; `defrag` moves a used block down
into a free one and puts the free bytes where its end was, so the two new blocks lie in the union of the two
old ones. The geometry is stated once, in lemmas on two or three blocks without tables.

### The allocator: bytes and objects (`AllocatorProofs`)

* `NoByteDropped`: `Spec => BytesKept`.
* `NothingLeaks`: `Roomy => (Spec => []NoLeak)`.
* `EveryGapServed`: `Roomy => (Spec => []GapsServed)`.
* `DefragGathers`: `Roomy => (Spec => DefragMakesRoom)`.
* `ObjectsSurvive`: `Spec => ImplementsStore`.

Assumptions: those of `Allocator`, and that NULL is no sequence of bytes (`AllocatorStore`). `Roomy` says that no request is for
zero bytes and that the tables have as many entries as the buffer has bytes, or more entries than there are Pointers. Without it
a full table drops bytes that no block accounts for (`alloc_tables` runs such an instance; `alloc_heap` runs one that is `Roomy`).

The argument. `BytesKept` follows the blocks: what a step cuts or joins has the same bytes (`JoinedBytes`, `TakeFromBytes`),
and in the tables only the slots it names change. `NoLeak` then fails only if an exception can strike, that is, if a table can be full
when it must not be. The inductive invariant is `Inv /\ Lossless`, where `Lossless` says, of a `Roomy` instance, that no block is
empty (`Solid`), that no two blocks of `free` touch (`Merged`; the one a call in progress is merging is not in the table), and `NoLeak`. No
table can be full, by a pigeonhole: blocks that are not empty and do not overlap have different first bytes, and a table that
has as many entries as there are bytes would leave no byte for the block to be added (`Crowded`); where the number
of Pointers is the bound instead, each free block but the last is followed by an object's, since free blocks do not touch and no byte is lost, and
objects have Pointers of their own. `GapsServed` and `DefragMakesRoom` are read off from `Merged` and `NoLeak`.

For `ImplementsStore` every action has a lemma that names its abstract step: `AllocBlock` is `Create`, a write is `Write`, `Free` is
`Destroy`, `ReallocShrink`, `ReallocGrow` and `ReallocMove` are `Resize`, an exception in the middle of a move is `Destroy`, and everything
else, `defrag` included, is a stutter. What makes the steps that move bytes right is `NoOverlap` (the copy overwrites nobody else) and `CopiedBytes`:
the loop copies upwards, so its result is the source wherever the target lies below it or apart from it, and it never is elsewhere.

### The proxy (`ProxyProofs`)

For sockets of every size and streams of every length:

* `SessionTypes`: `Spec => []TypeOK`.
* `NothingLost`: `Spec => []InTransit`. What arrived, what is buffered and what is not read yet make up what was sent.
* `TwoStreams`: `Spec => ImplementsStreams`.

Assumption: the one of `ProxySession` (a socket has room for something).

The argument. `IInv` adds two facts to `TypeOK` and `InTransit`. `Before`: nothing has been sent when `on_accept` opens the
session, so that its bytes are in transit from the start. `OneEnd`: while the session lives at most one end of stream has
been counted; the second frees it, so `closed_sides` stays within its type. `read_cb` moves a prefix from
the third part of a stream to the end of the second and `write` one from the second to the end of the first: regrouping a
concatenation is all that these two cases are. That a `write` is a step of `Streams` follows from `InTransit`: what
the output buffer begins with is the part of the stream that comes next (`NextOfStream`). All that ends the
session is `Cut`, everything else a stutter.

### The sort (`SortProofs`)

For arrays of every size and content, every threshold and every schedule of the tasks:

* `SortTypes`: `Spec => []TypeOK`.
* `ScansStopInTime`: `Spec => []InBounds`.
* `TasksNeverRace`: `Spec => []NoRace`.
* `SortsInPlace`: `Spec => ImplementsSorting`.

Assumptions: the size is positive and values are integers (`SizeAssumption`, `ValueAssumption`).

The argument. Of one call, `CallOK` says why its unbounded scans stop: at first the pivot itself is ahead of both; after an
exchange the exchanged cells are behind each scan and stop the other (`Stoppers`, `Begun`), and what a scan has passed is on the right
side of the pivot (`Passed`). That both parts are shorter than the segment is `Begun` too. Of two calls, `Apart` says that their
segments are disjoint, or one lies in a part of the other that the other waits for: so an exchange never disturbs what another call
knows, `CallOK` of each is kept by the steps of all the others, and `NoRace` follows, for a call that waits touches nothing. Of a call and
the calls it made, `Kids` and `Parents` say that they are the two parts of the segment, and `PartsSorted` that a part whose call has returned is
sorted; a call that returns has both parts sorted and the pivot between them, hence its segment. `Root` carries this to the
call of `main`, the last to return. That every step is an exchange or a stutter is the rest of `ImplementsSorting`.

### The shell's executor (`ShellProofs`)

For every number of processes and of SIGINTs:

* `ShellTypes`: `Spec => []TypeOK`.
* `RunsLeftToRight`: `Spec => []LeftToRight`.
* `SigintStopsTheLine`: `Spec => []StopsAfterSigint`.
* `PrintsTheTruth`: `Spec => []ReportsTrue`.
* `NoZombieLeft`: `Spec => AllReaped`.

Assumption: the two bounds are naturals.

The argument. Whether a command goes is asked of how the last one started before it has ended, at a time when more processes of the line
may be running. `Deciders` says that the process that was asked has been reaped, so that how it ended is fixed and `Goes`, once
true or false of a command the loop has passed, stays so; `Started` says that it is the code's `prev`. The modes are overwritten as
commands are skipped, but only where the loop has been: `Modes` says that those still to be looked at are the line's.
`status` is how `prev` ended once `prev` is reaped (`Statuses`), although `wait4` is called again for a process that is reaped and leaves
it alone; that uses `Listed`, by which every process of the line is in the list until it is reaped. `Place` counts the processes left, so that no
`fork` of a line fails that the model has let begin. `Late` counts the commands started after a SIGINT. That what the code asks of `status` is then
`Goes` is `RunsIsGoes`: of the three ways `prev` may have ended (with 0, with another code, killed) `Runs` treats each as `Goes` does.

### The chat server (`ChatProofs`)

For every number of clients and descriptors, every size of `events[]`, of a `recv` and of the sockets:

* `ChatTypes`: `Spec => []TypeOK`.
* `EventsAlwaysGood`: `Spec => []EventsStayGood`.
* `LogIsTrue`: `Spec => []LogTellsUsers`.
* `InboxesInOrder`: `Spec => []InboxInOrder`.

Assumptions: the four of `ChatServer` (descriptors are a finite set of numbers, not empty and without the listening one; the sizes are positive; a
chunk is a line or a part of one; None is no client).

The argument. An event of the batch could be stale only if what it is about was worked off or closed by an earlier event of the same batch.
`Events` says that no descriptor stands in the batch twice, and that each is good; one event closes its own descriptor only, which
is no longer in the batch, and a descriptor that `accept` returns is free, so it is not in the batch either. `Users` and `Newcomers` say that users,
descriptors and accepted clients correspond one to one and that who is not accepted has read nothing. `Logged` counts: a client has one CONNECT more than
DISCON entries while it has a descriptor and as many otherwise. `Delivered` says that nobody has got what is not logged, so that the number of
a message that is sent, the length of the log at that time, is not below any in an inbox.

### The shell's parser (`ParserProofs`)

For every alphabet with the delimiters, the space and the quote in it, and every input:

* `ParserTypes`: `Spec => []TypeOK`.
* `LinesAreWhole`: `Spec => []WholeLines`.
* `AlwaysAdvances`: `Spec => Advances`.
* `ReadsTheGrammar`: `Spec => []ParsesRight`, for all lines of the grammar but the `Glued` and the `Lost` ones.

Assumptions: `CharAssumption`, `InputAssumption`.

The argument. `Stands(p, n, s)` says that in the characters from p to before n there is no line feed, but the last one if and only if the status s is
a line feed. It is what a word (`ReadWordStands`), the look-ahead behind it (`LookAheadStands`), the use of the word (`UseStands`) and the end of a line
(`FinishStands`) hand on, whether they end in an error or not and in quotes or out of them. `Place` says it of the line being read, `Chained` that this
line begins where the last ended; with `WholeLines` they are inductive. `Advances` follows: a turn that reads nothing on stands at the end of the input or has
just read a line feed, and then `Rank` falls.

For `ParserTypes`, `Built` says what words and commands are made of. A word ends at the first character that ends it, a line feed is one in
quotes or out of them, and so none is in it (`WordStops`); `WordOfIs` adds that `copy_word` leaves the quotes out. `Handed` carries
this through look-ahead and use.

`ReadsTheGrammar` sets the parser, which reads characters, beside the grammar, which cuts a whole line into tokens and those into calls. It has
three layers. (1) Characters: `Reached(L, i, k)` says that the place i of the line L is between tokens and that k tokens are in front of it.
From such a place `read_word` reads either the next token, a word, or nothing in front of an operator or the line end (`Reads`). `Second`
pairs the characters of a run of `&`, `|` or `>` by counting, the code by looking at the next one: `SecondNext` makes the counting step by step,
and `Turns` concludes that every turn ends behind a token, an operator or the line (`Ends`); in the middle of one token only, `>>`, where the next turn reads twice
(`ReadsTwice`) and does not look ahead, which is why lines that are `Glued` are left out. (2) Tokens: `InCall` says to which call the token k belongs, `Made` that
the words and redirections gathered are those of the call up to k; one more word (`MadeWord`) or redirection (`MadeTarget`) keeps it. A redirection that a turn has read is counted
with its target only, by the next turn (`Settled`). (3) States: `Parsing` says for every line L of the grammar, neither `Glued` nor `Lost`, that may be at hand, that error is none and `cmd` and `pipeline` are the calls
up to the last token read (`Midway`), and when `main` gets it, that `pipeline` is its meaning; `LastRight` says it of the last line handed on.
They are inductive with `IInv` and `Built`. `Parsing` quantifies over L and its end, so no step needs to know how the line goes on: what is not a line of the grammar is
not spoken of.

### The index builder (`IndexProofs`)

For every input, any number of parts and any finite or infinite set of word numbers:

* `IndexTypes`: `Spec => []TypeOK`.
* `AllOfItRead`: `Spec => []AllRead`.
* `MergeInStep`: `Spec => []InStep`.
* `ListsNeverOverlap`: `Spec => []ListsApart`.
* `IndexIsRight`: `Spec => []IndexRight`.

Assumptions: `WordAssumption` (words and documents are integers, no word is 0), `BoundAssumption`.

The argument. The parts cut the input: `SplitInv` has a list of cuts (`Cuts`): part p is the file of the documents behind cut p - 1 up to cut p (`FileRight`), in which each list has each document as often as the word stands in it. `IndexRight` needs this count to add up over the parts
(`Times`), and it does because the cuts follow each other (`TimesApart`). Every part but the last has at least `Threshold` bytes, and
`MaxParts * Threshold` is more than the input has: so `max_parts` parts are enough (`EnoughParts`), and what stays unread is behind a part without a word.
`ReaderInv` is the look-ahead. When the words up to w are written, reader p has passed exactly the b title entries of part p
that are not above w, and holds entry b + 1, read or still to be read (`ReaderAt`). It is inductive only together with the order of `todo` and of
the titles: the next word merged is the least one left, so an entry that is not it is above it, in all parts (`FoundIs`, `TurnIs`).
`OutputInv` says of what is written that words ascend, that each list is right (`EntryRight`) and ends where the next begins, and that
`offset` is not before the end of the last one; all start behind a title that has room for all words. Each of the three needs the one
before; `IInv` is their conjunction.

### Checked by TLC only

* All liveness (`CallReturns`, `ConnectionAccepted`, `ChunksRelayed`, `SessionEnds`, `HalfOpenFlows`, `LineEnds`, `Terminates`), which is out of the prover's
  reach: `Advances` and `BytesKept` are action properties.


## Not modelled, and why

* Zero-size blocks in the liveness run: an empty used block and an empty free block at one address let
  `defrag` exchange them for ever. The safety runs include sizes of zero.
* `~Allocator` (it clears a free entry before it deletes it, so the descriptors leak), `show`, `dump`.
* The client's misuse of `Pointer` (free of a null Pointer): the code has no check, the model's client does not do it.
* The bytes of chat messages: the terminating zero behind a full buffer (`server.cpp:63`) and the
  prefix that makes a message longer than its buffer need lengths in bytes.
* `client.cpp` beyond what the server sees: its loop is a terminal front end, and what is hard in it (lines that stdio has read ahead
  of `select`, `client.cpp:47`) is between stdio and the terminal. The proxy's configuration: a parser of one line, run once
  at the start. The tests.
* The vendored Google Test. It is 29 653 of the 32 534 lines of code in the repository, and not its own; the map covers more than
  half of the rest.
* p5: redirections to files at the executor, the second meaning of a pid that the kernel gives out again while the old one is
  still in the list, and a pipe that an unrelated command inherits.
* p3: which session has a descriptor by the time it is closed again. Behind the second end of stream `special_cb` closes both sockets (lines 184
  and 185) and `bufferevent_free` closes them once more (BEV_OPT_CLOSE_ON_FREE), at once or, in newer versions of libevent, after the
  callback, when `accept` or `socket` may have given the number to another session; the model has one session and no descriptors.
* p4: failing reads and writes of files; a word with the id 0 (`WordAssumption`). p8: the timing, the printing, and who owns the
  cell behind the array.

## Plan

Done: `Allocator`, `ObjectStore`, `AllocatorStore`, `AllocatorProofs`, `ChatServer`, `ChatProofs`, `ProxySession`, `Streams`,
`ProxyProofs`, `ShellExec`, `ShellProofs`, `ShellParser`, `ShellGrammar`, `ParserProofs`, `IndexBuilder`, `IndexProofs`, `QuickSort`,
`Sorting`, `SortProofs`, `ListTheorems`.

Every invariant and action property of a passing run, and every refinement, is proved; liveness is left to TLC.

The modules the theorems are about have no RECURSIVE operator.
