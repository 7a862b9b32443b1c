----------------------------- MODULE ShellProofs -----------------------------
(***************************************************************************)
(* Proofs about the executor of the shell, for every number of processes   *)
(* and of SIGINTs.                                                         *)
(***************************************************************************)
EXTENDS ShellExec, ListTheorems

-----------------------------------------------------------------------------
(* The inductive invariant *)

\* pipeline_execution() is at work on a line.
InLine  == pc \in {"fork", "forked", "loop", "wait", "decide", "clear", "reap", "done"}

\* The next command may still be started.
Working == pc \in {"fork", "forked", "loop", "wait", "decide"}

\* The place of the loop, which ends behind the last command or after a SIGINT, and
\* the processes left for the commands to come.
Place ==
  /\ InLine => /\ Count = Len(ops) + 1
               /\ pc \notin {"fork", "forked"} => tmp > 1
               /\ pc \in {"clear", "reap", "done"} => tmp > Count \/ siginted
  /\ pc \in {"wait", "decide"} => mode[prev] # "pipe"
  /\ Working => Cardinality(Fresh) + tmp >= Count + (IF pc = "forked" THEN 0 ELSE 1)

\* Which commands have been started: none behind tmp, and prev is the last of them.
Started ==
  InLine =>
    /\ \A i \in Ran : i <= tmp /\ (i = tmp => pc = "forked")
    /\ pc = "forked" => tmp \in Ran
    /\ IF tmp = 1 THEN prev = 1
       ELSE /\ 1 \in Ran /\ prev \in Ran /\ prev < tmp
            /\ \A i \in Ran : i < tmp => i <= prev

\* The operators that will be looked at are those of the line.
Modes ==
  InLine =>
    /\ tmp > 1 /\ tmp <= Count => mode[prev] = ops[tmp - 1]
    /\ \A i \in DOMAIN mode : tmp <= i /\ i < Count => mode[i] = ops[i]

\* The loop has decided about command i.
Passed(i) == i < tmp \/ (i = tmp /\ pc \in {"fork", "forked"})

\* A command is started if and only if the line asks for it, and the process whose
\* exit code decided about it has been reaped.
Decided ==
  InLine /\ ~siginted =>
    \A i \in 2 .. Count : Passed(i) => IF i < tmp THEN i \in Ran <=> Goes(i) ELSE Goes(i)

Deciders ==
  InLine =>
    \A i \in 2 .. Count :
      Passed(i) /\ ops[i - 1] # "pipe" =>
        \E j \in Ran : j < i /\ (\A k \in Ran : k < i => k <= j) /\ state[pid[j]] = "reaped"

\* Processes of the line: created, and in the list until they are reaped.
Listed ==
  InLine =>
    \A i \in Ran : /\ state[pid[i]] # "none"
                   /\ \/ pid[i] \in Range(pids)
                      \/ state[pid[i]] = "reaped"
                      \/ pc = "forked" /\ i = tmp

\* status is how the previous command ended, once that is known.
Statuses ==
  /\ Working /\ tmp > 1 /\ state[pid[prev]] = "reaped" => status = exit[pid[prev]]
  /\ pc = "decide" => state[pid[prev]] = "reaped"
  /\ pc = "forked" => state[pid[tmp]] # "reaped"

Reported ==
  report.of # Nobody => /\ state[report.of] = "reaped"
                        /\ report.code = exit[report.of].code

Late ==
  /\ late \in {0, 1}
  /\ late = 1 => siginted /\ pc \notin {"read", "fork", "wait", "decide"}

IInv ==
  /\ TypeOK /\ Place /\ Started /\ Modes /\ Decided /\ Deciders
  /\ Listed /\ Statuses /\ Reported /\ Late

-----------------------------------------------------------------------------
(* Processes *)

LEMMA FreshFinite ==
  /\ IsFiniteSet(Fresh) /\ Cardinality(Fresh) \in Nat
  /\ Fresh = {} <=> Cardinality(Fresh) = 0
<1>1. IsFiniteSet(Process)
  BY FS_Interval, BoundAssumption DEF Process
<1>2. IsFiniteSet(Fresh)
  BY <1>1, FS_Subset DEF Fresh
<1> QED BY <1>2, FS_CardinalityType, FS_EmptySet

LEMMA NewIsFresh ==
  ASSUME Fresh # {}
  PROVE  NewProcess \in Fresh
<1>1. Fresh \subseteq Nat
  BY BoundAssumption DEF Fresh, Process
<1>2. \E m \in Fresh : \A x \in Fresh : m <= x
  BY <1>1, LeastNumber
<1> QED BY <1>2 DEF NewProcess

\* A process created leaves one less.
LEMMA OneLess ==
  ASSUME TypeOK, NEW p \in Fresh, NEW s \in {"forked", "running"},
         state' = [state EXCEPT ![p] = s]
  PROVE  Cardinality(Fresh') = Cardinality(Fresh) - 1
<1>1. Fresh' = Fresh \ {p}
  BY DEF TypeOK, Fresh
<1>2. IsFiniteSet(Fresh)
  BY FreshFinite
<1> QED BY <1>1, <1>2, FS_RemoveElement

\* No other step creates one.
LEMMA SameFresh ==
  ASSUME TypeOK, \A p \in Process : state'[p] = "none" <=> state[p] = "none"
  PROVE  Fresh' = Fresh
BY DEF Fresh

\* What decides about a command is how the last one started has ended.
LEMMA EndBeforeIs ==
  ASSUME TypeOK, NEW i \in 2 .. Count, NEW j \in Ran, j < i,
         \A k \in Ran : k < i => k <= j
  PROVE  EndBefore(i) = exit[pid[j]]
<1> DEFINE S == {k \in Ran : k < i}
<1>1. S \subseteq Int /\ j \in S /\ \A k \in S : k <= j
  BY DEF TypeOK, Ran
<1>2. Max(S) = j
  <2> HIDE DEF S
  <2> QED BY <1>1, MaxIs
<1> QED BY <1>2 DEF EndBefore

\* The test of the code is what the line asks for: of the three ways a process ends
\* && takes the first, || the second, and neither takes the third.
LEMMA RunsIsGoes ==
  ASSUME TypeOK, NEW i \in 2 .. Count,
         mode[prev] = ops[i - 1], mode[prev] # "pipe", EndBefore(i) = status
  PROVE  Runs <=> Goes(i)
<1>1. status \in {Exited(0), Exited(1), Killed}
  BY DEF TypeOK, Status
<1>2. CASE status = Exited(0)
  BY <1>2 DEF Runs, Goes, Asked, OrAfterKill, Exited, Killed
<1>3. CASE status = Exited(1)
  BY <1>3 DEF Runs, Goes, Asked, OrAfterKill, Exited, Killed
<1>4. CASE status = Killed
  BY <1>4 DEF Runs, Goes, Asked, OrAfterKill, Exited, Killed
<1> QED BY <1>1, <1>2, <1>3, <1>4

\* Whether the line asks for a command depends on the commands before it only.
LEMMA SameGoes ==
  ASSUME TypeOK, TypeOK', NEW i \in 2 .. Count, ops' = ops,
         \A k \in Nat : k < i => (k \in Ran' <=> k \in Ran),
         \A k \in Ran : k < i => pid'[k] = pid[k],
         ops[i - 1] # "pipe" =>
           \E j \in Ran : /\ j < i /\ (\A k \in Ran : k < i => k <= j)
                         /\ exit'[pid[j]] = exit[pid[j]]
  PROVE  Goes(i)' <=> Goes(i)
<1>1. CASE ops[i - 1] = "pipe"
  BY <1>1 DEF Goes, Asked, OrAfterKill
<1>2. CASE ops[i - 1] # "pipe"
  <2>1. PICK j \in Ran : /\ j < i /\ (\A k \in Ran : k < i => k <= j)
                        /\ exit'[pid[j]] = exit[pid[j]]
    BY <1>2
  <2> DEFINE S == {k \in Ran : k < i}
             T == {k \in Ran' : k < i}
  <2>2. S \subseteq Int
    BY DEF TypeOK, Ran
  <2>3. S = T
    BY SMTT(30) DEF TypeOK, Ran
  <2>4. j \in S /\ \A k \in S : k <= j
    BY <2>1
  <2>5. Max(S) = j /\ Max(T) = j
    <3> HIDE DEF S, T
    <3>1. Max(S) = j
      BY ONLY <2>2, <2>4, MaxIs
    <3> QED BY ONLY <3>1, <2>3
  <2>6. EndBefore(i) = exit[pid[j]] /\ EndBefore(i)' = exit'[pid'[j]]
    BY <2>5 DEF EndBefore
  <2>7. EndBefore(i)' = EndBefore(i)
    BY <2>1, <2>6
  <2> QED BY <2>7 DEF Goes, Asked, OrAfterKill
<1> QED BY <1>1, <1>2

-----------------------------------------------------------------------------
(* Steps that only go on to another place of the code *)

LEMMA InitInv == Init => IInv
<1> SUFFICES ASSUME Init PROVE IInv
  OBVIOUS
<1>1. TypeOK
  <2>1. mode \in Seq(Operator) /\ ops \in Seq(Operator)
    BY DEF Init
  <2>2. pid \in Seq(Process \cup {Nobody}) /\ Len(pid) = Count /\ Count = 0 /\ pids \in Seq(Process)
    BY DEF Init, Count
  <2>3. status \in Status /\ exit \in [Process -> Status]
    BY DEF Init, Status
  <2>4. tmp = 1 /\ prev = 1 /\ sigints = 0 /\ pc = "read" /\ siginted = FALSE /\ signalled = {}
    BY DEF Init
  <2>5. /\ report \in [of : Process \cup {Nobody}, code : {0, 1}]
        /\ state \in [Process -> {"none", "forked", "running", "ended", "reaped"}]
        /\ input \in [Process -> Process \cup {Nobody}]
    BY DEF Init
  <2>6. tmp \in 1 .. Count + 1 /\ prev \in 1 .. tmp /\ sigints \in 0 .. MaxSigints
    BY <2>2, <2>4, BoundAssumption
  <2> QED BY <2>1, <2>2, <2>3, <2>4, <2>5, <2>6 DEF TypeOK
<1>2. Place /\ Started /\ Modes /\ Decided /\ Deciders /\ Listed
  BY DEF Init, Place, Started, Modes, Decided, Deciders, Listed, InLine, Working
<1>3. Statuses /\ Reported /\ Late
  BY DEF Init, Statuses, Reported, Late, Working, Nobody
<1> QED BY <1>1, <1>2, <1>3 DEF IInv

LEMMA GotoStep ==
  ASSUME IInv, NEW next, Goto(next),
         \/ pc = "fork" /\ next = "exited"
         \/ pc = "loop" /\ (tmp > Count \/ siginted) /\ next = "clear"
         \/ pc = "loop" /\ tmp <= Count /\ ~siginted /\ mode[prev] = "pipe" /\ next = "fork"
         \/ pc = "loop" /\ tmp <= Count /\ ~siginted /\ mode[prev] # "pipe" /\ next = "wait"
         \/ pc = "decide" /\ siginted /\ next = "clear"
         \/ pc = "decide" /\ ~siginted /\ Runs /\ next = "fork"
         \/ pc = "clear" /\ next \in {"reap", "done"}
         \/ pc = "reap" /\ next = "done"
  PROVE  IInv'
<1> USE DEF Goto, line, kernel
<1> USE DEF IInv
<1>1. TypeOK'
  BY DEF TypeOK, Count
<1>2. Place'
  BY DEF TypeOK, Place, Count, InLine, Working, Fresh
<1>3. Started'
  BY DEF TypeOK, Started, Place, Count, InLine, Ran
<1>4. Modes'
  BY DEF TypeOK, Modes, Place, Count, InLine
<1>a. /\ Ran' = Ran /\ Count' = Count /\ \A i \in Int : Goes(i)' <=> Goes(i)
  BY DEF Ran, Count, Goes, Asked, OrAfterKill, EndBefore
<1>b. ASSUME NEW i \in 2 .. Count, Passed(i)', ~ Passed(i), InLine'
      PROVE  /\ i = tmp /\ prev \in Ran /\ prev < i /\ \A k \in Ran : k < i => k <= prev
             /\ \/ mode[prev] = "pipe"
                \/ pc = "decide" /\ ~siginted /\ Runs
             /\ mode[prev] = ops[i - 1]
  <2>1. i = tmp /\ next = "fork"
    BY <1>b DEF Passed
  <2>2. InLine /\ tmp > 1 /\ tmp <= Count
    BY <2>1 DEF TypeOK, InLine, Place
  <2> QED BY <2>1, <2>2 DEF Started, Modes
<1>5. Decided'
  <2> SUFFICES ASSUME InLine', ~siginted, NEW i \in 2 .. Count, Passed(i)'
               PROVE  IF i < tmp THEN i \in Ran <=> Goes(i) ELSE Goes(i)
    BY <1>a DEF Decided
  <2>1. InLine
    BY DEF InLine
  <2>2. CASE Passed(i)
    BY <2>1, <2>2 DEF Decided
  <2>3. CASE ~ Passed(i)
    <3>1. i = tmp /\ prev \in Ran /\ prev < i /\ (\A k \in Ran : k < i => k <= prev)
      BY <2>3, <1>b
    <3>2. CASE mode[prev] = "pipe"
      <4>1. ops[i - 1] = "pipe"
        BY <3>2, <2>3, <1>b
      <4> QED BY <4>1, <3>1 DEF Goes, Asked, OrAfterKill, TypeOK
    <3>3. CASE pc = "decide" /\ Runs
      <4>1. EndBefore(i) = exit[pid[prev]]
        BY <3>1, EndBeforeIs
      <4>2. status = exit[pid[prev]]
        BY <3>1, <3>3 DEF Statuses, Working, TypeOK
      <4>3. ops[i - 1] = mode[prev]
        BY <2>3, <1>b
      <4>4. Goes(i)
        BY <4>1, <4>2, <4>3, <3>3, RunsIsGoes DEF Place
      <4> QED BY <4>4, <3>1 DEF TypeOK
    <3> QED BY <3>2, <3>3, <2>3, <1>b
  <2> QED BY <2>2, <2>3
<1>6. Deciders'
  <2> SUFFICES ASSUME InLine', NEW i \in 2 .. Count, Passed(i)', ops[i - 1] # "pipe"
               PROVE  \E j \in Ran : j < i /\ (\A k \in Ran : k < i => k <= j) /\ state[pid[j]] = "reaped"
    BY <1>a DEF Deciders
  <2>1. InLine
    BY DEF InLine
  <2>2. CASE Passed(i)
    BY <2>1, <2>2 DEF Deciders
  <2>3. CASE ~ Passed(i)
    <3>1. prev \in Ran /\ prev < i /\ (\A k \in Ran : k < i => k <= prev) /\ pc = "decide"
      BY <2>3, <1>b
    <3>2. state[pid[prev]] = "reaped"
      BY <3>1 DEF Statuses
    <3> QED BY <3>1, <3>2
  <2> QED BY <2>2, <2>3
<1>7. Listed'
  BY DEF TypeOK, Listed, InLine, Ran
<1>8. Statuses'
  BY DEF TypeOK, Statuses, Working, Place, InLine, Started
<1>9. Reported'
  BY DEF TypeOK, Reported
<1>10. Late'
  BY DEF TypeOK, Late
<1> QED BY <1>1, <1>2, <1>3, <1>4, <1>5, <1>6, <1>7, <1>8, <1>9, <1>10

LEMMA ReadForegroundStep ==
  ASSUME IInv, NEW o \in Lines, ReadForeground(o)
  PROVE  IInv'
<1> USE DEF ReadForeground, line, kernel, IInv
<1>a. o \in Seq(Operator) /\ Len(o) \in Nat
  <2>1. PICK n \in 0 .. MaxProcesses - 1 : o \in [1 .. n -> Operator]
    BY DEF Lines
  <2>2. n \in Nat
    BY <2>1, BoundAssumption
  <2> QED BY <2>1, <2>2
<1>b. mode' \in Seq(Operator) /\ Len(mode') = Len(o) + 1
  BY <1>a DEF Operator
<1>c. pid' \in Seq(Process \cup {Nobody}) /\ Len(pid') = Len(o) + 1 /\ pids' \in Seq(Process)
  BY <1>a
<1>d. /\ pc' = "fork" /\ ops' = o /\ tmp' = 1 /\ prev' = 1
      /\ UNCHANGED <<status, siginted, report, state, exit, input, signalled, sigints, late>>
  OBVIOUS
<1>1. TypeOK'
  <2>1. tmp' \in 1 .. Count' + 1 /\ prev' \in 1 .. tmp' /\ tmp' <= Count'
    BY <1>a, <1>b, <1>d DEF Count
  <2>2. Len(pid') = Count'
    BY <1>b, <1>c DEF Count
  <2> QED BY <2>1, <2>2, <1>a, <1>b, <1>c, <1>d DEF TypeOK
<1>2. Place'
  <2>1. Fresh' = Fresh /\ Cardinality(Fresh) \in Nat
    BY FreshFinite, <1>d DEF Fresh
  <2>2. Cardinality(Fresh) + 1 >= Len(o) + 1 + 1
    BY <2>1, <1>a
  <2> QED BY <1>a, <1>b, <1>d, <2>1, <2>2 DEF Place, Count, InLine, Working
<1>3. Started'
  BY DEF TypeOK, Started, Place, Count, InLine, Ran
<1>4. Modes'
  BY DEF TypeOK, Modes, Place, Count, InLine
<1>5. Decided'
  BY DEF TypeOK, Decided, Place, Count, InLine, Passed, Ran, Goes, Asked, OrAfterKill, EndBefore
<1>6. Deciders'
  BY DEF TypeOK, Deciders, Place, Count, InLine, Passed, Ran
<1>7. Listed'
  BY DEF TypeOK, Listed, InLine, Ran
<1>8. Statuses'
  BY DEF TypeOK, Statuses, Working, Place, InLine, Started, Ran
<1>9. Reported'
  BY DEF TypeOK, Reported
<1>10. Late'
  BY DEF TypeOK, Late
<1> QED BY <1>1, <1>2, <1>3, <1>4, <1>5, <1>6, <1>7, <1>8, <1>9, <1>10

LEMMA ReadBackgroundStep ==
  ASSUME IInv, ReadBackground
  PROVE  IInv'
<1> USE DEF ReadBackground, line, kernel, IInv
<1>1. TypeOK'
  BY DEF TypeOK, Count
<1>2. Place'
  BY DEF TypeOK, Place, Count, InLine, Working
<1>3. Started'
  BY DEF TypeOK, Started, Place, Count, InLine, Ran
<1>4. Modes'
  BY DEF TypeOK, Modes, Place, Count, InLine
<1>5. Decided'
  BY DEF TypeOK, Decided, Place, Count, InLine, Passed, Ran, Goes, Asked, OrAfterKill, EndBefore
<1>6. Deciders'
  BY DEF TypeOK, Deciders, Place, Count, InLine, Passed, Ran
<1>7. Listed'
  BY DEF TypeOK, Listed, InLine, Ran
<1>8. Statuses'
  BY DEF TypeOK, Statuses, Working, Place, InLine, Started, Ran
<1>9. Reported'
  BY NewIsFresh DEF TypeOK, Reported, Fresh
<1>10. Late'
  BY DEF TypeOK, Late
<1> QED BY <1>1, <1>2, <1>3, <1>4, <1>5, <1>6, <1>7, <1>8, <1>9, <1>10

LEMMA ReadEofStep ==
  ASSUME IInv, ReadEof
  PROVE  IInv'
<1> USE DEF ReadEof, line, kernel, IInv
<1>1. TypeOK'
  BY DEF TypeOK, Count
<1>2. Place'
  BY DEF TypeOK, Place, Count, InLine, Working
<1>3. Started'
  BY DEF TypeOK, Started, Place, Count, InLine, Ran
<1>4. Modes'
  BY DEF TypeOK, Modes, Place, Count, InLine
<1>5. Decided'
  BY DEF TypeOK, Decided, Place, Count, InLine, Passed, Ran, Goes, Asked, OrAfterKill, EndBefore
<1>6. Deciders'
  BY DEF TypeOK, Deciders, Place, Count, InLine, Passed, Ran
<1>7. Listed'
  BY DEF TypeOK, Listed, InLine, Ran
<1>8. Statuses'
  BY DEF TypeOK, Statuses, Working, Place, InLine, Started, Ran
<1>9. Reported'
  BY DEF TypeOK, Reported
<1>10. Late'
  BY DEF TypeOK, Late
<1> QED BY <1>1, <1>2, <1>3, <1>4, <1>5, <1>6, <1>7, <1>8, <1>9, <1>10

LEMMA DoneStep ==
  ASSUME IInv, Done
  PROVE  IInv'
<1> USE DEF Done, line, kernel, IInv
<1>1. TypeOK'
  BY DEF TypeOK, Count
<1>2. Place'
  BY DEF TypeOK, Place, Count, InLine, Working
<1>3. Started'
  BY DEF TypeOK, Started, Place, Count, InLine, Ran
<1>4. Modes'
  BY DEF TypeOK, Modes, Place, Count, InLine
<1>5. Decided'
  BY DEF TypeOK, Decided, Place, Count, InLine, Passed, Ran, Goes, Asked, OrAfterKill, EndBefore
<1>6. Deciders'
  BY DEF TypeOK, Deciders, Place, Count, InLine, Passed, Ran
<1>7. Listed'
  BY DEF TypeOK, Listed, InLine, Ran
<1>8. Statuses'
  BY DEF TypeOK, Statuses, Working, Place, InLine, Started, Ran
<1>9. Reported'
  BY DEF TypeOK, Reported
<1>10. Late'
  BY DEF TypeOK, Late
<1> QED BY <1>1, <1>2, <1>3, <1>4, <1>5, <1>6, <1>7, <1>8, <1>9, <1>10

LEMMA SigintStep ==
  ASSUME IInv, Sigint
  PROVE  IInv'
<1> USE DEF Sigint, line, kernel, IInv
<1>1. TypeOK'
  <2>1. signalled' \subseteq Process
    BY DEF TypeOK, Range
  <2>2. sigints' \in 0 .. MaxSigints
    BY BoundAssumption DEF TypeOK
  <2> QED BY <2>1, <2>2 DEF TypeOK, Count
<1>2. Place'
  BY DEF TypeOK, Place, Count, InLine, Working, Fresh
<1>3. Started'
  BY DEF TypeOK, Started, Place, Count, InLine, Ran
<1>4. Modes'
  BY DEF TypeOK, Modes, Place, Count, InLine
<1>5. Decided'
  BY DEF TypeOK, Decided, Place, Count, InLine, Passed, Ran, Goes, Asked, OrAfterKill, EndBefore
<1>6. Deciders'
  BY DEF TypeOK, Deciders, Place, Count, InLine, Passed, Ran
<1>7. Listed'
  BY DEF TypeOK, Listed, InLine, Ran
<1>8. Statuses'
  BY DEF TypeOK, Statuses, Working, Place, InLine, Started, Ran
<1>9. Reported'
  BY DEF TypeOK, Reported
<1>10. Late'
  BY DEF TypeOK, Late
<1> QED BY <1>1, <1>2, <1>3, <1>4, <1>5, <1>6, <1>7, <1>8, <1>9, <1>10

LEMMA AddPidStep ==
  ASSUME IInv, AddPid
  PROVE  IInv'
<1> USE DEF AddPid, line, kernel, IInv
<1>a. tmp \in Ran /\ tmp \in 1 .. Count /\ Count \in Nat /\ pid[tmp] \in Process
  BY DEF Started, InLine, TypeOK, Ran, Count
<1>b. pids' \in Seq(Process) /\ Range(pids) \subseteq Range(pids') /\ pid[tmp] \in Range(pids')
  <2>1. /\ pids' \in Seq(Process) /\ Len(pids') = Len(pids) + 1 /\ Len(pids) \in Nat
        /\ pids'[Len(pids) + 1] = pid[tmp]
        /\ \A i \in 1 .. Len(pids) : pids'[i] = pids[i]
    <3>1. pids \in Seq(Process) /\ pids' = Append(pids, pid[tmp])
      BY DEF TypeOK
    <3> QED BY ONLY <3>1, <1>a
  <2>2. pids \in Seq(Process)
    BY DEF TypeOK
  <2> QED BY <2>1, <2>2 DEF Range
<1>c. prev' = tmp /\ tmp' = tmp + 1 /\ pc' = "loop" /\ Count' = Count /\ Ran' = Ran
  BY DEF Count, Ran
<1>1. TypeOK'
  BY <1>a, <1>b, <1>c DEF TypeOK, Count
<1>2. Place'
  <2>1. Fresh' = Fresh /\ Cardinality(Fresh) \in Nat
    BY FreshFinite DEF Fresh
  <2> QED BY <2>1, <1>a, <1>c DEF Place, InLine, Working
<1>3. Started'
  BY DEF TypeOK, Started, Place, Count, InLine, Ran
<1>4. Modes'
  <2>1. mode' = mode /\ ops' = ops /\ DOMAIN mode = 1 .. Count
    BY DEF TypeOK, Count
  <2>2. \A i \in 1 .. Count : tmp <= i /\ i < Count => mode[i] = ops[i]
    BY <2>1 DEF Modes, InLine
  <2>3. tmp < Count => mode[tmp] = ops[tmp]
    BY <1>a, <2>2
  <2> QED BY <1>a, <1>c, <2>1, <2>2, <2>3 DEF Modes
<1>5. Decided'
  <2>1. \A i \in Int : Goes(i)' <=> Goes(i)
    BY <1>c DEF Goes, Asked, OrAfterKill, EndBefore
  <2> QED BY <2>1, <1>a, <1>c DEF Decided, InLine, Passed
<1>6. Deciders'
  BY DEF TypeOK, Deciders, Place, Count, InLine, Passed, Ran
<1>7. Listed'
  BY <1>b, <1>c DEF Listed, InLine
<1>8. Statuses'
  BY DEF TypeOK, Statuses, Working, Place, InLine, Started, Ran
<1>9. Reported'
  BY DEF TypeOK, Reported
<1>10. Late'
  BY DEF TypeOK, Late
<1> QED BY <1>1, <1>2, <1>3, <1>4, <1>5, <1>6, <1>7, <1>8, <1>9, <1>10

\* What has been decided stays so while processes start and end: the exit code of a
\* process that has been reaped does not change.
LEMMA DecisionsStay ==
  ASSUME IInv, TypeOK', UNCHANGED <<mode, ops, tmp, pid, siginted>>,
         pc' = pc \/ (pc = "wait" /\ pc' = "decide"),
         \A p \in Process : state[p] = "reaped" => state'[p] = "reaped" /\ exit'[p] = exit[p]
  PROVE  Decided' /\ Deciders'
<1> USE DEF IInv
<1>1. Count' = Count /\ Ran' = Ran /\ InLine' = InLine /\ \A i \in Int : Passed(i)' <=> Passed(i)
  BY DEF Count, Ran, InLine, Passed
<1>2. \A i \in Ran : pid[i] \in Process
  BY DEF TypeOK, Ran
<1>3. Deciders'
  BY <1>1, <1>2 DEF Deciders
<1>4. Decided'
  <2> SUFFICES ASSUME InLine, ~ siginted, NEW i \in 2 .. Count, Passed(i)
               PROVE  Goes(i)' <=> Goes(i)
    BY <1>1 DEF Decided
  <2>1. ops[i - 1] # "pipe" =>
          \E j \in Ran : /\ j < i /\ (\A k \in Ran : k < i => k <= j)
                        /\ exit'[pid[j]] = exit[pid[j]]
    BY <1>2 DEF Deciders
  <2> QED BY <1>1, <2>1, SameGoes
<1> QED BY <1>3, <1>4

LEMMA ForkStep ==
  ASSUME IInv, Fork
  PROVE  IInv'
<1> USE DEF Fork, line, kernel, IInv
<1> DEFINE p == NewProcess
<1>a. tmp \in 1 .. Count /\ Count \in Nat /\ InLine /\ Working /\ tmp \notin Ran /\ Ran \subseteq 1 .. Count
  BY DEF TypeOK, Count, InLine, Working, Started, Ran
<1>b. p \in Fresh /\ Cardinality(Fresh) \in Nat
  <2>1. Cardinality(Fresh) \in Nat /\ Cardinality(Fresh) # 0
    BY <1>a, FreshFinite DEF Place
  <2> QED BY <2>1, FreshFinite, NewIsFresh
<1>c. p \in Process /\ state[p] = "none" /\ p # Nobody
  BY <1>b, BoundAssumption DEF Fresh, Process, Nobody
<1>d. /\ state' = [state EXCEPT ![p] = "forked"] /\ pid' = [pid EXCEPT ![tmp] = p]
      /\ pc = "fork" /\ pc' = "forked"
      /\ UNCHANGED <<ops, mode, tmp, prev, status, pids, siginted, report, exit, signalled, sigints>>
  OBVIOUS
<1>e. /\ pid' \in Seq(Process \cup {Nobody}) /\ Len(pid') = Count /\ pid'[tmp] = p
      /\ \A i \in 1 .. Count : i # tmp => pid'[i] = pid[i]
  <2>1. pid \in Seq(Process \cup {Nobody}) /\ Len(pid) = Count
    BY DEF TypeOK
  <2> HIDE DEF p
  <2> QED BY <2>1, <1>a, <1>c, <1>d
<1>f. Ran' = Ran \cup {tmp} /\ Count' = Count
  <2>1. DOMAIN pid = 1 .. Count /\ DOMAIN pid' = 1 .. Count
    BY <1>e DEF TypeOK
  <2> HIDE DEF p
  <2> QED BY <2>1, <1>a, <1>c, <1>d, <1>e DEF Ran, Count
<1>g. /\ \A i \in Ran : i < tmp /\ pid'[i] = pid[i] /\ pid[i] \in Process /\ pid[i] # p
      /\ \A q \in Process : q # p => state'[q] = state[q]
      /\ state'[p] = "forked"
  <2>1. \A i \in Ran : i <= tmp /\ i # tmp
    BY <1>a, <1>d DEF Started
  <2>2. \A i \in Ran : pid[i] \in Process /\ state[pid[i]] # "none"
    <3>1. pid \in Seq(Process \cup {Nobody}) /\ Len(pid) = Count
      BY DEF TypeOK
    <3>2. \A i \in Ran : pid[i] \in Process
      BY <3>1 DEF Ran
    <3>3. \A i \in Ran : state[pid[i]] # "none"
      BY <1>a, <3>2 DEF Ran, Listed
    <3> QED BY <3>2, <3>3
  <2> HIDE DEF p
  <2>3. \A q \in Process : q # p => state'[q] = state[q]
    BY <1>d DEF TypeOK
  <2>4. state'[p] = "forked"
    BY <1>c, <1>d DEF TypeOK
  <2> QED BY <1>a, <1>c, <1>e, <2>1, <2>2, <2>3, <2>4
<1>1. TypeOK'
  <2>1. state' \in [Process -> {"none", "forked", "running", "ended", "reaped"}]
    BY <1>d DEF TypeOK
  <2>2. input' \in [Process -> Process \cup {Nobody}]
    BY <1>a, <1>c DEF TypeOK
  <2> HIDE DEF p
  <2> QED BY <1>a, <1>d, <1>e, <1>f, <2>1, <2>2 DEF TypeOK, Count
<1>2. Place'
  <2>1. Cardinality(Fresh') = Cardinality(Fresh) - 1
    BY <1>b, <1>d, OneLess
  <2> QED BY <1>a, <1>b, <1>d, <1>f, <2>1 DEF Place
<1>3. Started'
  <2>1. \A i \in Ran' : i <= tmp
    BY <1>a, <1>f, <1>g
  <2>2. IF tmp = 1 THEN prev = 1
        ELSE 1 \in Ran /\ prev \in Ran /\ prev < tmp /\ \A i \in Ran : i < tmp => i <= prev
    BY <1>a DEF Started
  <2>3. IF tmp = 1 THEN prev = 1
        ELSE 1 \in Ran' /\ prev \in Ran' /\ prev < tmp /\ \A i \in Ran' : i < tmp => i <= prev
    BY <2>2, <1>a, <1>f
  <2> QED BY <1>d, <1>f, <2>1, <2>3 DEF Started
<1>4. Modes'
  BY DEF TypeOK, Modes, Place, Count, InLine
<1>5. Decided'
  <2>1. \A i \in Int : Passed(i)' <=> Passed(i)
    BY <1>d DEF Passed
  <2> SUFFICES ASSUME ~ siginted, NEW i \in 2 .. Count, Passed(i)
               PROVE  IF i < tmp THEN i \in Ran' <=> Goes(i)' ELSE Goes(i)'
    BY <1>d, <1>f, <2>1 DEF Decided
  <2>2. i <= tmp
    BY <1>a DEF Passed
  <2>3. Goes(i)' <=> Goes(i)
    <3>1. \A k \in Nat : k < i => (k \in Ran' <=> k \in Ran)
      BY <1>a, <1>f, <2>2
    <3>2. ops[i - 1] # "pipe" =>
            \E j \in Ran : /\ j < i /\ (\A k \in Ran : k < i => k <= j)
                          /\ exit'[pid[j]] = exit[pid[j]]
      BY <1>a, <1>d DEF Deciders
    <3> QED BY <1>1, <1>d, <1>g, <3>1, <3>2, SameGoes
  <2>4. IF i < tmp THEN i \in Ran <=> Goes(i) ELSE Goes(i)
    BY <1>a DEF Decided
  <2> QED BY <2>3, <2>4, <1>a, <1>f
<1>6. Deciders'
  <2>1. \A i \in Int : Passed(i)' <=> Passed(i)
    BY <1>d DEF Passed
  <2> SUFFICES ASSUME NEW i \in 2 .. Count, Passed(i), ops[i - 1] # "pipe"
               PROVE  \E j \in Ran' : j < i /\ (\A k \in Ran' : k < i => k <= j) /\ state'[pid'[j]] = "reaped"
    BY <1>d, <1>f, <2>1 DEF Deciders
  <2>2. i <= tmp
    BY <1>a DEF Passed
  <2>3. PICK j \in Ran : j < i /\ (\A k \in Ran : k < i => k <= j) /\ state[pid[j]] = "reaped"
    BY <1>a DEF Deciders
  <2>4. \A k \in Ran' : k < i => k \in Ran
    BY <1>a, <1>f, <2>2
  <2>5. state'[pid'[j]] = "reaped" /\ j \in Ran'
    BY <1>f, <1>g, <2>3
  <2> QED BY <2>3, <2>4, <2>5
<1>7. Listed'
  <2> HIDE DEF p
  <2>1. \A i \in Ran : state[pid[i]] # "none" /\ (pid[i] \in Range(pids) \/ state[pid[i]] = "reaped")
    BY <1>a, <1>d DEF Listed
  <2> QED BY <1>a, <1>d, <1>e, <1>f, <1>g, <2>1 DEF Listed
<1>8. Statuses'
  <2> HIDE DEF p
  <2>1. tmp > 1 => prev \in Ran
    BY <1>a DEF Started
  <2>2. tmp > 1 /\ state[pid[prev]] = "reaped" => status = exit[pid[prev]]
    BY <1>a DEF Statuses
  <2> QED BY <1>d, <1>e, <1>g, <2>1, <2>2 DEF Statuses
<1>9. Reported'
  <2> HIDE DEF p
  <2> QED BY <1>c, <1>d, <1>g DEF TypeOK, Reported
<1>10. Late'
  BY DEF TypeOK, Late
<1> QED BY <1>1, <1>2, <1>3, <1>4, <1>5, <1>6, <1>7, <1>8, <1>9, <1>10

LEMMA Wait4Step ==
  ASSUME IInv, Wait4
  PROVE  IInv'
<1> USE DEF Wait4, line, kernel, IInv
<1> DEFINE p == pid[prev]
<1>a. p \in Process /\ state[p] \in {"ended", "reaped"} /\ prev \in Ran /\ tmp > 1
  <2>1. prev \in Ran /\ tmp > 1
    BY DEF Place, Started, InLine, TypeOK
  <2>2. p \in Process
    BY <2>1 DEF Ran, TypeOK
  <2> QED BY <2>1, <2>2 DEF Listed, InLine, Alive, TypeOK
<1>b. /\ state' = [state EXCEPT ![p] = "reaped"] /\ status' = exit[p]
      /\ report' = [of |-> p, code |-> exit[p].code] /\ pc = "wait" /\ pc' = "decide"
  BY <1>a DEF Statuses, Working
<1>c. exit[p] \in Status /\ exit[p].code \in {0, 1}
  BY <1>a DEF TypeOK, Status, Exited, Killed
<1>1. TypeOK'
  <2>1. state' \in [Process -> {"none", "forked", "running", "ended", "reaped"}]
    BY <1>b DEF TypeOK
  <2>2. report' \in [of : Process \cup {Nobody}, code : {0, 1}]
    BY <1>a, <1>b, <1>c
  <2>3. tmp <= Count
    BY DEF TypeOK
  <2> HIDE DEF p
  <2> QED BY <1>b, <1>c, <2>1, <2>2, <2>3 DEF TypeOK, Count
<1>2. Place'
  <2>1. Fresh' = Fresh
    BY <1>a, <1>b, SameFresh DEF TypeOK
  <2> QED BY <2>1 DEF TypeOK, Place, Count, InLine, Working
<1>3. Started'
  BY DEF TypeOK, Started, Place, Count, InLine, Ran
<1>4. Modes'
  BY DEF TypeOK, Modes, Place, Count, InLine
<1>5. Decided'
  BY <1>1, <1>a, <1>b, DecisionsStay DEF TypeOK
<1>6. Deciders'
  BY <1>1, <1>a, <1>b, DecisionsStay DEF TypeOK
<1>7. Listed'
  BY DEF TypeOK, Listed, InLine, Ran
<1>8. Statuses'
  BY <1>a, <1>b DEF TypeOK, Statuses
<1>9. Reported'
  BY <1>a, <1>b DEF TypeOK, Reported
<1>10. Late'
  BY DEF TypeOK, Late
<1> QED BY <1>1, <1>2, <1>3, <1>4, <1>5, <1>6, <1>7, <1>8, <1>9, <1>10

LEMMA SkipStep ==
  ASSUME IInv, Skip
  PROVE  IInv'
<1> USE DEF Skip, line, kernel, IInv
<1>a. /\ prev \in Ran /\ prev < tmp /\ tmp > 1 /\ tmp \in 1 .. Count /\ Count \in Nat
      /\ tmp' = tmp + 1 /\ pc = "decide" /\ pc' = "loop" /\ InLine
  BY DEF Place, Started, InLine, TypeOK, Count
<1>b. prev \in 1 .. Count /\ \A k \in Ran : k < tmp
  <2>1. Ran \subseteq 1 .. Count
    BY DEF TypeOK, Ran
  <2>2. \A k \in Ran : k <= tmp /\ k # tmp
    BY <1>a DEF Started
  <2> QED BY <2>1, <2>2, <1>a
<1>c. /\ mode' \in Seq(Operator) /\ Count' = Count /\ mode'[prev] = mode[tmp]
      /\ \A i \in 1 .. Count : i # prev => mode'[i] = mode[i]
  <2>1. mode \in Seq(Operator) /\ Count = Len(mode) /\ mode[tmp] \in Operator
    BY <1>a DEF TypeOK, Count
  <2> QED BY <2>1, <1>a, <1>b DEF Count
<1>d. Ran' = Ran /\ \A i \in Int : Goes(i)' <=> Goes(i)
  BY DEF Ran, Goes, Asked, OrAfterKill, EndBefore
<1>1. TypeOK'
  BY <1>a, <1>c DEF TypeOK
<1>2. Place'
  <2>1. Fresh' = Fresh /\ Cardinality(Fresh) \in Nat
    BY FreshFinite DEF Fresh
  <2> QED BY <1>a, <1>c, <2>1 DEF Place, InLine, Working
<1>3. Started'
  <2>1. /\ 1 \in Ran /\ prev \in Ran /\ prev' = prev
        /\ \A k \in Ran : k < tmp => k <= prev
    BY <1>a DEF Started
  <2>2. Ran \subseteq Int
    BY DEF TypeOK, Ran
  <2>3. \A k \in Ran : k <= tmp' /\ k # tmp'
    BY <1>a, <1>b, <2>2
  <2> QED BY <2>1, <2>3, <1>a, <1>b, <1>d DEF Started
<1>4. Modes'
  <2>1. \A i \in 1 .. Count : tmp <= i /\ i < Count => mode[i] = ops[i]
    BY DEF Modes, InLine, TypeOK, Count
  <2>2. DOMAIN mode' = 1 .. Count
    BY <1>c DEF Count
  <2> QED BY <1>a, <1>b, <1>c, <2>1, <2>2 DEF Modes
<1>5. Decided'
  <2>1. ~ Goes(tmp) /\ tmp \notin Ran
    <3>1. EndBefore(tmp) = exit[pid[prev]]
      BY <1>a, EndBeforeIs DEF Started
    <3>2. status = exit[pid[prev]]
      BY <1>a DEF Statuses, Working
    <3>3. mode[prev] = ops[tmp - 1] /\ mode[prev] # "pipe"
      BY <1>a DEF Modes, Place
    <3>4. ~ Goes(tmp)
      BY <1>a, <3>1, <3>2, <3>3, RunsIsGoes
    <3> QED BY <3>4, <1>a, <1>b
  <2> SUFFICES ASSUME NEW i \in 2 .. Count, i < tmp + 1
               PROVE  i \in Ran <=> Goes(i)
    BY <1>a, <1>c, <1>d DEF Decided, Passed
  <2> QED BY <2>1, <1>a DEF Decided, Passed
<1>6. Deciders'
  <2>1. state[pid[prev]] = "reaped" /\ \A k \in Ran : k < tmp => k <= prev
    BY <1>a DEF Statuses, Started
  <2> SUFFICES ASSUME NEW i \in 2 .. Count, i < tmp + 1, ops[i - 1] # "pipe"
               PROVE  \E j \in Ran : j < i /\ (\A k \in Ran : k < i => k <= j) /\ state[pid[j]] = "reaped"
    BY <1>a, <1>c, <1>d DEF Deciders, Passed
  <2>2. CASE i < tmp
    BY <2>2, <1>a DEF Deciders, Passed
  <2>3. CASE i = tmp
    BY <2>1, <2>3, <1>a
  <2> QED BY <2>2, <2>3, <1>a
<1>7. Listed'
  BY DEF TypeOK, Listed, InLine, Ran
<1>8. Statuses'
  BY DEF TypeOK, Statuses, Working, Place, InLine, Started, Ran
<1>9. Reported'
  BY DEF TypeOK, Reported
<1>10. Late'
  BY DEF TypeOK, Late
<1> QED BY <1>1, <1>2, <1>3, <1>4, <1>5, <1>6, <1>7, <1>8, <1>9, <1>10

LEMMA ReapStep ==
  ASSUME IInv, Reap
  PROVE  IInv'
<1> USE DEF Reap, line, kernel, IInv
<1>a. PICK p \in Process :
        /\ state[p] = "ended" /\ state' = [state EXCEPT ![p] = "reaped"]
        /\ pids' = DeletePid(p) /\ report' = [of |-> p, code |-> exit[p].code]
  BY DEF Children
<1>b. pids' \in Seq(Process) /\ \A q \in Range(pids) : q # p => q \in Range(pids')
  BY <1>a, Removed DEF DeletePid, TypeOK
<1>c. exit[p].code \in {0, 1}
  BY DEF TypeOK, Status, Exited, Killed
<1>1. TypeOK'
  <2>1. state' \in [Process -> {"none", "forked", "running", "ended", "reaped"}]
    BY <1>a DEF TypeOK
  <2>2. report' \in [of : Process \cup {Nobody}, code : {0, 1}]
    BY <1>a, <1>c
  <2> QED BY <1>b, <2>1, <2>2 DEF TypeOK, Count
<1>2. Place'
  <2>1. Fresh' = Fresh
    BY <1>a, SameFresh DEF TypeOK
  <2> QED BY <2>1 DEF TypeOK, Place, Count, InLine, Working
<1>3. Started'
  BY DEF TypeOK, Started, Place, Count, InLine, Ran
<1>4. Modes'
  BY DEF TypeOK, Modes, Place, Count, InLine
<1>5. Decided'
  BY <1>1, <1>a, DecisionsStay DEF TypeOK
<1>6. Deciders'
  BY <1>1, <1>a, DecisionsStay DEF TypeOK
<1>7. Listed'
  BY <1>a, <1>b DEF TypeOK, Listed, InLine, Ran
<1>8. Statuses'
  BY DEF TypeOK, Statuses, Working, Place, InLine, Started, Ran
<1>9. Reported'
  BY <1>a DEF TypeOK, Reported
<1>10. Late'
  BY DEF TypeOK, Late
<1> QED BY <1>1, <1>2, <1>3, <1>4, <1>5, <1>6, <1>7, <1>8, <1>9, <1>10

LEMMA ExecStep ==
  ASSUME IInv, NEW p \in Process, Exec(p)
  PROVE  IInv'
<1> USE DEF Exec, line, kernel, IInv
<1>1. TypeOK'
  BY DEF TypeOK, Count
<1>2. Place'
  <2>1. Fresh' = Fresh
    BY SameFresh DEF TypeOK
  <2> QED BY <2>1 DEF TypeOK, Place, Count, InLine, Working
<1>3. Started'
  BY DEF TypeOK, Started, Place, Count, InLine, Ran
<1>4. Modes'
  BY DEF TypeOK, Modes, Place, Count, InLine
<1>5. Decided'
  BY <1>1, DecisionsStay DEF TypeOK
<1>6. Deciders'
  BY <1>1, DecisionsStay DEF TypeOK
<1>7. Listed'
  BY DEF TypeOK, Listed, InLine, Ran
<1>8. Statuses'
  BY DEF TypeOK, Statuses, Working, Place, InLine, Started, Ran
<1>9. Reported'
  BY DEF TypeOK, Reported
<1>10. Late'
  BY DEF TypeOK, Late
<1> QED BY <1>1, <1>2, <1>3, <1>4, <1>5, <1>6, <1>7, <1>8, <1>9, <1>10

LEMMA EndStep ==
  ASSUME IInv, NEW p \in Process, End(p)
  PROVE  IInv'
<1> USE DEF End, line, kernel, IInv
<1>1. TypeOK'
  BY DEF TypeOK, Count
<1>2. Place'
  <2>1. Fresh' = Fresh
    BY SameFresh DEF TypeOK
  <2> QED BY <2>1 DEF TypeOK, Place, Count, InLine, Working
<1>3. Started'
  BY DEF TypeOK, Started, Place, Count, InLine, Ran
<1>4. Modes'
  BY DEF TypeOK, Modes, Place, Count, InLine
<1>5. Decided'
  BY <1>1, DecisionsStay DEF TypeOK
<1>6. Deciders'
  BY <1>1, DecisionsStay DEF TypeOK
<1>7. Listed'
  BY DEF TypeOK, Listed, InLine, Ran
<1>8. Statuses'
  BY DEF TypeOK, Statuses, Working, Place, InLine, Started, Ran
<1>9. Reported'
  BY DEF TypeOK, Reported
<1>10. Late'
  BY DEF TypeOK, Late
<1> QED BY <1>1, <1>2, <1>3, <1>4, <1>5, <1>6, <1>7, <1>8, <1>9, <1>10

-----------------------------------------------------------------------------
(* The theorems *)

LEMMA StepInv == IInv /\ [Next]_vars => IInv'
<1> SUFFICES ASSUME IInv, [Next]_vars PROVE IInv'
  OBVIOUS
<1>1. ASSUME NEW o \in Lines, ReadForeground(o) PROVE IInv'
  BY <1>1, ReadForegroundStep
<1>2. CASE ReadBackground
  BY <1>2, ReadBackgroundStep
<1>3. CASE ReadEof
  BY <1>3, ReadEofStep
<1>4. CASE Fork
  BY <1>4, ForkStep
<1>5. CASE ForkFails
  <2>1. Goto("exited") /\ pc = "fork"
    BY <1>5 DEF ForkFails, Goto
  <2> QED BY <2>1, GotoStep
<1>6. CASE AddPid
  BY <1>6, AddPidStep
<1>7. CASE Loop
  <2>1. tmp \in Int /\ Count \in Int
    BY DEF IInv, TypeOK, Count
  <2>2. CASE tmp > Count \/ siginted
    BY <1>7, <2>2, GotoStep DEF Loop
  <2>3. CASE tmp <= Count /\ ~ siginted /\ mode[prev] = "pipe"
    BY <1>7, <2>1, <2>3, GotoStep DEF Loop
  <2>4. CASE tmp <= Count /\ ~ siginted /\ mode[prev] # "pipe"
    BY <1>7, <2>1, <2>4, GotoStep DEF Loop
  <2> QED BY <2>1, <2>2, <2>3, <2>4
<1>8. CASE Wait4
  BY <1>8, Wait4Step
<1>9. CASE Break
  BY <1>9, GotoStep DEF Break
<1>10. CASE Run
  BY <1>10, GotoStep DEF Run
<1>11. CASE Skip
  BY <1>11, SkipStep
<1>12. CASE Clear
  BY <1>12, GotoStep DEF Clear
<1>13. CASE Reap
  BY <1>13, ReapStep
<1>14. CASE ReapDone
  BY <1>14, GotoStep DEF ReapDone
<1>15. CASE Done
  BY <1>15, DoneStep
<1>16. CASE Sigint
  BY <1>16, SigintStep
<1>17. ASSUME NEW p \in Process, Exec(p) PROVE IInv'
  BY <1>17, ExecStep
<1>18. ASSUME NEW p \in Process, End(p) PROVE IInv'
  BY <1>18, EndStep
<1>19. CASE UNCHANGED vars
  <2> USE <1>19 DEF vars, line, kernel, IInv
  <2>1. /\ Count' = Count /\ Ran' = Ran /\ Fresh' = Fresh /\ InLine' = InLine /\ Working' = Working
        /\ \A i \in Int : (Passed(i)' <=> Passed(i)) /\ (Goes(i)' <=> Goes(i))
    BY DEF Count, Ran, Fresh, InLine, Working, Passed, Goes, Asked, OrAfterKill, EndBefore
  <2>2. TypeOK' /\ Place' /\ Started' /\ Modes'
    BY <2>1 DEF TypeOK, Place, Started, Modes
  <2>3. Decided' /\ Deciders'
    BY <2>1 DEF Decided, Deciders
  <2>4. Listed' /\ Statuses' /\ Reported' /\ Late'
    BY <2>1 DEF Listed, Statuses, Reported, Late
  <2> QED BY <2>2, <2>3, <2>4
<1> QED BY <1>1, <1>2, <1>3, <1>4, <1>5, <1>6, <1>7, <1>8, <1>9, <1>10, <1>11, <1>12, <1>13,
           <1>14, <1>15, <1>16, <1>17, <1>18, <1>19 DEF Next, Shell

LEMMA AlwaysInv == Spec => []IInv
BY InitInv, StepInv, PTL DEF Spec

\* The variables of the executor keep their types: no command behind the last one is
\* looked at (the loop over `tmp'), and each fork() finds a process.
THEOREM ShellTypes == Spec => []TypeOK
<1>1. IInv => TypeOK
  BY DEF IInv
<1> QED BY <1>1, AlwaysInv, PTL

\* A line that is not interrupted runs exactly the commands that evaluation of its
\* operators from left to right asks for, however its commands end, but for a ||
\* behind a command that was killed (pipeline_execution()).
THEOREM RunsLeftToRight == Spec => []LeftToRight
<1>1. IInv => LeftToRight
  <2> SUFFICES ASSUME IInv, pc \in {"clear", "reap", "done"}, ~ siginted
               PROVE  1 \in Ran /\ \A i \in 2 .. Count : i \in Ran <=> Goes(i)
    BY DEF LeftToRight
  <2>1. tmp > Count /\ tmp > 1 /\ tmp \in Int /\ Count \in Int /\ InLine
    BY DEF IInv, TypeOK, Place, InLine, Count
  <2>2. 1 \in Ran
    BY <2>1 DEF IInv, Started
  <2>3. \A i \in 2 .. Count : Passed(i) /\ i < tmp
    BY <2>1 DEF Passed
  <2> QED BY <2>1, <2>2, <2>3 DEF IInv, Decided
<1> QED BY <1>1, AlwaysInv, PTL

\* After a SIGINT at most one more command is started before the line ends (handler()
\* and the places where the loop looks at `siginted').
THEOREM SigintStopsTheLine == Spec => []StopsAfterSigint
<1>1. IInv => StopsAfterSigint
  BY DEF IInv, Late, StopsAfterSigint
<1> QED BY <1>1, AlwaysInv, PTL

\* The exit code that is printed of a process is the one it ended with, also when
\* wait4() is called for a process that has been reaped already.
THEOREM PrintsTheTruth == Spec => []ReportsTrue
<1>1. IInv => ReportsTrue
  BY DEF IInv, Reported, ReportsTrue
<1> QED BY <1>1, AlwaysInv, PTL

\* When clear_zombies() returns after it has waited, no process of the line is left.
THEOREM NoZombieLeft == Spec => AllReaped
<1>1. IInv /\ [Next]_vars =>
        (pc = "reap" /\ pc' = "done" =>
           \A i \in DOMAIN pid : pid[i] # Nobody => state[pid[i]] = "reaped")
  <2> SUFFICES ASSUME IInv, [Next]_vars, pc = "reap", pc' = "done",
                      NEW i \in DOMAIN pid, pid[i] # Nobody
               PROVE  state[pid[i]] = "reaped"
    OBVIOUS
  <2>1. ReapDone
    BY DEF Next, Shell, vars, line, kernel, ReadForeground, ReadBackground, ReadEof, Fork,
       ForkFails, AddPid, Loop, Goto, Wait4, Break, Run, Skip, Clear, Reap, Done, Sigint,
       Exec, End
  <2>2. i \in Ran /\ pid[i] \in Process
    BY DEF Ran, IInv, TypeOK
  <2>3. state[pid[i]] # "none" /\ (pid[i] \in Range(pids) \/ state[pid[i]] = "reaped")
    BY <2>2 DEF IInv, Listed, InLine
  <2>4. CASE pids = <<>>
    BY <2>3, <2>4 DEF Range
  <2>5. CASE Children = {}
    BY <2>2, <2>3, <2>5 DEF Children, IInv, TypeOK
  <2> QED BY <2>1, <2>4, <2>5 DEF ReapDone
<1> QED BY <1>1, AlwaysInv, PTL DEF Spec, AllReaped
==============================================================================
