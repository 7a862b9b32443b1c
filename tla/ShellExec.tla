------------------------------ MODULE ShellExec ------------------------------
(***************************************************************************)
(* The executor of the shell of p5 (shell.c): pipeline_execution() runs    *)
(* the commands of a line from left to right, in processes of their own,   *)
(* while these start, end and are signalled, and SIGINT may run handler()  *)
(* between any two steps.                                                  *)
(*                                                                         *)
(* A step of the shell is what it does up to its next system call that     *)
(* waits or creates a process.  `pc' names where it is.  A line is read    *)
(* as the operators between its commands; a line that ends in & is one     *)
(* process, since the fork that runs it shares nothing with the shell.     *)
(* Processes are numbered in the order of their creation.                  *)
(***************************************************************************)
EXTENDS Integers, SequencesExt

CONSTANTS
  MaxProcesses,  \* processes the shell creates altogether
  MaxSigints     \* SIGINTs it gets

ASSUME BoundAssumption == MaxProcesses \in Nat /\ MaxSigints \in Nat

Process  == 1 .. MaxProcesses
Nobody   == 0
Operator == {"pipe", "and", "or"}

\* What wait4() stores: WIFEXITED and WEXITSTATUS, which reads 0 of a process that
\* a signal has ended.
Exited(c) == [exited |-> TRUE, code |-> c]
Killed    == [exited |-> FALSE, code |-> 0]
Status    == {Exited(0), Exited(1), Killed}

VARIABLES
  pc,        \* where the shell is
  ops,       \* the operators of the line, as read
  mode,      \* cmd->mode: the operator behind each command; pipeline_execution()
             \* overwrites it when it skips a command
  tmp,       \* the command at which the loop is
  prev,      \* prev_cmd
  pid,       \* cmd->pid: the process of each command, Nobody before fork()
  status,    \* the variable wait4() writes to
  pids,      \* pipeline_pids
  siginted,
  report,    \* the last "Process ... exited" line
  state,     \* process -> none, forked (not past exec yet), running, ended, reaped
  exit,      \* process -> how it ended
  input,     \* process -> the process at the other end of the pipe it reads
  signalled, \* processes SIGINT was sent to after their exec
  sigints,   \* SIGINTs received
  late       \* commands started since the handler has set siginted

line    == <<ops, mode, tmp, prev, pid>>
kernel  == <<state, exit, input, signalled>>
vars    == <<pc, line, status, pids, siginted, report, kernel, sigints, late>>

Count       == Len(mode)                      \* commands of the line
Fresh       == {p \in Process : state[p] = "none"}
NewProcess  == CHOOSE p \in Fresh : \A q \in Fresh : p <= q
Children    == {p \in Process : state[p] \in {"forked", "running", "ended"}}
Alive(p)    == state[p] \in {"forked", "running"}

Init ==
  /\ pc = "read"
  /\ ops = <<>> /\ mode = <<>> /\ tmp = 1 /\ prev = 1 /\ pid = <<>>
  /\ status = Exited(0) /\ pids = <<>> /\ siginted = FALSE
  /\ report = [of |-> Nobody, code |-> 0]
  /\ state = [p \in Process |-> "none"]
  /\ exit = [p \in Process |-> Exited(0)]
  /\ input = [p \in Process |-> Nobody]
  /\ signalled = {}
  /\ sigints = 0 /\ late = 0

-----------------------------------------------------------------------------
(* main(): reading a line *)

\* read_pipeline(), then pipeline_execution() up to its first command.  The mode
\* of the last command is PIPE.
ReadForeground(o) ==
  /\ pc = "read" /\ Len(o) < Cardinality(Fresh)
  /\ ops' = o
  /\ mode' = Append(o, "pipe")
  /\ pid' = [i \in 1 .. Len(o) + 1 |-> Nobody]
  /\ tmp' = 1 /\ prev' = 1
  /\ pids' = <<>>
  /\ pc' = "fork"
  /\ UNCHANGED <<status, siginted, report, kernel, sigints, late>>

\* A line that ends in &; when its fork() fails nothing happens.
ReadBackground ==
  /\ pc = "read" /\ Fresh # {}
  /\ state' = [state EXCEPT ![NewProcess] = "running"]
  /\ UNCHANGED <<pc, line, status, pids, siginted, report, exit, input, signalled,
                 sigints, late>>

ReadEof ==
  /\ pc = "read"
  /\ pc' = "exited"
  /\ UNCHANGED <<line, status, pids, siginted, report, kernel, sigints, late>>

-----------------------------------------------------------------------------
(* execute_command() *)

\* fork() of the command at tmp; its fd_in is the pipe of prev_cmd, if any.
Fork ==
  /\ pc = "fork"
  /\ LET p == NewProcess
     IN  /\ state' = [state EXCEPT ![p] = "forked"]
         /\ pid' = [pid EXCEPT ![tmp] = p]
         /\ input' = [input EXCEPT ![p] =
                        IF tmp > 1 /\ mode[prev] = "pipe" THEN pid[prev] ELSE Nobody]
  /\ late' = IF siginted THEN late + 1 ELSE late
  /\ pc' = "forked"
  /\ UNCHANGED <<ops, mode, tmp, prev, status, pids, siginted, report,
                 exit, signalled, sigints>>

ForkFails ==
  /\ pc = "fork"
  /\ pc' = "exited"
  /\ UNCHANGED <<line, status, pids, siginted, report, kernel, sigints, late>>

\* add_pid_to_list(), and back to the loop.
AddPid ==
  /\ pc = "forked"
  /\ pids' = Append(pids, pid[tmp])
  /\ prev' = tmp /\ tmp' = tmp + 1
  /\ pc' = "loop"
  /\ UNCHANGED <<ops, mode, pid, status, siginted, report, kernel, sigints, late>>

-----------------------------------------------------------------------------
(* pipeline_execution(): the loop over the commands after the first *)

Goto(next) ==
  /\ pc' = next
  /\ UNCHANGED <<line, status, pids, siginted, report, kernel, sigints, late>>

\* Mutation: the command before a | is waited for too.
LoopWaits ==
  /\ pc = "loop"
  /\ IF tmp > Count \/ siginted THEN Goto("clear") ELSE Goto("wait")

\* Mutation: siginted is not looked at before the next command of a pipe.
LoopHasty ==
  /\ pc = "loop"
  /\ IF tmp > Count THEN Goto("clear")
     ELSE IF mode[prev] = "pipe" THEN Goto("fork") ELSE Goto("wait")

\* Mutation: the loop goes one command too far.
LoopPast ==
  /\ pc = "loop"
  /\ IF tmp > Count + 1 \/ siginted THEN Goto("clear")
     ELSE IF mode[prev] = "pipe" THEN Goto("fork") ELSE Goto("wait")

Loop ==
  /\ pc = "loop"
  /\ IF tmp > Count \/ siginted THEN Goto("clear")
     ELSE IF mode[prev] = "pipe" THEN Goto("fork") ELSE Goto("wait")

\* Mutation: any child that has ended is taken for prev_cmd's.
Wait4Any ==
  /\ pc = "wait"
  /\ \E q \in Children :
       /\ state[q] = "ended"
       /\ state' = [state EXCEPT ![q] = "reaped"]
       /\ status' = exit[q]
       /\ report' = [of |-> pid[prev], code |-> exit[q].code]
  /\ pc' = "decide"
  /\ UNCHANGED <<line, pids, siginted, exit, input, signalled, sigints, late>>

\* wait4(prev_cmd->pid) returns when the process has ended, or at once, leaving
\* status as it was, when it is not a child any more.
Wait4 ==
  /\ pc = "wait"
  /\ LET p == pid[prev]
     IN  /\ ~Alive(p)
         /\ state' = [state EXCEPT ![p] = "reaped"]
         /\ status' = IF state[p] = "ended" THEN exit[p] ELSE status
         /\ report' = [of |-> p, code |-> status'.code]
  /\ pc' = "decide"
  /\ UNCHANGED <<line, pids, siginted, exit, input, signalled, sigints, late>>

\* Mutation: WIFEXITED is not asked.
RunsKilled ==
  \/ mode[prev] = "and" /\ status.code = 0
  \/ mode[prev] = "or"  /\ status.code # 0

\* The operator that decides is the one in prev_cmd->mode.  Behind a process that
\* was killed none does.
Runs ==
  /\ status.exited
  /\ \/ mode[prev] = "and" /\ status.code = 0
     \/ mode[prev] = "or"  /\ status.code # 0

Break ==
  /\ pc = "decide" /\ siginted
  /\ Goto("clear")

Run ==
  /\ pc = "decide" /\ ~siginted /\ Runs
  /\ Goto("fork")

\* Mutation: the operator behind a skipped command is forgotten.
SkipForgets ==
  /\ pc = "decide" /\ ~siginted /\ ~Runs
  /\ tmp' = tmp + 1
  /\ pc' = "loop"
  /\ UNCHANGED <<ops, mode, prev, pid, status, pids, siginted, report, kernel, sigints, late>>

\* The command is skipped; its operator now follows the previous command.
Skip ==
  /\ pc = "decide" /\ ~siginted /\ ~Runs
  /\ mode' = [mode EXCEPT ![prev] = mode[tmp]]
  /\ tmp' = tmp + 1
  /\ pc' = "loop"
  /\ UNCHANGED <<ops, prev, pid, status, pids, siginted, report, kernel, sigints, late>>

-----------------------------------------------------------------------------
(* clear_zombies() and the end of the line *)

\* `zombie' is read before it is set: when it happens to be -1 nothing is waited for.
Clear ==
  /\ pc = "clear"
  /\ Goto("reap") \/ Goto("done")

\* Mutation: whatever process has ended, the head of the list is deleted.
DeletePidHead(p) == Tail(pids)

\* delete_pid_from_list()
DeletePid(p) == RemoveFirst(pids, p)

\* wait() returns any child that has ended.
Reap ==
  /\ pc = "reap" /\ pids # <<>>
  /\ \E p \in Children :
       /\ state[p] = "ended"
       /\ state' = [state EXCEPT ![p] = "reaped"]
       /\ pids' = DeletePid(p)
       /\ report' = [of |-> p, code |-> exit[p].code]
  /\ UNCHANGED <<pc, line, status, siginted, exit, input, signalled, sigints, late>>

ReapDone ==
  /\ pc = "reap"
  /\ pids = <<>> \/ Children = {}
  /\ Goto("done")

Done ==
  /\ pc = "done"
  /\ siginted' = FALSE /\ late' = 0
  /\ pc' = "read"
  /\ UNCHANGED <<line, status, pids, report, kernel, sigints>>

-----------------------------------------------------------------------------
(* SIGINT and the processes *)

\* handler(): kill() reaches the processes of the list.  One that is not past its
\* exec yet has the shell's own handler, and goes on.
Sigint ==
  /\ pc # "exited" /\ sigints < MaxSigints
  /\ siginted' = TRUE
  /\ signalled' = signalled \cup {p \in Range(pids) : state[p] = "running"}
  /\ sigints' = sigints + 1
  /\ UNCHANGED <<pc, line, status, pids, report, state, exit, input, late>>

Exec(p) ==
  /\ state[p] = "forked"
  /\ state' = [state EXCEPT ![p] = "running"]
  /\ UNCHANGED <<pc, line, status, pids, siginted, report, exit, input, signalled, sigints, late>>

\* A process may end at any time: by itself, or killed by a fault of its own, by
\* this shell's SIGINT, or by anybody else.
End(p) ==
  /\ state[p] = "running"
  /\ state' = [state EXCEPT ![p] = "ended"]
  /\ \E s \in Status : exit' = [exit EXCEPT ![p] = s]
  /\ UNCHANGED <<pc, line, status, pids, siginted, report, input, signalled, sigints, late>>

\* Nothing holds p up: its input has come to an end, and if it writes to a pipe
\* there is somebody who reads it (the pipe may be full).
WritesTo(p)  == {i \in DOMAIN pid : pid[i] = p /\ i < Count /\ ops[i] = "pipe"}
Unblocked(p) ==
  /\ input[p] # Nobody => ~Alive(input[p])
  /\ WritesTo(p) # {} => \E q \in Process : input[q] = p

-----------------------------------------------------------------------------

Lines == UNION {[1 .. n -> Operator] : n \in 0 .. MaxProcesses - 1}

Shell ==
  \/ Fork \/ ForkFails \/ AddPid
  \/ Loop \/ Wait4 \/ Break \/ Run \/ Skip
  \/ Clear \/ Reap \/ ReapDone \/ Done

Next ==
  \/ \E o \in Lines : ReadForeground(o)
  \/ ReadBackground \/ ReadEof
  \/ Shell
  \/ Sigint
  \/ \E p \in Process : Exec(p) \/ End(p)

Spec == Init /\ [][Next]_vars

\* The shell does not stop, a command ends when nothing holds it up, or when it
\* is killed.
FairSpec ==
  /\ Spec
  /\ WF_vars(Shell)
  /\ \A p \in Process : /\ WF_vars(Exec(p))
                        /\ WF_vars(End(p) /\ (Unblocked(p) \/ p \in signalled))

-----------------------------------------------------------------------------
(* Properties *)

TypeOK ==
  /\ pc \in {"read", "fork", "forked", "loop", "wait", "decide", "clear", "reap",
             "done", "exited"}
  /\ mode \in Seq(Operator) /\ ops \in Seq(Operator)
  /\ pid \in Seq(Process \cup {Nobody}) /\ Len(pid) = Count
  /\ tmp \in 1 .. Count + 1 /\ prev \in 1 .. tmp
  /\ pc \in {"fork", "forked", "wait", "decide"} => tmp <= Count
  /\ status \in Status
  /\ pids \in Seq(Process)
  /\ siginted \in BOOLEAN
  /\ report \in [of : Process \cup {Nobody}, code : {0, 1}]
  /\ state \in [Process -> {"none", "forked", "running", "ended", "reaped"}]
  /\ exit \in [Process -> Status]
  /\ input \in [Process -> Process \cup {Nobody}]
  /\ signalled \subseteq Process
  /\ sigints \in 0 .. MaxSigints

\* The commands of the line that were started.
Ran == {i \in DOMAIN pid : pid[i] # Nobody}

\* What decides about command i: how the last one started before it has ended.
EndBefore(i) == exit[pid[Max({j \in Ran : j < i})]]

\* What evaluation of all operators from left to right (4.txt:17-25) asks of
\* command i > 1.  The exit code is what wait4() stores (4.txt:19): it is 0 only if
\* the process exited with 0, not if it was killed.
Asked(i) ==
  \/ ops[i - 1] = "pipe"
  \/ ops[i - 1] = "and" /\ EndBefore(i) = Exited(0)
  \/ ops[i - 1] = "or"  /\ EndBefore(i) # Exited(0)

\* Where the code differs (shell.c:765): || does not run its command when the one
\* before it was killed.
OrAfterKill(i) == ops[i - 1] = "or" /\ EndBefore(i) = Killed

Goes(i) == Asked(i) /\ ~OrAfterKill(i)

\* A line that is not interrupted runs the commands that evaluation from left to
\* right runs, although modes are overwritten, wait4() is called again for what
\* it has reaped, and processes end in any order, in any way.  The one exception
\* is a || behind a command that was killed, which is skipped against 4.txt:25.
LeftToRight ==
  pc \in {"clear", "reap", "done"} /\ ~siginted =>
    1 \in Ran /\ \A i \in 2 .. Count : i \in Ran <=> Goes(i)

\* After a SIGINT at most one more command is started: the one whose fork() the
\* shell had already decided on or, when it came at the prompt, the first of the
\* next line.
StopsAfterSigint == late <= 1

\* What is printed of a process is what it ended with, also the second time; of a
\* killed one it is WEXITSTATUS, 0.
ReportsTrue == report.of # Nobody => report.code = exit[report.of].code

\* When clear_zombies() has waited, no process of the line is left, whichever
\* processes of the background ended in between.
AllReaped ==
  [][pc = "reap" /\ pc' = "done" =>
       \A i \in DOMAIN pid : pid[i] # Nobody => state[pid[i]] = "reaped"]_vars

\* Without SIGINT every line comes to its end: the shell never waits for a command
\* that waits for one not started yet, nor for a process that is gone.
LineEnds == [](sigints = 0) => (pc = "fork" ~> pc \in {"read", "exited"})

\* 4.txt:33: a SIGINT is sent to the process the shell waits for, or has just
\* started and is about to wait for.
SigintReachesAll ==
  [][sigints' # sigints =>
       \A i \in DOMAIN pid :
         pid[i] # Nobody /\ state[pid[i]] = "running" => pid[i] \in signalled']_vars
=============================================================================
