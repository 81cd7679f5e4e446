---------------------------- MODULE SystemCalls ----------------------------
(***************************************************************************)
(* do_system, do_exec and do_exec_redirect of examples/systemcalls.        *)
(*                                                                         *)
(* Each makes a child process that becomes the command, and waits for it.  *)
(* When execv (or dup2) fails in the child of do_exec or do_exec_redirect, *)
(* the child returns from the function like its parent does, and goes on   *)
(* as a second copy of the calling program: it may make calls of its own,  *)
(* and the status it ends with is the one its parent waits for.            *)
(*                                                                         *)
(* Arguments, environment and what the command does are left out.  A file  *)
(* descriptor opened for the output counts as one in fds.                  *)
(***************************************************************************)
EXTENDS Naturals

CONSTANTS
  Proc,      \* the process ids there are
  First,     \* the process the calling program was started as
  NoProc,    \* no process; as a parent, init, which reaps what it is given
  Faults,    \* which calls may fail: "open", "fork", "dup2", "execv", "waitpid"
  MaxOpen    \* bound on the output files a process has open

ASSUME ProcAssumption == First \in Proc /\ NoProc \notin Proc
ASSUME MaxOpenAssumption == MaxOpen \in Nat

Functions == {"do_system", "do_exec", "do_exec_redirect"}
Endings   == {"zero", "nonzero", "signal"}

VARIABLE proc   \* the process table

(* A process that has ended keeps its image: that of the caller when it    *)
(* never became a command.                                                 *)
Process ==
  [image     : {"none", "caller", "command"},
   ended     : {"no"} \cup Endings,
   parent    : Proc \cup {NoProc},
   forgotten : BOOLEAN,                         \* history: its parent's waitpid failed
   pc        : {"main", "open", "fork", "dup2", "execv", "waitpid"},
   call      : Functions \cup {"none"},         \* the function it is in
   pid       : Proc \cup {NoProc},              \* the child of that call
   result    : BOOLEAN,                         \* what its last call returned
   fds       : Nat,                             \* output files it has open
   held      : Nat,                             \* history: fds when the call began
   stdout    : {"terminal", "file"}]

NoProcess ==
  [image |-> "none", ended |-> "no", parent |-> NoProc, forgotten |-> FALSE,
   pc |-> "main", call |-> "none", pid |-> NoProc, result |-> FALSE,
   fds |-> 0, held |-> 0, stdout |-> "terminal"]

Init == proc = [p \in Proc |-> IF p = First
                                 THEN [NoProcess EXCEPT !.image = "caller"]
                                 ELSE NoProcess]

Alive(p)  == proc[p].image # "none" /\ proc[p].ended = "no"
At(p, label) == Alive(p) /\ proc[p].image = "caller" /\ proc[p].pc = label

(* The record of a process whose call has returned value.                  *)
Returned(record, value) ==
  [record EXCEPT !.pc = "main", !.call = "none", !.pid = NoProc,
                 !.held = 0, !.result = value]

Return(p, value) == proc' = [proc EXCEPT ![p] = Returned(@, value)]

-----------------------------------------------------------------------------
(* A NULL command, or a path that is not absolute, is refused at once.     *)
Call(p, function) ==
  /\ At(p, "main")
  /\ function = "do_exec_redirect" => proc[p].fds < MaxOpen
  /\ \/ Return(p, FALSE)
     \/ proc' = [proc EXCEPT
          ![p].pc   = IF function = "do_exec_redirect" THEN "open" ELSE "fork",
          ![p].call = function,
          ![p].held = proc[p].fds,
          ![p].result = FALSE]

Open(p) ==
  /\ At(p, "open")
  /\ \/ proc' = [proc EXCEPT ![p].pc = "fork", ![p].fds = @ + 1]
     \/ "open" \in Faults /\ Return(p, FALSE)

(* What a child starts with: a copy of its parent, about to return from    *)
(* fork.                                                                   *)
Copy(p) ==
  [proc[p] EXCEPT !.parent = p, !.forgotten = FALSE, !.pid = NoProc,
     !.pc = IF proc[p].call = "do_exec_redirect" THEN "dup2" ELSE "execv"]

(* Without a free id fork fails too.  The file it has opened stays open.   *)
Fork(p) ==
  LET free == {c \in Proc : proc[c].image = "none"}
  IN  /\ At(p, "fork")
      /\ \/ \E c \in free :
              proc' = [proc EXCEPT ![p].pc = "waitpid", ![p].pid = c,
                                   ![c] = Copy(p)]
         \/ (free = {} \/ "fork" \in Faults) /\ Return(p, FALSE)

-----------------------------------------------------------------------------
(* The child.                                                              *)

Dup2(c) ==
  /\ At(c, "dup2")
  /\ \/ proc' = [proc EXCEPT ![c].pc = "execv", ![c].stdout = "file"]
     \/ "dup2" \in Faults /\ Return(c, FALSE)

(* A process that has become a command keeps its files, and one that has   *)
(* ended, until it is reaped, no more than its status.                     *)
Command(record) ==
  [NoProcess EXCEPT !.image = "command", !.parent = record.parent,
     !.forgotten = record.forgotten, !.fds = record.fds, !.stdout = record.stdout]

Zombie(record, ending) ==
  [NoProcess EXCEPT !.image = record.image, !.parent = record.parent,
     !.forgotten = record.forgotten, !.ended = ending]

(* A process ends: its children become those of init, which reaps them.    *)
Orphaned(c, record) ==
  IF record.image = "none" \/ record.parent # c THEN record
  ELSE IF record.ended # "no" THEN NoProcess
  ELSE [record EXCEPT !.parent = NoProc]

End(c, ending) ==
  proc' = [p \in Proc |->
    IF p # c THEN Orphaned(c, proc[p])
    ELSE IF proc[c].parent = NoProc THEN NoProcess
    ELSE Zombie(proc[c], ending)]

(* The child that system makes ends when it cannot become the shell.  The  *)
(* others return.                                                          *)
Execv(c) ==
  /\ At(c, "execv")
  /\ \/ proc' = [proc EXCEPT ![c] = Command(@)]
     \/ /\ "execv" \in Faults
        /\ IF proc[c].call = "do_system"
             THEN End(c, "nonzero")
             ELSE Return(c, FALSE)

(* A command ends by itself, a copy of the caller when its program does.   *)
(* A signal ends either wherever it is.                                    *)
CommandEnds(c) == /\ Alive(c) /\ proc[c].image = "command"
                  /\ \E ending \in Endings : End(c, ending)

CopyEnds(c) == /\ c # First
               /\ At(c, "main")
               /\ \E ending \in {"zero", "nonzero"} : End(c, ending)

CopyKilled(c) == /\ c # First
                 /\ Alive(c) /\ proc[c].image = "caller"
                 /\ End(c, "signal")

-----------------------------------------------------------------------------
(* The parent.                                                             *)

HasExited(c) == proc[c].ended \in {"zero", "nonzero"}   \* variant
HasEnded(c)  == proc[c].ended # "no"

LeaveZombie(record) == record                           \* variant
Reap(record) == NoProcess

(* What is returned for the status of the child: a signal counts as        *)
(* success in all but do_system.                                           *)
AnyExit(function, ending) ==                            \* variant
  ending = "signal" => function # "do_system"
Success(function, ending) ==
  ending = "zero" \/ (ending = "signal" /\ function # "do_system")

(* The file is closed on the path that is left for a signal, only.         *)
KeepFile(function, ending) == 0                         \* variant
Closes(function, ending) ==
  IF function = "do_exec_redirect" /\ ending = "signal" THEN 1 ELSE 0

Waitpid(p) ==
  LET c == proc[p].pid
      ending == proc[c].ended
      function == proc[p].call
  IN  /\ At(p, "waitpid")
      /\ HasEnded(c)
      /\ proc' = [proc EXCEPT
           ![p] = [Returned(proc[p], Success(function, ending))
                     EXCEPT !.fds = @ - Closes(function, ending)],
           ![c] = Reap(@)]

WaitpidFails(p) ==
  /\ At(p, "waitpid")
  /\ "waitpid" \in Faults
  /\ proc' = [proc EXCEPT ![p] = Returned(@, FALSE),
                          ![proc[p].pid].forgotten = TRUE]

-----------------------------------------------------------------------------
Runs(p) ==
  Open(p) \/ Fork(p) \/ Dup2(p) \/ Execv(p) \/ Waitpid(p) \/ CommandEnds(p)

Next == \E p \in Proc :
  \/ \E function \in Functions : Call(p, function)
  \/ Runs(p) \/ WaitpidFails(p) \/ CopyEnds(p) \/ CopyKilled(p)

Spec == Init /\ [][Next]_proc

(* Every process goes on inside a call, and every command ends.  Whether   *)
(* a copy of the caller ever ends is up to its program.                    *)
FairSpec == Spec /\ \A p \in Proc : WF_proc(Runs(p))

-----------------------------------------------------------------------------
TypeOK == proc \in [Proc -> Process]

(* Whichever of the three functions ran before, however its children fared *)
(* and even if they became callers with children of their own: a process   *)
(* has no child but the one its call waits for, alive or a zombie, except  *)
(* those it lost to a failing waitpid (systemcalls.c:72, 135).             *)
ChildrenReaped ==
  \A p, c \in Proc :
    /\ proc[c].image # "none"
    /\ proc[c].parent = p
    /\ ~ proc[c].forgotten
    => At(p, "waitpid") /\ proc[p].pid = c

(* The caller is told the truth, but for two cases: a signal ended the     *)
(* child of do_exec or do_exec_redirect (systemcalls.c:75-86), or the      *)
(* child never became the command and, as a copy of the caller, ended with *)
(* status zero later (systemcalls.c:67-68).  do_system has neither.        *)
Answered(p) == At(p, "waitpid") /\ At(p, "main")'

TrueUnlessMisread ==
  [][\A p \in Proc : Answered(p) /\ proc'[p].result =>
       LET child == proc[proc[p].pid]
       IN  \/ child.image = "command" /\ child.ended = "zero"
           \/ child.ended = "signal" /\ proc[p].call # "do_system"
           \/ /\ child.image = "caller" /\ child.ended = "zero"
              /\ proc[p].call # "do_system"]_proc

(* "This file will be closed at completion of the function call"           *)
(* (systemcalls.c:91) is so when the file could not be opened and when a   *)
(* signal ended the child.  Any other call of do_exec_redirect costs the   *)
(* caller one descriptor, which the commands of its later calls inherit;   *)
(* the caller's own output is never redirected.                            *)
ReturnsToCaller(p) ==
  proc[p].pc \in {"open", "fork", "waitpid"} /\ At(p, "main")'

LeaksOneFile ==
  [][\A p \in Proc : ReturnsToCaller(p) =>
       /\ proc'[p].stdout = proc[p].stdout
       /\ proc'[p].fds = proc[p].held +
            IF \/ proc[p].call # "do_exec_redirect"
               \/ proc[p].pc = "open"
               \/ proc[p].pc = "waitpid" /\ proc'[p].result
                    /\ proc[proc[p].pid].ended = "signal"
              THEN 0 ELSE 1]_proc

(* A call returns, or its process ends, unless a copy of the caller that   *)
(* an execv or dup2 failed in is still running: only then may a parent     *)
(* wait for ever, for its own program.                                     *)
InCall(p) == Alive(p) /\ proc[p].image = "caller" /\ proc[p].pc # "main"

ReturnsUnlessCopied ==
  \A p \in Proc :
    InCall(p) ~> ~ InCall(p) \/ \E c \in Proc \ {First} : At(c, "main")
=============================================================================
