------------------------- MODULE SystemCallsProofs -------------------------
(***************************************************************************)
(* For any number of processes, any bound on files and any failing calls:  *)
(* the types of SystemCalls, with which a file is only closed that is      *)
(* open; that no process is left a child to be waited for; what the result *)
(* of a call says of its child; and what a call costs in open files.       *)
(***************************************************************************)
EXTENDS SystemCalls, TLAPS

(* A process that waits waits for some process, one that is past the open  *)
(* of do_exec_redirect, or was copied from one that is, has the file, and  *)
(* none is its own parent.                                                 *)
CallInv ==
  /\ \A p \in Proc : At(p, "waitpid") => proc[p].pid \in Proc
  /\ \A p \in Proc :
       /\ proc[p].call = "do_exec_redirect"
       /\ proc[p].pc \notin {"main", "open"}
       => proc[p].fds > 0
  /\ \A p \in Proc : proc[p].parent # p

IInv == TypeOK /\ CallInv /\ ChildrenReaped

(* The constants of the records of a process.                              *)
LEMMA NoProcessType == NoProcess \in Process
BY DEF NoProcess, Process

LEMMA ReturnedType ==
  ASSUME NEW record \in Process, NEW value \in BOOLEAN
  PROVE  Returned(record, value) \in Process
BY DEF Returned, Process

LEMMA ReturnedFields ==
  ASSUME NEW record \in Process, NEW value \in BOOLEAN
  PROVE  LET r == Returned(record, value)
         IN  /\ r.pc = "main" /\ r.fds = record.fds
             /\ r.parent = record.parent /\ r.image = record.image
             /\ r.forgotten = record.forgotten
BY DEF Returned, Process

LEMMA CommandType ==
  ASSUME NEW record \in Process PROVE Command(record) \in Process
BY DEF Command, NoProcess, Process

LEMMA ZombieType ==
  ASSUME NEW record \in Process, NEW ending \in Endings
  PROVE  Zombie(record, ending) \in Process
BY DEF Zombie, NoProcess, Process

LEMMA InitIInv == Init => IInv
<1> SUFFICES ASSUME Init PROVE IInv
  OBVIOUS
<1>1. [NoProcess EXCEPT !.image = "caller"] \in Process
  BY DEF NoProcess, Process
<1>2. TypeOK
  BY <1>1, NoProcessType DEF Init, TypeOK
<1>3. \A p \in Proc : /\ proc[p].pc = "main" /\ proc[p].parent = NoProc
                      /\ proc[p].call = "none"
  BY DEF Init, NoProcess
<1>4. CallInv /\ ChildrenReaped
  BY <1>3, ProcAssumption DEF CallInv, ChildrenReaped, At
<1>. QED  BY <1>2, <1>4 DEF IInv

-----------------------------------------------------------------------------
(* The steps that change the record of one living process whose parent     *)
(* and past stay what they are, and that does not wait, before or after.   *)
LEMMA OneRecord ==
  ASSUME IInv, NEW p \in Proc, NEW record \in Process, NEW label,
         At(p, label), label # "waitpid",
         proc' = [proc EXCEPT ![p] = record],
         record.parent = proc[p].parent, record.forgotten = proc[p].forgotten,
         record.pc # "waitpid",
         record.call = "do_exec_redirect" /\ record.pc \notin {"main", "open"}
           => record.fds > 0
  PROVE  IInv'
<1>1. TypeOK'
  BY DEF IInv, TypeOK
<1>2. CallInv'
  BY DEF IInv, TypeOK, CallInv, At, Alive
<1>3. ChildrenReaped'
  <2> SUFFICES ASSUME NEW q \in Proc, NEW c \in Proc,
                      proc'[c].image # "none", proc'[c].parent = q,
                      ~ proc'[c].forgotten
               PROVE  At(q, "waitpid")' /\ proc'[q].pid = c
    BY DEF ChildrenReaped
  <2>1. proc[c].image # "none" /\ proc[c].parent = q /\ ~ proc[c].forgotten
    BY DEF IInv, TypeOK, At, Alive
  <2>2. At(q, "waitpid") /\ proc[q].pid = c
    BY <2>1 DEF IInv, ChildrenReaped
  <2>3. q # p
    BY <2>2 DEF At
  <2>. QED  BY <2>2, <2>3 DEF IInv, TypeOK, At, Alive
<1>. QED  BY <1>1, <1>2, <1>3 DEF IInv

LEMMA ReturnStep ==
  ASSUME IInv, NEW p \in Proc, NEW value \in BOOLEAN, NEW label, At(p, label),
         label # "waitpid", Return(p, value)
  PROVE  IInv'
<1> DEFINE record == Returned(proc[p], value)
<1>1. proc[p] \in Process
  BY DEF IInv, TypeOK
<1>2. record \in Process
  BY <1>1, ReturnedType
<1>3. /\ record.parent = proc[p].parent /\ record.forgotten = proc[p].forgotten
      /\ record.pc = "main"
  BY <1>1 DEF Returned, Process
<1>4. proc' = [proc EXCEPT ![p] = record]
  BY DEF Return, IInv, TypeOK
<1> HIDE DEF record
<1>. QED  BY <1>2, <1>3, <1>4, OneRecord

LEMMA CallStep ==
  ASSUME IInv, NEW p \in Proc, NEW function \in Functions, Call(p, function)
  PROVE  IInv'
<1>1. CASE Return(p, FALSE)
  BY <1>1, ReturnStep DEF Call
<1>2. CASE ~ Return(p, FALSE)
  <2> DEFINE record == [proc[p] EXCEPT
          !.pc   = IF function = "do_exec_redirect" THEN "open" ELSE "fork",
          !.call = function, !.held = proc[p].fds, !.result = FALSE]
  <2>1. proc[p] \in Process
    BY DEF IInv, TypeOK
  <2>2. record \in Process
    BY <2>1 DEF Process, Functions
  <2>3. /\ record.parent = proc[p].parent /\ record.forgotten = proc[p].forgotten
        /\ record.pc = IF function = "do_exec_redirect" THEN "open" ELSE "fork"
        /\ record.call = function
    BY <2>1 DEF Process
  <2>4. proc' = [proc EXCEPT ![p] = record]
    BY <1>2 DEF Call, IInv, TypeOK
  <2>5. At(p, "main")
    BY DEF Call
  <2> HIDE DEF record
  <2>. QED  BY <2>2, <2>3, <2>4, <2>5, OneRecord
<1>. QED  BY <1>1, <1>2

LEMMA OpenStep ==
  ASSUME IInv, NEW p \in Proc, Open(p) PROVE IInv'
<1>1. CASE Return(p, FALSE)
  BY <1>1, ReturnStep DEF Open
<1>2. CASE ~ Return(p, FALSE)
  <2> DEFINE record == [proc[p] EXCEPT !.pc = "fork", !.fds = @ + 1]
  <2>1. proc[p] \in Process
    BY DEF IInv, TypeOK
  <2>6. proc[p].fds + 1 \in Nat /\ proc[p].fds + 1 > 0
    BY <2>1 DEF Process
  <2>2. record \in Process /\ record.fds > 0
    BY <2>1, <2>6 DEF Process
  <2>3. /\ record.parent = proc[p].parent /\ record.forgotten = proc[p].forgotten
        /\ record.pc = "fork"
    BY <2>1 DEF Process
  <2>4. proc' = [proc EXCEPT ![p] = record]
    BY <1>2 DEF Open, IInv, TypeOK
  <2>5. At(p, "open")
    BY DEF Open
  <2> HIDE DEF record
  <2>. QED  BY <2>2, <2>3, <2>4, <2>5, OneRecord
<1>. QED  BY <1>1, <1>2

LEMMA Dup2Step ==
  ASSUME IInv, NEW c \in Proc, Dup2(c) PROVE IInv'
<1>1. CASE Return(c, FALSE)
  BY <1>1, ReturnStep DEF Dup2
<1>2. CASE ~ Return(c, FALSE)
  <2> DEFINE record == [proc[c] EXCEPT !.pc = "execv", !.stdout = "file"]
  <2>1. proc[c] \in Process /\ At(c, "dup2")
    BY DEF IInv, TypeOK, Dup2
  <2>2. record \in Process
    BY <2>1 DEF Process
  <2>3. /\ record.parent = proc[c].parent /\ record.forgotten = proc[c].forgotten
        /\ record.pc = "execv" /\ record.call = proc[c].call
        /\ record.fds = proc[c].fds
    BY <2>1 DEF Process
  <2>4. proc' = [proc EXCEPT ![c] = record]
    BY <1>2 DEF Dup2, IInv, TypeOK
  <2>5. record.call = "do_exec_redirect" => record.fds > 0
    BY <2>1, <2>3 DEF IInv, CallInv, At
  <2> HIDE DEF record
  <2>. QED  BY <2>1, <2>2, <2>3, <2>4, <2>5, OneRecord
<1>. QED  BY <1>1, <1>2

(* A process becomes a command.                                            *)
LEMMA CommandStep ==
  ASSUME IInv, NEW c \in Proc, At(c, "execv"),
         proc' = [proc EXCEPT ![c] = Command(@)]
  PROVE  IInv'
<1> DEFINE record == Command(proc[c])
<1>1. proc[c] \in Process
  BY DEF IInv, TypeOK
<1>2. record \in Process
  BY <1>1, CommandType
<1>3. /\ record.parent = proc[c].parent /\ record.forgotten = proc[c].forgotten
      /\ record.pc = "main"
  BY <1>1 DEF Command, NoProcess
<1>4. proc' = [proc EXCEPT ![c] = record]
  BY DEF IInv, TypeOK
<1> HIDE DEF record
<1>. QED  BY <1>2, <1>3, <1>4, OneRecord

(* A process ends: nobody is its child any more, and its own parent still  *)
(* waits for it.                                                           *)
LEMMA EndStep ==
  ASSUME IInv, NEW c \in Proc, NEW ending \in Endings, Alive(c), End(c, ending)
  PROVE  IInv'
<1>1. \A p \in Proc : proc[p] \in Process
  BY DEF IInv, TypeOK
<1>2. \A p \in Proc \ {c} :
        \/ proc'[p] = NoProcess
        \/ proc'[p] = proc[p] /\ proc[p].parent # c
        \/ proc'[p] = proc[p] /\ proc[p].image = "none"
        \/ proc'[p] = [proc[p] EXCEPT !.parent = NoProc]
  BY DEF End, Orphaned
<1>3. proc'[c] = NoProcess \/ proc'[c] = Zombie(proc[c], ending)
  BY DEF End
<1>4. TypeOK'
  <2>1. \A p \in Proc : proc'[p] \in Process
    <3> SUFFICES ASSUME NEW p \in Proc PROVE proc'[p] \in Process
      OBVIOUS
    <3>1. CASE p = c
      BY <3>1, <1>1, <1>3, NoProcessType, ZombieType
    <3>2. [proc[p] EXCEPT !.parent = NoProc] \in Process
      BY <1>1 DEF Process
    <3>3. CASE p # c
      BY <3>2, <3>3, <1>1, <1>2, NoProcessType
    <3>. QED  BY <3>1, <3>3
  <2>2. proc' = [p \in Proc |-> proc'[p]]
    BY DEF End
  <2>. QED  BY <2>1, <2>2 DEF TypeOK
<1>5. /\ NoProcess.pc = "main" /\ NoProcess.image = "none"
      /\ NoProcess.call = "none" /\ NoProcess.parent = NoProc
  BY DEF NoProcess
<1>6. LET z == Zombie(proc[c], ending)
      IN  /\ z.pc = "main" /\ z.call = "none" /\ z.image = proc[c].image
          /\ z.parent = proc[c].parent /\ z.forgotten = proc[c].forgotten
  BY DEF Zombie, NoProcess
<1>7. \A p \in Proc \ {c} : proc'[p] # NoProcess =>
        /\ proc'[p].pc = proc[p].pc /\ proc'[p].image = proc[p].image
        /\ proc'[p].call = proc[p].call /\ proc'[p].ended = proc[p].ended
        /\ proc'[p].pid = proc[p].pid /\ proc'[p].fds = proc[p].fds
        /\ proc'[p].forgotten = proc[p].forgotten
        /\ \/ proc'[p].parent = NoProc
           \/ proc'[p].parent = proc[p].parent /\ proc[p].parent # c
           \/ proc'[p].parent = proc[p].parent /\ proc[p].image = "none"
  <2> SUFFICES ASSUME NEW p \in Proc \ {c}, proc'[p] # NoProcess
               PROVE  /\ proc'[p].pc = proc[p].pc
                      /\ proc'[p].image = proc[p].image
                      /\ proc'[p].call = proc[p].call
                      /\ proc'[p].ended = proc[p].ended
                      /\ proc'[p].pid = proc[p].pid
                      /\ proc'[p].fds = proc[p].fds
                      /\ proc'[p].forgotten = proc[p].forgotten
                      /\ \/ proc'[p].parent = NoProc
                         \/ /\ proc'[p].parent = proc[p].parent
                            /\ proc[p].parent # c
                         \/ /\ proc'[p].parent = proc[p].parent
                            /\ proc[p].image = "none"
    OBVIOUS
  <2>1. CASE proc'[p] = proc[p]
    BY <1>2, <2>1, <1>1, ProcAssumption DEF Process
  <2>2. CASE proc'[p] = [proc[p] EXCEPT !.parent = NoProc]
    BY <1>1, <2>2 DEF Process
  <2>. QED  BY <1>2, <2>1, <2>2
<1>8. CallInv'
  <2> SUFFICES ASSUME NEW p \in Proc
               PROVE  /\ At(p, "waitpid")' => proc'[p].pid \in Proc
                      /\ /\ proc'[p].call = "do_exec_redirect"
                         /\ proc'[p].pc \notin {"main", "open"}
                         => proc'[p].fds > 0
                      /\ proc'[p].parent # p
    BY DEF CallInv
  <2>0. NoProc # p /\ proc[p].parent # p
    BY ProcAssumption DEF IInv, CallInv
  <2>1. CASE proc'[p] = NoProcess \/ p = c
    BY <2>0, <2>1, <1>3, <1>5, <1>6 DEF At, Alive
  <2>2. CASE proc'[p] # NoProcess /\ p # c
    BY <2>0, <2>2, <1>7 DEF IInv, CallInv, At, Alive
  <2>. QED  BY <2>1, <2>2
<1>9. ChildrenReaped'
  <2> SUFFICES ASSUME NEW q \in Proc, NEW d \in Proc,
                      proc'[d].image # "none", proc'[d].parent = q,
                      ~ proc'[d].forgotten
               PROVE  At(q, "waitpid")' /\ proc'[q].pid = d
    BY DEF ChildrenReaped
  <2>0. q # NoProc /\ proc'[d] # NoProcess
    BY <1>5, ProcAssumption
  <2>1. /\ proc[d].image # "none" /\ proc[d].parent = q /\ ~ proc[d].forgotten
        /\ q # c
    <3>1. CASE d = c
      BY <3>1, <2>0, <1>3, <1>6 DEF IInv, CallInv
    <3>2. CASE d # c
      BY <3>2, <2>0, <1>7
    <3>. QED  BY <3>1, <3>2
  <2>2. At(q, "waitpid") /\ proc[q].pid = d
    BY <2>1 DEF IInv, ChildrenReaped
  <2>3. CASE proc'[q] = NoProcess
    (* Only what End reaps becomes NoProcess: it has ended, or was none.   *)
    <3>0. [proc[q] EXCEPT !.parent = NoProc].image = proc[q].image
      BY <1>1 DEF Process
    <3>1. proc[q] = NoProcess \/ proc[q].image = "none" \/ proc[q].ended # "no"
      BY <2>1, <2>3, <1>5, <3>0 DEF End, Orphaned
    <3>. QED  BY <3>1, <2>2, <1>5 DEF At, Alive
  <2>4. CASE proc'[q] # NoProcess
    BY <2>1, <2>2, <2>4, <1>7 DEF At, Alive
  <2>. QED  BY <2>3, <2>4
<1>. QED  BY <1>4, <1>8, <1>9 DEF IInv

LEMMA ExecvStep ==
  ASSUME IInv, NEW c \in Proc, Execv(c) PROVE IInv'
<1>1. At(c, "execv") /\ Alive(c)
  BY DEF Execv, At
<1>2. CASE proc' = [proc EXCEPT ![c] = Command(@)]
  BY <1>1, <1>2, CommandStep
<1>3. CASE End(c, "nonzero")
  BY <1>1, <1>3, EndStep DEF Endings
<1>4. CASE Return(c, FALSE)
  BY <1>1, <1>4, ReturnStep
<1>. QED  BY <1>2, <1>3, <1>4 DEF Execv

(* The commands and the copies of the caller end.                          *)
LEMMA EndSteps ==
  ASSUME IInv, NEW c \in Proc, CommandEnds(c) \/ CopyEnds(c) \/ CopyKilled(c)
  PROVE  IInv'
<1>1. Alive(c) /\ \E ending \in Endings : End(c, ending)
  BY DEF CommandEnds, CopyEnds, CopyKilled, Endings, At
<1>. QED  BY <1>1, EndStep

-----------------------------------------------------------------------------
(* A process gets its child, and waits for it.                             *)
LEMMA ForkStep ==
  ASSUME IInv, NEW p \in Proc, Fork(p) PROVE IInv'
<1>0. At(p, "fork")
  BY DEF Fork
<1>1. CASE Return(p, FALSE)
  BY <1>0, <1>1, ReturnStep
<1>2. ASSUME NEW c \in Proc, proc[c].image = "none",
             proc' = [proc EXCEPT ![p].pc = "waitpid", ![p].pid = c,
                                  ![c] = Copy(p)]
      PROVE  IInv'
  <2>1. \A q \in Proc : proc[q] \in Process
    BY DEF IInv, TypeOK
  <2>2. c # p
    BY <1>0, <1>2 DEF At, Alive
  <2>3. /\ Copy(p) \in Process /\ Copy(p).parent = p
        /\ Copy(p).pc \in {"dup2", "execv"} /\ Copy(p).call = proc[p].call
        /\ Copy(p).fds = proc[p].fds
    BY <2>1 DEF Copy, Process
  <2> DEFINE waiting == [proc[p] EXCEPT !.pc = "waitpid", !.pid = c]
  <2>4. /\ waiting \in Process /\ waiting.pc = "waitpid" /\ waiting.pid = c
        /\ waiting.call = proc[p].call /\ waiting.fds = proc[p].fds
        /\ waiting.parent = proc[p].parent /\ waiting.image = proc[p].image
        /\ waiting.forgotten = proc[p].forgotten
        /\ waiting.ended = proc[p].ended
    BY <2>1 DEF Process
  <2>5. /\ proc' = [q \in Proc |-> proc'[q]]
        /\ proc'[p] = waiting /\ proc'[c] = Copy(p)
        /\ \A q \in Proc \ {p, c} : proc'[q] = proc[q]
    BY <1>2, <2>2 DEF IInv, TypeOK
  <2> HIDE DEF waiting
  <2>6. \A q \in Proc : proc'[q] \in Process
    BY <2>1, <2>3, <2>4, <2>5
  <2>7. TypeOK'
    BY <2>5, <2>6 DEF TypeOK
  <2>8. proc[p].call = "do_exec_redirect" => proc[p].fds > 0
    BY <1>0 DEF IInv, CallInv, At
  <2>9. CallInv'
    <3> SUFFICES ASSUME NEW q \in Proc
                 PROVE  /\ At(q, "waitpid")' => proc'[q].pid \in Proc
                        /\ /\ proc'[q].call = "do_exec_redirect"
                           /\ proc'[q].pc \notin {"main", "open"}
                           => proc'[q].fds > 0
                        /\ proc'[q].parent # q
      BY DEF CallInv
    <3>1. CASE q = p
      BY <3>1, <2>4, <2>5, <2>8 DEF IInv, CallInv
    <3>2. CASE q = c
      BY <3>2, <2>2, <2>3, <2>5, <2>8 DEF At
    <3>3. CASE q \notin {p, c}
      BY <3>3, <2>5 DEF IInv, CallInv, At, Alive
    <3>. QED  BY <3>1, <3>2, <3>3
  <2>10. ChildrenReaped'
    <3> SUFFICES ASSUME NEW q \in Proc, NEW d \in Proc,
                        proc'[d].image # "none", proc'[d].parent = q,
                        ~ proc'[d].forgotten
                 PROVE  At(q, "waitpid")' /\ proc'[q].pid = d
      BY DEF ChildrenReaped
    <3>1. CASE d = c
      BY <3>1, <1>0, <2>3, <2>4, <2>5 DEF At, Alive
    <3>2. CASE d # c
      <4>1. /\ proc[d].image # "none" /\ proc[d].parent = q
            /\ ~ proc[d].forgotten
        BY <3>2, <2>4, <2>5
      <4>2. At(q, "waitpid") /\ proc[q].pid = d
        BY <4>1 DEF IInv, ChildrenReaped
      <4>3. q \notin {p, c}
        BY <4>2, <1>0, <1>2 DEF At, Alive
      <4>. QED  BY <4>2, <4>3, <2>5 DEF At, Alive
    <3>. QED  BY <3>1, <3>2
  <2>. QED  BY <2>7, <2>9, <2>10 DEF IInv
<1>. QED  BY <1>1, <1>2 DEF Fork

(* The parent reaps the child it waits for, and has the file that it       *)
(* closes.                                                                 *)
LEMMA WaitpidStep ==
  ASSUME IInv, NEW p \in Proc, Waitpid(p) PROVE IInv'
<1> DEFINE c == proc[p].pid
           success == Success(proc[p].call, proc[c].ended)
           closes == Closes(proc[p].call, proc[c].ended)
           returned == [Returned(proc[p], success) EXCEPT !.fds = @ - closes]
<1>1. At(p, "waitpid") /\ proc[c].ended # "no"
  BY DEF Waitpid, HasEnded
<1>2. c \in Proc /\ c # p
  BY <1>1 DEF IInv, CallInv, At, Alive
<1>3. \A q \in Proc : proc[q] \in Process
  BY DEF IInv, TypeOK
<1>4. success \in BOOLEAN
  BY DEF Success
<1>5. proc[p].fds - closes \in Nat
  <2>1. proc[p].fds \in Nat
    BY <1>3 DEF Process
  <2>2. closes \in {0, 1} /\ (closes = 1 => proc[p].call = "do_exec_redirect")
    BY DEF Closes
  <2>3. closes = 1 => proc[p].fds > 0
    BY <1>1, <2>2 DEF IInv, CallInv, At
  <2>. HIDE DEF closes
  <2>. QED  BY <2>1, <2>2, <2>3
<1>6. /\ returned \in Process /\ returned.pc = "main"
      /\ returned.parent = proc[p].parent /\ returned.image = proc[p].image
      /\ returned.forgotten = proc[p].forgotten
  <2> HIDE DEF closes, success
  <2>1. proc[p] \in Process
    BY <1>3
  <2> DEFINE r == Returned(proc[p], success)
  <2>2. /\ r \in Process /\ r.fds = proc[p].fds /\ r.pc = "main"
        /\ r.parent = proc[p].parent /\ r.image = proc[p].image
        /\ r.forgotten = proc[p].forgotten
    BY <2>1, <1>4, ReturnedType, ReturnedFields
  <2> HIDE DEF r
  <2>3. /\ [r EXCEPT !.fds = @ - closes] \in Process
        /\ [r EXCEPT !.fds = @ - closes].pc = "main"
        /\ [r EXCEPT !.fds = @ - closes].parent = r.parent
        /\ [r EXCEPT !.fds = @ - closes].image = r.image
        /\ [r EXCEPT !.fds = @ - closes].forgotten = r.forgotten
    BY <2>2, <1>5 DEF Process
  <2>. QED  BY <2>2, <2>3 DEF r
<1>7. proc' = [[proc EXCEPT ![p] = returned] EXCEPT ![c] = NoProcess]
  <2>1. proc = [q \in Proc |-> proc[q]]
    BY DEF IInv, TypeOK
  <2>. QED  BY <1>2, <2>1 DEF Waitpid, Reap
<1> HIDE DEF c, success, closes, returned
<1>8. /\ NoProcess.pc = "main" /\ NoProcess.image = "none"
      /\ NoProcess.call = "none" /\ NoProcess.parent = NoProc
  BY DEF NoProcess
<1>9. /\ proc' = [q \in Proc |-> proc'[q]]
      /\ proc'[p] = returned /\ proc'[c] = NoProcess
      /\ \A q \in Proc \ {p, c} : proc'[q] = proc[q]
  BY <1>2, <1>7 DEF IInv, TypeOK
<1>10. TypeOK'
  <2>1. \A q \in Proc : proc'[q] \in Process
    BY <1>3, <1>6, <1>9, NoProcessType
  <2>. QED  BY <2>1, <1>9 DEF TypeOK
<1>11. CallInv'
  <2> SUFFICES ASSUME NEW q \in Proc
               PROVE  /\ At(q, "waitpid")' => proc'[q].pid \in Proc
                      /\ /\ proc'[q].call = "do_exec_redirect"
                         /\ proc'[q].pc \notin {"main", "open"}
                         => proc'[q].fds > 0
                      /\ proc'[q].parent # q
    BY DEF CallInv
  <2>1. CASE q = p
    BY <2>1, <1>6, <1>9 DEF IInv, CallInv, At
  <2>2. CASE q = c
    BY <2>2, <1>8, <1>9, ProcAssumption DEF At
  <2>3. CASE q \notin {p, c}
    BY <2>3, <1>9 DEF IInv, CallInv, At, Alive
  <2>. QED  BY <2>1, <2>2, <2>3
<1>12. ChildrenReaped'
  <2> SUFFICES ASSUME NEW q \in Proc, NEW d \in Proc,
                      proc'[d].image # "none", proc'[d].parent = q,
                      ~ proc'[d].forgotten
               PROVE  At(q, "waitpid")' /\ proc'[q].pid = d
    BY DEF ChildrenReaped
  <2>1. /\ d # c /\ proc[d].image # "none" /\ proc[d].parent = q
        /\ ~ proc[d].forgotten
    BY <1>6, <1>8, <1>9
  <2>2. At(q, "waitpid") /\ proc[q].pid = d
    BY <2>1 DEF IInv, ChildrenReaped
  <2>3. q \notin {p, c}
    BY <2>1, <2>2, <1>1 DEF c, At, Alive
  <2>. QED  BY <2>2, <2>3, <1>9 DEF At, Alive
<1>. QED  BY <1>10, <1>11, <1>12 DEF IInv

(* The parent gives up, and its child is one that nobody waits for.        *)
LEMMA WaitpidFailsStep ==
  ASSUME IInv, NEW p \in Proc, WaitpidFails(p) PROVE IInv'
<1> DEFINE c == proc[p].pid
           returned == Returned(proc[p], FALSE)
<1>1. At(p, "waitpid") /\ c \in Proc
  BY DEF WaitpidFails, IInv, CallInv
<1>2. \A q \in Proc : proc[q] \in Process
  BY DEF IInv, TypeOK
<1>3. /\ returned \in Process /\ returned.pc = "main"
      /\ returned.parent = proc[p].parent /\ returned.image = proc[p].image
      /\ returned.forgotten = proc[p].forgotten
  BY <1>2, ReturnedType, ReturnedFields
<1>4. proc' = [[proc EXCEPT ![p] = returned] EXCEPT ![c].forgotten = TRUE]
  BY DEF WaitpidFails, IInv, TypeOK
<1> HIDE DEF c, returned
<1> DEFINE mid == [proc EXCEPT ![p] = returned]
<1>5. \A q \in Proc : mid[q] = (IF q = p THEN returned ELSE proc[q])
  BY DEF IInv, TypeOK
<1>6. \A q \in Proc :
        proc'[q] = IF q = c THEN [mid[q] EXCEPT !.forgotten = TRUE] ELSE mid[q]
  BY <1>1, <1>4 DEF IInv, TypeOK
<1>7. proc' = [q \in Proc |-> proc'[q]]
  BY <1>4 DEF IInv, TypeOK
<1>8. \A q \in Proc : mid[q] \in Process
  BY <1>2, <1>3, <1>5
<1> HIDE DEF mid
<1>9. \A q \in Proc :
        /\ proc'[q] \in Process
        /\ proc'[q].pc = mid[q].pc /\ proc'[q].pid = mid[q].pid
        /\ proc'[q].image = mid[q].image /\ proc'[q].ended = mid[q].ended
        /\ proc'[q].call = mid[q].call /\ proc'[q].fds = mid[q].fds
        /\ proc'[q].parent = mid[q].parent
        /\ q = c => proc'[q].forgotten
        /\ q # c => proc'[q].forgotten = mid[q].forgotten
  <2> SUFFICES ASSUME NEW q \in Proc
               PROVE  /\ proc'[q] \in Process
                      /\ proc'[q].pc = mid[q].pc /\ proc'[q].pid = mid[q].pid
                      /\ proc'[q].image = mid[q].image
                      /\ proc'[q].ended = mid[q].ended
                      /\ proc'[q].call = mid[q].call
                      /\ proc'[q].fds = mid[q].fds
                      /\ proc'[q].parent = mid[q].parent
                      /\ q = c => proc'[q].forgotten
                      /\ q # c => proc'[q].forgotten = mid[q].forgotten
    OBVIOUS
  <2>1. CASE q = c
    <3> DEFINE r == mid[c]
    <3>1. r \in Process
      BY <1>1, <1>8
    <3>2. proc'[q] = [r EXCEPT !.forgotten = TRUE]
      BY <2>1, <1>6
    <3> HIDE DEF r
    <3>3. /\ proc'[q] \in Process
          /\ proc'[q].pc = r.pc /\ proc'[q].pid = r.pid
          /\ proc'[q].image = r.image /\ proc'[q].ended = r.ended
          /\ proc'[q].call = r.call /\ proc'[q].fds = r.fds
          /\ proc'[q].parent = r.parent /\ proc'[q].forgotten
      BY <3>1, <3>2 DEF Process
    <3>. QED  BY <2>1, <3>3 DEF r
  <2>2. CASE q # c
    BY <2>2, <1>6, <1>8
  <2>. QED  BY <2>1, <2>2
<1>10. TypeOK'
  BY <1>7, <1>9 DEF TypeOK
<1>11. CallInv'
  BY <1>3, <1>5, <1>9 DEF IInv, CallInv, At, Alive
<1>12. ChildrenReaped'
  <2> SUFFICES ASSUME NEW q \in Proc, NEW d \in Proc,
                      proc'[d].image # "none", proc'[d].parent = q,
                      ~ proc'[d].forgotten
               PROVE  At(q, "waitpid")' /\ proc'[q].pid = d
    BY DEF ChildrenReaped
  <2>1. /\ d # c /\ proc[d].image # "none" /\ proc[d].parent = q
        /\ ~ proc[d].forgotten
    BY <1>3, <1>5, <1>9
  <2>2. At(q, "waitpid") /\ proc[q].pid = d
    BY <2>1 DEF IInv, ChildrenReaped
  <2>3. q # p
    BY <2>1, <2>2 DEF c
  <2>. QED  BY <2>2, <2>3, <1>5, <1>9 DEF At, Alive
<1>. QED  BY <1>10, <1>11, <1>12 DEF IInv

-----------------------------------------------------------------------------
LEMMA NextIInv == IInv /\ [Next]_proc => IInv'
<1> SUFFICES ASSUME IInv, [Next]_proc PROVE IInv'
  OBVIOUS
<1>1. CASE UNCHANGED proc
  BY <1>1 DEF IInv, TypeOK, CallInv, ChildrenReaped, At, Alive
<1>2. CASE Next
  <2> PICK p \in Proc :
        \/ \E function \in Functions : Call(p, function)
        \/ Runs(p) \/ WaitpidFails(p) \/ CopyEnds(p) \/ CopyKilled(p)
    BY <1>2 DEF Next
  <2>1. CASE \E function \in Functions : Call(p, function)
    BY <2>1, CallStep
  <2>2. CASE Runs(p)
    BY <2>2, OpenStep, ForkStep, Dup2Step, ExecvStep, WaitpidStep, EndSteps
    DEF Runs
  <2>3. CASE WaitpidFails(p)
    BY <2>3, WaitpidFailsStep
  <2>4. CASE CopyEnds(p) \/ CopyKilled(p)
    BY <2>4, EndSteps
  <2>. QED  BY <2>1, <2>2, <2>3, <2>4
<1>. QED  BY <1>1, <1>2

(* The invariant that the theorems below are read from.                    *)
LEMMA SpecIInv == Spec => []IInv
BY InitIInv, NextIInv, PTL DEF Spec

(* Every record of the process table keeps its types; with them, a process *)
(* never closes a file that it has not opened.                             *)
THEOREM SystemCallsTypes == Spec => []TypeOK
<1>1. IInv => TypeOK
  BY DEF IInv
<1>. QED  BY <1>1, SpecIInv, PTL

(* However many processes the functions are called by, and whichever calls *)
(* fail: a process is left no child but the one it waits for and those a   *)
(* failing waitpid lost it (systemcalls.c:72, 135).                        *)
THEOREM SystemCallsChildrenReaped == Spec => []ChildrenReaped
<1>1. IInv => ChildrenReaped
  BY DEF IInv
<1>. QED  BY <1>1, SpecIInv, PTL
-----------------------------------------------------------------------------
(* What a step changes in the records of the processes that do not take    *)
(* it, for the properties of what a call returns.                          *)

(* Only a caller that runs is inside a call, and it has one file more than *)
(* when the call began from the open of do_exec_redirect on.               *)
FileRecord(r) ==
  /\ r.pc # "main" => r.image = "caller" /\ r.ended = "no"
  /\ r.pc = "open" => r.call = "do_exec_redirect" /\ r.fds = r.held
  /\ r.pc \in {"fork", "waitpid"} =>
       r.fds = r.held + IF r.call = "do_exec_redirect" THEN 1 ELSE 0

FileInv == \A p \in Proc : FileRecord(proc[p])

(* The process waited for is there, is the child of the one that waits,    *)
(* and never returns from do_system.                                       *)
Awaited(r) == r.image = "caller" =>
  \/ r.ended = "no" /\ r.pc = "execv" /\ r.call = "do_system"
  \/ r.ended \in {"nonzero", "signal"}

ChildInv ==
  \A p \in Proc : At(p, "waitpid") =>
    LET c == proc[p].pid
    IN  /\ proc[c].image # "none" /\ proc[c].parent = p
        /\ proc[p].call = "do_system" => Awaited(proc[c])

FullInv == IInv /\ FileInv /\ ChildInv

(* One process takes every step.                                           *)
Step(q) ==
  \/ \E function \in Functions : Call(q, function)
  \/ Runs(q) \/ WaitpidFails(q) \/ CopyEnds(q) \/ CopyKilled(q)

(* Two records that differ at most in the parent and what it forgot.       *)
SameCall(r, s) ==
  /\ r.image = s.image /\ r.ended = s.ended /\ r.pc = s.pc /\ r.call = s.call
  /\ r.pid = s.pid /\ r.result = s.result /\ r.fds = s.fds /\ r.held = s.held
  /\ r.stdout = s.stdout

(* A step of q leaves the call of another process alone, but for a child   *)
(* that it makes, and a child of its own that has ended and is reaped.     *)
Untouched(q, p) ==
  \/ /\ SameCall(proc'[p], proc[p])
     /\ proc'[p].parent = proc[p].parent \/ proc[p].parent = q
  \/ proc'[p] = NoProcess /\ (proc[p].parent = q \/ proc[p].image = "none")
  \/ proc[p].image = "none" /\ proc'[p].pc \in {"dup2", "execv"}
       /\ Alive(p)' /\ proc'[p].image = "caller"

LEMMA OneChanged ==
  ASSUME IInv, NEW q \in Proc, NEW record, proc' = [proc EXCEPT ![q] = record],
         NEW p \in Proc \ {q}
  PROVE  Untouched(q, p)
BY DEF IInv, TypeOK, Untouched, SameCall

LEMMA EndUntouched ==
  ASSUME IInv, NEW q \in Proc, NEW ending, End(q, ending), NEW p \in Proc \ {q}
  PROVE  Untouched(q, p)
<1>1. proc'[p] = Orphaned(q, proc[p])
  BY DEF End
<1>2. proc[p] \in Process
  BY DEF IInv, TypeOK
<1>3. SameCall([proc[p] EXCEPT !.parent = NoProc], proc[p])
  BY <1>2 DEF Process, SameCall
<1>4. SameCall(proc[p], proc[p])
  BY DEF SameCall
<1>. QED  BY <1>1, <1>3, <1>4 DEF Orphaned, Untouched

LEMMA ForkUntouched ==
  ASSUME IInv, FileInv, NEW q \in Proc, Fork(q), NEW p \in Proc \ {q}
  PROVE  Untouched(q, p)
<1>1. CASE Return(q, FALSE)
  BY <1>1, OneChanged DEF Return, IInv, TypeOK
<1>2. ASSUME NEW c \in Proc, proc[c].image = "none",
             proc' = [proc EXCEPT ![q].pc = "waitpid", ![q].pid = c,
                                  ![c] = Copy(q)]
      PROVE  Untouched(q, p)
  <2>1. proc'[p] = IF p = c THEN Copy(q) ELSE proc[p]
    BY <1>2 DEF IInv, TypeOK
  <2>2. proc[q] \in Process /\ At(q, "fork")
    BY DEF IInv, TypeOK, Fork
  <2>3. /\ Copy(q).pc \in {"dup2", "execv"} /\ Copy(q).image = proc[q].image
        /\ Copy(q).ended = proc[q].ended
    BY <2>2 DEF Copy, Process
  <2>. QED  BY <1>2, <2>1, <2>2, <2>3 DEF Untouched, SameCall, At, Alive
<1>. QED  BY <1>1, <1>2 DEF Fork

LEMMA WaitpidUntouched ==
  ASSUME FullInv, NEW q \in Proc, Waitpid(q), NEW p \in Proc \ {q}
  PROVE  Untouched(q, p)
<1>1. proc[proc[q].pid].parent = q /\ proc[q].pid \in Proc
  BY DEF FullInv, IInv, CallInv, ChildInv, Waitpid
<1>2. proc'[p] = IF p = proc[q].pid THEN NoProcess ELSE proc[p]
  BY <1>1 DEF FullInv, IInv, TypeOK, Waitpid, Reap
<1>. QED  BY <1>1, <1>2 DEF Untouched, SameCall

LEMMA WaitpidFailsUntouched ==
  ASSUME IInv, NEW q \in Proc, WaitpidFails(q), NEW p \in Proc \ {q}
  PROVE  Untouched(q, p)
<1>1. proc[q].pid \in Proc /\ proc[p] \in Process
  BY DEF IInv, TypeOK, CallInv, WaitpidFails
<1>2. proc'[p] = IF p = proc[q].pid THEN [proc[p] EXCEPT !.forgotten = TRUE]
                                    ELSE proc[p]
  BY <1>1 DEF IInv, TypeOK, WaitpidFails
<1>. QED  BY <1>1, <1>2 DEF Untouched, SameCall, Process

LEMMA StepUntouched ==
  ASSUME FullInv, NEW q \in Proc, Step(q), NEW p \in Proc \ {q}
  PROVE  Untouched(q, p)
<1>1. CASE \E record : proc' = [proc EXCEPT ![q] = record]
  BY <1>1, OneChanged DEF FullInv
<1>2. CASE \E ending : End(q, ending)
  BY <1>2, EndUntouched DEF FullInv
<1>3. CASE Fork(q)
  BY <1>3, ForkUntouched DEF FullInv
<1>4. CASE Waitpid(q)
  BY <1>4, WaitpidUntouched
<1>5. CASE WaitpidFails(q)
  BY <1>5, WaitpidFailsUntouched DEF FullInv
<1>6. ASSUME NEW function \in Functions, Call(q, function)
      PROVE  \E record : proc' = [proc EXCEPT ![q] = record]
  BY <1>6 DEF Call, Return
<1>7. ASSUME Open(q) \/ Dup2(q)
      PROVE  \E record : proc' = [proc EXCEPT ![q] = record]
  BY <1>7 DEF Open, Dup2, Return
<1>8. ASSUME Execv(q)
      PROVE  \/ \E record : proc' = [proc EXCEPT ![q] = record]
             \/ \E ending : End(q, ending)
  BY <1>8 DEF Execv, Return
<1>9. ASSUME CommandEnds(q) \/ CopyEnds(q) \/ CopyKilled(q)
      PROVE  \E ending : End(q, ending)
  BY <1>9 DEF CommandEnds, CopyEnds, CopyKilled
<1>. QED
  BY <1>1, <1>2, <1>3, <1>4, <1>5, <1>6, <1>7, <1>8, <1>9 DEF Step, Runs

-----------------------------------------------------------------------------
(* The records that a step makes keep the count of their files.            *)

LEMMA AtMain == ASSUME NEW r, r.pc = "main" PROVE FileRecord(r)
BY DEF FileRecord

LEMMA CallRecord ==
  ASSUME IInv, FileInv, NEW q \in Proc, NEW function \in Functions,
         Call(q, function)
  PROVE  FileRecord(proc'[q])
<1>1. proc[q] \in Process
  BY DEF IInv, TypeOK
<1>2. CASE Return(q, FALSE)
  <2>1. proc'[q] = Returned(proc[q], FALSE)
    BY <1>2 DEF Return, IInv, TypeOK
  <2>. QED  BY <1>1, <2>1, AtMain, ReturnedFields
<1>3. CASE ~ Return(q, FALSE)
  <2> DEFINE r == proc[q]
             record == [r EXCEPT
          !.pc   = IF function = "do_exec_redirect" THEN "open" ELSE "fork",
          !.call = function, !.held = r.fds, !.result = FALSE]
  <2>1. proc'[q] = record
    BY <1>3 DEF Call, IInv, TypeOK
  <2>2. /\ record.pc = IF function = "do_exec_redirect" THEN "open" ELSE "fork"
        /\ record.call = function /\ record.held = r.fds /\ record.fds = r.fds
        /\ record.image = r.image /\ record.ended = r.ended /\ r.fds \in Nat
    BY <1>1 DEF Process
  <2>3. r.image = "caller" /\ r.ended = "no"
    BY DEF Call, At, Alive
  <2> HIDE DEF record, r
  <2>. QED  BY <2>1, <2>2, <2>3 DEF FileRecord
<1>. QED  BY <1>2, <1>3

LEMMA OpenRecord ==
  ASSUME IInv, FileInv, NEW q \in Proc, Open(q) PROVE FileRecord(proc'[q])
<1>1. proc[q] \in Process
  BY DEF IInv, TypeOK
<1>2. CASE Return(q, FALSE)
  <2>1. proc'[q] = Returned(proc[q], FALSE)
    BY <1>2 DEF Return, IInv, TypeOK
  <2>. QED  BY <1>1, <2>1, AtMain, ReturnedFields
<1>3. CASE ~ Return(q, FALSE)
  <2> DEFINE r == proc[q]
             record == [r EXCEPT !.pc = "fork", !.fds = @ + 1]
  <2>1. proc'[q] = record
    BY <1>3 DEF Open, IInv, TypeOK
  <2>2. /\ record.pc = "fork" /\ record.call = r.call /\ record.held = r.held
        /\ record.fds = r.fds + 1
        /\ record.image = r.image /\ record.ended = r.ended
    BY <1>1 DEF Process
  <2>3. /\ r.image = "caller" /\ r.ended = "no"
        /\ r.call = "do_exec_redirect" /\ r.fds = r.held
    BY DEF Open, At, Alive, FileInv, FileRecord
  <2> HIDE DEF record, r
  <2>. QED  BY <2>1, <2>2, <2>3 DEF FileRecord
<1>. QED  BY <1>2, <1>3

LEMMA Dup2Record ==
  ASSUME IInv, NEW q \in Proc, Dup2(q) PROVE FileRecord(proc'[q])
<1>1. proc[q] \in Process
  BY DEF IInv, TypeOK
<1>2. CASE Return(q, FALSE)
  <2>1. proc'[q] = Returned(proc[q], FALSE)
    BY <1>2 DEF Return, IInv, TypeOK
  <2>. QED  BY <1>1, <2>1, AtMain, ReturnedFields
<1>3. CASE ~ Return(q, FALSE)
  <2> DEFINE r == proc[q]
             record == [r EXCEPT !.pc = "execv", !.stdout = "file"]
  <2>1. proc'[q] = record
    BY <1>3 DEF Dup2, IInv, TypeOK
  <2>2. /\ record.pc = "execv"
        /\ record.image = r.image /\ record.ended = r.ended
    BY <1>1 DEF Process
  <2>3. r.image = "caller" /\ r.ended = "no"
    BY DEF Dup2, At, Alive
  <2> HIDE DEF record, r
  <2>. QED  BY <2>1, <2>2, <2>3 DEF FileRecord
<1>. QED  BY <1>2, <1>3

LEMMA EndRecord ==
  ASSUME NEW q \in Proc, NEW ending, End(q, ending)
  PROVE  proc'[q].pc = "main"
BY DEF End, NoProcess, Zombie

LEMMA ExecvRecord ==
  ASSUME IInv, NEW q \in Proc, Execv(q) PROVE proc'[q].pc = "main"
<1>1. proc[q] \in Process
  BY DEF IInv, TypeOK
<1>2. CASE proc' = [proc EXCEPT ![q] = Command(@)]
  BY <1>2 DEF IInv, TypeOK, Command, NoProcess
<1>3. CASE Return(q, FALSE)
  <2>1. proc'[q] = Returned(proc[q], FALSE)
    BY <1>3 DEF Return, IInv, TypeOK
  <2>. QED  BY <1>1, <2>1, ReturnedFields
<1>. QED  BY <1>2, <1>3, EndRecord DEF Execv

LEMMA ForkRecord ==
  ASSUME IInv, FileInv, NEW q \in Proc, Fork(q) PROVE FileRecord(proc'[q])
<1>1. proc[q] \in Process
  BY DEF IInv, TypeOK
<1>2. CASE Return(q, FALSE)
  <2>1. proc'[q] = Returned(proc[q], FALSE)
    BY <1>2 DEF Return, IInv, TypeOK
  <2>. QED  BY <1>1, <2>1, AtMain, ReturnedFields
<1>3. ASSUME NEW c \in Proc, proc[c].image = "none",
             proc' = [proc EXCEPT ![q].pc = "waitpid", ![q].pid = c,
                                  ![c] = Copy(q)]
      PROVE  FileRecord(proc'[q])
  <2> DEFINE r == proc[q]
             record == [r EXCEPT !.pc = "waitpid", !.pid = c]
  <2>3. /\ r.image = "caller" /\ r.ended = "no"
        /\ r.fds = r.held + IF r.call = "do_exec_redirect" THEN 1 ELSE 0
    BY DEF Fork, At, Alive, FileInv, FileRecord
  <2>1. proc'[q] = record
    BY <1>3, <2>3 DEF IInv, TypeOK
  <2>2. /\ record.pc = "waitpid" /\ record.call = r.call
        /\ record.held = r.held /\ record.fds = r.fds
        /\ record.image = r.image /\ record.ended = r.ended
    BY <1>1 DEF Process
  <2> HIDE DEF record, r
  <2>. QED  BY <2>1, <2>2, <2>3 DEF FileRecord
<1>. QED  BY <1>2, <1>3 DEF Fork

(* What the parent is told, and what becomes of its file.                  *)
LEMMA WaitpidRecord ==
  ASSUME IInv, NEW q \in Proc, Waitpid(q)
  PROVE  LET c == proc[q].pid
         IN  /\ c \in Proc \ {q} /\ proc[c].ended \in Endings
             /\ proc'[q].pc = "main" /\ proc'[q].stdout = proc[q].stdout
             /\ proc'[q].result = Success(proc[q].call, proc[c].ended)
             /\ proc'[q].fds =
                  proc[q].fds - Closes(proc[q].call, proc[c].ended)
<1> DEFINE c == proc[q].pid
           success == Success(proc[q].call, proc[c].ended)
           closes == Closes(proc[q].call, proc[c].ended)
           r == Returned(proc[q], success)
<1>1. At(q, "waitpid") /\ proc[c].ended # "no" /\ proc[q] \in Process
  BY DEF Waitpid, HasEnded, IInv, TypeOK
<1>2. c \in Proc /\ c # q
  BY <1>1 DEF IInv, CallInv, At, Alive
<1>3. proc[c].ended \in Endings
  <2>1. proc[c] \in Process
    BY <1>2 DEF IInv, TypeOK
  <2>. QED  BY <2>1, <1>1 DEF Process
<1>4. proc'[q] = [r EXCEPT !.fds = @ - closes]
  BY <1>2 DEF IInv, TypeOK, Waitpid
<1>5. /\ r \in Process /\ r.pc = "main" /\ r.stdout = proc[q].stdout
      /\ r.result = success /\ r.fds = proc[q].fds
  <2>1. success \in BOOLEAN
    BY DEF Success
  <2> HIDE DEF success
  <2>. QED  BY <1>1, <2>1 DEF Returned, Process
<1> HIDE DEF r, success, closes
<1>6. /\ proc'[q].pc = "main" /\ proc'[q].stdout = proc[q].stdout
      /\ proc'[q].result = success /\ proc'[q].fds = proc[q].fds - closes
  BY <1>4, <1>5 DEF Process
<1>. QED  BY <1>2, <1>3, <1>6 DEF c, success, closes

LEMMA WaitpidFailsRecord ==
  ASSUME IInv, NEW q \in Proc, WaitpidFails(q)
  PROVE  /\ proc'[q].pc = "main" /\ proc'[q].stdout = proc[q].stdout
         /\ proc'[q].result = FALSE /\ proc'[q].fds = proc[q].fds
<1> DEFINE c == proc[q].pid
           r == Returned(proc[q], FALSE)
<1>1. proc[q] \in Process /\ c \in Proc
  BY DEF WaitpidFails, IInv, TypeOK, CallInv
<1>2. proc'[q] = r \/ proc'[q] = [r EXCEPT !.forgotten = TRUE]
  BY <1>1 DEF WaitpidFails, IInv, TypeOK
<1>3. /\ r \in Process /\ r.pc = "main" /\ r.stdout = proc[q].stdout
      /\ r.result = FALSE /\ r.fds = proc[q].fds
  BY <1>1 DEF Returned, Process
<1> HIDE DEF r
<1>. QED  BY <1>2, <1>3 DEF Process

(* The count of its files is kept in every record.                         *)
LEMMA NextFileInv ==
  ASSUME FullInv, NEW q \in Proc, Step(q) PROVE FileInv'
<1> SUFFICES ASSUME NEW p \in Proc PROVE FileRecord(proc'[p])
  BY DEF FileInv
<1>1. CASE p = q
  <2>1. ASSUME CommandEnds(q) \/ CopyEnds(q) \/ CopyKilled(q)
        PROVE  proc'[q].pc = "main"
    BY <2>1, EndRecord DEF CommandEnds, CopyEnds, CopyKilled
  <2>. QED
    BY <1>1, <2>1, AtMain, CallRecord, OpenRecord, Dup2Record, ExecvRecord,
       ForkRecord, WaitpidRecord, WaitpidFailsRecord
    DEF Step, Runs, FullInv
<1>2. CASE p # q
  <2>1. Untouched(q, p) /\ FileRecord(proc[p])
    BY <1>2, StepUntouched DEF FullInv, FileInv
  <2>. QED  BY <2>1 DEF Untouched, SameCall, FileRecord, NoProcess, Alive
<1>. QED  BY <1>1, <1>2

-----------------------------------------------------------------------------
(* What a process does to itself when somebody waits for it.               *)

LEMMA ReturnOwn ==
  ASSUME IInv, NEW q \in Proc, NEW value \in BOOLEAN, Return(q, value)
  PROVE  /\ proc'[q].image = proc[q].image /\ proc'[q].parent = proc[q].parent
         /\ proc'[q].stdout = proc[q].stdout /\ proc'[q].fds = proc[q].fds
         /\ proc'[q].result = value
<1>1. proc[q] \in Process
  BY DEF IInv, TypeOK
<1>2. proc'[q] = Returned(proc[q], value)
  BY DEF Return, IInv, TypeOK
<1>3. /\ Returned(proc[q], value).stdout = proc[q].stdout
      /\ Returned(proc[q], value).result = value
  BY <1>1 DEF Returned, Process
<1>. QED  BY <1>1, <1>2, <1>3, ReturnedFields

LEMMA EndOwn ==
  ASSUME NEW q \in Proc, NEW ending, End(q, ending), proc[q].parent # NoProc
  PROVE  /\ proc'[q].image = proc[q].image /\ proc'[q].parent = proc[q].parent
         /\ proc'[q].ended = ending
<1>1. proc'[q] = Zombie(proc[q], ending)
  BY DEF End
<1>. QED  BY <1>1 DEF Zombie, NoProcess

LEMMA ExecvOwn ==
  ASSUME IInv, NEW q \in Proc, Execv(q), proc[q].parent \in Proc
  PROVE  /\ proc'[q].image # "none" /\ proc'[q].parent = proc[q].parent
         /\ proc[q].call = "do_system" => Awaited(proc'[q])
<1>1. proc[q].image = "caller" /\ proc[q].parent # NoProc
  BY ProcAssumption DEF Execv, At
<1>2. CASE proc' = [proc EXCEPT ![q] = Command(@)]
  BY <1>2 DEF IInv, TypeOK, Command, NoProcess, Awaited
<1>3. CASE proc[q].call = "do_system" /\ End(q, "nonzero")
  BY <1>1, <1>3, EndOwn DEF Awaited
<1>4. CASE proc[q].call # "do_system" /\ Return(q, FALSE)
  BY <1>1, <1>4, ReturnOwn
<1>. QED  BY <1>2, <1>3, <1>4 DEF Execv

(* The calls that go on: they change where the process is, not who it is.  *)
LEMMA CallOwn ==
  ASSUME IInv, NEW q \in Proc, NEW function \in Functions, Call(q, function),
         ~ Return(q, FALSE)
  PROVE  /\ proc'[q].image = proc[q].image /\ proc'[q].parent = proc[q].parent
         /\ proc'[q].pc \in {"open", "fork"}
<1> DEFINE r == proc[q]
           record == [r EXCEPT
          !.pc   = IF function = "do_exec_redirect" THEN "open" ELSE "fork",
          !.call = function, !.held = r.fds, !.result = FALSE]
<1>1. proc'[q] = record /\ r \in Process
  BY DEF Call, IInv, TypeOK
<1> HIDE DEF r
<1>2. /\ record.image = r.image /\ record.parent = r.parent
      /\ record.pc \in {"open", "fork"}
  BY <1>1 DEF Process
<1>. QED  BY <1>1, <1>2 DEF r

LEMMA OpenOwn ==
  ASSUME IInv, NEW q \in Proc, Open(q) \/ Dup2(q), ~ Return(q, FALSE)
  PROVE  /\ proc'[q].image = proc[q].image /\ proc'[q].parent = proc[q].parent
         /\ proc'[q].pc \in {"fork", "execv"}
<1> DEFINE r == proc[q]
<1>1. /\ r \in Process
      /\ \/ proc'[q] = [r EXCEPT !.pc = "fork", !.fds = @ + 1]
         \/ proc'[q] = [r EXCEPT !.pc = "execv", !.stdout = "file"]
  BY DEF Open, Dup2, IInv, TypeOK
<1> HIDE DEF r
<1>2. /\ proc'[q].image = r.image /\ proc'[q].parent = r.parent
      /\ proc'[q].pc \in {"fork", "execv"}
  BY <1>1 DEF Process
<1>. QED  BY <1>2 DEF r

(* The other steps of a process that is the caller's copy.                 *)
LEMMA CallerOwn ==
  ASSUME FullInv, NEW q \in Proc, proc[q].parent \in Proc,
         \/ \E function \in Functions : Call(q, function)
         \/ Open(q) \/ Fork(q) \/ Dup2(q) \/ Waitpid(q) \/ WaitpidFails(q)
  PROVE  /\ proc'[q].image # "none" /\ proc'[q].parent = proc[q].parent
         /\ ~ At(q, "execv") /\ proc[q].image = "caller" /\ proc[q].ended = "no"
<1>0. proc[q] \in Process /\ IInv
  BY DEF FullInv, IInv, TypeOK
<1>1. /\ ~ At(q, "execv") /\ proc[q].image = "caller" /\ proc[q].ended = "no"
  BY DEF Call, Open, Fork, Dup2, Waitpid, WaitpidFails, At, Alive
<1>2. ASSUME Return(q, FALSE)
      PROVE  proc'[q].image # "none" /\ proc'[q].parent = proc[q].parent
  BY <1>0, <1>1, <1>2, ReturnOwn
<1>3. ASSUME NEW function \in Functions, Call(q, function), ~ Return(q, FALSE)
      PROVE  proc'[q].image = proc[q].image /\ proc'[q].parent = proc[q].parent
  BY <1>0, <1>3, CallOwn
<1>4. ASSUME Open(q) \/ Dup2(q), ~ Return(q, FALSE)
      PROVE  proc'[q].image = proc[q].image /\ proc'[q].parent = proc[q].parent
  BY <1>0, <1>4, OpenOwn
<1>5. ASSUME NEW c \in Proc, proc[c].image = "none",
             proc' = [proc EXCEPT ![q].pc = "waitpid", ![q].pid = c,
                                  ![c] = Copy(q)]
      PROVE  proc'[q].image = proc[q].image /\ proc'[q].parent = proc[q].parent
  <2>1. proc'[q] = [proc[q] EXCEPT !.pc = "waitpid", !.pid = c]
    BY <1>0, <1>1, <1>5 DEF IInv, TypeOK
  <2>. QED  BY <1>0, <2>1 DEF Process
<1>6. ASSUME Waitpid(q)
      PROVE  proc'[q].image = proc[q].image /\ proc'[q].parent = proc[q].parent
  <2> DEFINE c == proc[q].pid
             success == Success(proc[q].call, proc[c].ended)
             closes == Closes(proc[q].call, proc[c].ended)
             r == Returned(proc[q], success)
  <2>1. c \in Proc \ {q}
    BY <1>0, <1>6, WaitpidRecord
  <2>2. proc'[q] = [r EXCEPT !.fds = @ - closes]
    BY <1>0, <1>6, <2>1 DEF IInv, TypeOK, Waitpid
  <2>3. success \in BOOLEAN
    BY DEF Success
  <2> HIDE DEF success, closes
  <2>4. r \in Process /\ r.image = proc[q].image /\ r.parent = proc[q].parent
    BY <1>0, <2>3, ReturnedFields, ReturnedType
  <2> HIDE DEF r
  <2>. QED  BY <2>2, <2>4 DEF Process
<1>7. ASSUME WaitpidFails(q)
      PROVE  proc'[q].image = proc[q].image /\ proc'[q].parent = proc[q].parent
  <2> DEFINE c == proc[q].pid
             r == Returned(proc[q], FALSE)
  <2>1. proc'[q] = r \/ proc'[q] = [r EXCEPT !.forgotten = TRUE]
    BY <1>0, <1>7 DEF WaitpidFails, IInv, TypeOK, CallInv
  <2>2. r \in Process /\ r.image = proc[q].image /\ r.parent = proc[q].parent
    BY <1>0, ReturnedFields, ReturnedType
  <2> HIDE DEF r
  <2>. QED  BY <2>1, <2>2 DEF Process
<1>. QED  BY <1>1, <1>2, <1>3, <1>4, <1>5, <1>6, <1>7 DEF Fork

(* A step of the process that p waits for.                                 *)
LEMMA AwaitedStep ==
  ASSUME FullInv, NEW q \in Proc, Step(q), NEW p \in Proc, At(p, "waitpid"),
         proc[p].pid = q
  PROVE  /\ proc'[q].image # "none" /\ proc'[q].parent = p
         /\ proc[p].call = "do_system" => Awaited(proc'[q])
<1>1. /\ proc[q].image # "none" /\ proc[q].parent = p
      /\ proc[p].call = "do_system" => Awaited(proc[q])
  BY DEF FullInv, ChildInv, Awaited, At, Alive
<1>2. proc[q].parent # NoProc /\ IInv
  BY <1>1, ProcAssumption DEF FullInv
<1>3. CASE \/ \E function \in Functions : Call(q, function)
           \/ Open(q) \/ Fork(q) \/ Dup2(q) \/ Waitpid(q) \/ WaitpidFails(q)
  BY <1>1, <1>3, CallerOwn DEF Awaited, At, Alive
<1>4. CASE Execv(q)
  <2>1. /\ proc[q].image = "caller" /\ proc[q].ended = "no"
        /\ At(q, "execv")
    BY <1>4 DEF Execv, At, Alive
  <2>. QED  BY <1>1, <1>2, <1>4, <2>1, ExecvOwn DEF Awaited
<1>5. CASE CommandEnds(q)
  BY <1>1, <1>2, <1>5, EndOwn DEF CommandEnds, Awaited
<1>6. CASE CopyEnds(q)
  <2>1. At(q, "main")
    BY <1>6 DEF CopyEnds
  <2>. QED  BY <1>1, <1>2, <1>6, <2>1, EndOwn DEF CopyEnds, Awaited, At, Alive
<1>7. CASE CopyKilled(q)
  BY <1>1, <1>2, <1>7, EndOwn DEF CopyKilled, Awaited
<1>. QED  BY <1>3, <1>4, <1>5, <1>6, <1>7 DEF Step, Runs

(* A process that begins to wait.                                          *)
LEMMA BeginsToWait ==
  ASSUME FullInv, NEW q \in Proc, Step(q), At(q, "waitpid")'
  PROVE  \E c \in Proc \ {q} :
           /\ proc'[q].pid = c /\ proc'[c].image # "none" /\ proc'[c].parent = q
           /\ proc'[q].call = "do_system" => Awaited(proc'[c])
<1>1. proc'[q].pc = "waitpid" /\ IInv /\ proc[q] \in Process
  BY DEF At, FullInv, IInv, TypeOK
<1>2. Fork(q) /\ ~ Return(q, FALSE)
  <2>1. ASSUME Return(q, FALSE) PROVE FALSE
    BY <1>1, <2>1, ReturnedFields DEF Return, IInv, TypeOK
  <2>2. ASSUME NEW function \in Functions, Call(q, function) PROVE FALSE
    BY <1>1, <2>1, <2>2, CallOwn
  <2>3. ASSUME Open(q) \/ Dup2(q) PROVE FALSE
    BY <1>1, <2>1, <2>3, OpenOwn
  <2>4. ASSUME CommandEnds(q) \/ CopyEnds(q) \/ CopyKilled(q) PROVE FALSE
    BY <1>1, <2>4, EndRecord DEF CommandEnds, CopyEnds, CopyKilled
  <2>. QED
    BY <1>1, <2>1, <2>2, <2>3, <2>4, ExecvRecord, WaitpidRecord,
       WaitpidFailsRecord
    DEF Step, Runs
<1>3. PICK c \in Proc :
        /\ proc[c].image = "none"
        /\ proc' = [proc EXCEPT ![q].pc = "waitpid", ![q].pid = c,
                                ![c] = Copy(q)]
  BY <1>2 DEF Fork
<1>4. c # q /\ At(q, "fork")
  BY <1>2, <1>3 DEF Fork, At, Alive
<1>5. /\ proc'[q] = [proc[q] EXCEPT !.pc = "waitpid", !.pid = c]
      /\ proc'[c] = Copy(q)
  BY <1>1, <1>3, <1>4 DEF IInv, TypeOK
<1>6. proc'[q].pid = c /\ proc'[q].call = proc[q].call
  BY <1>1, <1>5 DEF Process
<1>7. /\ Copy(q).image = proc[q].image /\ Copy(q).parent = q
      /\ Copy(q).ended = proc[q].ended /\ Copy(q).call = proc[q].call
      /\ proc[q].call = "do_system" => Copy(q).pc = "execv"
  BY <1>1 DEF Copy, Process
<1>. QED  BY <1>4, <1>5, <1>6, <1>7 DEF Awaited, At, Alive

LEMMA NextChildInv ==
  ASSUME FullInv, NEW q \in Proc, Step(q) PROVE ChildInv'
<1> SUFFICES ASSUME NEW p \in Proc, At(p, "waitpid")'
             PROVE  /\ proc'[proc'[p].pid].image # "none"
                    /\ proc'[proc'[p].pid].parent = p
                    /\ proc'[p].call = "do_system"
                         => Awaited(proc'[proc'[p].pid])
  BY DEF ChildInv, Awaited, At, Alive
<1>1. CASE p = q
  BY <1>1, BeginsToWait
<1>2. CASE p # q
  <2>1. SameCall(proc'[p], proc[p])
    BY <1>2, StepUntouched DEF Untouched, At, Alive, NoProcess
  <2>2. At(p, "waitpid") /\ proc'[p].pid = proc[p].pid
        /\ proc'[p].call = proc[p].call
    BY <2>1 DEF SameCall, At, Alive
  <2> DEFINE c == proc[p].pid
  <2>3. c \in Proc
    BY <2>2 DEF FullInv, IInv, CallInv
  <2>4. CASE c = q
    BY <2>2, <2>4, AwaitedStep
  <2>5. CASE c # q
    <3>1. /\ proc[c].image # "none" /\ proc[c].parent = p
          /\ proc[p].call = "do_system" => Awaited(proc[c])
      BY <2>2 DEF FullInv, ChildInv, Awaited, At, Alive
    <3>2. SameCall(proc'[c], proc[c]) /\ proc'[c].parent = proc[c].parent
      BY <1>2, <2>3, <2>5, <3>1, StepUntouched DEF Untouched
    <3>. QED  BY <2>2, <3>1, <3>2 DEF SameCall, Awaited
  <2>. QED  BY <2>4, <2>5
<1>. QED  BY <1>1, <1>2

LEMMA NextStep == ASSUME [Next]_proc PROVE (\E q \in Proc : Step(q)) \/ UNCHANGED proc
BY DEF Next, Step

LEMMA FullInvariance == Spec => []FullInv
<1>1. Init => FullInv
  <2> SUFFICES ASSUME Init PROVE FullInv
    OBVIOUS
  <2>1. \A p \in Proc : proc[p].pc = "main"
    BY DEF Init, NoProcess
  <2>. QED
    BY <2>1, InitIInv, AtMain DEF FullInv, FileInv, ChildInv, At
<1>2. FullInv /\ [Next]_proc => FullInv'
  <2> SUFFICES ASSUME FullInv, [Next]_proc PROVE FullInv'
    OBVIOUS
  <2>1. IInv'
    BY NextIInv DEF FullInv
  <2>2. CASE UNCHANGED proc
    BY <2>1, <2>2 DEF FullInv, FileInv, ChildInv, At, Alive
  <2>3. CASE \E q \in Proc : Step(q)
    BY <2>1, <2>3, NextFileInv, NextChildInv DEF FullInv
  <2>. QED  BY <2>2, <2>3, NextStep
<1>. QED  BY <1>1, <1>2, PTL DEF Spec

-----------------------------------------------------------------------------
(* A call that returns is the step of the one that called.                 *)
LEMMA ReturnsByItself ==
  ASSUME FullInv, [Next]_proc, NEW p \in Proc,
         proc[p].pc \in {"open", "fork", "waitpid"}, At(p, "main")'
  PROVE  Step(p)
<1>1. proc'[p] # proc[p]
  BY DEF At
<1>2. PICK q \in Proc : Step(q)
  BY <1>1, NextStep
<1>3. CASE p # q
  <2>1. proc[p].image # "none"
    BY DEF FullInv, FileInv, FileRecord
  <2>. QED
    BY <1>2, <1>3, <2>1, StepUntouched
    DEF Untouched, SameCall, At, Alive, NoProcess
<1>. QED  BY <1>2, <1>3

(* Such a step returns, or reaps, or gives up.                             *)
LEMMA ReturningSteps ==
  ASSUME FullInv, NEW p \in Proc, Step(p),
         proc[p].pc \in {"open", "fork", "waitpid"}, At(p, "main")'
  PROVE  \/ proc[p].pc \in {"open", "fork"} /\ Return(p, FALSE)
         \/ proc[p].pc = "waitpid" /\ Waitpid(p)
         \/ proc[p].pc = "waitpid" /\ WaitpidFails(p)
<1>1. proc'[p].pc = "main" /\ Alive(p)' /\ proc'[p].image = "caller"
      /\ proc[p].image = "caller" /\ proc[p] \in Process
      /\ proc' \in [Proc -> Process]
  <2>1. IInv'
    <3>1. [Next]_proc
      BY DEF Step, Next
    <3>. QED  BY <3>1, NextIInv DEF FullInv
  <2>. QED  BY <2>1 DEF At, FullInv, IInv, TypeOK, FileInv, FileRecord
<1>2. ASSUME NEW ending, End(p, ending), ending # "no" PROVE FALSE
  BY <1>1, <1>2 DEF End, Zombie, NoProcess, Alive
<1>3. ~ (CommandEnds(p) \/ CopyEnds(p) \/ CopyKilled(p))
  BY <1>2 DEF CommandEnds, CopyEnds, CopyKilled, Endings
<1>4. CASE proc[p].pc = "open"
  <2>1. Open(p)
    BY <1>3, <1>4
    DEF Step, Runs, Call, Fork, Dup2, Execv, Waitpid, WaitpidFails, At
  <2>2. proc' # [proc EXCEPT ![p].pc = "fork", ![p].fds = @ + 1]
    BY <1>1 DEF FullInv, IInv, TypeOK, Process
  <2>. QED  BY <1>4, <2>1, <2>2 DEF Open
<1>5. CASE proc[p].pc = "fork"
  <2>1. Fork(p)
    BY <1>3, <1>5
    DEF Step, Runs, Call, Open, Dup2, Execv, Waitpid, WaitpidFails, At
  <2>2. ASSUME NEW c \in Proc, proc[c].image = "none",
               proc' = [proc EXCEPT ![p].pc = "waitpid", ![p].pid = c,
                                    ![c] = Copy(p)]
        PROVE  FALSE
    <3>1. c # p
      BY <1>1, <2>2
    <3>2. proc'[p] = [proc[p] EXCEPT !.pc = "waitpid", !.pid = c]
      BY <2>2, <3>1 DEF FullInv, IInv, TypeOK
    <3>. QED  BY <1>1, <3>2 DEF Process
  <2>. QED  BY <1>5, <2>1, <2>2 DEF Fork
<1>6. CASE proc[p].pc = "waitpid"
  BY <1>3, <1>6 DEF Step, Runs, Call, Open, Fork, Dup2, Execv, At
<1>. QED  BY <1>4, <1>5, <1>6

(* do_system, do_exec and do_exec_redirect report success for a command    *)
(* that ended with status zero, and beyond that only where a signal or a   *)
(* copy of the caller is taken for one (systemcalls.c:67-68, 75-86).       *)
THEOREM SystemCallsTrueUnlessMisread == Spec => TrueUnlessMisread
<1> DEFINE A ==
      \A p \in Proc : Answered(p) /\ proc'[p].result =>
        LET child == proc[proc[p].pid]
        IN  \/ child.image = "command" /\ child.ended = "zero"
            \/ child.ended = "signal" /\ proc[p].call # "do_system"
            \/ /\ child.image = "caller" /\ child.ended = "zero"
               /\ proc[p].call # "do_system"
<1>1. FullInv /\ [Next]_proc => A
  <2> SUFFICES ASSUME FullInv, [Next]_proc, NEW p \in Proc, Answered(p),
                      proc'[p].result
               PROVE  LET child == proc[proc[p].pid]
                      IN  \/ child.image = "command" /\ child.ended = "zero"
                          \/ child.ended = "signal" /\ proc[p].call # "do_system"
                          \/ /\ child.image = "caller" /\ child.ended = "zero"
                             /\ proc[p].call # "do_system"
    OBVIOUS
  <2> DEFINE c == proc[p].pid
  <2>1. At(p, "waitpid") /\ proc[p].pc = "waitpid" /\ At(p, "main")'
    BY DEF Answered, At
  <2>2. Waitpid(p)
    BY <2>1, ReturnsByItself, ReturningSteps, WaitpidFailsRecord DEF FullInv
  <2>3. c \in Proc /\ Success(proc[p].call, proc[c].ended)
    BY <2>2, WaitpidRecord DEF FullInv
  <2>4. /\ proc[c].image # "none"
        /\ proc[p].call = "do_system" => Awaited(proc[c])
    BY <2>1 DEF FullInv, ChildInv, Awaited, At, Alive
  <2>5. proc[c].image \in {"caller", "command"}
    <3>1. proc[c] \in Process
      BY <2>3 DEF FullInv, IInv, TypeOK
    <3>. QED  BY <2>4, <3>1 DEF Process
  <2>. QED  BY <2>3, <2>4, <2>5 DEF Success, Awaited
<1>. QED  BY <1>1, FullInvariance, PTL DEF Spec, TrueUnlessMisread

(* Each call of do_exec_redirect costs the caller one descriptor, unless   *)
(* the open fails or a signal ends the child, and no call costs or closes  *)
(* another (systemcalls.c:91).                                             *)
THEOREM SystemCallsLeaksOneFile == Spec => LeaksOneFile
<1> DEFINE A ==
      \A p \in Proc : ReturnsToCaller(p) =>
       /\ proc'[p].stdout = proc[p].stdout
       /\ proc'[p].fds = proc[p].held +
            IF \/ proc[p].call # "do_exec_redirect"
               \/ proc[p].pc = "open"
               \/ proc[p].pc = "waitpid" /\ proc'[p].result
                    /\ proc[proc[p].pid].ended = "signal"
              THEN 0 ELSE 1
<1>1. FullInv /\ [Next]_proc => A
  <2> SUFFICES ASSUME FullInv, [Next]_proc, NEW p \in Proc, ReturnsToCaller(p)
               PROVE  /\ proc'[p].stdout = proc[p].stdout
                      /\ proc'[p].fds = proc[p].held +
                           IF \/ proc[p].call # "do_exec_redirect"
                              \/ proc[p].pc = "open"
                              \/ /\ proc[p].pc = "waitpid" /\ proc'[p].result
                                 /\ proc[proc[p].pid].ended = "signal"
                             THEN 0 ELSE 1
    OBVIOUS
  <2>1. proc[p].pc \in {"open", "fork", "waitpid"} /\ At(p, "main")'
    BY DEF ReturnsToCaller
  <2>2. /\ proc[p].fds \in Nat /\ proc[p].held \in Nat
        /\ FileRecord(proc[p]) /\ IInv
    <3>1. proc[p] \in Process
      BY DEF FullInv, IInv, TypeOK
    <3>. QED  BY <3>1 DEF FullInv, FileInv, Process
  <2>3. CASE proc[p].pc \in {"open", "fork"} /\ Return(p, FALSE)
    <3>1. /\ proc'[p].stdout = proc[p].stdout
          /\ proc'[p].fds = proc[p].fds
      BY <2>2, <2>3, ReturnOwn
    <3>2. CASE proc[p].pc = "open"
      BY <2>2, <3>1, <3>2 DEF FileRecord
    <3>3. CASE proc[p].pc = "fork"
      BY <2>2, <3>1, <3>3 DEF FileRecord
    <3>. QED  BY <2>3, <3>2, <3>3
  <2>4. CASE proc[p].pc = "waitpid" /\ Waitpid(p)
    <3> DEFINE c == proc[p].pid
    <3>1. /\ proc'[p].stdout = proc[p].stdout
          /\ proc'[p].result = Success(proc[p].call, proc[c].ended)
          /\ proc'[p].fds = proc[p].fds - Closes(proc[p].call, proc[c].ended)
      BY <2>2, <2>4, WaitpidRecord
    <3>2. proc[p].fds = proc[p].held +
            IF proc[p].call = "do_exec_redirect" THEN 1 ELSE 0
      BY <2>2, <2>4 DEF FileRecord
    <3>3. CASE proc[p].call # "do_exec_redirect"
      BY <2>2, <3>1, <3>2, <3>3 DEF Closes
    <3>4. CASE proc[p].call = "do_exec_redirect" /\ proc[c].ended = "signal"
      <4>1. proc'[p].result
        BY <3>1, <3>4 DEF Success
      <4>2. proc'[p].fds = proc[p].held
        BY <2>2, <3>1, <3>2, <3>4 DEF Closes
      <4>. QED  BY <2>2, <2>4, <3>1, <3>4, <4>1, <4>2
    <3>5. CASE proc[p].call = "do_exec_redirect" /\ proc[c].ended # "signal"
      BY <2>2, <2>4, <3>1, <3>2, <3>5 DEF Closes
    <3>. QED  BY <3>3, <3>4, <3>5
  <2>5. CASE proc[p].pc = "waitpid" /\ WaitpidFails(p)
    BY <2>2, <2>5, WaitpidFailsRecord DEF FileRecord
  <2>6. Step(p)
    BY <2>1, ReturnsByItself
  <2>7. \/ proc[p].pc \in {"open", "fork"} /\ Return(p, FALSE)
        \/ proc[p].pc = "waitpid" /\ Waitpid(p)
        \/ proc[p].pc = "waitpid" /\ WaitpidFails(p)
    BY <2>1, <2>6, ReturningSteps
  <2>. QED  BY <2>3, <2>4, <2>5, <2>7
<1>. QED  BY <1>1, FullInvariance, PTL DEF Spec, LeaksOneFile
=============================================================================
