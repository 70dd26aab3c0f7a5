--------------------------- MODULE McpJobsProofs ---------------------------
(***************************************************************************)
(* Proofs about McpJobs, for every set of frames, every finite set of      *)
(* calls and every bound on job IDs, output and restarts.                  *)
(***************************************************************************)
EXTENDS McpJobs, FiniteSetTheorems, SequenceTheorems, TLAPS

\* The records of jobs, logs and call.
JobStates == {"none", "running", "exited", "timed_out", "killed", "lost"}

JobType == [state : JobStates, frame : Frames, stopReason : {""} \cup Stops,
            closing : BOOLEAN, conn : {"none", "open", "closed", "lost"},
            proc : {"none", "alive", "loose", "exited"},
            collect : {"none", "read", "final", "end"}, gotExit : BOOLEAN]

LogType == [owner : (0..(MaxRestarts + 1)) \X (0..MaxID), data : Seq(Byte)]

Labels == {"idle", "log", "dial", "stop", "killcheck", "killsleep", "killed", "check", "sleep"}

Offsets == [IDs -> 0..MaxOutput]

CallType == [pc : Labels, frame : Frames, sel : SUBSET IDs, todo : SUBSET IDs,
             until : Until, id : 0..MaxID, offset : Offsets]

\* The type invariant in terms of these sets.
LEMMA TypeOKDef ==
    TypeOK <=> /\ nextID \in 0..MaxID /\ sleepers \subseteq Clients
               /\ restarts \in 0..MaxRestarts
               /\ jobs \in [IDs -> JobType]
               /\ logs \in [Frames -> [IDs -> LogType]]
               /\ control \in [Frames -> Nat]
               /\ call \in [Clients -> CallType]
BY Zenon DEF TypeOK, JobType, JobStates, LogType, CallType, Labels, Offsets

\* The zero values have their types.
LEMMA NoJobType ==
    /\ NoJob \in JobType
    /\ NoJob.state = "none" /\ NoJob.stopReason = "" /\ NoJob.collect = "none"
BY McpAssumption DEF NoJob, JobType, JobStates

LEMMA NoLogType == NoLog \in LogType
<1>1. <<>> \in Seq(Byte)
  OBVIOUS
<1>2. <<0, 0>> \in (0..(MaxRestarts + 1)) \X (0..MaxID)
  BY McpAssumption
<1> QED BY <1>1, <1>2 DEF NoLog, LogType

LEMMA IdleCallType ==
    /\ IdleCall \in CallType
    /\ IdleCall.pc = "idle" /\ IdleCall.sel = {} /\ IdleCall.todo = {}
<1>1. [i \in IDs |-> 0] \in Offsets
  BY McpAssumption DEF Offsets
<1>2. (CHOOSE f \in Frames : TRUE) \in Frames
  BY McpAssumption
<1>3. 0 \in 0..MaxID
  BY McpAssumption
<1> QED BY <1>1, <1>2, <1>3 DEF IdleCall, CallType, Labels, Until

\* Updates of one field keep a record in its set, and change no other field.
LEMMA JobUpdate ==
    ASSUME NEW j \in JobType
    PROVE  /\ \A x \in JobStates : [j EXCEPT !.state = x] \in JobType
           /\ \A x \in {""} \cup Stops : [j EXCEPT !.stopReason = x] \in JobType
           /\ \A x \in BOOLEAN : [j EXCEPT !.closing = x] \in JobType
           /\ \A x \in {"none", "open", "closed", "lost"} : [j EXCEPT !.conn = x] \in JobType
           /\ \A x \in {"none", "alive", "loose", "exited"} : [j EXCEPT !.proc = x] \in JobType
           /\ \A x \in {"none", "read", "final", "end"} : [j EXCEPT !.collect = x] \in JobType
           /\ \A x \in BOOLEAN : [j EXCEPT !.gotExit = x] \in JobType
BY DEF JobType

LEMMA CallUpdate ==
    ASSUME NEW w \in CallType
    PROVE  /\ \A x \in Labels : [w EXCEPT !.pc = x] \in CallType
           /\ \A x \in Frames : [w EXCEPT !.frame = x] \in CallType
           /\ \A x \in SUBSET IDs : [w EXCEPT !.sel = x] \in CallType
           /\ \A x \in SUBSET IDs : [w EXCEPT !.todo = x] \in CallType
           /\ \A x \in Until : [w EXCEPT !.until = x] \in CallType
           /\ \A x \in 0..MaxID : [w EXCEPT !.id = x] \in CallType
           /\ \A x \in Offsets : [w EXCEPT !.offset = x] \in CallType
BY DEF CallType

\* Job IDs and the holders of a control server are finitely many.
LEMMA HoldersFinite ==
    ASSUME NEW f
    PROVE  IsFiniteSet(Launching(f)) /\ IsFiniteSet(Live(f))
<1>1. IsFiniteSet(IDs)
  BY McpAssumption, FS_Interval DEF IDs
<1>2. Launching(f) \subseteq Clients /\ Live(f) \subseteq IDs
  BY DEF Launching, Live
<1> QED BY <1>1, <1>2, McpAssumption, FS_Subset

\* Satisfied depends on the states, the frames and the logs of the selected
\* jobs and on what the wait asks for, and on nothing else.
LEMMA SatisfiedStable ==
    ASSUME NEW v, NEW w, v.sel = w.sel, v.until = w.until, v.offset = w.offset,
           w.until \in Until, Known' = Known,
           NEW s, s = Selected(w),
           \A i \in s : /\ jobs'[i].state = jobs[i].state
                        /\ jobs'[i].frame = jobs[i].frame
                        /\ logs'[jobs[i].frame][i] = logs[jobs[i].frame][i]
    PROVE  Satisfied(v)' <=> Satisfied(w)
<1>0. Selected(v)' = s /\ Selected(w) = s
  BY DEF Selected
<1>1. \A i \in s : Terminal(jobs[i])' <=> Terminal(jobs[i])
  BY DEF Terminal
<1>2. \A i \in s : LogOf(i)' = LogOf(i)
  BY DEF LogOf
<1>3. ASSUME NEW i \in s, NEW off
      PROVE  Shown(i, off)' = Shown(i, off)
  <2>1. View(i, off)' = View(i, off)
    BY <1>2 DEF View
  <2> QED BY <1>1, <2>1 DEF Shown
<1>4. AllTerminal(s)' <=> AllTerminal(s)
  BY <1>1 DEF AllTerminal
<1>5. (\E i \in s : Shown(i, v.offset[i])' > 0 \/ jobs'[i].state # "running")
        <=> (\E i \in s : Shown(i, w.offset[i]) > 0 \/ jobs[i].state # "running")
  BY <1>3
<1>6. (\E i \in s : Terminal(jobs[i])') <=> (\E i \in s : Terminal(jobs[i]))
  BY <1>1
<1>7. CASE w.until = "output"
  BY <1>0, <1>5, <1>7 DEF Satisfied
<1>8. CASE w.until = "any_exit"
  BY <1>0, <1>6, <1>8 DEF Satisfied
<1>9. CASE w.until = "all_exit"
  <2>1. AllTerminal(Selected(v))' <=> AllTerminal(Selected(w))
    BY <1>0, <1>4 DEF AllTerminal
  <2> QED BY <1>9, <2>1 DEF Satisfied
<1> QED BY <1>7, <1>8, <1>9 DEF Until

\* What a sleeper's step may be for NoLostWakeup to survive it: it stays asleep
\* on the same condition, or it goes to sleep having just tested it.
Dozes(c) ==
    \/ call'[c].pc \notin {"sleep", "killsleep"}
    \/ c \in sleepers /\ call'[c] = call[c]
    \/ /\ call'[c].pc = "sleep" /\ ~Satisfied(call[c])
       /\ call'[c].sel = call[c].sel /\ call'[c].until = call[c].until
       /\ call'[c].offset = call[c].offset
    \/ /\ call'[c].pc = "killsleep" /\ ~AllTerminal(call[c].sel)
       /\ call'[c].sel = call[c].sel

LEMMA PrimedCondition ==
    ASSUME NEW c \in Clients, NEW v, v = call'[c]
    PROVE  /\ Satisfied(call[c])' <=> Satisfied(v)'
           /\ AllTerminal(call[c].sel)' <=> AllTerminal(v.sel)'
<1>1. AllTerminal(call[c].sel)' <=> AllTerminal(v.sel)'
  BY DEF AllTerminal
<1>2. Selected(call[c])' = Selected(v)'
  BY DEF Selected
<1>3. AllTerminal(Selected(call[c]))' <=> AllTerminal(Selected(v))'
  BY <1>2 DEF AllTerminal
<1>4. Satisfied(call[c])' <=> Satisfied(v)'
  BY <1>2, <1>3 DEF Satisfied
<1> QED BY <1>1, <1>4

\* No wake-up is lost by a step that wakes everybody, or that leaves the jobs and
\* logs a sleeper waits for alone.
LEMMA WakeKept ==
    ASSUME TypeOK, SelectedKnown, NoLostWakeup, TypeOK',
           \/ sleepers' = {}
           \/ /\ Known' = Known
              /\ \A i \in Known : /\ jobs'[i].state = jobs[i].state
                                  /\ jobs'[i].frame = jobs[i].frame
                                  /\ logs'[jobs[i].frame][i] = logs[jobs[i].frame][i]
              /\ \A c \in sleepers' : Dozes(c)
    PROVE  NoLostWakeup'
<1>1. CASE sleepers' = {}
  BY <1>1 DEF NoLostWakeup
<1>2. CASE sleepers' # {}
  <2>1. SUFFICES ASSUME NEW c \in Clients, c \in sleepers'
                 PROVE  /\ call'[c].pc = "sleep" => ~Satisfied(call[c])'
                        /\ call'[c].pc = "killsleep" => ~AllTerminal(call[c].sel)'
    BY DEF NoLostWakeup
  <2>2. PICK v : v = call'[c]
    OBVIOUS
  <2>3. PICK w : w = call[c]
    OBVIOUS
  <2>4. /\ w \in CallType
        /\ w.sel \subseteq Known /\ Selected(w) \subseteq Known /\ w.until \in Until
    BY <2>2, <2>3, TypeOKDef DEF SelectedKnown, CallType, Selected
  <2>5. /\ Known' = Known
        /\ \A i \in Known : /\ jobs'[i].state = jobs[i].state
                            /\ jobs'[i].frame = jobs[i].frame
                            /\ logs'[jobs[i].frame][i] = logs[jobs[i].frame][i]
        /\ Dozes(c)
    BY <1>2, <2>1, <2>4
  <2>6. v.sel = w.sel => (AllTerminal(v.sel)' <=> AllTerminal(w.sel))
    <3>1. \A i \in w.sel : Terminal(jobs[i])' <=> Terminal(jobs[i])
      BY <2>4, <2>5 DEF Terminal
    <3> QED BY <3>1 DEF AllTerminal
  <2>7. v.sel = w.sel /\ v.until = w.until /\ v.offset = w.offset
          => (Satisfied(v)' <=> Satisfied(w))
    BY <2>4, <2>5, SatisfiedStable
  <2>8. /\ Satisfied(call[c])' <=> Satisfied(v)'
        /\ AllTerminal(call[c].sel)' <=> AllTerminal(v.sel)'
    BY <2>2, PrimedCondition
  <2>9. /\ Satisfied(call[c]) <=> Satisfied(w)
        /\ AllTerminal(call[c].sel) <=> AllTerminal(w.sel)
    BY <2>3
  <2>10. /\ c \in sleepers /\ w.pc = "sleep" => ~Satisfied(w)
         /\ c \in sleepers /\ w.pc = "killsleep" => ~AllTerminal(w.sel)
    BY <2>3, <2>9 DEF NoLostWakeup
  <2>11. v.pc = "sleep" => ~Satisfied(v)'
    BY <2>2, <2>3, <2>5, <2>7, <2>9, <2>10, Zenon DEF Dozes
  <2>12. v.pc = "killsleep" => ~AllTerminal(v.sel)'
    BY <2>2, <2>3, <2>5, <2>6, <2>9, <2>10, Zenon DEF Dozes
  <2> QED BY <2>2, <2>8, <2>11, <2>12
<1> QED BY <1>1, <1>2

\* The type invariant of the next state in terms of the record sets.
LEMMA TypeKept ==
    ASSUME nextID' \in 0..MaxID, sleepers' \subseteq Clients, restarts' \in 0..MaxRestarts,
           jobs' \in [IDs -> JobType], logs' \in [Frames -> [IDs -> LogType]],
           control' \in [Frames -> Nat], call' \in [Clients -> CallType]
    PROVE  TypeOK'
BY Zenon DEF TypeOK, JobType, JobStates, LogType, CallType, Labels, Offsets

\* A step that keeps states, frames, IDs, logs and references, and moves no
\* launch: everything but the launches, the collector's last step, the output
\* and the restart.
LEMMA Moves ==
    ASSUME JobsInv,
           UNCHANGED <<nextID, logs, control, restarts>>,
           sleepers' \subseteq Clients,
           jobs' \in [IDs -> JobType], call' \in [Clients -> CallType],
           \A i \in IDs : /\ jobs'[i].state = jobs[i].state
                          /\ jobs'[i].frame = jobs[i].frame
                          /\ jobs'[i].collect \in {"read", "final"} <=> jobs'[i].state = "running"
                          /\ jobs'[i].state = "none" => jobs'[i].stopReason = "",
           \A c \in Clients :
              /\ {call[c].pc, call'[c].pc} \cap {"log", "dial"} # {} => call'[c] = call[c]
              /\ call'[c].sel \subseteq Known /\ call'[c].todo \subseteq call'[c].sel,
           \A c \in sleepers' : Dozes(c)
    PROVE  JobsInv'
<1>1. TypeOK'
  BY TypeKept, TypeOKDef DEF JobsInv
<1>2. Known' = Known
  BY DEF Known
<1>3. NoLostWakeup'
  BY <1>1, <1>2, WakeKept DEF JobsInv, Known
<1>4. ControlRefsExact'
  <2>1. SUFFICES ASSUME NEW f \in Frames
                 PROVE  control'[f] = Cardinality(Launching(f)') + Cardinality(Live(f)')
    BY DEF ControlRefsExact
  <2>2. Launching(f)' = Launching(f)
    BY DEF Launching
  <2>3. Live(f)' = Live(f)
    BY DEF Live
  <2> QED BY <2>2, <2>3 DEF JobsInv, ControlRefsExact
<1>5. CollectedOnce'
  BY <1>2 DEF JobsInv, CollectedOnce
<1>6. \A c \in Clients : call'[c].pc = "dial" => call'[c] = call[c]
  OBVIOUS
<1>7. DiallersAlone'
  <2>1. SUFFICES ASSUME NEW c \in Clients, call'[c].pc = "dial"
                 PROVE  /\ call'[c].id \in 1..nextID /\ call'[c].id \notin Known
                        /\ \A d \in Clients \ {c} : call'[d].pc = "dial" => call'[d].id # call'[c].id
    BY <1>2, Zenon DEF DiallersAlone
  <2>2. call'[c] = call[c] /\ call[c].pc = "dial"
    BY <1>6, <2>1
  <2>3. /\ call[c].id \in 1..nextID /\ call[c].id \notin Known
        /\ \A d \in Clients \ {c} : call[d].pc = "dial" => call[d].id # call[c].id
    BY <2>2, Zenon DEF JobsInv, DiallersAlone
  <2> QED BY <1>6, <2>2, <2>3
<1>8. OwnLogs'
  <2>1. \A i \in Known : i \in IDs
    BY DEF Known
  <2> QED BY <1>2, <1>6, <2>1 DEF JobsInv, OwnLogs
<1>9. SelectedKnown'
  BY <1>2 DEF SelectedKnown
<1> QED BY <1>1, <1>3, <1>4, <1>5, <1>7, <1>8, <1>9 DEF JobsInv

\* One job goes on, in the same state.
LEMMA JobMoves ==
    ASSUME JobsInv, NEW i \in IDs, NEW e \in JobType,
           jobs' = [jobs EXCEPT ![i] = e],
           e.state = jobs[i].state, e.frame = jobs[i].frame,
           e.collect \in {"read", "final"} <=> e.state = "running",
           e.state = "none" => e.stopReason = "",
           UNCHANGED <<nextID, logs, control, call, restarts>>,
           sleepers' \in {sleepers, {}}
    PROVE  JobsInv'
<1>1. jobs \in [IDs -> JobType] /\ call \in [Clients -> CallType] /\ sleepers \subseteq Clients
  BY TypeOKDef DEF JobsInv
<1>2. jobs' \in [IDs -> JobType]
  BY <1>1
<1>3. \A k \in IDs : /\ jobs'[k].state = jobs[k].state
                     /\ jobs'[k].frame = jobs[k].frame
                     /\ jobs'[k].collect \in {"read", "final"} <=> jobs'[k].state = "running"
                     /\ jobs'[k].state = "none" => jobs'[k].stopReason = ""
  BY <1>1 DEF JobsInv, CollectedOnce
<1>4. \A c \in Clients : call'[c].sel \subseteq Known /\ call'[c].todo \subseteq call'[c].sel
  BY DEF JobsInv, SelectedKnown
<1>5. \A c \in sleepers' : Dozes(c)
  BY DEF Dozes
<1> QED BY <1>1, <1>2, <1>3, <1>4, <1>5, Moves

LEMMA SessionInv ==
    ASSUME JobsInv, NEW i \in IDs, ProcExits(i) \/ ProcReaped(i) \/ VshdLost(i)
    PROVE  JobsInv'
<1>1. PICK j \in JobType : j = jobs[i]
  BY TypeOKDef DEF JobsInv
<1>2. /\ j.collect \in {"read", "final"} <=> j.state = "running"
      /\ j.state = "none" => j.stopReason = ""
  BY <1>1 DEF JobsInv, CollectedOnce
<1>3. CASE ProcExits(i) \/ ProcReaped(i)
  <2>1. PICK e : e = [j EXCEPT !.proc = "exited"]
    OBVIOUS
  <2>2. /\ e \in JobType /\ e.state = j.state /\ e.frame = j.frame
        /\ e.collect = j.collect /\ e.stopReason = j.stopReason
    BY <2>1 DEF JobType
  <2>3. jobs' = [jobs EXCEPT ![i] = e]
    BY <1>1, <1>3, <2>1 DEF ProcExits, ProcReaped
  <2>4. /\ UNCHANGED <<nextID, logs, control, call, restarts>>
        /\ sleepers' \in {sleepers, {}}
        /\ e.collect \in {"read", "final"} <=> e.state = "running"
        /\ e.state = "none" => e.stopReason = ""
    BY <1>1, <1>2, <1>3, <2>2 DEF ProcExits, ProcReaped
  <2> QED BY <1>1, <2>2, <2>3, <2>4, JobMoves, Zenon
<1>4. CASE VshdLost(i)
  <2>1. PICK e : e = [j EXCEPT !.conn = "lost"]
    OBVIOUS
  <2>2. /\ e \in JobType /\ e.state = j.state /\ e.frame = j.frame
        /\ e.collect = j.collect /\ e.stopReason = j.stopReason
    BY <2>1 DEF JobType
  <2>3. jobs' = [jobs EXCEPT ![i] = e]
    BY <1>1, <1>4, <2>1 DEF VshdLost
  <2>4. /\ UNCHANGED <<nextID, logs, control, call, restarts>>
        /\ sleepers' \in {sleepers, {}}
        /\ e.collect \in {"read", "final"} <=> e.state = "running"
        /\ e.state = "none" => e.stopReason = ""
    BY <1>1, <1>2, <1>4, <2>2 DEF VshdLost
  <2> QED BY <1>1, <2>2, <2>3, <2>4, JobMoves, Zenon
<1> QED BY <1>3, <1>4

LEMMA ReadInv ==
    ASSUME JobsInv, NEW i \in IDs, ReadExit(i) \/ ReadError(i) \/ CloseConn(i)
    PROVE  JobsInv'
<1>1. PICK j \in JobType : j = jobs[i]
  BY TypeOKDef DEF JobsInv
<1>2. /\ j.collect \in {"read", "final"} <=> j.state = "running"
      /\ j.state = "none" => j.stopReason = ""
  BY <1>1 DEF JobsInv, CollectedOnce
<1>3. CASE ReadExit(i)
  <2>1. PICK e : e = [j EXCEPT !.gotExit = TRUE, !.collect = "final"]
    OBVIOUS
  <2>2. [j EXCEPT !.gotExit = TRUE] \in JobType
    BY JobUpdate
  <2>3. /\ e \in JobType /\ e.state = j.state /\ e.frame = j.frame
        /\ e.collect = "final" /\ e.stopReason = j.stopReason
    <3>1. e \in JobType
      BY <2>1, <2>2, JobUpdate, Zenon
    <3> QED BY <2>1, <3>1 DEF JobType
  <2>4. jobs' = [jobs EXCEPT ![i] = e]
    BY <1>1, <1>3, <2>1 DEF ReadExit
  <2>5. /\ UNCHANGED <<nextID, logs, control, call, restarts>>
        /\ sleepers' \in {sleepers, {}}
        /\ e.collect \in {"read", "final"} <=> e.state = "running"
        /\ e.state = "none" => e.stopReason = ""
    BY <1>1, <1>2, <1>3, <2>3 DEF ReadExit
  <2> QED BY <1>1, <2>3, <2>4, <2>5, JobMoves, Zenon
<1>4. CASE ReadError(i)
  <2>1. PICK e : e = [j EXCEPT !.collect = "final"]
    OBVIOUS
  <2>2. /\ e \in JobType /\ e.state = j.state /\ e.frame = j.frame
        /\ e.collect = "final" /\ e.stopReason = j.stopReason
    BY <2>1 DEF JobType
  <2>3. jobs' = [jobs EXCEPT ![i] = e]
    BY <1>1, <1>4, <2>1 DEF ReadError
  <2>4. /\ UNCHANGED <<nextID, logs, control, call, restarts>>
        /\ sleepers' \in {sleepers, {}}
        /\ e.collect \in {"read", "final"} <=> e.state = "running"
        /\ e.state = "none" => e.stopReason = ""
    BY <1>1, <1>2, <1>4, <2>2 DEF ReadError
  <2> QED BY <1>1, <2>2, <2>3, <2>4, JobMoves, Zenon
<1>5. CASE CloseConn(i)
  <2>1. PICK x \in {"none", "open", "closed", "lost"} :
          x = IF j.conn = "open" THEN "closed" ELSE j.conn
    BY DEF JobType
  <2>2. PICK e : e = [j EXCEPT !.closing = FALSE, !.conn = x]
    OBVIOUS
  <2>3. [j EXCEPT !.closing = FALSE] \in JobType
    BY JobUpdate
  <2>4. /\ e \in JobType /\ e.state = j.state /\ e.frame = j.frame
        /\ e.collect = j.collect /\ e.stopReason = j.stopReason
    <3>1. e \in JobType
      BY <2>1, <2>2, <2>3, JobUpdate, Zenon
    <3> QED BY <2>2, <3>1 DEF JobType
  <2>5. jobs' = [jobs EXCEPT ![i] = e]
    BY <1>1, <1>5, <2>1, <2>2 DEF CloseConn
  <2>6. /\ UNCHANGED <<nextID, logs, control, call, restarts>>
        /\ sleepers' \in {sleepers, {}}
        /\ e.collect \in {"read", "final"} <=> e.state = "running"
        /\ e.state = "none" => e.stopReason = ""
    BY <1>1, <1>2, <1>5, <2>4 DEF CloseConn
  <2> QED BY <1>1, <2>4, <2>5, <2>6, JobMoves, Zenon
<1> QED BY <1>3, <1>4, <1>5

\* requestMCPJobStop, for the timer.
LEMMA TimerInv ==
    ASSUME JobsInv, NEW i \in IDs, TimerFires(i)
    PROVE  JobsInv'
<1>1. PICK j \in JobType : j = jobs[i]
  BY TypeOKDef DEF JobsInv
<1>2. PICK e : e = [j EXCEPT !.stopReason = "timed_out", !.closing = TRUE]
  OBVIOUS
<1>3. [j EXCEPT !.stopReason = "timed_out"] \in JobType
  BY JobUpdate DEF Stops
<1>4. e \in JobType
  BY <1>2, <1>3, JobUpdate, Zenon
<1>5. e.state = j.state /\ e.frame = j.frame /\ e.collect = j.collect
  BY <1>2, <1>4 DEF JobType
<1>6. jobs' = [jobs EXCEPT ![i] = e]
  BY <1>1, <1>2 DEF TimerFires, NoteStop
<1>7. /\ UNCHANGED <<nextID, logs, control, call, restarts>>
      /\ sleepers' \in {sleepers, {}}
      /\ e.collect \in {"read", "final"} <=> e.state = "running"
      /\ e.state = "none" => e.stopReason = ""
  BY <1>1, <1>5 DEF TimerFires, NoteStop, Notify, JobsInv, CollectedOnce
<1> QED BY <1>1, <1>4, <1>5, <1>6, <1>7, JobMoves, Zenon

\* One call goes on, neither from nor to a launch.
LEMMA CallMoves ==
    ASSUME JobsInv, NEW c \in Clients, NEW w \in CallType,
           call' = [call EXCEPT ![c] = w],
           call[c].pc \notin {"log", "dial"}, w.pc \notin {"log", "dial"},
           w.sel \subseteq Known, w.todo \subseteq w.sel,
           UNCHANGED <<nextID, jobs, logs, control, restarts>>,
           sleepers' \subseteq sleepers \cup {c},
           c \in sleepers' => Dozes(c)
    PROVE  JobsInv'
<1>1. jobs \in [IDs -> JobType] /\ call \in [Clients -> CallType] /\ sleepers \subseteq Clients
  BY TypeOKDef DEF JobsInv
<1>2. jobs' \in [IDs -> JobType] /\ call' \in [Clients -> CallType] /\ sleepers' \subseteq Clients
  BY <1>1
<1>3. \A i \in IDs : /\ jobs'[i].state = jobs[i].state
                     /\ jobs'[i].frame = jobs[i].frame
                     /\ jobs'[i].collect \in {"read", "final"} <=> jobs'[i].state = "running"
                     /\ jobs'[i].state = "none" => jobs'[i].stopReason = ""
  BY DEF JobsInv, CollectedOnce
<1>4. \A d \in Clients :
         /\ {call[d].pc, call'[d].pc} \cap {"log", "dial"} # {} => call'[d] = call[d]
         /\ call'[d].sel \subseteq Known /\ call'[d].todo \subseteq call'[d].sel
  <2>1. \A d \in Clients : call[d].sel \subseteq Known /\ call[d].todo \subseteq call[d].sel
    BY DEF JobsInv, SelectedKnown
  <2> QED BY <1>1, <2>1
<1>5. \A d \in sleepers' : Dozes(d)
  BY <1>1 DEF Dozes
<1> QED BY <1>2, <1>3, <1>4, <1>5, Moves

\* A call returns.
LEMMA ReturnInv ==
    ASSUME JobsInv, NEW c \in Clients, Return(c),
           call[c].pc \notin {"log", "dial"},
           UNCHANGED <<nextID, jobs, logs, control, restarts>>,
           sleepers' \subseteq sleepers
    PROVE  JobsInv'
<1>1. call' = [call EXCEPT ![c] = IdleCall]
  BY DEF Return
<1>2. call'[c].pc = "idle"
  BY <1>1, IdleCallType, TypeOKDef DEF JobsInv
<1>3. Dozes(c)
  BY <1>2 DEF Dozes
<1> QED BY <1>1, <1>3, IdleCallType, CallMoves

\* A call changes its place in the handler only.
LEMMA GotoInv ==
    ASSUME JobsInv, NEW c \in Clients, NEW l \in Labels \ {"log", "dial"}, Goto(c, l),
           call[c].pc \notin {"log", "dial"},
           UNCHANGED <<nextID, jobs, logs, control, restarts>>,
           \/ l \notin {"sleep", "killsleep"} /\ sleepers' = sleepers
           \/ /\ sleepers' = sleepers \cup {c}
              /\ \/ l = "sleep" /\ ~Satisfied(call[c])
                 \/ l = "killsleep" /\ ~AllTerminal(call[c].sel)
    PROVE  JobsInv'
<1>1. PICK v \in CallType : v = call[c]
  BY TypeOKDef DEF JobsInv
<1>2. PICK w : w = [v EXCEPT !.pc = l]
  OBVIOUS
<1>3. w \in CallType
  BY <1>2, CallUpdate, Zenon
<1>4. /\ w.pc = l /\ w.sel = v.sel /\ w.todo = v.todo /\ w.until = v.until
      /\ w.offset = v.offset
  BY <1>2 DEF CallType
<1>5. call' = [call EXCEPT ![c] = w] /\ call'[c] = w
  BY <1>1, <1>2, TypeOKDef DEF Goto, JobsInv
<1>6. w.sel \subseteq Known /\ w.todo \subseteq w.sel
  BY <1>1, <1>4 DEF JobsInv, SelectedKnown
<1>7. Dozes(c)
  BY <1>1, <1>4, <1>5 DEF Dozes
<1>8. w.pc \notin {"log", "dial"} /\ sleepers' \subseteq sleepers \cup {c}
  BY <1>4
<1> QED BY <1>3, <1>5, <1>6, <1>7, <1>8, CallMoves

LEMMA KillInv ==
    ASSUME JobsInv, NEW c \in Clients, NEW sel \in SUBSET Known, Kill(c, sel)
    PROVE  JobsInv'
<1>1. sel \in SUBSET IDs
  BY DEF Known
<1>2. PICK w : w = [IdleCall EXCEPT !.pc = "stop", !.sel = sel, !.todo = sel]
  OBVIOUS
<1>3. w \in CallType
  <2>1. [IdleCall EXCEPT !.pc = "stop"] \in CallType
    BY IdleCallType, CallUpdate DEF Labels
  <2>2. [IdleCall EXCEPT !.pc = "stop", !.sel = sel] \in CallType
    BY <1>1, <2>1, CallUpdate, Zenon
  <2> QED BY <1>1, <1>2, <2>2, CallUpdate, Zenon
<1>4. w.pc = "stop" /\ w.sel = sel /\ w.todo = sel
  BY <1>2, <1>3, IdleCallType DEF CallType
<1>5. call' = [call EXCEPT ![c] = w] /\ call'[c] = w
  BY <1>2, TypeOKDef DEF Kill, JobsInv
<1>6. Dozes(c)
  BY <1>4, <1>5 DEF Dozes
<1> QED BY <1>3, <1>4, <1>5, <1>6, CallMoves DEF Kill

LEMMA WaitInv ==
    ASSUME JobsInv, NEW c \in Clients, NEW sel \in SUBSET Known, NEW u \in Until,
           NEW off \in 0..MaxOutput, Wait(c, sel, u, off)
    PROVE  JobsInv'
<1>1. sel \in SUBSET IDs
  BY DEF Known
<1>2. PICK o \in Offsets : o = [i \in IDs |-> off]
  BY DEF Offsets
<1>3. PICK w : w = [IdleCall EXCEPT !.pc = "check", !.sel = sel, !.until = u, !.offset = o]
  OBVIOUS
<1>4. w \in CallType
  <2>1. [IdleCall EXCEPT !.pc = "check"] \in CallType
    BY IdleCallType, CallUpdate DEF Labels
  <2>2. [IdleCall EXCEPT !.pc = "check", !.sel = sel] \in CallType
    BY <1>1, <2>1, CallUpdate, Zenon
  <2>3. [IdleCall EXCEPT !.pc = "check", !.sel = sel, !.until = u] \in CallType
    BY <2>2, CallUpdate, Zenon
  <2> QED BY <1>3, <2>3, CallUpdate, Zenon
<1>5. w.pc = "check" /\ w.sel = sel /\ w.todo = {}
  BY <1>3, <1>4, IdleCallType DEF CallType
<1>6. call' = [call EXCEPT ![c] = w] /\ call'[c] = w
  BY <1>2, <1>3, TypeOKDef DEF Wait, JobsInv
<1>7. Dozes(c)
  BY <1>5, <1>6 DEF Dozes
<1> QED BY <1>4, <1>5, <1>6, <1>7, CallMoves DEF Wait

\* The turns of the kill and wait loops.
LEMMA LoopInv ==
    ASSUME JobsInv, NEW c \in Clients,
           \/ KillDone(c) \/ KillSleep(c) \/ KillWake(c)
           \/ WaitDone(c) \/ WaitSleep(c) \/ WaitWake(c)
           \/ WaitFails(c) \/ Leave(c)
    PROVE  JobsInv'
<1>1. CASE KillDone(c)
  BY <1>1, GotoInv DEF KillDone, Labels
<1>2. CASE KillSleep(c)
  BY <1>2, GotoInv DEF KillSleep, Labels
<1>3. CASE KillWake(c)
  BY <1>3, GotoInv DEF KillWake, Labels
<1>4. CASE WaitSleep(c)
  BY <1>4, GotoInv DEF WaitSleep, Labels
<1>5. CASE WaitWake(c)
  BY <1>5, GotoInv DEF WaitWake, Labels
<1>6. CASE WaitDone(c) \/ WaitFails(c)
  BY <1>6, ReturnInv DEF WaitDone, WaitFails
<1>7. CASE Leave(c)
  BY <1>7, ReturnInv DEF Leave
<1> QED BY <1>1, <1>2, <1>3, <1>4, <1>5, <1>6, <1>7

LEMMA KillStopInv ==
    ASSUME JobsInv, NEW c \in Clients, NEW i \in IDs, KillStop(c, i)
    PROVE  JobsInv'
<1>0. /\ jobs \in [IDs -> JobType] /\ call \in [Clients -> CallType]
      /\ sleepers \subseteq Clients
  BY TypeOKDef DEF JobsInv
<1>1. PICK v \in CallType : v = call[c]
  BY <1>0
<1>2. PICK l \in {"killcheck", "stop"} : l = IF v.todo = {i} THEN "killcheck" ELSE "stop"
  OBVIOUS
<1>3. PICK w : w = [v EXCEPT !.todo = v.todo \ {i}, !.pc = l]
  OBVIOUS
<1>4. w \in CallType
  <2>1. v.todo \ {i} \in SUBSET IDs
    BY DEF CallType
  <2>2. [v EXCEPT !.todo = v.todo \ {i}] \in CallType
    BY <2>1, CallUpdate, Zenon
  <2>3. l \in Labels
    BY DEF Labels
  <2> QED BY <1>3, <2>2, <2>3, CallUpdate, Zenon
<1>5. w.pc = l /\ w.sel = v.sel /\ w.todo = v.todo \ {i}
  BY <1>3, <1>4 DEF CallType
<1>6. call' = [call EXCEPT ![c] = w] /\ call'[c] = w
  BY <1>0, <1>1, <1>2, <1>3 DEF KillStop
<1>7. /\ v.pc = "stop" /\ i \in Known
      /\ w.sel \subseteq Known /\ w.todo \subseteq w.sel
  BY <1>1, <1>5 DEF KillStop, JobsInv, SelectedKnown
<1>8. Dozes(c)
  BY <1>5, <1>6 DEF Dozes
<1>9. CASE ~MayStop(i)
  BY <1>1, <1>4, <1>5, <1>6, <1>7, <1>8, <1>9, CallMoves DEF KillStop
<1>10. CASE MayStop(i)
  <2>1. PICK j \in JobType : j = jobs[i]
    BY <1>0
  <2>2. PICK e : e = [j EXCEPT !.stopReason = "killed", !.closing = TRUE]
    OBVIOUS
  <2>3. [j EXCEPT !.stopReason = "killed"] \in JobType
    BY JobUpdate DEF Stops
  <2>4. e \in JobType
    BY <2>2, <2>3, JobUpdate, Zenon
  <2>5. e.state = j.state /\ e.frame = j.frame /\ e.collect = j.collect
    BY <2>2, <2>4 DEF JobType
  <2>6. jobs' = [jobs EXCEPT ![i] = e] /\ sleepers' = {}
    BY <1>10, <2>1, <2>2 DEF KillStop, NoteStop, Notify
  <2>7. j.state # "none"
    BY <1>7, <2>1 DEF Known
  <2>8. \A k \in IDs : /\ jobs'[k].state = jobs[k].state
                       /\ jobs'[k].frame = jobs[k].frame
                       /\ jobs'[k].collect \in {"read", "final"} <=> jobs'[k].state = "running"
                       /\ jobs'[k].state = "none" => jobs'[k].stopReason = ""
    BY <1>0, <2>1, <2>5, <2>6, <2>7 DEF JobsInv, CollectedOnce
  <2>9. jobs' \in [IDs -> JobType] /\ call' \in [Clients -> CallType]
    BY <1>0, <1>4, <1>6, <2>4, <2>6
  <2>10. \A d \in Clients :
           /\ {call[d].pc, call'[d].pc} \cap {"log", "dial"} # {} => call'[d] = call[d]
           /\ call'[d].sel \subseteq Known /\ call'[d].todo \subseteq call'[d].sel
    <3>1. \A d \in Clients : call[d].sel \subseteq Known /\ call[d].todo \subseteq call[d].sel
      BY DEF JobsInv, SelectedKnown
    <3> QED BY <1>0, <1>1, <1>5, <1>6, <1>7, <3>1
  <2> QED BY <2>6, <2>8, <2>9, <2>10, Moves DEF KillStop
<1> QED BY <1>9, <1>10

\* The launches that already have their log are left alone, as are the jobs and
\* the log they write to.
LEMMA OthersKept ==
    ASSUME JobsInv, UNCHANGED <<nextID, logs, restarts>>, Known' = Known,
           \A i \in Known : jobs'[i].frame = jobs[i].frame,
           \A c \in Clients : call'[c].pc = "dial" => call'[c] = call[c],
           \A c \in Clients : \/ call'[c].sel = {} /\ call'[c].todo = {}
                              \/ call'[c] = call[c]
    PROVE  DiallersAlone' /\ OwnLogs' /\ SelectedKnown'
<1>1. DiallersAlone'
  <2>1. SUFFICES ASSUME NEW c \in Clients, call'[c].pc = "dial"
                 PROVE  /\ call'[c].id \in 1..nextID /\ call'[c].id \notin Known
                        /\ \A d \in Clients \ {c} : call'[d].pc = "dial" => call'[d].id # call'[c].id
    BY Zenon DEF DiallersAlone
  <2>2. call'[c] = call[c] /\ call[c].pc = "dial"
    BY <2>1
  <2>3. /\ call[c].id \in 1..nextID /\ call[c].id \notin Known
        /\ \A d \in Clients \ {c} : call[d].pc = "dial" => call[d].id # call[c].id
    BY <2>2, Zenon DEF JobsInv, DiallersAlone
  <2> QED BY <2>2, <2>3
<1>2. OwnLogs'
  BY DEF JobsInv, OwnLogs
<1>3. SelectedKnown'
  BY DEF JobsInv, SelectedKnown
<1> QED BY <1>1, <1>2, <1>3

\* A launch begins: it holds the frame's control server.
LEMMA LaunchInv ==
    ASSUME JobsInv, NEW c \in Clients, NEW f \in Frames, Launch(c, f)
    PROVE  JobsInv'
<1>0. /\ TypeOK /\ control \in [Frames -> Nat] /\ call \in [Clients -> CallType]
      /\ sleepers \subseteq Clients
  BY TypeOKDef DEF JobsInv
<1>1. PICK w : w = [IdleCall EXCEPT !.pc = "log", !.frame = f]
  OBVIOUS
<1>2. w \in CallType
  <2>1. [IdleCall EXCEPT !.pc = "log"] \in CallType
    BY IdleCallType, CallUpdate DEF Labels
  <2> QED BY <1>1, <2>1, CallUpdate, Zenon
<1>3. w.pc = "log" /\ w.frame = f /\ w.sel = {} /\ w.todo = {}
  BY <1>1, <1>2, IdleCallType DEF CallType
<1>4. call' = [call EXCEPT ![c] = w] /\ call'[c] = w /\ call[c].pc = "idle"
  BY <1>0, <1>1 DEF Launch
<1>5. \A d \in Clients \ {c} : call'[d] = call[d]
  BY <1>0, <1>4
<1>6. /\ UNCHANGED <<nextID, sleepers, jobs, logs, restarts>>
      /\ control' = [control EXCEPT ![f] = @ + 1]
  BY DEF Launch
<1>7. Known' = Known /\ \A g \in Frames : Live(g)' = Live(g)
  BY <1>6 DEF Known, Live
<1>8. TypeOK'
  BY <1>0, <1>2, <1>4, <1>6, TypeKept, TypeOKDef
<1>9. NoLostWakeup'
  <2>1. \A d \in sleepers' : Dozes(d)
    BY <1>0, <1>3, <1>4, <1>5, <1>6 DEF Dozes
  <2> QED BY <1>0, <1>6, <1>7, <1>8, <2>1, WakeKept DEF JobsInv
<1>10. ControlRefsExact'
  <2>1. SUFFICES ASSUME NEW g \in Frames
                 PROVE  control'[g] = Cardinality(Launching(g)') + Cardinality(Live(g)')
    BY DEF ControlRefsExact
  <2>2. control[g] = Cardinality(Launching(g)) + Cardinality(Live(g))
    BY DEF JobsInv, ControlRefsExact
  <2>3. CASE g = f
    <3>1. Launching(g)' = Launching(g) \cup {c} /\ c \notin Launching(g)
      BY <1>3, <1>4, <1>5, <2>3 DEF Launching
    <3>2. Cardinality(Launching(g)') = Cardinality(Launching(g)) + 1
      BY <3>1, HoldersFinite, FS_AddElement
    <3>3. Cardinality(Launching(g)) \in Nat /\ Cardinality(Live(g)) \in Nat
      BY HoldersFinite, FS_CardinalityType
    <3>4. control'[g] = control[g] + 1
      BY <1>0, <1>6, <2>3
    <3> QED BY <1>7, <2>2, <3>2, <3>3, <3>4
  <2>4. CASE g # f
    <3>1. Launching(g)' = Launching(g)
      BY <1>3, <1>4, <1>5, <2>4 DEF Launching
    <3> QED BY <1>0, <1>6, <1>7, <2>2, <2>4, <3>1
  <2> QED BY <2>3, <2>4
<1>11. CollectedOnce'
  BY <1>6, <1>7 DEF JobsInv, CollectedOnce
<1>12. \A d \in Clients : call'[d].pc = "dial" => call'[d] = call[d]
  BY <1>3, <1>4, <1>5
<1>13. DiallersAlone' /\ OwnLogs' /\ SelectedKnown'
  BY <1>3, <1>4, <1>5, <1>6, <1>7, <1>12, OthersKept DEF JobsInv
<1> QED BY <1>8, <1>9, <1>10, <1>11, <1>13 DEF JobsInv

\* A launch fails: it gives the control server back.
LEMMA LaunchFailsInv ==
    ASSUME JobsInv, NEW c \in Clients, LaunchFails(c)
    PROVE  JobsInv'
<1>0. /\ TypeOK /\ control \in [Frames -> Nat] /\ call \in [Clients -> CallType]
      /\ sleepers \subseteq Clients
  BY TypeOKDef DEF JobsInv
<1>1. PICK f \in Frames : f = call[c].frame
  BY <1>0 DEF CallType
<1>2. /\ call' = [call EXCEPT ![c] = IdleCall] /\ call'[c] = IdleCall
      /\ call[c].pc \in {"log", "dial"}
  BY <1>0 DEF LaunchFails, Return
<1>3. \A d \in Clients \ {c} : call'[d] = call[d]
  BY <1>0, <1>2
<1>4. /\ UNCHANGED <<nextID, sleepers, jobs, logs, restarts>>
      /\ control' = [control EXCEPT ![f] = @ - 1]
  BY <1>1 DEF LaunchFails
<1>5. Known' = Known /\ \A g \in Frames : Live(g)' = Live(g)
  BY <1>4 DEF Known, Live
<1>6. /\ IdleCall \in CallType /\ IdleCall.pc = "idle"
      /\ IdleCall.sel = {} /\ IdleCall.todo = {}
  BY IdleCallType
<1>7. \A g \in Frames : control'[g] = Cardinality(Launching(g)') + Cardinality(Live(g)')
  <2>1. SUFFICES ASSUME NEW g \in Frames
                 PROVE  control'[g] = Cardinality(Launching(g)') + Cardinality(Live(g)')
    OBVIOUS
  <2>2. control[g] = Cardinality(Launching(g)) + Cardinality(Live(g))
    BY DEF JobsInv, ControlRefsExact
  <2>3. CASE g = f
    <3>1. Launching(g)' = Launching(g) \ {c} /\ c \in Launching(g)
      BY <1>1, <1>2, <1>3, <1>6, <2>3 DEF Launching
    <3>2. Cardinality(Launching(g)') = Cardinality(Launching(g)) - 1
      BY <3>1, HoldersFinite, FS_RemoveElement
    <3>3. Cardinality(Launching(g)) \in Nat /\ Cardinality(Live(g)) \in Nat
      BY HoldersFinite, FS_CardinalityType
    <3>4. control'[g] = control[g] - 1
      BY <1>0, <1>4, <2>3
    <3> QED BY <1>5, <2>2, <3>2, <3>3, <3>4
  <2>4. CASE g # f
    <3>1. Launching(g)' = Launching(g)
      BY <1>1, <1>2, <1>3, <1>6, <2>4 DEF Launching
    <3> QED BY <1>0, <1>4, <1>5, <2>2, <2>4, <3>1
  <2> QED BY <2>3, <2>4
<1>8. TypeOK'
  <2>1. \A g \in Frames : control'[g] \in Nat
    <3>1. SUFFICES ASSUME NEW g \in Frames PROVE control'[g] \in Nat
      OBVIOUS
    <3>2. control[g] = Cardinality(Launching(g)) + Cardinality(Live(g))
      BY DEF JobsInv, ControlRefsExact
    <3>3. Cardinality(Launching(g)) \in Nat /\ Cardinality(Live(g)) \in Nat
      BY HoldersFinite, FS_CardinalityType
    <3>4. CASE g = f
      <4>1. c \in Launching(g)
        BY <1>1, <1>2, <3>4 DEF Launching
      <4>2. Cardinality(Launching(g)) # 0
        BY <4>1, HoldersFinite, FS_EmptySet
      <4> QED BY <1>0, <1>4, <3>2, <3>3, <3>4, <4>2
    <3>5. CASE g # f
      BY <1>0, <1>4, <3>5
    <3> QED BY <3>4, <3>5
  <2>2. control' \in [Frames -> Nat]
    BY <1>0, <1>4, <2>1
  <2>3. call' \in [Clients -> CallType]
    BY <1>0, <1>2, <1>6
  <2> QED BY <1>0, <1>4, <2>2, <2>3, TypeKept, TypeOKDef
<1>9. NoLostWakeup'
  <2>1. \A d \in sleepers' : Dozes(d)
    BY <1>0, <1>2, <1>3, <1>4, <1>6 DEF Dozes
  <2> QED BY <1>0, <1>4, <1>5, <1>8, <2>1, WakeKept DEF JobsInv
<1>10. CollectedOnce'
  BY <1>4, <1>5 DEF JobsInv, CollectedOnce
<1>11. \A d \in Clients : call'[d].pc = "dial" => call'[d] = call[d]
  BY <1>2, <1>3, <1>6
<1>12. DiallersAlone' /\ OwnLogs' /\ SelectedKnown'
  BY <1>2, <1>3, <1>4, <1>5, <1>6, <1>11, OthersKept DEF JobsInv
<1>13. ControlRefsExact'
  BY <1>7 DEF ControlRefsExact
<1> QED BY <1>8, <1>9, <1>10, <1>12, <1>13 DEF JobsInv

\* A launch that has its log has an ID of the list that no job has.
LEMMA DiallerID ==
    ASSUME JobsInv, NEW c \in Clients, call[c].pc = "dial"
    PROVE  /\ call[c].frame \in Frames /\ call[c].id \in IDs
           /\ call[c].id <= nextID /\ call[c].id \notin Known
<1>1. call[c].id \in 1..nextID /\ call[c].id \notin Known
  BY Zenon DEF JobsInv, DiallersAlone
<1>2. nextID \in 0..MaxID /\ call[c] \in CallType
  BY TypeOKDef DEF JobsInv
<1>3. 1..nextID \subseteq IDs
  BY <1>2, McpAssumption DEF IDs
<1> QED BY <1>1, <1>2, <1>3, McpAssumption DEF CallType

\* Output is appended to the log of a job, and everybody is woken.
LEMMA OutputInv ==
    ASSUME JobsInv, NEW i \in IDs, NEW b \in Byte, Output(i, b)
    PROVE  JobsInv'
<1>0. /\ TypeOK /\ jobs \in [IDs -> JobType] /\ call \in [Clients -> CallType]
      /\ logs \in [Frames -> [IDs -> LogType]]
  BY TypeOKDef DEF JobsInv
<1>1. PICK f \in Frames : f = jobs[i].frame
  BY <1>0 DEF JobType
<1>2. PICK g \in LogType : g = logs[f][i]
  BY <1>0
<1>3. PICK h : h = [g EXCEPT !.data = Append(g.data, b)]
  OBVIOUS
<1>4. h \in LogType /\ h.owner = g.owner
  <2>1. Append(g.data, b) \in Seq(Byte)
    BY AppendProperties DEF LogType
  <2> QED BY <1>3, <2>1 DEF LogType
<1>5. /\ logs' = [logs EXCEPT ![f][i] = h]
      /\ sleepers' = {} /\ UNCHANGED <<nextID, jobs, control, call, restarts>>
  BY <1>0, <1>1, <1>2, <1>3 DEF Output, Notify
<1>6. /\ logs' \in [Frames -> [IDs -> LogType]]
      /\ \A x \in Frames, k \in IDs : logs'[x][k].owner = logs[x][k].owner
  BY <1>0, <1>2, <1>4, <1>5
<1>7. TypeOK'
  BY <1>0, <1>5, <1>6, TypeKept, TypeOKDef
<1>8. Known' = Known /\ \A x \in Frames : Live(x)' = Live(x) /\ Launching(x)' = Launching(x)
  BY <1>5 DEF Known, Live, Launching
<1>9. NoLostWakeup' /\ CollectedOnce' /\ ControlRefsExact' /\ SelectedKnown'
  BY <1>5, <1>8 DEF JobsInv, NoLostWakeup, CollectedOnce, ControlRefsExact, SelectedKnown
<1>10. DiallersAlone'
  BY <1>5, <1>8, Zenon DEF JobsInv, DiallersAlone
<1>11. OwnLogs'
  <2>1. \A c \in Clients : call[c].pc = "dial" => call[c].frame \in Frames /\ call[c].id \in IDs
    BY DiallerID
  <2>2. \A k \in Known : jobs[k].frame \in Frames /\ k \in IDs
    BY <1>0 DEF Known, JobType
  <2> QED BY <1>5, <1>6, <1>8, <2>1, <2>2 DEF JobsInv, OwnLogs
<1> QED BY <1>7, <1>9, <1>10, <1>11 DEF JobsInv

\* One turn of createMCPJobLog: the ID is taken whether or not its directory
\* could be made.
LEMMA CreateLogInv ==
    ASSUME JobsInv, NEW c \in Clients, CreateLog(c)
    PROVE  JobsInv'
<1>0. /\ TypeOK /\ jobs \in [IDs -> JobType] /\ call \in [Clients -> CallType]
      /\ logs \in [Frames -> [IDs -> LogType]] /\ nextID \in 0..MaxID
      /\ restarts \in 0..MaxRestarts /\ control \in [Frames -> Nat] /\ sleepers \subseteq Clients
  BY TypeOKDef DEF JobsInv
<1>1. PICK n \in IDs : n = nextID + 1
  BY <1>0, McpAssumption DEF CreateLog, IDs
<1>2. PICK v \in CallType : v = call[c]
  BY <1>0
<1>3. PICK f \in Frames : f = v.frame
  BY DEF CallType
<1>4. /\ nextID' = n /\ n \in 0..MaxID /\ UNCHANGED <<sleepers, jobs, control, restarts>>
      /\ v.pc = "log"
  BY <1>0, <1>1, <1>2, McpAssumption DEF CreateLog, IDs
<1>5. Known' = Known /\ \A g \in Frames : Live(g)' = Live(g)
  BY <1>4 DEF Known, Live
<1>6. \A i \in Known : i \in IDs /\ i # n /\ i <= nextID /\ i <= n /\ jobs[i].frame \in Frames
  <2>1. \A i \in Known : i \in IDs /\ i <= nextID
    BY DEF JobsInv, CollectedOnce, Known
  <2>2. \A i \in IDs : jobs[i].frame \in Frames
    BY <1>0 DEF JobType
  <2>3. \A i \in IDs : i <= nextID => i # n /\ i <= n
    BY <1>0, <1>1 DEF IDs
  <2> QED BY <2>1, <2>2, <2>3
<1>7. CollectedOnce'
  <2>1. \A i \in Known' : i <= nextID'
    BY <1>4, <1>5, <1>6
  <2> QED BY <1>4, <2>1 DEF JobsInv, CollectedOnce
<1>8. CASE ~Mkdir(f, n)
  <2>1. UNCHANGED <<logs, call>>
    BY <1>1, <1>2, <1>3, <1>8 DEF CreateLog
  <2>2. TypeOK'
    BY <1>0, <1>4, <2>1, TypeKept
  <2>3. NoLostWakeup'
    <3>1. \A d \in sleepers' : Dozes(d)
      BY <1>4, <2>1 DEF Dozes
    <3> QED BY <1>4, <1>5, <2>1, <2>2, <3>1, WakeKept DEF JobsInv
  <2>4. \A g \in Frames : Launching(g)' = Launching(g)
    BY <2>1 DEF Launching
  <2>5. ControlRefsExact'
    BY <1>4, <1>5, <2>4 DEF JobsInv, ControlRefsExact
  <2>6. DiallersAlone'
    <3>1. 1..nextID \subseteq 1..nextID'
      BY <1>0, <1>1, <1>4
    <3> QED BY <1>5, <2>1, <3>1, Zenon DEF JobsInv, DiallersAlone
  <2>7. OwnLogs' /\ SelectedKnown'
    BY <1>4, <1>5, <2>1 DEF JobsInv, OwnLogs, SelectedKnown
  <2> QED BY <1>7, <2>2, <2>3, <2>5, <2>6, <2>7 DEF JobsInv
<1>9. CASE Mkdir(f, n)
  <2>1. PICK w : w = [v EXCEPT !.pc = "dial", !.id = n]
    OBVIOUS
  <2>2. w \in CallType
    <3>1. [v EXCEPT !.pc = "dial"] \in CallType
      BY CallUpdate DEF Labels
    <3> QED BY <1>4, <2>1, <3>1, CallUpdate, Zenon
  <2>3. w.pc = "dial" /\ w.id = n /\ w.frame = f /\ w.sel = v.sel /\ w.todo = v.todo
    BY <1>3, <2>1, <2>2 DEF CallType
  <2>4. call' = [call EXCEPT ![c] = w] /\ call'[c] = w
    BY <1>0, <1>1, <1>2, <1>3, <1>9, <2>1 DEF CreateLog
  <2>5. \A d \in Clients \ {c} : call'[d] = call[d]
    BY <1>0, <2>4
  <2>6. PICK g : g = [owner |-> <<restarts + 1, n>>, data |-> <<>>]
    OBVIOUS
  <2>7. g \in LogType /\ g.owner = <<restarts + 1, n>>
    <3>1. <<>> \in Seq(Byte)
      OBVIOUS
    <3>2. <<restarts + 1, n>> \in (0..(MaxRestarts + 1)) \X (0..MaxID)
      BY <1>0, <1>4, McpAssumption
    <3> QED BY <2>6, <3>1, <3>2 DEF LogType
  <2>8. logs' = [logs EXCEPT ![f][n] = g]
    BY <1>1, <1>2, <1>3, <1>9, <2>6 DEF CreateLog
  <2>9. /\ logs' \in [Frames -> [IDs -> LogType]] /\ logs'[f][n] = g
        /\ \A x \in Frames, k \in IDs : k # n => logs'[x][k] = logs[x][k]
    BY <1>0, <2>7, <2>8
  <2>10. TypeOK'
    <3>1. call' \in [Clients -> CallType]
      BY <1>0, <2>2, <2>4
    <3> QED BY <1>0, <1>4, <2>9, <3>1, TypeKept
  <2>11. NoLostWakeup'
    <3>1. \A d \in sleepers' : Dozes(d)
      BY <1>0, <1>4, <2>3, <2>4, <2>5 DEF Dozes
    <3>2. \A i \in Known : logs'[jobs[i].frame][i] = logs[jobs[i].frame][i]
      BY <1>6, <2>9
    <3> QED BY <1>4, <1>5, <2>10, <3>1, <3>2, WakeKept DEF JobsInv
  <2>12. \A x \in Frames : Launching(x)' = Launching(x)
    BY <1>2, <1>3, <1>4, <2>3, <2>4, <2>5 DEF Launching
  <2>13. ControlRefsExact'
    BY <1>4, <1>5, <2>12 DEF JobsInv, ControlRefsExact
  <2>14. ASSUME NEW d \in Clients \ {c}, call'[d].pc = "dial"
         PROVE  /\ call'[d] = call[d] /\ call[d].pc = "dial"
                /\ call[d].frame \in Frames /\ call[d].id \in IDs
                /\ call[d].id <= nextID /\ call[d].id # n
    <3>1. call'[d] = call[d] /\ call[d].pc = "dial"
      BY <2>5, <2>14
    <3>2. call[d].frame \in Frames /\ call[d].id \in IDs /\ call[d].id <= nextID
      BY <3>1, DiallerID
    <3> QED BY <1>0, <1>1, <3>1, <3>2 DEF IDs
  <2>15. DiallersAlone'
    <3>1. SUFFICES ASSUME NEW d \in Clients, call'[d].pc = "dial"
                   PROVE  /\ call'[d].id \in 1..nextID' /\ call'[d].id \notin Known
                          /\ \A e \in Clients \ {d} : call'[e].pc = "dial" => call'[e].id # call'[d].id
      BY <1>5, Zenon DEF DiallersAlone
    <3>2. CASE d = c
      <4>1. call'[d].id = n /\ n \in 1..nextID' /\ n \notin Known
        BY <1>0, <1>1, <1>4, <1>6, <2>3, <2>4, <3>2 DEF IDs
      <4> QED BY <2>14, <3>2, <4>1
    <3>3. CASE d # c
      <4>1. call'[d] = call[d] /\ call[d].pc = "dial" /\ call[d].id # n
        BY <2>14, <3>1, <3>3
      <4>2. /\ call[d].id \in 1..nextID /\ call[d].id \notin Known
            /\ \A e \in Clients \ {d} : call[e].pc = "dial" => call[e].id # call[d].id
        BY <4>1, Zenon DEF JobsInv, DiallersAlone
      <4>3. call[d].id \in 1..nextID'
        BY <1>0, <1>1, <1>4, <4>2
      <4> QED BY <2>3, <2>4, <2>5, <4>1, <4>2, <4>3
    <3> QED BY <3>2, <3>3
  <2>16. OwnLogs'
    <3>1. \A d \in Clients : call'[d].pc = "dial" =>
             logs'[call'[d].frame][call'[d].id].owner = <<restarts + 1, call'[d].id>>
      <4>1. logs'[call'[c].frame][call'[c].id].owner = <<restarts + 1, call'[c].id>>
        BY <2>3, <2>4, <2>7, <2>9
      <4>2. ASSUME NEW d \in Clients \ {c}, call'[d].pc = "dial"
            PROVE  logs'[call'[d].frame][call'[d].id].owner = <<restarts + 1, call'[d].id>>
        <5>1. /\ call'[d] = call[d] /\ call[d].pc = "dial"
              /\ call[d].frame \in Frames /\ call[d].id \in IDs /\ call[d].id # n
          BY <2>14, <4>2
        <5>2. logs[call[d].frame][call[d].id].owner = <<restarts + 1, call[d].id>>
          BY <5>1 DEF JobsInv, OwnLogs
        <5> QED BY <2>9, <5>1, <5>2
      <4> QED BY <4>1, <4>2
    <3>2. \A i \in Known : logs'[jobs[i].frame][i].owner = <<restarts + 1, i>>
      BY <1>6, <2>9 DEF JobsInv, OwnLogs
    <3> QED BY <1>4, <1>5, <3>1, <3>2 DEF OwnLogs
  <2>17. SelectedKnown'
    BY <1>2, <1>5, <2>3, <2>4, <2>5 DEF JobsInv, SelectedKnown
  <2> QED BY <1>7, <2>10, <2>11, <2>13, <2>15, <2>16, <2>17 DEF JobsInv
<1> QED BY <1>8, <1>9

\* The job is registered: the launch's reference becomes the job's.
LEMMA StartInv ==
    ASSUME JobsInv, NEW c \in Clients, Start(c)
    PROVE  JobsInv'
<1>0. /\ TypeOK /\ jobs \in [IDs -> JobType] /\ call \in [Clients -> CallType]
      /\ control \in [Frames -> Nat]
  BY TypeOKDef DEF JobsInv
<1>1. PICK f \in Frames : f = call[c].frame
  BY <1>0 DEF CallType
<1>2. PICK n \in IDs : n = call[c].id /\ n \notin Known /\ n <= nextID
  BY DiallerID DEF Start
<1>proc. PICK proc \in {"alive", "loose"} :
             jobs' = [jobs EXCEPT ![call[c].id] = Started(call[c].frame, proc)]
  BY Zenon DEF Start
<1>3. PICK e : e = Started(f, proc)
  OBVIOUS
<1>4. /\ e \in JobType /\ e.state = "running" /\ e.frame = f /\ e.collect = "read"
  <2>1. [NoJob EXCEPT !.state = "running"] \in JobType
    BY NoJobType, JobUpdate DEF JobStates
  <2>2. [NoJob EXCEPT !.state = "running", !.frame = f] \in JobType
    BY <2>1 DEF JobType
  <2>3. [NoJob EXCEPT !.state = "running", !.frame = f, !.conn = "open"] \in JobType
    BY <2>2, JobUpdate, Zenon
  <2>4. [NoJob EXCEPT !.state = "running", !.frame = f, !.conn = "open",
                      !.proc = proc] \in JobType
    <3>1. proc \in {"none", "alive", "loose", "exited"}
      BY <1>proc
    <3> QED BY <2>3, <3>1, JobUpdate, Zenon
  <2>5. e \in JobType
    BY <1>3, <2>4, JobUpdate, Zenon DEF Started
  <2> QED BY <1>3, <2>5, NoJobType DEF Started, JobType
<1>5. /\ jobs' = [jobs EXCEPT ![n] = e] /\ jobs'[n] = e /\ jobs[n].state = "none"
      /\ \A i \in IDs \ {n} : jobs'[i] = jobs[i]
  BY <1>0, <1>1, <1>2, <1>3, <1>proc DEF Known
<1>6. /\ call' = [call EXCEPT ![c] = IdleCall] /\ call'[c] = IdleCall
      /\ call[c].pc = "dial"
      /\ \A d \in Clients \ {c} : call'[d] = call[d]
  BY <1>0 DEF Start, Return
<1>7. sleepers' = {} /\ UNCHANGED <<nextID, logs, control, restarts>>
  BY DEF Start, Notify
<1>8. Known' = Known \cup {n}
  BY <1>4, <1>5 DEF Known
<1>9. /\ IdleCall \in CallType /\ IdleCall.pc = "idle"
      /\ IdleCall.sel = {} /\ IdleCall.todo = {}
  BY IdleCallType
<1>10. TypeOK'
  <2>1. jobs' \in [IDs -> JobType] /\ call' \in [Clients -> CallType]
    BY <1>0, <1>4, <1>5, <1>6, <1>9
  <2> QED BY <1>7, <2>1, TypeKept, TypeOKDef DEF JobsInv
<1>11. NoLostWakeup'
  BY <1>7 DEF NoLostWakeup
<1>12. ControlRefsExact'
  <2>1. SUFFICES ASSUME NEW g \in Frames
                 PROVE  control'[g] = Cardinality(Launching(g)') + Cardinality(Live(g)')
    BY DEF ControlRefsExact
  <2>2. control[g] = Cardinality(Launching(g)) + Cardinality(Live(g))
    BY DEF JobsInv, ControlRefsExact
  <2>3. CASE g = f
    <3>1. Launching(g)' = Launching(g) \ {c} /\ c \in Launching(g)
      BY <1>1, <1>6, <1>9, <2>3 DEF Launching
    <3>2. Live(g)' = Live(g) \cup {n} /\ n \notin Live(g)
      BY <1>4, <1>5, <2>3 DEF Live
    <3>3. Cardinality(Launching(g)') = Cardinality(Launching(g)) - 1
      BY <3>1, HoldersFinite, FS_RemoveElement
    <3>4. Cardinality(Live(g)') = Cardinality(Live(g)) + 1
      BY <3>2, HoldersFinite, FS_AddElement
    <3>5. Cardinality(Launching(g)) \in Nat /\ Cardinality(Live(g)) \in Nat
      BY HoldersFinite, FS_CardinalityType
    <3> QED BY <1>7, <2>2, <3>3, <3>4, <3>5
  <2>4. CASE g # f
    <3>1. Launching(g)' = Launching(g)
      BY <1>1, <1>6, <1>9, <2>4 DEF Launching
    <3>2. Live(g)' = Live(g)
      BY <1>4, <1>5, <2>4 DEF Live
    <3> QED BY <1>7, <2>2, <3>1, <3>2
  <2> QED BY <2>3, <2>4
<1>13. CollectedOnce'
  <2>1. \A i \in Known' : i <= nextID'
    BY <1>2, <1>7, <1>8 DEF JobsInv, CollectedOnce, Known
  <2> QED BY <1>4, <1>5, <2>1 DEF JobsInv, CollectedOnce
<1>14. ASSUME NEW d \in Clients, call'[d].pc = "dial"
       PROVE  /\ d # c /\ call'[d] = call[d] /\ call[d].pc = "dial"
  BY <1>6, <1>9, <1>14
<1>15. DiallersAlone'
  <2>1. SUFFICES ASSUME NEW d \in Clients, call'[d].pc = "dial"
                 PROVE  /\ call'[d].id \in 1..nextID /\ call'[d].id \notin Known'
                        /\ \A x \in Clients \ {d} : call'[x].pc = "dial" => call'[x].id # call'[d].id
    BY <1>7, Zenon DEF DiallersAlone
  <2>2. d # c /\ call'[d] = call[d] /\ call[d].pc = "dial"
    BY <1>14, <2>1
  <2>3. /\ call[d].id \in 1..nextID /\ call[d].id \notin Known
        /\ \A x \in Clients \ {d} : call[x].pc = "dial" => call[x].id # call[d].id
    BY <2>2, Zenon DEF JobsInv, DiallersAlone
  <2>4. call[d].id # n
    BY <1>2, <1>6, <2>2, <2>3
  <2> QED BY <1>8, <1>14, <2>2, <2>3, <2>4
<1>16. OwnLogs'
  <2>1. \A d \in Clients : call'[d].pc = "dial" =>
           logs[call'[d].frame][call'[d].id].owner = <<restarts + 1, call'[d].id>>
    BY <1>14 DEF JobsInv, OwnLogs
  <2>2. logs[f][n].owner = <<restarts + 1, n>>
    BY <1>1, <1>2, <1>6 DEF JobsInv, OwnLogs
  <2>3. \A i \in Known' : logs[jobs'[i].frame][i].owner = <<restarts + 1, i>>
    <3>1. \A i \in Known : i \in IDs \ {n}
      BY <1>2 DEF Known
    <3> QED BY <1>4, <1>5, <1>8, <2>2, <3>1 DEF JobsInv, OwnLogs
  <2> QED BY <1>7, <2>1, <2>3 DEF OwnLogs
<1>17. SelectedKnown'
  BY <1>6, <1>8, <1>9 DEF JobsInv, SelectedKnown
<1> QED BY <1>10, <1>11, <1>12, <1>13, <1>15, <1>16, <1>17 DEF JobsInv

\* A job whose collector ends has one of the four terminal states.
LEMMA FinalStateTerminal ==
    ASSUME NEW j \in JobType
    PROVE  FinalState(j) \in {"exited", "timed_out", "killed", "lost"}
<1>1. CASE j.stopReason # ""
  BY <1>1 DEF FinalState, JobType, Stops
<1>2. CASE j.stopReason = "" /\ j.gotExit
  BY <1>2 DEF FinalState
<1>3. CASE j.stopReason = "" /\ ~j.gotExit
  BY <1>3 DEF FinalState
<1> QED BY <1>1, <1>2, <1>3

\* The collector ends: the job's reference is given back, and everybody is woken.
LEMMA CollectedInv ==
    ASSUME JobsInv, NEW i \in IDs, Collected(i)
    PROVE  JobsInv'
<1>0. /\ TypeOK /\ jobs \in [IDs -> JobType] /\ control \in [Frames -> Nat]
  BY TypeOKDef DEF JobsInv
<1>1. PICK j \in JobType : j = jobs[i]
  BY <1>0
<1>2. PICK f \in Frames : f = j.frame
  BY DEF JobType
<1>3. PICK s \in {"exited", "timed_out", "killed", "lost"} : s = FinalState(j)
  BY FinalStateTerminal
<1>4. PICK e : e = [j EXCEPT !.state = s, !.collect = "end", !.conn = "closed"]
  OBVIOUS
<1>5. e \in JobType
  <2>1. [j EXCEPT !.state = s] \in JobType
    BY JobUpdate DEF JobStates
  <2>2. [j EXCEPT !.state = s, !.collect = "end"] \in JobType
    BY <2>1, JobUpdate, Zenon
  <2> QED BY <1>4, <2>2, JobUpdate, Zenon
<1>6. e.state = s /\ e.frame = f /\ e.collect = "end"
  BY <1>2, <1>4, <1>5 DEF JobType
<1>7. /\ jobs' = [jobs EXCEPT ![i] = e] /\ jobs'[i] = e
      /\ \A k \in IDs \ {i} : jobs'[k] = jobs[k]
  BY <1>0, <1>1, <1>3, <1>4 DEF Collected
<1>8. j.state = "running"
  BY <1>1 DEF Collected, JobsInv, CollectedOnce
<1>9. /\ sleepers' = {} /\ UNCHANGED <<nextID, logs, call, restarts>>
      /\ control' = [control EXCEPT ![f] = @ - 1]
  BY <1>1, <1>2 DEF Collected, Notify
<1>10. Known' = Known
  BY <1>1, <1>6, <1>7, <1>8 DEF Known
<1>11. \A g \in Frames : Launching(g)' = Launching(g)
  BY <1>9 DEF Launching
<1>12. ASSUME NEW g \in Frames
       PROVE  control'[g] \in Nat /\ control'[g] = Cardinality(Launching(g)') + Cardinality(Live(g)')
  <2>2. control[g] = Cardinality(Launching(g)) + Cardinality(Live(g))
    BY DEF JobsInv, ControlRefsExact
  <2>3. Cardinality(Launching(g)) \in Nat /\ Cardinality(Live(g)) \in Nat
    BY HoldersFinite, FS_CardinalityType
  <2>4. CASE g = f
    <3>1. Live(g)' = Live(g) \ {i} /\ i \in Live(g)
      BY <1>1, <1>2, <1>6, <1>7, <1>8, <2>4 DEF Live
    <3>2. Cardinality(Live(g)') = Cardinality(Live(g)) - 1
      BY <3>1, HoldersFinite, FS_RemoveElement
    <3>3. Cardinality(Live(g)) # 0
      BY <3>1, HoldersFinite, FS_EmptySet
    <3>4. control'[g] = control[g] - 1
      BY <1>0, <1>9, <2>4
    <3> QED BY <1>11, <2>2, <2>3, <3>2, <3>3, <3>4
  <2>5. CASE g # f
    <3>1. Live(g)' = Live(g)
      BY <1>1, <1>2, <1>6, <1>7, <2>5 DEF Live
    <3> QED BY <1>0, <1>9, <1>11, <2>2, <2>5, <3>1
  <2> QED BY <2>4, <2>5
<1>13. TypeOK'
  <2>1. jobs' \in [IDs -> JobType]
    BY <1>0, <1>5, <1>7
  <2>2. control' \in [Frames -> Nat]
    BY <1>0, <1>9, <1>12
  <2> QED BY <1>9, <2>1, <2>2, TypeKept, TypeOKDef DEF JobsInv
<1>14. NoLostWakeup'
  BY <1>9 DEF NoLostWakeup
<1>15. ControlRefsExact'
  BY <1>12 DEF ControlRefsExact
<1>16. CollectedOnce'
  BY <1>6, <1>7, <1>9, <1>10 DEF JobsInv, CollectedOnce
<1>17. DiallersAlone'
  BY <1>9, <1>10, Zenon DEF JobsInv, DiallersAlone
<1>18. OwnLogs'
  <2>1. \A k \in Known : jobs'[k].frame = jobs[k].frame
    BY <1>1, <1>2, <1>6, <1>7 DEF Known
  <2> QED BY <1>9, <1>10, <2>1 DEF JobsInv, OwnLogs
<1>19. SelectedKnown'
  BY <1>9, <1>10 DEF JobsInv, SelectedKnown
<1> QED BY <1>13, <1>14, <1>15, <1>16, <1>17, <1>18, <1>19 DEF JobsInv

\* A job list as the daemon has it when it starts: no job, no call.
Fresh ==
    /\ nextID = 0 /\ sleepers = {} /\ restarts \in 0..MaxRestarts
    /\ jobs = [i \in IDs |-> NoJob] /\ logs \in [Frames -> [IDs -> LogType]]
    /\ control = [f \in Frames |-> 0] /\ call = [c \in Clients |-> IdleCall]

LEMMA FreshInv == Fresh => JobsInv
<1> SUFFICES ASSUME Fresh PROVE JobsInv
  OBVIOUS
<1> USE DEF Fresh
<1>1. /\ \A i \in IDs : jobs[i].state = "none" /\ jobs[i].stopReason = "" /\ jobs[i].collect = "none"
      /\ \A c \in Clients : call[c].pc = "idle" /\ call[c].sel = {} /\ call[c].todo = {}
  BY NoJobType, IdleCallType
<1>2. TypeOK
  <2>1. jobs \in [IDs -> JobType] /\ call \in [Clients -> CallType] /\ control \in [Frames -> Nat]
    BY NoJobType, IdleCallType
  <2> QED BY <2>1, TypeOKDef, McpAssumption
<1>3. Known = {}
  BY <1>1 DEF Known
<1>4. NoLostWakeup
  BY <1>1 DEF NoLostWakeup
<1>5. ControlRefsExact
  <2>1. \A f \in Frames : Launching(f) = {} /\ Live(f) = {}
    BY <1>1 DEF Launching, Live
  <2>2. Cardinality({}) = 0
    BY FS_EmptySet
  <2>3. ASSUME NEW f \in Frames
        PROVE  control[f] = Cardinality(Launching(f)) + Cardinality(Live(f))
    <3>1. Cardinality(Launching(f)) = 0 /\ Cardinality(Live(f)) = 0
      BY <2>1, <2>2, Zenon
    <3> QED BY <3>1
  <2> QED BY <2>3 DEF ControlRefsExact
<1>6. CollectedOnce
  BY <1>1, <1>3 DEF CollectedOnce
<1>7. DiallersAlone /\ OwnLogs /\ SelectedKnown
  BY <1>1, <1>3 DEF DiallersAlone, OwnLogs, SelectedKnown
<1> QED BY <1>2, <1>4, <1>5, <1>6, <1>7 DEF JobsInv

LEMMA RestartInv ==
    ASSUME JobsInv, Restart
    PROVE  JobsInv'
<1>1. restarts \in 0..MaxRestarts /\ logs \in [Frames -> [IDs -> LogType]]
  BY TypeOKDef DEF JobsInv
<1>2. restarts' \in 0..MaxRestarts /\ logs' \in [Frames -> [IDs -> LogType]]
  BY <1>1, McpAssumption DEF Restart
<1>3. Fresh'
  BY <1>2 DEF Restart, Fresh
<1> QED BY <1>3, FreshInv, PTL

\* A stuttering step keeps the invariant.
LEMMA StutterInv ==
    ASSUME JobsInv, UNCHANGED vars
    PROVE  JobsInv'
<1>1. UNCHANGED <<nextID, sleepers, jobs, logs, control, call, restarts>>
  BY DEF vars
<1>2. \A c \in sleepers' : Dozes(c)
  BY <1>1 DEF Dozes
<1> QED BY <1>1, <1>2, Moves, TypeOKDef DEF JobsInv, CollectedOnce, SelectedKnown

\* Every step keeps the invariant.
LEMMA NextInv ==
    ASSUME JobsInv, [Next]_vars
    PROVE  JobsInv'
<1>1. CASE UNCHANGED vars
  BY <1>1, StutterInv
<1>2. CASE \E c \in Clients, f \in Frames : Launch(c, f)
  BY <1>2, LaunchInv
<1>3. CASE \E c \in Clients, sel \in SUBSET Known \ {{}} : Kill(c, sel)
  BY <1>3, KillInv
<1>4. CASE \E c \in Clients, sel \in SUBSET Known, u \in Until, off \in 0..MaxOutput :
             Wait(c, sel, u, off)
  BY <1>4, WaitInv
<1>5. CASE \E c \in Clients : Handler(c) \/ WaitFails(c) \/ Leave(c)
  <2>1. PICK c \in Clients : Handler(c) \/ WaitFails(c) \/ Leave(c)
    BY <1>5
  <2>2. CASE CreateLog(c)
    BY <2>2, CreateLogInv
  <2>3. CASE LaunchFails(c)
    BY <2>3, LaunchFailsInv
  <2>4. CASE Start(c)
    BY <2>4, StartInv
  <2>5. CASE \E i \in IDs : KillStop(c, i)
    BY <2>5, KillStopInv
  <2>6. CASE \/ KillDone(c) \/ KillSleep(c) \/ KillWake(c)
             \/ WaitDone(c) \/ WaitSleep(c) \/ WaitWake(c)
             \/ WaitFails(c) \/ Leave(c)
    BY <2>6, LoopInv
  <2> QED BY <2>1, <2>2, <2>3, <2>4, <2>5, <2>6 DEF Handler
<1>6. CASE \E i \in IDs : Session(i) \/ Collector(i) \/ ProcReaped(i)
  <2>1. PICK i \in IDs : Session(i) \/ Collector(i) \/ ProcReaped(i)
    BY <1>6
  <2>2. CASE ProcExits(i) \/ ProcReaped(i) \/ VshdLost(i)
    BY <2>2, SessionInv
  <2>3. CASE ReadExit(i) \/ ReadError(i) \/ CloseConn(i)
    BY <2>3, ReadInv
  <2>4. CASE TimerFires(i)
    BY <2>4, TimerInv
  <2>5. CASE \E b \in Byte : Output(i, b)
    BY <2>5, OutputInv
  <2>6. CASE Collected(i)
    BY <2>6, CollectedInv
  <2> QED BY <2>1, <2>2, <2>3, <2>4, <2>5, <2>6 DEF Session, Collector
<1>7. CASE Restart
  BY <1>7, RestartInv
<1> QED BY <1>1, <1>2, <1>3, <1>4, <1>5, <1>6, <1>7 DEF Next

LEMMA InitInv == Init => JobsInv
<1>1. Init => Fresh
  BY NoLogType, McpAssumption DEF Init, Fresh
<1> QED BY <1>1, FreshInv

\* The books of a conversation's jobs, always: no call sleeps through the end of
\* what it waits for, a frame's control server is held exactly by the launches
\* and jobs that are not over, and no two jobs of a daemon share an ID or a log.
THEOREM JobsKept == Spec => []JobsInv
<1>1. JobsInv /\ [Next]_vars => JobsInv'
  BY NextInv
<1> QED BY InitInv, <1>1, PTL DEF Spec

\* What a step other than a restart does to the outcome of a job.
OutcomeKept(i) ==
    /\ jobs[i].stopReason # "" => jobs'[i].stopReason = jobs[i].stopReason
    /\ Terminal(jobs[i]) => jobs'[i].state = jobs[i].state

\* A step that changes one job, and neither its reason nor its state.
LEMMA OutcomeFrame ==
    ASSUME JobsInv, NEW i \in IDs, NEW e, jobs' = [jobs EXCEPT ![i] = e],
           jobs[i].stopReason # "" => e.stopReason = jobs[i].stopReason,
           Terminal(jobs[i]) => e.state = jobs[i].state
    PROVE  \A k \in IDs : OutcomeKept(k)
<1>1. jobs \in [IDs -> JobType]
  BY TypeOKDef DEF JobsInv
<1>2. \A k \in IDs : k # i => jobs'[k] = jobs[k]
  BY <1>1
<1>3. jobs'[i] = e
  BY <1>1
<1> QED BY <1>2, <1>3 DEF OutcomeKept

LEMMA OutcomeStep ==
    ASSUME JobsInv, Next, restarts' = restarts
    PROVE  \A k \in IDs : OutcomeKept(k)
<1>0. jobs \in [IDs -> JobType] /\ restarts \in Nat
  BY TypeOKDef DEF JobsInv
<1>1. CASE UNCHANGED jobs
  BY <1>1 DEF OutcomeKept
<1>2. ASSUME NEW i \in IDs,
             ProcExits(i) \/ ProcReaped(i) \/ VshdLost(i) \/ ReadExit(i) \/ ReadError(i) \/ CloseConn(i)
      PROVE  \A k \in IDs : OutcomeKept(k)
  <2>1. PICK j \in JobType : j = jobs[i]
    BY <1>0
  <2>2. PICK e : /\ jobs' = [jobs EXCEPT ![i] = e]
                 /\ e.stopReason = j.stopReason /\ e.state = j.state
    <3>1. CASE ProcExits(i) \/ ProcReaped(i)
      <4>1. PICK e : e = [j EXCEPT !.proc = "exited"]
        OBVIOUS
      <4>2. jobs' = [jobs EXCEPT ![i] = e]
        BY <2>1, <3>1, <4>1 DEF ProcExits, ProcReaped
      <4>3. e.stopReason = j.stopReason /\ e.state = j.state
        BY <4>1 DEF JobType
      <4> QED BY <4>2, <4>3, Zenon
    <3>2. CASE VshdLost(i)
      <4>1. PICK e : e = [j EXCEPT !.conn = "lost"]
        OBVIOUS
      <4>2. jobs' = [jobs EXCEPT ![i] = e]
        BY <2>1, <3>2, <4>1 DEF VshdLost
      <4>3. e.stopReason = j.stopReason /\ e.state = j.state
        BY <4>1 DEF JobType
      <4> QED BY <4>2, <4>3, Zenon
    <3>3. CASE ReadExit(i)
      <4>1. PICK e : e = [j EXCEPT !.gotExit = TRUE, !.collect = "final"]
        OBVIOUS
      <4>2. jobs' = [jobs EXCEPT ![i] = e]
        BY <2>1, <3>3, <4>1 DEF ReadExit
      <4>3. e.stopReason = j.stopReason /\ e.state = j.state
        BY <4>1 DEF JobType
      <4> QED BY <4>2, <4>3, Zenon
    <3>4. CASE ReadError(i)
      <4>1. PICK e : e = [j EXCEPT !.collect = "final"]
        OBVIOUS
      <4>2. jobs' = [jobs EXCEPT ![i] = e]
        BY <2>1, <3>4, <4>1 DEF ReadError
      <4>3. e.stopReason = j.stopReason /\ e.state = j.state
        BY <4>1 DEF JobType
      <4> QED BY <4>2, <4>3, Zenon
    <3>5. CASE CloseConn(i)
      <4>1. PICK e : e = [j EXCEPT !.closing = FALSE,
                                   !.conn = IF j.conn = "open" THEN "closed" ELSE j.conn]
        OBVIOUS
      <4>2. jobs' = [jobs EXCEPT ![i] = e]
        BY <2>1, <3>5, <4>1 DEF CloseConn
      <4>3. e.stopReason = j.stopReason /\ e.state = j.state
        BY <4>1 DEF JobType
      <4> QED BY <4>2, <4>3, Zenon
    <3> QED BY <1>2, <3>1, <3>2, <3>3, <3>4, <3>5
  <2> QED BY <2>1, <2>2, OutcomeFrame
<1>3. ASSUME NEW i \in IDs, Collected(i)
      PROVE  \A k \in IDs : OutcomeKept(k)
  <2>1. PICK j \in JobType : j = jobs[i]
    BY <1>0
  <2>2. j.state = "running"
    BY <1>3, <2>1 DEF Collected, JobsInv, CollectedOnce
  <2>3. PICK e : e = [j EXCEPT !.state = FinalState(j), !.collect = "end", !.conn = "closed"]
    OBVIOUS
  <2>4. e.stopReason = j.stopReason
    BY <2>3 DEF JobType
  <2>5. jobs' = [jobs EXCEPT ![i] = e]
    BY <1>3, <2>1, <2>3 DEF Collected
  <2> QED BY <2>1, <2>2, <2>4, <2>5, OutcomeFrame DEF Terminal
<1>4. ASSUME NEW i \in IDs, NEW r, MayStop(i), NoteStop(i, r)
      PROVE  \A k \in IDs : OutcomeKept(k)
  <2>1. PICK j \in JobType : j = jobs[i]
    BY <1>0
  <2>2. PICK e : e = [j EXCEPT !.stopReason = r, !.closing = TRUE]
    OBVIOUS
  <2>3. e.state = j.state
    BY <2>2 DEF JobType
  <2>4. jobs' = [jobs EXCEPT ![i] = e]
    BY <1>4, <2>1, <2>2 DEF NoteStop
  <2> QED BY <1>4, <2>1, <2>3, <2>4, OutcomeFrame DEF MayStop
<1>5. ASSUME NEW c \in Clients, Start(c)
      PROVE  \A k \in IDs : OutcomeKept(k)
  <2>1. PICK n \in IDs : n = call[c].id /\ n \notin Known
    BY <1>5, DiallerID DEF Start
  <2>2. jobs[n].state = "none" /\ jobs[n].stopReason = ""
    BY <2>1 DEF Known, JobsInv, CollectedOnce
  <2>3. \E e : jobs' = [jobs EXCEPT ![n] = e]
    BY <1>5, <2>1 DEF Start
  <2> QED BY <2>2, <2>3, OutcomeFrame DEF Terminal
<1>6. ~Restart
  BY <1>0 DEF Restart
<1>7. CASE \E c \in Clients, i \in IDs : KillStop(c, i) /\ MayStop(i)
  BY <1>4, <1>7 DEF KillStop
<1>8. CASE \E i \in IDs : TimerFires(i)
  BY <1>4, <1>8 DEF TimerFires
<1>9. CASE \E c \in Clients, i \in IDs : KillStop(c, i) /\ ~MayStop(i)
  BY <1>1, <1>9 DEF KillStop
<1>10. CASE \/ \E c \in Clients, f \in Frames : Launch(c, f)
            \/ \E c \in Clients, sel \in SUBSET Known \ {{}} : Kill(c, sel)
            \/ \E c \in Clients, sel \in SUBSET Known, u \in Until, off \in 0..MaxOutput :
                  Wait(c, sel, u, off)
            \/ \E i \in IDs, b \in Byte : Output(i, b)
            \/ \E c \in Clients : \/ CreateLog(c) \/ LaunchFails(c) \/ KillDone(c)
                                  \/ KillSleep(c) \/ KillWake(c) \/ WaitDone(c) \/ WaitSleep(c)
                                  \/ WaitWake(c) \/ WaitFails(c) \/ Leave(c)
  <2>1. UNCHANGED jobs
    BY <1>10 DEF Launch, Kill, Wait, Output, CreateLog, LaunchFails, KillDone, KillSleep,
                 KillWake, WaitDone, WaitSleep, WaitWake, WaitFails, Leave
  <2> QED BY <1>1, <2>1
<1> QED BY <1>2, <1>3, <1>5, <1>6, <1>7, <1>8, <1>9, <1>10 DEF Next, Handler, Session, Collector

\* The first stop decides, on every path: a kill and the hard timeout never
\* replace each other's reason, and no late exit changes a job that ended.
THEOREM FirstStopDecides == Spec => OutcomeFinal
<1>1. JobsInv /\ [Next]_vars =>
        [restarts' = restarts => \A i \in IDs :
           /\ jobs[i].stopReason # "" => jobs'[i].stopReason = jobs[i].stopReason
           /\ Terminal(jobs[i]) => jobs'[i].state = jobs[i].state]_vars
  <2>1. SUFFICES ASSUME JobsInv, Next, restarts' = restarts
                 PROVE  \A i \in IDs :
                          /\ jobs[i].stopReason # "" => jobs'[i].stopReason = jobs[i].stopReason
                          /\ Terminal(jobs[i]) => jobs'[i].state = jobs[i].state
    OBVIOUS
  <2> QED BY <2>1, OutcomeStep DEF OutcomeKept
<1> QED BY JobsKept, <1>1, PTL DEF Spec, OutcomeFinal

\* Appending keeps what is there.
LEMMA AppendSubSeq ==
    ASSUME NEW d \in Seq(Byte), NEW b \in Byte
    PROVE  SubSeq(Append(d, b), 1, Len(d)) = d
<1>1. /\ Append(d, b) \in Seq(Byte) /\ Len(Append(d, b)) = Len(d) + 1
      /\ \A k \in 1..Len(d) : Append(d, b)[k] = d[k]
      /\ Len(d) \in Nat
  BY AppendProperties, LenProperties
<1>2. \A k \in 1..Len(d) : Append(d, b)[k] \in Byte
  BY <1>1, ElementOfSeq
<1>3. /\ SubSeq(Append(d, b), 1, Len(d)) \in Seq(Byte)
      /\ Len(SubSeq(Append(d, b), 1, Len(d))) = Len(d)
      /\ \A k \in 1..Len(d) : SubSeq(Append(d, b), 1, Len(d))[k] = Append(d, b)[k]
  BY <1>1, <1>2, SubSeqProperties
<1> QED BY <1>1, <1>3, SeqEqual

\* What a step may do to a log that exists.
LogKept(f, i) ==
    /\ logs'[f][i].owner = logs[f][i].owner
    /\ Len(logs'[f][i].data) >= Len(logs[f][i].data)
    /\ SubSeq(logs'[f][i].data, 1, Len(logs[f][i].data)) = logs[f][i].data

LEMMA LogUnchanged ==
    ASSUME TypeOK, NEW f \in Frames, NEW i \in IDs, logs'[f][i] = logs[f][i]
    PROVE  LogKept(f, i)
<1>1. PICK d \in Seq(Byte) : d = logs[f][i].data
  BY TypeOKDef DEF LogType
<1>2. SubSeq(d, 1, Len(d)) = d /\ Len(d) \in Nat
  BY SubSeqFull, LenProperties
<1> QED BY <1>1, <1>2 DEF LogKept

LEMMA LogStep ==
    ASSUME JobsInv, Next, NEW f \in Frames, NEW i \in IDs, logs[f][i] # NoLog
    PROVE  LogKept(f, i)
<1>0. TypeOK /\ logs \in [Frames -> [IDs -> LogType]] /\ jobs \in [IDs -> JobType]
      /\ call \in [Clients -> CallType]
  BY TypeOKDef DEF JobsInv
<1>1. CASE UNCHANGED logs
  BY <1>0, <1>1, LogUnchanged
<1>2. ASSUME NEW c \in Clients, CreateLog(c)
      PROVE  LogKept(f, i)
  <2>1. PICK n : n = nextID + 1
    OBVIOUS
  <2>2. PICK g \in Frames : g = call[c].frame
    BY <1>0 DEF CallType
  <2>3. CASE ~Mkdir(g, n)
    BY <1>1, <1>2, <2>1, <2>2, <2>3 DEF CreateLog
  <2>4. CASE Mkdir(g, n)
    <3>1. PICK h : logs' = [logs EXCEPT ![g][n] = h]
      BY <1>2, <2>1, <2>2, <2>4 DEF CreateLog
    <3>2. ~(f = g /\ i = n)
      BY <2>4 DEF Mkdir
    <3>3. logs'[f][i] = logs[f][i]
      BY <1>0, <3>1, <3>2
    <3> QED BY <1>0, <3>3, LogUnchanged
  <2> QED BY <2>3, <2>4
<1>3. ASSUME NEW k \in IDs, NEW b \in Byte, Output(k, b)
      PROVE  LogKept(f, i)
  <2>1. PICK g \in Frames : g = jobs[k].frame
    BY <1>0 DEF JobType
  <2>2. PICK l \in LogType : l = logs[g][k]
    BY <1>0
  <2>3. PICK h : h = [l EXCEPT !.data = Append(l.data, b)]
    OBVIOUS
  <2>4. logs' = [logs EXCEPT ![g][k] = h]
    BY <1>0, <1>3, <2>1, <2>2, <2>3 DEF Output
  <2>5. CASE f = g /\ i = k
    <3>1. logs'[f][i] = h /\ logs[f][i] = l
      BY <1>0, <2>2, <2>4, <2>5
    <3>2. PICK d \in Seq(Byte) : d = l.data
      BY DEF LogType
    <3>3. h.owner = l.owner /\ h.data = Append(d, b)
      BY <2>3, <3>2 DEF LogType
    <3>4. Len(d) \in Nat /\ Len(Append(d, b)) = Len(d) + 1
      BY LenProperties, AppendProperties
    <3>5. SubSeq(Append(d, b), 1, Len(d)) = d
      BY AppendSubSeq
    <3> QED BY <3>1, <3>2, <3>3, <3>4, <3>5 DEF LogKept
  <2>6. CASE ~(f = g /\ i = k)
    <3>1. logs'[f][i] = logs[f][i]
      BY <1>0, <2>4, <2>6
    <3> QED BY <1>0, <3>1, LogUnchanged
  <2> QED BY <2>5, <2>6
<1>4. CASE \/ \E c \in Clients, x \in Frames : Launch(c, x)
           \/ \E c \in Clients, sel \in SUBSET Known \ {{}} : Kill(c, sel)
           \/ \E c \in Clients, sel \in SUBSET Known, u \in Until, off \in 0..MaxOutput :
                 Wait(c, sel, u, off)
           \/ \E c \in Clients, k \in IDs : KillStop(c, k)
           \/ \E c \in Clients : \/ LaunchFails(c) \/ Start(c) \/ KillDone(c)
                                 \/ KillSleep(c) \/ KillWake(c) \/ WaitDone(c) \/ WaitSleep(c)
                                 \/ WaitWake(c) \/ WaitFails(c) \/ Leave(c)
  <2>1. UNCHANGED logs
    BY <1>4 DEF Launch, Kill, Wait, KillStop, LaunchFails, Start, KillDone, KillSleep,
                KillWake, WaitDone, WaitSleep, WaitWake, WaitFails, Leave
  <2> QED BY <1>1, <2>1
<1>5. CASE \/ \E k \in IDs : \/ ProcExits(k) \/ ProcReaped(k) \/ VshdLost(k) \/ ReadExit(k)
                             \/ ReadError(k) \/ CloseConn(k) \/ Collected(k) \/ TimerFires(k)
           \/ Restart
  <2>1. UNCHANGED logs
    BY <1>5 DEF ProcExits, ProcReaped, VshdLost, ReadExit, ReadError, CloseConn, Collected,
                TimerFires, Restart
  <2> QED BY <1>1, <2>1
<1> QED BY <1>2, <1>3, <1>4, <1>5 DEF Next, Handler, Session, Collector

\* No log is ever lost or mixed up: whatever is in a job's log stays its prefix,
\* and it stays the log of the same launch, over any number of restarts.
THEOREM LogsSurvive == Spec => LogsKept
<1>1. JobsInv /\ [Next]_vars =>
        [\A f \in Frames, i \in IDs : logs[f][i] # NoLog =>
           /\ logs'[f][i].owner = logs[f][i].owner
           /\ Len(logs'[f][i].data) >= Len(logs[f][i].data)
           /\ SubSeq(logs'[f][i].data, 1, Len(logs[f][i].data)) = logs[f][i].data]_vars
  <2>1. SUFFICES ASSUME JobsInv, Next
                 PROVE  \A f \in Frames, i \in IDs : logs[f][i] # NoLog =>
                          /\ logs'[f][i].owner = logs[f][i].owner
                          /\ Len(logs'[f][i].data) >= Len(logs[f][i].data)
                          /\ SubSeq(logs'[f][i].data, 1, Len(logs[f][i].data)) = logs[f][i].data
    OBVIOUS
  <2> QED BY <2>1, LogStep DEF LogKept
<1> QED BY JobsKept, <1>1, PTL DEF Spec, LogsKept

=============================================================================
