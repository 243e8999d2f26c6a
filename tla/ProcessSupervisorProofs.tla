----------------------- MODULE ProcessSupervisorProofs -----------------------
(***************************************************************************)
(* The safety properties of ProcessSupervisor for every limit, pipe        *)
(* capacity, read size and output length, with or without descendants and  *)
(* failing system calls.  IInv records, for each place the supervising     *)
(* thread can stand, which reader threads exist, whether the helper has    *)
(* been killed and how far it has been reaped.                             *)
(* At the end, the safety half of RunReturns: Fuel bounds the steps that   *)
(* are left, and run() waits only for what can still happen.               *)
(***************************************************************************)
EXTENDS ProcessSupervisor, TLAPS

\* Each reader's count is the prefix of what was taken out of its pipe, and a
\* reader that saw the end of file leaves an empty pipe nobody can write to.
StreamInv ==
    /\ \A s \in Streams : pipe[s] <= written[s]
    /\ RetainedIsPrefix
    /\ \A s \in Streams : reader[s] = "done" => pipe[s] = 0 /\ WritersGone

\* Before the poll loop: the readers start one after the other.
StartInv ==
    /\ sup = "start" => /\ child = "none" /\ descendant = "none"
                        /\ \A s \in Streams : reader[s] = "none"
                        /\ ~killed /\ lifecycle = "none"
    /\ sup = "stdoutReader" => \A s \in Streams : reader[s] = "none"
    /\ sup = "stderrReader" => reader["stdout"] # "none" /\ reader["stderr"] = "none"
    /\ sup \in {"stdoutReader", "stderrReader", "poll", "elapsed"} =>
           child \in {"running", "zombie"} /\ ~killed /\ lifecycle = "none"

\* From the poll loop to the return.
LoopInv ==
    /\ sup \in {"poll", "elapsed", "join"} => \A s \in Streams : reader[s] # "none"
    /\ sup = "reaping" =>
           /\ killed
           /\ child \in {"running", "zombie"}
           /\ lifecycle \in {"deadline", "lost", "noStdoutReader", "noStderrReader"}
           /\ lifecycle = "deadline" => expired
           /\ lifecycle \in {"deadline", "lost"} => \A s \in Streams : reader[s] # "none"
           /\ lifecycle = "noStdoutReader" => \A s \in Streams : reader[s] = "none"
           /\ lifecycle = "noStderrReader" => reader["stderr"] = "none" /\ reader["stdout"] # "none"
    /\ sup = "joinStdout" =>
           killed /\ lifecycle = "noStderrReader" /\ reader["stderr"] = "none" /\ reader["stdout"] # "none"
    /\ sup = "join" =>
           \/ lifecycle = "exited" /\ child = "reaped" /\ ~killed
           \/ lifecycle = "deadline" /\ child = "reaped" /\ killed /\ expired
           \/ lifecycle = "lost" /\ killed

ReturnInv ==
    /\ result # "none" <=> sup = "returned"
    /\ ReturnsReaped
    /\ OkIsComplete
    /\ TimeoutIsFinal
    /\ NoReaderLeftBehind

IInv == TypeOK /\ StreamInv /\ StartInv /\ LoopInv /\ ReturnInv

-----------------------------------------------------------------------------

LEMMA InitInv == Init => IInv
  <1> SUFFICES ASSUME Init PROVE IInv
    OBVIOUS
  <1>1. TypeOK
    BY DEF Init, TypeOK, SupStates, Lifecycles, Results
  <1>2. StreamInv
    BY SupervisorConstants DEF Init, StreamInv, RetainedIsPrefix, Min2, Streams
  <1>3. StartInv /\ LoopInv
    BY DEF Init, StartInv, LoopInv
  <1>4. ReturnInv
    BY DEF Init, ReturnInv, ReturnsReaped, OkIsComplete, TimeoutIsFinal, NoReaderLeftBehind
  <1> QED
    BY <1>1, <1>2, <1>3, <1>4 DEF IInv

\* A read keeps the count of a stream equal to its prefix below the limit.
LEMMA ReadKeepsPrefix ==
  ASSUME IInv, NEW s \in Streams, ReadSome(s)
  PROVE  /\ pipe' \in [Streams -> Nat]
         /\ captured' \in [Streams -> Nat]
         /\ overflow' \in [Streams -> BOOLEAN]
         /\ \A t \in Streams : pipe'[t] <= written'[t]
         /\ RetainedIsPrefix'
         /\ \A t \in Streams : reader[t] = "done" => pipe'[t] = 0
  <1> DEFINE available == IF captured[s] < Limit[s] THEN Limit[s] - captured[s] ELSE 0
  <1>1. PICK read \in 1 .. Min2(pipe[s], ReadBuffer) :
          /\ pipe' = [pipe EXCEPT ![s] = @ - read]
          /\ captured' = [captured EXCEPT ![s] = @ + Min2(available, read)]
          /\ overflow' = [overflow EXCEPT ![s] = @ \/ Min2(available, read) < read]
    BY DEF ReadSome, Reads, Available
  <1>2. /\ reader[s] = "reading"
        /\ written' = written /\ reader' = reader /\ child' = child /\ descendant' = descendant
    BY DEF ReadSome, Reads, Available, childVars
  <1>3. /\ pipe \in [Streams -> Nat] /\ written \in [Streams -> Nat]
        /\ captured \in [Streams -> Nat] /\ overflow \in [Streams -> BOOLEAN]
        /\ Limit \in [Streams -> Nat] /\ ReadBuffer \in Nat
    BY SupervisorConstants DEF IInv, TypeOK
  <1>4. read \in Nat /\ 1 <= read /\ read <= pipe[s]
    BY <1>1, <1>3 DEF Min2
  <1>5. available \in Nat /\ Min2(available, read) \in Nat
    BY <1>3, <1>4 DEF Min2
  <1>6. /\ pipe[s] <= written[s]
        /\ captured[s] = Min2(Limit[s], written[s] - pipe[s])
        /\ overflow[s] <=> written[s] - pipe[s] > Limit[s]
    BY DEF IInv, StreamInv, RetainedIsPrefix
  <1>7. /\ captured[s] + Min2(available, read) = Min2(Limit[s], written[s] - (pipe[s] - read))
        /\ (written[s] - pipe[s] > Limit[s] \/ Min2(available, read) < read)
             <=> written[s] - (pipe[s] - read) > Limit[s]
    BY <1>3, <1>4, <1>6 DEF Min2
  <1>8. /\ pipe' \in [Streams -> Nat]
        /\ captured' \in [Streams -> Nat]
        /\ overflow' \in [Streams -> BOOLEAN]
    BY <1>1, <1>3, <1>4, <1>5
  <1>9. ASSUME NEW t \in Streams
        PROVE  /\ pipe'[t] <= written'[t]
               /\ captured'[t] = Min2(Limit[t], written'[t] - pipe'[t])
               /\ overflow'[t] <=> written'[t] - pipe'[t] > Limit[t]
               /\ reader[t] = "done" => pipe'[t] = 0
    <2>1. CASE t = s
      <3>1. /\ pipe'[s] = pipe[s] - read
            /\ captured'[s] = captured[s] + Min2(available, read)
            /\ overflow'[s] <=> (overflow[s] \/ Min2(available, read) < read)
        BY <1>1, <1>3
      <3>2. pipe'[s] <= written[s]
        BY <3>1, <1>3, <1>4, <1>6
      <3> QED
        BY <2>1, <3>1, <3>2, <1>2, <1>6, <1>7
    <2>2. CASE t # s
      <3>1. pipe'[t] = pipe[t] /\ captured'[t] = captured[t] /\ overflow'[t] = overflow[t]
        BY <2>2, <1>1, <1>3
      <3> QED
        BY <3>1, <1>2 DEF IInv, StreamInv, RetainedIsPrefix
    <2> QED
      BY <2>1, <2>2
  <1> QED
    BY <1>8, <1>9 DEF RetainedIsPrefix
\* A step that moves no byte, and lets nobody reach a closed write end again,
\* leaves the streams as they were.
LEMMA StreamFrame ==
  ASSUME StreamInv, UNCHANGED <<written, pipe, reader, captured, overflow>>,
         WritersGone => WritersGone'
  PROVE  StreamInv'
  BY DEF StreamInv, RetainedIsPrefix

\* Every step keeps the invariant: one step of this proof per action.
LEMMA StepInv == IInv /\ [Next]_vars => IInv'
  <1> SUFFICES ASSUME IInv, [Next]_vars PROVE IInv'
    OBVIOUS
  <1> USE DEF IInv, supVars, childVars, readerVars
  <1>1. ASSUME RefuseToSpawn PROVE IInv'
    <2>1. TypeOK'
      BY <1>1 DEF RefuseToSpawn, Return, TypeOK, SupStates, Lifecycles, Results,
         Errors
    <2>2. StreamInv'
      BY <1>1, StreamFrame DEF RefuseToSpawn, Return, WritersGone
    <2>3. StartInv' /\ LoopInv'
      BY <1>1 DEF RefuseToSpawn, Return, StartInv, LoopInv, TypeOK, Streams
    <2>4. ReturnInv'
      BY <1>1 DEF RefuseToSpawn, Return, ReturnInv, ReturnsReaped, OkIsComplete,
         TimeoutIsFinal, NoReaderLeftBehind, WritersGone, StreamInv, StartInv,
         LoopInv, TypeOK, Streams
    <2> QED
      BY <2>1, <2>2, <2>3, <2>4
  <1>2. ASSUME Spawn PROVE IInv'
    <2>1. TypeOK'
      BY <1>2 DEF Spawn, TypeOK, SupStates, Lifecycles, Results, Errors
    <2>2. StreamInv'
      BY <1>2 DEF Spawn, StreamInv, RetainedIsPrefix, StartInv
    <2>3. StartInv' /\ LoopInv'
      BY <1>2 DEF Spawn, StartInv, LoopInv, TypeOK, Streams
    <2>4. ReturnInv'
      BY <1>2 DEF Spawn, ReturnInv, ReturnsReaped, OkIsComplete, TimeoutIsFinal,
         NoReaderLeftBehind, WritersGone, StreamInv, StartInv, LoopInv, TypeOK,
         Streams
    <2> QED
      BY <2>1, <2>2, <2>3, <2>4
  <1>3. ASSUME SpawnReaders PROVE IInv'
    <2>1. TypeOK'
      BY <1>3 DEF SpawnReaders, StartReader, TypeOK, SupStates, Lifecycles,
         Results, Errors
    <2>2. StreamInv'
      BY <1>3 DEF SpawnReaders, StartReader, StreamInv, RetainedIsPrefix,
         WritersGone, TypeOK, StartInv
    <2>3. StartInv' /\ LoopInv'
      BY <1>3 DEF SpawnReaders, StartReader, StartInv, LoopInv, TypeOK, Streams
    <2>4. ReturnInv'
      BY <1>3 DEF SpawnReaders, StartReader, ReturnInv, ReturnsReaped,
         OkIsComplete, TimeoutIsFinal, NoReaderLeftBehind, WritersGone, StreamInv,
         StartInv, LoopInv, TypeOK, Streams
    <2> QED
      BY <2>1, <2>2, <2>3, <2>4
  <1>4. ASSUME SpawnReaderFails PROVE IInv'
    <2>1. TypeOK'
      BY <1>4 DEF SpawnReaderFails, Kill, TypeOK, SupStates, Lifecycles, Results,
         Errors
    <2>2. StreamInv'
      BY <1>4, StreamFrame DEF SpawnReaderFails, Kill, WritersGone
    <2>3. StartInv' /\ LoopInv'
      BY <1>4 DEF SpawnReaderFails, Kill, StartInv, LoopInv, TypeOK, Streams
    <2>4. ReturnInv'
      BY <1>4 DEF SpawnReaderFails, Kill, ReturnInv, ReturnsReaped, OkIsComplete,
         TimeoutIsFinal, NoReaderLeftBehind, WritersGone, StreamInv, StartInv,
         LoopInv, TypeOK, Streams
    <2> QED
      BY <2>1, <2>2, <2>3, <2>4
  <1>5. ASSUME PollExited PROVE IInv'
    <2>1. TypeOK'
      BY <1>5 DEF PollExited, TypeOK, SupStates, Lifecycles, Results, Errors
    <2>2. StreamInv'
      BY <1>5, StreamFrame DEF PollExited, WritersGone
    <2>3. StartInv' /\ LoopInv'
      BY <1>5 DEF PollExited, StartInv, LoopInv, TypeOK, Streams
    <2>4. ReturnInv'
      BY <1>5 DEF PollExited, ReturnInv, ReturnsReaped, OkIsComplete,
         TimeoutIsFinal, NoReaderLeftBehind, WritersGone, StreamInv, StartInv,
         LoopInv, TypeOK, Streams
    <2> QED
      BY <2>1, <2>2, <2>3, <2>4
  <1>6. ASSUME PollRunning PROVE IInv'
    <2>1. TypeOK'
      BY <1>6 DEF PollRunning, TypeOK, SupStates, Lifecycles, Results, Errors
    <2>2. StreamInv'
      BY <1>6, StreamFrame DEF PollRunning, WritersGone
    <2>3. StartInv' /\ LoopInv'
      BY <1>6 DEF PollRunning, StartInv, LoopInv, TypeOK, Streams
    <2>4. ReturnInv'
      BY <1>6 DEF PollRunning, ReturnInv, ReturnsReaped, OkIsComplete,
         TimeoutIsFinal, NoReaderLeftBehind, WritersGone, StreamInv, StartInv,
         LoopInv, TypeOK, Streams
    <2> QED
      BY <2>1, <2>2, <2>3, <2>4
  <1>7. ASSUME PollFails PROVE IInv'
    <2>1. TypeOK'
      BY <1>7 DEF PollFails, Kill, TypeOK, SupStates, Lifecycles, Results, Errors
    <2>2. StreamInv'
      BY <1>7, StreamFrame DEF PollFails, Kill, WritersGone
    <2>3. StartInv' /\ LoopInv'
      BY <1>7 DEF PollFails, Kill, StartInv, LoopInv, TypeOK, Streams
    <2>4. ReturnInv'
      BY <1>7 DEF PollFails, Kill, ReturnInv, ReturnsReaped, OkIsComplete,
         TimeoutIsFinal, NoReaderLeftBehind, WritersGone, StreamInv, StartInv,
         LoopInv, TypeOK, Streams
    <2> QED
      BY <2>1, <2>2, <2>3, <2>4
  <1>8. ASSUME KeepWaiting PROVE IInv'
    <2>1. TypeOK'
      BY <1>8 DEF KeepWaiting, TypeOK, SupStates, Lifecycles, Results, Errors
    <2>2. StreamInv'
      BY <1>8, StreamFrame DEF KeepWaiting, WritersGone
    <2>3. StartInv' /\ LoopInv'
      BY <1>8 DEF KeepWaiting, StartInv, LoopInv, TypeOK, Streams
    <2>4. ReturnInv'
      BY <1>8 DEF KeepWaiting, ReturnInv, ReturnsReaped, OkIsComplete,
         TimeoutIsFinal, NoReaderLeftBehind, WritersGone, StreamInv, StartInv,
         LoopInv, TypeOK, Streams
    <2> QED
      BY <2>1, <2>2, <2>3, <2>4
  <1>9. ASSUME DeadlineKill PROVE IInv'
    <2>1. TypeOK'
      BY <1>9 DEF DeadlineKill, Kill, TypeOK, SupStates, Lifecycles, Results, Errors
    <2>2. StreamInv'
      BY <1>9, StreamFrame DEF DeadlineKill, Kill, WritersGone
    <2>3. StartInv' /\ LoopInv'
      BY <1>9 DEF DeadlineKill, Kill, StartInv, LoopInv, TypeOK, Streams
    <2>4. ReturnInv'
      BY <1>9 DEF DeadlineKill, Kill, ReturnInv, ReturnsReaped, OkIsComplete,
         TimeoutIsFinal, NoReaderLeftBehind, WritersGone, StreamInv, StartInv,
         LoopInv, TypeOK, Streams
    <2> QED
      BY <2>1, <2>2, <2>3, <2>4
  <1>10. ASSUME ReapKilled PROVE IInv'
    <2>1. TypeOK'
      BY <1>10 DEF ReapKilled, AfterReaping, Return, TypeOK, SupStates, Lifecycles,
         Results, Errors
    <2>2. StreamInv'
      BY <1>10, StreamFrame DEF ReapKilled, AfterReaping, Return, WritersGone
    <2>3. StartInv' /\ LoopInv'
      BY <1>10 DEF ReapKilled, AfterReaping, Return, StartInv, LoopInv, TypeOK,
         Streams
    <2>4. ReturnInv'
      BY <1>10 DEF ReapKilled, AfterReaping, Return, ReturnInv, ReturnsReaped,
         OkIsComplete, TimeoutIsFinal, NoReaderLeftBehind, WritersGone, StreamInv,
         StartInv, LoopInv, TypeOK, Streams
    <2> QED
      BY <2>1, <2>2, <2>3, <2>4
  <1>11. ASSUME WaitFails PROVE IInv'
    <2>0. UNCHANGED <<expired, pipe, childVars, readerVars>>
      BY <1>11 DEF WaitFails, Kill
    <2>1. StreamInv'
      BY <2>0, StreamFrame DEF WritersGone
    <2>2. CASE lifecycle = "deadline" /\ Kill("lost")
      <3>1. TypeOK'
        BY <2>2 DEF Kill, TypeOK, SupStates, Lifecycles
      <3>2. StartInv' /\ LoopInv' /\ ReturnInv'
        BY <1>11, <2>2 DEF WaitFails, Kill, StartInv, LoopInv, ReturnInv, ReturnsReaped,
           OkIsComplete, TimeoutIsFinal, NoReaderLeftBehind, TypeOK
      <3> QED
        BY <2>1, <3>1, <3>2
    <2>3. CASE lifecycle # "deadline" /\ AfterReaping /\ UNCHANGED <<lifecycle, killed>>
      <3>1. TypeOK'
        BY <2>0, <2>3 DEF AfterReaping, Return, TypeOK, SupStates, Results, Errors
      <3>2. StartInv' /\ LoopInv' /\ ReturnInv'
        BY <1>11, <2>0, <2>3 DEF WaitFails, AfterReaping, Return, StartInv, LoopInv, ReturnInv,
           ReturnsReaped, OkIsComplete, TimeoutIsFinal, NoReaderLeftBehind, TypeOK, Streams
      <3> QED
        BY <2>1, <3>1, <3>2
    <2> QED
      BY <1>11, <2>2, <2>3 DEF WaitFails
  <1>12. ASSUME JoinStdout PROVE IInv'
    <2>1. TypeOK'
      BY <1>12 DEF JoinStdout, Return, TypeOK, SupStates, Lifecycles, Results,
         Errors
    <2>2. StreamInv'
      BY <1>12, StreamFrame DEF JoinStdout, Return, WritersGone
    <2>3. StartInv' /\ LoopInv'
      BY <1>12 DEF JoinStdout, Return, StartInv, LoopInv, TypeOK, Streams
    <2>4. ReturnInv'
      BY <1>12 DEF JoinStdout, Return, Ended, ReturnInv, ReturnsReaped, OkIsComplete,
         TimeoutIsFinal, NoReaderLeftBehind, WritersGone, StreamInv, StartInv,
         LoopInv, TypeOK, Streams
    <2> QED
      BY <2>1, <2>2, <2>3, <2>4
  <1>13. ASSUME JoinReaders PROVE IInv'
    <2>1. TypeOK'
      BY <1>13 DEF JoinReaders, Return, Outcome, Ended, TypeOK, SupStates,
         Lifecycles, Results, Errors
    <2>2. StreamInv'
      BY <1>13, StreamFrame DEF JoinReaders, Return, Outcome, Ended, WritersGone
    <2>3. StartInv' /\ LoopInv'
      BY <1>13 DEF JoinReaders, Return, Outcome, Ended, StartInv, LoopInv, TypeOK,
         Streams
    <2>4. ReturnInv'
      BY <1>13 DEF JoinReaders, Return, Outcome, Ended, ReturnInv, ReturnsReaped,
         OkIsComplete, TimeoutIsFinal, NoReaderLeftBehind, WritersGone, StreamInv,
         StartInv, LoopInv, TypeOK, Streams
    <2> QED
      BY <2>1, <2>2, <2>3, <2>4
  <1>14. ASSUME NEW s \in Streams, ReadSome(s) PROVE IInv'
    <2>1. TypeOK'
      <3>1. /\ pipe' \in [Streams -> Nat]
            /\ captured' \in [Streams -> Nat]
            /\ overflow' \in [Streams -> BOOLEAN]
        BY <1>14, ReadKeepsPrefix
      <3> QED
        BY <1>14, <3>1 DEF ReadSome, Reads, Available, TypeOK
    <2>2. StreamInv'
      <3>1. /\ \A t \in Streams : pipe'[t] <= written'[t]
            /\ RetainedIsPrefix'
            /\ \A t \in Streams : reader[t] = "done" => pipe'[t] = 0
        BY <1>14, ReadKeepsPrefix
      <3> QED
        BY <1>14, <3>1 DEF ReadSome, Reads, Available, StreamInv, WritersGone
    <2>3. StartInv' /\ LoopInv'
      BY <1>14 DEF ReadSome, Reads, Available, StartInv, LoopInv, TypeOK, Streams
    <2>4. ReturnInv'
      BY <1>14 DEF ReadSome, Reads, Available, ReturnInv, ReturnsReaped, OkIsComplete,
         TimeoutIsFinal, NoReaderLeftBehind, WritersGone, StreamInv, StartInv,
         LoopInv, TypeOK, Streams
    <2> QED
      BY <2>1, <2>2, <2>3, <2>4
  <1>15. ASSUME NEW s \in Streams, ReadEof(s) PROVE IInv'
    <2>1. TypeOK'
      BY <1>15 DEF ReadEof, TypeOK, SupStates, Lifecycles, Results, Errors
    <2>2. StreamInv'
      BY <1>15 DEF ReadEof, StreamInv, RetainedIsPrefix, WritersGone, TypeOK,
         StartInv
    <2>3. StartInv' /\ LoopInv'
      BY <1>15 DEF ReadEof, StartInv, LoopInv, TypeOK, Streams
    <2>4. ReturnInv'
      BY <1>15 DEF ReadEof, ReturnInv, ReturnsReaped, OkIsComplete, TimeoutIsFinal,
         NoReaderLeftBehind, WritersGone, StreamInv, StartInv, LoopInv, TypeOK,
         Streams
    <2> QED
      BY <2>1, <2>2, <2>3, <2>4
  <1>16. ASSUME NEW s \in Streams, ReadFails(s) PROVE IInv'
    <2>1. TypeOK'
      BY <1>16 DEF ReadFails, TypeOK, SupStates, Lifecycles, Results, Errors
    <2>2. StreamInv'
      BY <1>16 DEF ReadFails, StreamInv, RetainedIsPrefix, WritersGone, TypeOK,
         StartInv
    <2>3. StartInv' /\ LoopInv'
      BY <1>16 DEF ReadFails, StartInv, LoopInv, TypeOK, Streams
    <2>4. ReturnInv'
      BY <1>16 DEF ReadFails, ReturnInv, ReturnsReaped, OkIsComplete,
         TimeoutIsFinal, NoReaderLeftBehind, WritersGone, StreamInv, StartInv,
         LoopInv, TypeOK, Streams
    <2> QED
      BY <2>1, <2>2, <2>3, <2>4
  <1>17. ASSUME NEW s \in Streams, Write(s) PROVE IInv'
    <2>1. TypeOK'
      <3>1. written' \in [Streams -> Nat] /\ pipe' \in [Streams -> Nat]
        BY <1>17 DEF Write, TypeOK
      <3> QED
        BY <1>17, <3>1 DEF Write, TypeOK
    <2>2. StreamInv'
      <3>1. \A t \in Streams : /\ pipe'[t] <= written'[t]
                               /\ written'[t] - pipe'[t] = written[t] - pipe[t]
                               /\ reader[t] = "done" => pipe'[t] = pipe[t]
        BY <1>17 DEF Write, StreamInv, TypeOK, Ended
      <3>2. RetainedIsPrefix'
        BY <1>17, <3>1 DEF Write, StreamInv, RetainedIsPrefix
      <3> QED
        BY <1>17, <3>1, <3>2 DEF Write, StreamInv, WritersGone
    <2>3. StartInv' /\ LoopInv'
      BY <1>17 DEF Write, Ended, StartInv, LoopInv, TypeOK, Streams
    <2>4. ReturnInv'
      BY <1>17 DEF Write, Ended, ReturnInv, ReturnsReaped, OkIsComplete,
         TimeoutIsFinal, NoReaderLeftBehind, WritersGone, StreamInv, StartInv,
         LoopInv, TypeOK, Streams
    <2> QED
      BY <2>1, <2>2, <2>3, <2>4
  <1>18. ASSUME Exit PROVE IInv'
    <2>1. TypeOK'
      BY <1>18 DEF Exit, Die, TypeOK, SupStates, Lifecycles, Results, Errors
    <2>2. StreamInv'
      BY <1>18, StreamFrame DEF Exit, Die, WritersGone
    <2>3. StartInv' /\ LoopInv'
      BY <1>18 DEF Exit, Die, StartInv, LoopInv, TypeOK, Streams
    <2>4. ReturnInv'
      BY <1>18 DEF Exit, Die, ReturnInv, ReturnsReaped, OkIsComplete,
         TimeoutIsFinal, NoReaderLeftBehind, WritersGone, StreamInv, StartInv,
         LoopInv, TypeOK, Streams
    <2> QED
      BY <2>1, <2>2, <2>3, <2>4
  <1>19. ASSUME KillDelivered PROVE IInv'
    <2>1. TypeOK'
      BY <1>19 DEF KillDelivered, Die, TypeOK, SupStates, Lifecycles, Results,
         Errors
    <2>2. StreamInv'
      BY <1>19, StreamFrame DEF KillDelivered, Die, WritersGone
    <2>3. StartInv' /\ LoopInv'
      BY <1>19 DEF KillDelivered, Die, StartInv, LoopInv, TypeOK, Streams
    <2>4. ReturnInv'
      BY <1>19 DEF KillDelivered, Die, ReturnInv, ReturnsReaped, OkIsComplete,
         TimeoutIsFinal, NoReaderLeftBehind, WritersGone, StreamInv, StartInv,
         LoopInv, TypeOK, Streams
    <2> QED
      BY <2>1, <2>2, <2>3, <2>4
  <1>20. ASSUME Fork PROVE IInv'
    <2>1. TypeOK'
      BY <1>20 DEF Fork, TypeOK, SupStates, Lifecycles, Results, Errors
    <2>2. StreamInv'
      BY <1>20, StreamFrame DEF Fork, WritersGone
    <2>3. StartInv' /\ LoopInv'
      BY <1>20 DEF Fork, StartInv, LoopInv, TypeOK, Streams
    <2>4. ReturnInv'
      BY <1>20 DEF Fork, ReturnInv, ReturnsReaped, OkIsComplete, TimeoutIsFinal,
         NoReaderLeftBehind, WritersGone, StreamInv, StartInv, LoopInv, TypeOK,
         Streams
    <2> QED
      BY <2>1, <2>2, <2>3, <2>4
  <1>21. ASSUME DescendantExits PROVE IInv'
    <2>1. TypeOK'
      BY <1>21 DEF DescendantExits, TypeOK, SupStates, Lifecycles, Results, Errors
    <2>2. StreamInv'
      BY <1>21, StreamFrame DEF DescendantExits, WritersGone
    <2>3. StartInv' /\ LoopInv'
      BY <1>21 DEF DescendantExits, StartInv, LoopInv, TypeOK, Streams
    <2>4. ReturnInv'
      BY <1>21 DEF DescendantExits, ReturnInv, ReturnsReaped, OkIsComplete,
         TimeoutIsFinal, NoReaderLeftBehind, WritersGone, StreamInv, StartInv,
         LoopInv, TypeOK, Streams
    <2> QED
      BY <2>1, <2>2, <2>3, <2>4
  <1>22. ASSUME DeadlinePasses PROVE IInv'
    <2>1. TypeOK'
      BY <1>22 DEF DeadlinePasses, TypeOK, SupStates, Lifecycles, Results, Errors
    <2>2. StreamInv'
      BY <1>22, StreamFrame DEF DeadlinePasses, WritersGone
    <2>3. StartInv' /\ LoopInv'
      BY <1>22 DEF DeadlinePasses, StartInv, LoopInv, TypeOK, Streams
    <2>4. ReturnInv'
      BY <1>22 DEF DeadlinePasses, ReturnInv, ReturnsReaped, OkIsComplete,
         TimeoutIsFinal, NoReaderLeftBehind, WritersGone, StreamInv, StartInv,
         LoopInv, TypeOK, Streams
    <2> QED
      BY <2>1, <2>2, <2>3, <2>4
  <1>23. CASE UNCHANGED vars
    BY <1>23 DEF vars, TypeOK, StreamInv, RetainedIsPrefix, WritersGone, StartInv,
       LoopInv, ReturnInv, ReturnsReaped, OkIsComplete, TimeoutIsFinal, NoReaderLeftBehind
  <1> QED
    BY <1>1, <1>2, <1>3, <1>4, <1>5, <1>6, <1>7, <1>8, <1>9, <1>10, <1>11, <1>12,
       <1>13, <1>14, <1>15, <1>16, <1>17, <1>18, <1>19, <1>20, <1>21, <1>22, <1>23
       DEF Next, Advance, Supervise, ReadOn, Reader, Environment, Returned

LEMMA Invariance == Spec => []IInv
  BY InitInv, StepInv, PTL DEF Spec

\* The state of a supervised run keeps its shape whatever the limits are.
THEOREM TypeCorrect == Spec => []TypeOK
  <1>1. IInv => TypeOK
    BY DEF IInv
  <1> QED
    BY <1>1, Invariance, PTL

\* Whatever the split into reads, a reader retains the first bytes of its stream
\* up to the limit and flags overflow exactly when it dropped one (spawn_reader).
THEOREM RetainedPrefix == Spec => []RetainedIsPrefix
  <1>1. IInv => RetainedIsPrefix
    BY DEF IInv, StreamInv
  <1> QED
    BY <1>1, Invariance, PTL

\* No return of run() leaves the helper running or unreaped, short of an error
\* that reports a failed lifecycle call.
THEOREM HelperReaped == Spec => []ReturnsReaped
  <1>1. IInv => ReturnsReaped
    BY DEF IInv, ReturnInv
  <1> QED
    BY <1>1, Invariance, PTL

\* An Ok result was read to the end of both streams of a helper nobody killed.
THEOREM OkComplete == Spec => []OkIsComplete
  <1>1. IInv => OkIsComplete
    BY DEF IInv, ReturnInv
  <1> QED
    BY <1>1, Invariance, PTL

\* A Timeout comes after the deadline, of a helper killed and reaped.
THEOREM TimeoutFinal == Spec => []TimeoutIsFinal
  <1>1. IInv => TimeoutIsFinal
    BY DEF IInv, ReturnInv
  <1> QED
    BY <1>1, Invariance, PTL

\* Every return path joins the reader threads it started.
THEOREM ReadersJoined == Spec => []NoReaderLeftBehind
  <1>1. IInv => NoReaderLeftBehind
    BY DEF IInv, ReturnInv
  <1> QED
    BY <1>1, Invariance, PTL

-----------------------------------------------------------------------------
(* What is left of a run: the safety half of RunReturns.  Each step uses up *)
(* some of Fuel, but the sleep until the next poll, which only a run before *)
(* its deadline takes; and run() waits only for what can still happen.      *)

StepsLeft == [start |-> 16, stdoutReader |-> 14, stderrReader |-> 12, poll |-> 9, elapsed |-> 8,
              reaping |-> 5, joinStdout |-> 2, join |-> 2, returned |-> 0]
Count(holds) == IF holds THEN 1 ELSE 0
RunFuel ==
    StepsLeft[sup] + Count(lifecycle = "deadline") + Count(~expired)
    + Count(child = "running") + Count(descendant # "gone") + Count(descendant = "none")
StreamFuel(s) == 2 * (MaxOutput - written[s]) + pipe[s] + Count(reader[s] = "reading")
Fuel == RunFuel + StreamFuel("stdout") + StreamFuel("stderr")

WrittenInv == \A s \in Streams : written[s] <= MaxOutput

Counted == RunFuel \in Nat /\ (\A s \in Streams : StreamFuel(s) \in Nat) /\ Fuel \in Nat

\* Fuel is counted in natural numbers.
LEMMA FuelIs == TypeOK /\ WrittenInv => Counted
  <1> SUFFICES ASSUME TypeOK, WrittenInv PROVE Counted
    OBVIOUS
  <1>1. StepsLeft[sup] \in Nat
    BY DEF TypeOK, SupStates, StepsLeft
  <1>2. RunFuel \in Nat
    BY <1>1 DEF RunFuel, Count
  <1>3. ASSUME NEW s \in Streams PROVE StreamFuel(s) \in Nat
    <2>1. MaxOutput - written[s] \in Nat
      BY SupervisorConstants DEF TypeOK, WrittenInv
    <2>2. pipe[s] \in Nat
      BY DEF TypeOK
    <2> QED
      BY <2>1, <2>2 DEF StreamFuel, Count
  <1> QED
    BY <1>2, <1>3 DEF Counted, Fuel, Streams

\* A step uses up fuel of the run or of one stream, and adds none elsewhere.
LEMMA FuelSums ==
  ASSUME TypeOK, TypeOK', WrittenInv, WrittenInv',
         \/ /\ RunFuel' < RunFuel
            /\ \A s \in Streams : StreamFuel(s)' <= StreamFuel(s)
         \/ /\ RunFuel' <= RunFuel
            /\ \A s \in Streams : StreamFuel(s)' <= StreamFuel(s)
            /\ \E s \in Streams : StreamFuel(s)' < StreamFuel(s)
  PROVE  Fuel' < Fuel
  <1>1. RunFuel \in Nat /\ StreamFuel("stdout") \in Nat /\ StreamFuel("stderr") \in Nat
    BY FuelIs DEF Counted, Streams
  <1>2. Counted'
    BY FuelIs, PTL
  <1>3. RunFuel' \in Nat /\ StreamFuel("stdout")' \in Nat /\ StreamFuel("stderr")' \in Nat
    BY <1>2 DEF Counted, Streams
  <1> QED
    BY <1>1, <1>3 DEF Fuel, Streams

\* What a step does not touch keeps its fuel.
LEMMA StreamStays ==
  ASSUME NEW s \in Streams, TypeOK, WrittenInv, UNCHANGED <<written, pipe, reader>>
  PROVE  StreamFuel(s)' <= StreamFuel(s)
  <1>1. StreamFuel(s)' = StreamFuel(s)
    BY DEF StreamFuel
  <1> QED
    BY <1>1, FuelIs DEF Counted

\* So does the run beside its streams.
LEMMA RunStays ==
  ASSUME TypeOK, WrittenInv, UNCHANGED <<sup, lifecycle, expired, child, descendant>>
  PROVE  RunFuel' <= RunFuel
  <1>1. RunFuel' = RunFuel
    BY DEF RunFuel
  <1> QED
    BY <1>1, FuelIs DEF Counted

\* The supervising thread goes on, and the processes and the clock do.
LEMMA RunBurns ==
  ASSUME IInv, Supervise \/ Exit \/ KillDelivered \/ Fork \/ DescendantExits \/ DeadlinePasses,
         ~SpawnReaders, ~KeepWaiting
  PROVE  RunFuel' < RunFuel /\ UNCHANGED <<written, pipe, reader>>
  <1> USE DEF supVars, childVars, readerVars
  <1>1. UNCHANGED <<written, pipe, reader>>
    BY DEF Supervise, Advance, RefuseToSpawn, Spawn, PollExited, PollRunning, DeadlineKill, ReapKilled,
       JoinStdout, JoinReaders, SpawnReaderFails, PollFails, WaitFails, Kill, Exit, KillDelivered, Die,
       Fork, DescendantExits, DeadlinePasses
  <1>2. CASE RefuseToSpawn \/ Spawn
    BY <1>2 DEF RefuseToSpawn, Spawn, Return, RunFuel, Count, StepsLeft, IInv, StartInv
  <1>3. CASE PollExited \/ PollRunning \/ DeadlineKill \/ PollFails
    <2>1. lifecycle = "none"
      BY <1>3 DEF PollExited, PollRunning, DeadlineKill, PollFails, IInv, StartInv
    <2> QED
      BY <1>3, <2>1 DEF PollExited, PollRunning, DeadlineKill, PollFails, Kill, RunFuel, Count, StepsLeft
  <1>4. CASE SpawnReaderFails
    BY <1>4 DEF SpawnReaderFails, Kill, RunFuel, Count, StepsLeft
  <1>5. CASE ReapKilled
    BY <1>5 DEF ReapKilled, AfterReaping, Return, RunFuel, Count, StepsLeft
  <1>6. CASE WaitFails
    BY <1>6 DEF WaitFails, Kill, AfterReaping, Return, RunFuel, Count, StepsLeft
  <1>7. CASE JoinStdout \/ JoinReaders
    BY <1>7 DEF JoinStdout, JoinReaders, Return, RunFuel, Count, StepsLeft
  <1>8. CASE Exit \/ KillDelivered \/ Fork \/ DescendantExits \/ DeadlinePasses
    <2>1. StepsLeft[sup] \in Nat
      BY DEF IInv, TypeOK, SupStates, StepsLeft
    <2> QED
      BY <1>8, <2>1 DEF Exit, KillDelivered, Die, Fork, DescendantExits, DeadlinePasses, RunFuel, Count
  <1> QED
    BY <1>1, <1>2, <1>3, <1>4, <1>5, <1>6, <1>7, <1>8 DEF Supervise, Advance

\* A reader takes from its pipe or ends; a write uses up output.
LEMMA StreamBurns ==
  ASSUME IInv, WrittenInv, NEW s \in Streams, Reader(s) \/ Write(s)
  PROVE  /\ StreamFuel(s)' < StreamFuel(s)
         /\ \A t \in Streams \ {s} : StreamFuel(t)' = StreamFuel(t)
         /\ UNCHANGED <<sup, lifecycle, expired, child, descendant>>
  <1> USE DEF supVars, childVars, readerVars
  <1>1. /\ pipe \in [Streams -> Nat] /\ written \in [Streams -> Nat] /\ MaxOutput \in Nat
        /\ reader \in [Streams -> {"none", "reading", "done", "failed"}]
        /\ ReadBuffer \in Nat /\ written[s] <= MaxOutput
    BY SupervisorConstants DEF IInv, TypeOK, WrittenInv
  <1>2. UNCHANGED <<sup, lifecycle, expired, child, descendant>>
    BY DEF Reader, ReadOn, ReadSome, Reads, ReadEof, ReadFails, Write
  <1>3. CASE ReadSome(s)
    <2>1. PICK read \in 1 .. Min2(pipe[s], ReadBuffer) : pipe' = [pipe EXCEPT ![s] = @ - read]
      BY <1>3 DEF ReadSome, Reads
    <2>2. UNCHANGED <<written, reader>>
      BY <1>3 DEF ReadSome, Reads
    <2>3. read \in Nat /\ read > 0
      BY <1>1, <2>1 DEF Min2
    <2>4. pipe'[s] = pipe[s] - read /\ \A t \in Streams \ {s} : pipe'[t] = pipe[t]
      BY <1>1, <2>1
    <2> QED
      BY <1>1, <1>2, <2>2, <2>3, <2>4 DEF StreamFuel, Count
  <1>4. CASE ReadEof(s) \/ ReadFails(s)
    <2>1. UNCHANGED <<written, pipe>> /\ reader[s] = "reading"
      BY <1>4 DEF ReadEof, ReadFails
    <2>2. reader'[s] # "reading" /\ \A t \in Streams \ {s} : reader'[t] = reader[t]
      BY <1>1, <1>4 DEF ReadEof, ReadFails
    <2> QED
      BY <1>1, <1>2, <2>1, <2>2 DEF StreamFuel, Count
  <1>5. CASE Write(s)
    <2>1. /\ written'[s] = written[s] + 1 /\ pipe'[s] = pipe[s] + 1 /\ reader' = reader
          /\ \A t \in Streams \ {s} : written'[t] = written[t] /\ pipe'[t] = pipe[t]
      BY <1>1, <1>5 DEF Write
    <2> QED
      BY <1>1, <1>2, <2>1 DEF StreamFuel, Count
  <1> QED
    BY <1>3, <1>4, <1>5 DEF Reader, ReadOn

\* A reader thread costs less than the call that starts it.
LEMMA StartBurns ==
  ASSUME IInv, WrittenInv, SpawnReaders
  PROVE  Fuel' < Fuel
  <1> USE DEF supVars, childVars, readerVars
  <1>1. PICK s \in Streams, next \in {"stderrReader", "poll"} :
           /\ StepsLeft[sup] > StepsLeft[next] + 1 /\ sup' = next
           /\ reader' = [reader EXCEPT ![s] = "reading"]
           /\ UNCHANGED <<lifecycle, expired, child, descendant, written, pipe>>
    BY DEF SpawnReaders, StartReader, StepsLeft, Streams
  <1>2. RunFuel' < RunFuel - 1
    <2>1. StepsLeft[sup] \in Nat /\ StepsLeft[next] \in Nat
      BY <1>1 DEF IInv, TypeOK, SupStates, StepsLeft
    <2> QED
      BY <1>1, <2>1 DEF RunFuel, Count
  <1>3. \A t \in Streams : StreamFuel(t)' <= StreamFuel(t) + Count(t = s)
    <2> SUFFICES ASSUME NEW t \in Streams PROVE StreamFuel(t)' <= StreamFuel(t) + Count(t = s)
      OBVIOUS
    <2>1. pipe[t] \in Nat /\ written[t] \in Nat /\ MaxOutput \in Nat
      BY SupervisorConstants DEF IInv, TypeOK
    <2>2. t # s => reader'[t] = reader[t]
      BY <1>1 DEF IInv, TypeOK
    <2> QED
      BY <1>1, <2>1, <2>2 DEF StreamFuel, Count
  <1>4. RunFuel \in Nat /\ StreamFuel("stdout") \in Nat /\ StreamFuel("stderr") \in Nat
    BY FuelIs DEF Counted, Streams, IInv
  <1>5. IInv'
    BY StepInv DEF Next, Supervise, Advance
  <1>6. WrittenInv'
    BY <1>1 DEF WrittenInv
  <1>7. RunFuel' \in Nat /\ StreamFuel("stdout")' \in Nat /\ StreamFuel("stderr")' \in Nat
    <2>1. TypeOK'
      BY <1>5 DEF IInv
    <2>2. Counted'
      BY <1>6, <2>1, FuelIs, PTL
    <2> QED
      BY <2>2 DEF Counted, Streams
  <1> QED
    BY <1>2, <1>3, <1>4, <1>7 DEF Fuel, Count, Streams

\* Only a sleep before the deadline costs nothing.
LEMMA FuelStep ==
  ASSUME IInv, WrittenInv, [Next]_vars
  PROVE  WrittenInv' /\ (UNCHANGED vars \/ (KeepWaiting /\ ~expired) \/ Fuel' < Fuel)
  <1>1. IInv'
    BY StepInv
  <1>2. WrittenInv'
    <2>1. CASE \E s \in Streams : Write(s)
      BY <2>1, SupervisorConstants DEF Write, WrittenInv, IInv, TypeOK
    <2>2. CASE UNCHANGED written
      BY <2>2 DEF WrittenInv
    <2> QED
      BY <2>1, <2>2 DEF Next, Supervise, Advance, RefuseToSpawn, Spawn, SpawnReaders, StartReader,
         PollExited, PollRunning, KeepWaiting, DeadlineKill, ReapKilled, JoinStdout, JoinReaders,
         SpawnReaderFails, PollFails, WaitFails, Kill, Reader, ReadOn, ReadSome, Reads, ReadEof,
         ReadFails, Environment, Exit, KillDelivered, Die, Fork, DescendantExits, DeadlinePasses,
         Returned, vars, childVars
  <1>3. TypeOK /\ TypeOK'
    BY <1>1 DEF IInv
  <1>4. CASE KeepWaiting
    BY <1>2, <1>4 DEF KeepWaiting
  <1>5. CASE SpawnReaders
    BY <1>2, <1>5, StartBurns
  <1>6. CASE (Supervise \/ Exit \/ KillDelivered \/ Fork \/ DescendantExits \/ DeadlinePasses)
             /\ ~SpawnReaders /\ ~KeepWaiting
    <2>1. RunFuel' < RunFuel /\ UNCHANGED <<written, pipe, reader>>
      BY <1>6, RunBurns
    <2>2. \A s \in Streams : StreamFuel(s)' <= StreamFuel(s)
      BY <1>3, <2>1, StreamStays
    <2> QED
      BY <1>2, <1>3, <2>1, <2>2, FuelSums
  <1>7. CASE \E s \in Streams : Reader(s) \/ Write(s)
    <2>1. PICK s \in Streams : Reader(s) \/ Write(s)
      BY <1>7
    <2>2. /\ StreamFuel(s)' < StreamFuel(s)
          /\ \A t \in Streams \ {s} : StreamFuel(t)' = StreamFuel(t)
          /\ UNCHANGED <<sup, lifecycle, expired, child, descendant>>
      BY <2>1, StreamBurns
    <2>3. RunFuel' <= RunFuel
      BY <1>3, <2>2, RunStays
    <2>4. \A t \in Streams : StreamFuel(t) \in Nat /\ StreamFuel(t)' \in Nat
      <3>1. Counted'
        BY <1>2, <1>3, FuelIs, PTL
      <3> QED
        BY <1>3, <3>1, FuelIs DEF Counted
    <2>5. \A t \in Streams : StreamFuel(t)' <= StreamFuel(t)
      BY <2>2, <2>4
    <2> QED
      BY <1>2, <1>3, <2>2, <2>3, <2>5, FuelSums
  <1> QED
    BY <1>2, <1>4, <1>5, <1>6, <1>7 DEF Next, Environment, Returned

\* A run takes finitely many steps: every step of run(), of a reader, of the processes or
\* of the clock uses up some of Fuel, a natural number, but for the sleep between two polls
\* (KeepWaiting), which the deadline puts an end to. However a helper floods its pipes,
\* forks or fails to die, what is left to do once the deadline has passed is bounded.
THEOREM StepsRunOut ==
  Spec => [](Fuel \in Nat) /\ [][(KeepWaiting /\ ~expired) \/ Fuel' < Fuel]_vars
  <1>1. Init => WrittenInv
    BY SupervisorConstants DEF Init, WrittenInv
  <1>2. IInv /\ WrittenInv => Fuel \in Nat
    BY FuelIs DEF Counted, IInv
  <1>3. IInv /\ WrittenInv /\ [Next]_vars
          => WrittenInv' /\ [(KeepWaiting /\ ~expired) \/ Fuel' < Fuel]_vars
    BY FuelStep
  <1> QED
    BY <1>1, <1>2, <1>3, Invariance, PTL DEF Spec

\* What run() waits for can still happen.
WaitsForWhatComes ==
  /\ sup = "poll" => child \in {"running", "zombie"}
  /\ sup = "reaping" => killed /\ child \in {"running", "zombie"}
  /\ \A s \in Streams : sup = "join" \/ (sup = "joinStdout" /\ s = "stdout") =>
       \/ Ended(s)
       \/ reader[s] = "reading" /\ (pipe[s] > 0 \/ WritersGone)
       \/ reader[s] = "reading" /\ (child = "running" \/ descendant = "running")
  /\ sup = "join" /\ child = "running" => lifecycle = "lost" /\ killed

\* run() waits for nothing that cannot come: the wait is for a helper that SIGKILL was sent
\* to, each reader that is joined was started, and one that is still reading has something
\* to read, or the end of file, unless some process holds its pipe; that can be the helper
\* only after a wait that failed, and then the kill is on its way.
THEOREM NoWaitInVain == Spec => []WaitsForWhatComes
  <1>1. IInv => WaitsForWhatComes
    BY DEF IInv, TypeOK, StartInv, LoopInv, WaitsForWhatComes, Ended, WritersGone, Streams
  <1> QED
    BY <1>1, Invariance, PTL
=============================================================================
