-------------------------- MODULE ProcessSupervisor --------------------------
(***************************************************************************)
(* SystemProcessRunner::run of stack-runtime (src/process.rs): one helper  *)
(* process supervised under a deadline, with its two output pipes drained  *)
(* by one reader thread each.                                              *)
(*                                                                         *)
(* Four kinds of actors interleave: the supervising thread (run), the two  *)
(* reader threads (spawn_reader), the child with any descendant it leaves  *)
(* behind, and the operating system, which delivers the kill, passes time  *)
(* and may fail a call.  Bytes are counted, never represented: a reader    *)
(* keeps the first Limit[s] bytes of its stream, so a count names them.    *)
(***************************************************************************)
EXTENDS Naturals, FiniteSets

CONSTANTS
    Limit,      \* ProcessRequest.stdout_limit and stderr_limit, per stream
    Capacity,   \* bytes a pipe holds before a write blocks
    ReadBuffer, \* the most one read returns (8192 in the code)
    MaxOutput,  \* bound: bytes one run writes to one stream
    MayFork,    \* may the child leave a descendant that inherits its pipes?
    OsFaults    \* may thread creation, read, try_wait or wait fail?

Streams == {"stdout", "stderr"}

ASSUME SupervisorConstants ==
    /\ Limit \in [Streams -> Nat]
    /\ Capacity \in Nat \ {0}
    /\ ReadBuffer \in Nat \ {0}
    /\ MaxOutput \in Nat
    /\ MayFork \in BOOLEAN
    /\ OsFaults \in BOOLEAN

VARIABLES
    sup,        \* where run() stands
    lifecycle,  \* what the poll loop broke with, or why the child is killed
    expired,    \* started.elapsed() >= request.timeout
    killed,     \* SIGKILL has been sent
    child,      \* the child process
    status,     \* how the child died, once it has
    descendant, \* a process the child forked, holding the write ends
    written,    \* bytes written to each stream
    pipe,       \* bytes of each stream not read yet
    reader,     \* each reader thread
    captured,   \* bytes each reader retained
    overflow,   \* CapturedOutput.overflow
    result      \* what run() returned

supVars == <<sup, lifecycle, result>>
childVars == <<child, status, descendant, written>>
readerVars == <<reader, captured, overflow>>
vars == <<sup, lifecycle, expired, killed, child, status, descendant, written,
          pipe, reader, captured, overflow, result>>

SupStates == {"start", "stdoutReader", "stderrReader", "poll", "elapsed",
              "reaping", "joinStdout", "join", "returned"}

\* "exited": try_wait saw the status; "deadline": killed by the poll loop;
\* "lost": a lifecycle call failed; the other two: a reader did not start.
Lifecycles == {"none", "exited", "deadline", "lost", "noStdoutReader", "noStderrReader"}

Errors == {"InvalidExecutable", "Spawn", "Timeout", "PipeIo"}

Results == {"none", "Ok"} \cup Errors

\* A reader thread that has ended: its pipe is closed and it can be joined.
Ended(s) == reader[s] \in {"done", "failed"}

\* The write ends of both pipes are closed once these processes are gone.
WritersGone == child # "running" /\ descendant # "running"

Min2(a, b) == IF a < b THEN a ELSE b

TypeOK ==
    /\ sup \in SupStates
    /\ lifecycle \in Lifecycles
    /\ expired \in BOOLEAN
    /\ killed \in BOOLEAN
    /\ child \in {"none", "running", "zombie", "reaped"}
    /\ status \in {"none", "exit", "signal"}
    /\ descendant \in {"none", "running", "gone"}
    /\ written \in [Streams -> Nat]
    /\ pipe \in [Streams -> Nat]
    /\ reader \in [Streams -> {"none", "reading", "done", "failed"}]
    /\ captured \in [Streams -> Nat]
    /\ overflow \in [Streams -> BOOLEAN]
    /\ result \in Results

Init ==
    /\ sup = "start"
    /\ lifecycle = "none"
    /\ expired = FALSE
    /\ killed = FALSE
    /\ child = "none"
    /\ status = "none"
    /\ descendant = "none"
    /\ written = [s \in Streams |-> 0]
    /\ pipe = [s \in Streams |-> 0]
    /\ reader = [s \in Streams |-> "none"]
    /\ captured = [s \in Streams |-> 0]
    /\ overflow = [s \in Streams |-> FALSE]
    /\ result = "none"

-----------------------------------------------------------------------------
(* The supervising thread. *)

Return(r) ==
    /\ sup' = "returned"
    /\ result' = r

\* A relative executable, or a spawn the system refuses: nothing was started.
RefuseToSpawn ==
    /\ sup = "start"
    /\ \E e \in {"InvalidExecutable", "Spawn"} : Return(e)
    /\ UNCHANGED <<lifecycle, expired, killed, pipe, childVars, readerVars>>

\* The pipes of a child spawned with Stdio::piped() are always there to take.
Spawn ==
    /\ sup = "start"
    /\ child' = "running"
    /\ sup' = "stdoutReader"
    /\ UNCHANGED <<lifecycle, result, expired, killed, status, descendant,
                   written, pipe, readerVars>>

\* Child::kill; what run() does once it has reaped depends on why it killed.
Kill(why) ==
    /\ killed' = TRUE
    /\ lifecycle' = why
    /\ sup' = "reaping"
    /\ UNCHANGED <<result, expired, pipe, childVars, readerVars>>

StartReader(at, s, next) ==
    /\ sup = at
    /\ reader' = [reader EXCEPT ![s] = "reading"]
    /\ sup' = next
    /\ UNCHANGED <<lifecycle, result, expired, killed, pipe, childVars, captured, overflow>>

SpawnReaders ==
    \/ StartReader("stdoutReader", "stdout", "stderrReader")
    \/ StartReader("stderrReader", "stderr", "poll")

\* Mutant: the error is returned without kill_and_reap.
SpawnReaderFailsUnreaped ==
    /\ OsFaults
    /\ sup \in {"stdoutReader", "stderrReader"}
    /\ Return("Spawn")
    /\ UNCHANGED <<lifecycle, expired, killed, pipe, childVars, readerVars>>

SpawnReaderFails ==
    /\ OsFaults
    /\ \/ sup = "stdoutReader" /\ Kill("noStdoutReader")
       \/ sup = "stderrReader" /\ Kill("noStderrReader")

\* try_wait returns a status: the child is reaped.
PollExited ==
    /\ sup = "poll"
    /\ child = "zombie"
    /\ child' = "reaped"
    /\ lifecycle' = "exited"
    /\ sup' = "join"
    /\ UNCHANGED <<result, expired, killed, pipe, status, descendant, written,
                   readerVars>>

\* try_wait returns None; the deadline is looked at afterwards.
PollRunning ==
    /\ sup = "poll"
    /\ child = "running"
    /\ sup' = "elapsed"
    /\ UNCHANGED <<lifecycle, result, expired, killed, pipe, childVars, readerVars>>

PollFails ==
    /\ OsFaults
    /\ sup = "poll"
    /\ Kill("lost")

\* Sleep until the next poll.
KeepWaiting ==
    /\ sup = "elapsed"
    /\ ~expired
    /\ sup' = "poll"
    /\ UNCHANGED <<lifecycle, result, expired, killed, pipe, childVars, readerVars>>

\* Mutant: the expired helper is waited for, not killed.
DeadlineWait ==
    /\ sup = "elapsed"
    /\ expired
    /\ lifecycle' = "deadline"
    /\ sup' = "reaping"
    /\ UNCHANGED <<result, expired, killed, pipe, childVars, readerVars>>

DeadlineKill ==
    /\ sup = "elapsed"
    /\ expired
    /\ Kill("deadline")

\* Mutant: the stdout reader is left running.
AfterReapingUnjoined ==
    IF lifecycle \in {"noStdoutReader", "noStderrReader"} THEN Return("Spawn")
    ELSE sup' = "join" /\ result' = result

\* What follows the wait of a killed child.
AfterReaping ==
    \/ lifecycle \in {"deadline", "lost"} /\ sup' = "join" /\ result' = result
    \/ lifecycle = "noStdoutReader" /\ Return("Spawn")
    \/ lifecycle = "noStderrReader" /\ sup' = "joinStdout" /\ result' = result

ReapKilled ==
    /\ sup = "reaping"
    /\ child = "zombie"
    /\ child' = "reaped"
    /\ AfterReaping
    /\ UNCHANGED <<lifecycle, expired, killed, pipe, status, descendant, written,
                   readerVars>>

\* Mutant: a failed wait after the deadline counts as the wait.
WaitFailsUnnoticed ==
    /\ OsFaults
    /\ sup = "reaping"
    /\ AfterReaping
    /\ UNCHANGED <<lifecycle, expired, killed, pipe, childVars, readerVars>>

\* After the deadline a failed wait kills and waits once more; kill_and_reap
\* ignores a failed wait.
WaitFails ==
    /\ OsFaults
    /\ sup = "reaping"
    /\ \/ lifecycle = "deadline" /\ Kill("lost")
       \/ /\ lifecycle # "deadline"
          /\ AfterReaping
          /\ UNCHANGED <<lifecycle, expired, killed, pipe, childVars, readerVars>>

\* The stdout reader's own outcome is discarded when the stderr reader never started.
JoinStdout ==
    /\ sup = "joinStdout"
    /\ Ended("stdout")
    /\ Return("Spawn")
    /\ UNCHANGED <<lifecycle, expired, killed, pipe, childVars, readerVars>>

\* A lifecycle error precedes a reader error, which precedes the timeout.
Outcome ==
    IF lifecycle = "lost" THEN "Spawn"
    ELSE IF \E s \in Streams : reader[s] = "failed" THEN "PipeIo"
    ELSE IF lifecycle = "deadline" THEN "Timeout"
    ELSE "Ok"

\* Mutant: stderr is not waited for.
JoinStdoutOnly ==
    /\ sup = "join"
    /\ Ended("stdout")
    /\ Return(Outcome)
    /\ UNCHANGED <<lifecycle, expired, killed, pipe, childVars, readerVars>>

JoinReaders ==
    /\ sup = "join"
    /\ \A s \in Streams : Ended(s)
    /\ Return(Outcome)
    /\ UNCHANGED <<lifecycle, expired, killed, pipe, childVars, readerVars>>

-----------------------------------------------------------------------------
(* A reader thread: it keeps what fits below the limit and drains the rest. *)

Reads(s, read, retained, flagged) ==
    /\ pipe' = [pipe EXCEPT ![s] = @ - read]
    /\ captured' = [captured EXCEPT ![s] = @ + retained]
    /\ overflow' = [overflow EXCEPT ![s] = @ \/ flagged]
    /\ UNCHANGED <<supVars, expired, killed, childVars, reader>>

Available(s) == IF captured[s] < Limit[s] THEN Limit[s] - captured[s] ELSE 0

\* Mutant: a read that fills the space left is taken for an overflow.
ReadSomeToTheLimit(s) ==
    /\ reader[s] = "reading"
    /\ \E read \in 1 .. Min2(pipe[s], ReadBuffer) :
         Reads(s, read, Min2(Available(s), read), Available(s) <= read)

\* Mutant: the whole buffer is taken for read.
ReadFullBuffer(s) ==
    /\ reader[s] = "reading"
    /\ pipe[s] > 0
    /\ Reads(s, ReadBuffer, Min2(Available(s), ReadBuffer), Available(s) < ReadBuffer)

ReadSome(s) ==
    /\ reader[s] = "reading"
    /\ \E read \in 1 .. Min2(pipe[s], ReadBuffer) :
         LET retained == Min2(Available(s), read)
         IN Reads(s, read, retained, retained < read)

\* End of file: the pipe is empty and every write end is closed.
ReadEof(s) ==
    /\ reader[s] = "reading"
    /\ pipe[s] = 0
    /\ WritersGone
    /\ reader' = [reader EXCEPT ![s] = "done"]
    /\ UNCHANGED <<supVars, expired, killed, pipe, childVars, captured, overflow>>

ReadFails(s) ==
    /\ OsFaults
    /\ reader[s] = "reading"
    /\ reader' = [reader EXCEPT ![s] = "failed"]
    /\ UNCHANGED <<supVars, expired, killed, pipe, childVars, captured, overflow>>

-----------------------------------------------------------------------------
(* The helper, its descendant and the operating system. *)

\* A write blocks on a full pipe and adds nothing to one whose read end is closed.
Write(s) ==
    /\ child = "running" \/ descendant = "running"
    /\ written[s] < MaxOutput
    /\ pipe[s] < Capacity
    /\ ~Ended(s)
    /\ written' = [written EXCEPT ![s] = @ + 1]
    /\ pipe' = [pipe EXCEPT ![s] = @ + 1]
    /\ UNCHANGED <<supVars, expired, killed, child, status, descendant, readerVars>>

Die(how) ==
    /\ child = "running"
    /\ child' = "zombie"
    /\ status' = how
    /\ UNCHANGED <<supVars, expired, killed, descendant, written, pipe, readerVars>>

Exit == \E how \in {"exit", "signal"} : Die(how)

KillDelivered == killed /\ Die("signal")

Fork ==
    /\ MayFork
    /\ child = "running"
    /\ descendant = "none"
    /\ descendant' = "running"
    /\ UNCHANGED <<supVars, expired, killed, child, status, written, pipe, readerVars>>

DescendantExits ==
    /\ descendant = "running"
    /\ descendant' = "gone"
    /\ UNCHANGED <<supVars, expired, killed, child, status, written, pipe, readerVars>>

\* The clock starts once both readers run.
DeadlinePasses ==
    /\ ~expired
    /\ sup \notin {"start", "stdoutReader", "stderrReader"}
    /\ lifecycle \notin {"noStdoutReader", "noStderrReader"}
    /\ expired' = TRUE
    /\ UNCHANGED <<supVars, killed, childVars, pipe, readerVars>>

-----------------------------------------------------------------------------

Advance ==
    \/ RefuseToSpawn \/ Spawn \/ SpawnReaders
    \/ PollExited \/ PollRunning \/ KeepWaiting \/ DeadlineKill
    \/ ReapKilled \/ JoinStdout \/ JoinReaders

Supervise == Advance \/ SpawnReaderFails \/ PollFails \/ WaitFails

ReadOn(s) == ReadSome(s) \/ ReadEof(s)

Reader(s) == ReadOn(s) \/ ReadFails(s)

Environment ==
    \/ \E s \in Streams : Write(s)
    \/ Exit \/ KillDelivered \/ Fork \/ DescendantExits \/ DeadlinePasses

\* run() returns once; afterwards the value stands.
Returned == sup = "returned" /\ UNCHANGED vars

Next ==
    \/ Supervise
    \/ \E s \in Streams : Reader(s)
    \/ Environment
    \/ Returned

Spec == Init /\ [][Next]_vars

\* The scheduler runs every thread, time passes and SIGKILL is delivered; no call
\* has to fail, and the helper and a descendant owe nothing.
Fairness ==
    /\ WF_vars(Advance)
    /\ \A s \in Streams : WF_vars(ReadOn(s))
    /\ WF_vars(DeadlinePasses)
    /\ WF_vars(KillDelivered)

FairSpec == Spec /\ Fairness

-----------------------------------------------------------------------------
(* Properties. *)

\* A reader that retains part of a stream retains exactly its first bytes up to
\* the limit, and flags overflow exactly when it dropped a byte (spawn_reader's
\* saturating arithmetic across any split of the stream into reads).
RetainedIsPrefix ==
    \A s \in Streams :
        LET read == written[s] - pipe[s]
        IN /\ captured[s] = Min2(Limit[s], read)
           /\ overflow[s] <=> read > Limit[s]

\* run() never returns while the helper runs or is a zombie, unless a lifecycle
\* call itself failed, and then it returns an error (kill_and_reap on every path).
ReturnsReaped ==
    sup = "returned" =>
        \/ child \in {"none", "reaped"}
        \/ result = "Spawn" /\ killed

\* An Ok result is complete: the helper was not killed, both streams were read
\* to the end of file and nothing a writer wrote is missing from the count.
OkIsComplete ==
    result = "Ok" =>
        /\ ~killed
        /\ WritersGone
        /\ \A s \in Streams : reader[s] = "done" /\ pipe[s] = 0

\* A Timeout is reported only after the deadline, of a helper that was killed
\* and reaped, with both readers joined.
TimeoutIsFinal ==
    result = "Timeout" =>
        expired /\ killed /\ child = "reaped" /\ \A s \in Streams : reader[s] = "done"

\* No reader thread outlives the call: each is joined on every return path.
NoReaderLeftBehind ==
    sup = "returned" => \A s \in Streams : reader[s] # "reading"

\* run() returns although the helper may hang, block on a full pipe or ignore
\* everything but SIGKILL, unless a descendant stays on its pipes for ever.
RunReturns == <>(sup = "returned") \/ <>[](descendant = "running")

\* The trait's contract, "Runs one process under the request's deadline": once
\* the deadline has passed the call returns.
DeadlineBoundsRun == expired ~> sup = "returned"
=============================================================================
