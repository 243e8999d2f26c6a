------------------------- MODULE ReleaseCustodyProofs -------------------------
(***************************************************************************)
(* The signing key is on a runner only within its window, and what is      *)
(* published was verified: for every flaw, whatever step fails, runner is  *)
(* lost or download is damaged, and however often jobs are re-run and      *)
(* artifacts deleted.  What a job relies on was checked by other jobs,     *)
(* some of them in an earlier attempt: IInv carries what the key's window  *)
(* promises along the jobs that had to succeed, and CInv what each of them *)
(* settled about the release (OrderInv, for the end of signing, is about   *)
(* their order only).  FInv is what a run has in hand in which nothing     *)
(* went wrong: it is why a flawless release is refused by none of them.    *)
(* Work counts what is left to do: it is why a run comes to rest.          *)
(***************************************************************************)
EXTENDS ReleaseCustody, TLAPS

ShapeInv ==
    /\ DOMAIN result = Jobs /\ DOMAIN step = Jobs
    /\ DOMAIN got = Jobs /\ DOMAIN made = Jobs
    /\ DOMAIN output = Jobs /\ DOMAIN keyring = KeyJobs

\* A key belongs to a running job, at a step of its window.
WindowInv ==
    \A j \in KeyJobs : keyring[j] # "none" => result[j] = "running" /\ step[j] \in KeySteps

\* What preflight tells the jobs after it.
Admitted == InputsAccepted /\ flaw # "dispatch"

PreflightInv ==
    /\ result["preflight"] = "running" =>
        /\ step["preflight"] = "fetch" => flaw # "dispatch"
        /\ step["preflight"] \in {"unpublished", "upload", "end"} => Admitted
    /\ result["preflight"] = "succeeded" => Admitted
    /\ \A j \in Jobs \ {"preflight"} : result[j] # "waiting" => Admitted

\* What verify tells finalize: the report it sealed is of a site it passed.
VerifyInv ==
    /\ result["verify"] = "running" /\ step["verify"] \in {"upload", "end"} =>
        "report" \in DOMAIN made["verify"]
    /\ result["verify"] = "succeeded" =>
        "report" \in DOMAIN output["verify"] /\ output["verify"]["report"] \in verified

\* What finalize took from it, also when it has the key.
FinalizeInv ==
    /\ result["finalize"] \in {"pending", "running"} => result["verify"] = "succeeded"
    /\ result["finalize"] = "pending" => step["finalize"] = "handoff"
    /\ result["finalize"] = "running"
       /\ (step["finalize"] \in {"site", "import", "probe"} \/ keyring["finalize"] # "none") =>
        got["finalize"]["verify"]["report"] \in verified

IInv == ShapeInv /\ WindowInv /\ PreflightInv /\ VerifyInv /\ FinalizeInv

\* At j alone something happens, and nobody finishes.
OnlyAt(j) ==
    /\ \A k \in Jobs \ {j} : /\ result'[k] = result[k] /\ step'[k] = step[k]
                             /\ got'[k] = got[k] /\ made'[k] = made[k]
    /\ \A k \in KeyJobs \ {j} : keyring'[k] = keyring[k]
    /\ UNCHANGED <<flaw, output, verified>>
    /\ ShapeInv'

-----------------------------------------------------------------------------
\* Before the dispatch no job has begun.
LEMMA InitInv == Init => IInv
BY DEF Init, IInv, ShapeInv, WindowInv, PreflightInv, VerifyInv, FinalizeInv, Jobs, KeyJobs, Legs

\* A job that ends takes its key with it.
LEMMA Ended ==
    ASSUME IInv, NEW j \in Jobs, OnlyAt(j), result[j] \in {"pending", "running"},
           result'[j] \in {"failed", "succeeded"},
           result'[j] = "succeeded" => j \notin {"preflight", "verify"},
           j \in KeyJobs => keyring'[j] = "none"
    PROVE  IInv'
<1> USE DEF IInv, OnlyAt, Jobs, KeyJobs, Legs
<1>1. WindowInv'
    BY DEF WindowInv
<1>2. PreflightInv'
    BY DEF PreflightInv, Admitted, InputsAccepted
<1>3. VerifyInv'
    BY DEF VerifyInv
<1>4. FinalizeInv'
    BY DEF FinalizeInv
<1>5. QED BY <1>1, <1>2, <1>3, <1>4

\* A job that goes on keeps the invariant when its own part of it holds afterwards.
LEMMA GoesOn ==
    ASSUME IInv, NEW j \in Jobs, OnlyAt(j), result[j] = "running", result'[j] = "running",
           j \in KeyJobs => (keyring'[j] # "none" => step'[j] \in KeySteps),
           j = "preflight" =>
                /\ step'[j] = "fetch" => flaw # "dispatch"
                /\ step'[j] \in {"unpublished", "upload", "end"} => Admitted,
           j = "verify" => (step'[j] \in {"upload", "end"} => "report" \in DOMAIN made'[j]),
           j = "finalize" =>
                (step'[j] \in {"site", "import", "probe"} \/ keyring'[j] # "none"
                    => got'[j]["verify"]["report"] \in verified)
    PROVE  IInv'
<1> USE DEF IInv, OnlyAt, Jobs, KeyJobs, Legs
<1>1. WindowInv'
    BY DEF WindowInv
<1>2. PreflightInv'
    BY DEF PreflightInv, Admitted, InputsAccepted
<1>3. VerifyInv'
    BY DEF VerifyInv
<1>4. FinalizeInv'
    BY DEF FinalizeInv
<1>5. QED BY <1>1, <1>2, <1>3, <1>4

\* What is not of these variables changes nothing here.
LEMMA Untouched ==
    ASSUME IInv, UNCHANGED <<flaw, result, step, got, made, output, keyring, verified>>
    PROVE  IInv'
BY DEF IInv, ShapeInv, WindowInv, PreflightInv, VerifyInv, FinalizeInv, Admitted, InputsAccepted

-----------------------------------------------------------------------------
(* The ways a step ends. *)

\* The runner goes, whoever ends the job.
LEMMA Gone ==
    ASSUME IInv, NEW j \in Jobs, NEW res, RunnerGone(j, res), UNCHANGED <<flaw, output, verified>>
    PROVE  /\ OnlyAt(j) /\ result'[j] = res
           /\ j \in KeyJobs => keyring'[j] = "none"
BY DEF IInv, ShapeInv, OnlyAt, RunnerGone, KeyJobs

\* A step that is refused.
Refuses(j) == result[j] = "running" /\ Refuse(j) /\ UNCHANGED <<flaw, output, verified>>

\* A refused step ends the job, or leaves a key job at Destroy.
LEMMA Refused ==
    ASSUME IInv, NEW j \in Jobs, Refuses(j)
    PROVE  IInv'
<1> USE DEF Refuses
<1>1. CASE RunnerGone(j, "failed")
    <2>1. OnlyAt(j) /\ result'[j] = "failed" /\ (j \in KeyJobs => keyring'[j] = "none")
        BY <1>1, Gone
    <2>2. QED BY <2>1, Ended
<1>2. CASE j \in KeyJobs /\ step' = [step EXCEPT ![j] = "destroy"] /\ UNCHANGED <<result, runners>>
    <2>1. OnlyAt(j) /\ result'[j] = "running" /\ step'[j] = "destroy" /\ got' = got /\ keyring' = keyring
        BY <1>2 DEF IInv, ShapeInv, OnlyAt, runners
    <2>2. j = "finalize" =>
            (step'[j] \in {"site", "import", "probe"} \/ keyring'[j] # "none"
                => got'[j]["verify"]["report"] \in verified)
        BY <2>1 DEF IInv, FinalizeInv
    <2>3. QED BY <1>2, <2>1, <2>2, GoesOn DEF KeyJobs, KeySteps
<1>3. QED BY <1>1, <1>2 DEF Refuse

\* A step that passes goes to the next, which must not leave the window with a key.
Proceeds(j, s, next) ==
    /\ At(j, s) /\ step' = [step EXCEPT ![j] = next]
    /\ UNCHANGED <<result, flaw, output, verified, got, keyring>>
    /\ DOMAIN made' = DOMAIN made /\ \A k \in Jobs \ {j} : made'[k] = made[k]

\* A step that passes keeps the invariant when its next step promises no more.
LEMMA Passed ==
    ASSUME IInv, NEW j \in Jobs, NEW s, NEW next, Proceeds(j, s, next),
           j \in KeyJobs => (s \in KeySteps => next \in KeySteps),
           j = "preflight" =>
                /\ next = "fetch" => flaw # "dispatch"
                /\ next \in {"unpublished", "upload", "end"} => Admitted,
           j = "verify" => (next \in {"upload", "end"} => "report" \in DOMAIN made'[j]),
           j = "finalize" => next \notin {"site", "probe"} /\ (next = "import" => s = "site")
    PROVE  IInv'
<1>1. OnlyAt(j) /\ result[j] = "running" /\ result'[j] = "running" /\ step[j] = s /\ step'[j] = next
    BY DEF IInv, ShapeInv, OnlyAt, Proceeds, At
<1>2. j = "finalize" =>
        (step'[j] \in {"site", "import", "probe"} \/ keyring'[j] # "none"
            => got'[j]["verify"]["report"] \in verified)
    BY <1>1 DEF IInv, FinalizeInv, Proceeds
<1>3. j \in KeyJobs => (keyring'[j] # "none" => step'[j] \in KeySteps)
    BY <1>1 DEF IInv, WindowInv, Proceeds
<1>4. QED BY <1>1, <1>2, <1>3, GoesOn

-----------------------------------------------------------------------------
(* The steps that several jobs have. *)

\* What a job takes at its start is what its producers sealed.
LEMMA HandoffStep ==
    ASSUME IInv, NEW j \in Jobs, NEW next, Handoff(j, next),
           j # "preflight", next \notin {"upload", "end"}
    PROVE  IInv'
<1>1. result[j] = "running" /\ step[j] = "handoff" /\ UNCHANGED <<flaw, output, verified>>
    BY DEF Handoff, At, dispatched, github, history
<1>2. CASE Refuse(j)
    BY <1>1, <1>2, Refused DEF Refuses
<1>3. ASSUME NEW dirs,
             Delivered(j, dirs),
             got' = [got EXCEPT ![j] = [p \in Consumed[j] |-> dirs[p].files]],
             Goto(j, next), UNCHANGED <<made, keyring>>
      PROVE  IInv'
    <2>1. OnlyAt(j) /\ result'[j] = "running"
        BY <1>1, <1>3 DEF IInv, ShapeInv, OnlyAt, Goto
    <2>2. j \in KeyJobs => keyring'[j] = "none"
        BY <1>1, <1>3 DEF IInv, WindowInv, KeySteps
    <2>3. ASSUME j = "finalize" PROVE got'[j]["verify"]["report"] \in verified
        <3>1. Consumed[j] = {"verify"}
            BY <2>3 DEF Consumed, Jobs, KeyJobs, Legs
        <3>2. got'[j]["verify"] = dirs["verify"].files
            BY <1>3, <3>1 DEF IInv, ShapeInv
        <3>3. /\ dirs["verify"].sums = output["verify"]
              /\ DOMAIN dirs["verify"].files = DOMAIN dirs["verify"].sums
              /\ \A f \in DOMAIN dirs["verify"].files :
                    dirs["verify"].files[f] = dirs["verify"].sums[f]
            BY <1>3, <3>1 DEF Delivered, HandoffAccepted
        <3>4. "report" \in DOMAIN output["verify"] /\ output["verify"]["report"] \in verified
            BY <1>1, <2>3 DEF IInv, VerifyInv, FinalizeInv
        <3>5. QED BY <3>2, <3>3, <3>4
    <2>4. step'[j] = next
        BY <1>3 DEF IInv, ShapeInv, Goto
    <2>5. QED BY <1>1, <2>1, <2>2, <2>3, <2>4, GoesOn DEF Jobs, KeyJobs, Legs
<1>4. QED BY <1>2, <1>3 DEF Handoff

\* The import and the probe of the key, and its destruction.
LEMMA KeyringSteps ==
    ASSUME IInv, NEW j \in KeyJobs, NEW next,
           \/ Import(j)
           \/ Probe(j, next) /\ next \in KeySteps /\ next \notin {"import", "probe"}
           \/ Destroy(j, next) /\ next \notin {"site", "import", "probe"}
    PROVE  IInv'
<1>1. /\ result[j] = "running" /\ UNCHANGED <<flaw, output, verified>>
      /\ j \in Jobs /\ j \notin {"preflight", "verify"}
    BY DEF Import, Probe, Destroy, At, dispatched, github, history, Jobs, KeyJobs
<1> USE DEF IInv, ShapeInv, OnlyAt, At, Goto
<1>2. CASE Import(j)
    <2>1. OnlyAt(j) /\ result'[j] = "running" /\ step[j] = "import" /\ step'[j] = "probe" /\ got' = got
        BY <1>1, <1>2 DEF Import
    <2>2. j = "finalize" => got'[j]["verify"]["report"] \in verified
        BY <1>1, <2>1 DEF FinalizeInv
    <2>3. "probe" \in KeySteps
        BY DEF KeySteps
    <2>4. QED BY <1>1, <2>1, <2>2, <2>3, GoesOn
<1>3. CASE Probe(j, next) /\ next \in KeySteps /\ next \notin {"import", "probe"}
    <2>1. OnlyAt(j) /\ result'[j] = "running" /\ step[j] = "probe" /\ got' = got /\ step'[j] \in KeySteps
        BY <1>1, <1>3 DEF Probe, KeySteps
    <2>2. j = "finalize" => got'[j]["verify"]["report"] \in verified
        BY <1>1, <2>1 DEF FinalizeInv
    <2>3. QED BY <1>1, <2>1, <2>2, GoesOn
<1>4. CASE Destroy(j, next) /\ next \notin {"site", "import", "probe"}
    <2>1. CASE RunnerGone(j, "failed")
        <3>1. OnlyAt(j) /\ result'[j] = "failed" /\ keyring'[j] = "none"
            BY <1>1, <2>1, Gone
        <3>2. QED BY <1>1, <3>1, Ended
    <2>2. CASE keyring' = [keyring EXCEPT ![j] = "none"] /\ Goto(j, next) /\ UNCHANGED <<got, made>>
        <3>1. OnlyAt(j) /\ result'[j] = "running" /\ keyring'[j] = "none" /\ step'[j] = next
            BY <1>1, <2>2
        <3>2. QED BY <1>1, <1>4, <3>1, GoesOn
    <2>3. QED BY <1>4, <2>1, <2>2 DEF Destroy
<1>5. QED BY <1>2, <1>3, <1>4

\* How a job starts: every job but preflight needs one that was admitted.
LEMMA StartStep ==
    ASSUME IInv, NEW j \in Jobs, Start(j) \/ (j \in KeyJobs /\ Approve(j))
    PROVE  IInv'
<1> USE DEF IInv, ShapeInv
<1>1. CASE Start(j)
    <2>1. /\ result[j] = "waiting" /\ result'[j] \in {"pending", "running"}
          /\ \A k \in Jobs \ {j} : result'[k] = result[k] /\ step'[k] = step[k]
          /\ step'[j] = FirstStep(j)
          /\ UNCHANGED <<flaw, got, made, output, keyring, verified>>
          /\ DOMAIN result' = Jobs /\ DOMAIN step' = Jobs
        BY <1>1 DEF Start, dispatched, github, history, runners
    <2>2. j # "preflight" => \E n \in Needs[j] : n \in Jobs /\ result[n] = "succeeded"
        BY <1>1 DEF Start, Needs, Consumed, Jobs, KeyJobs, Legs
    <2>3. j # "preflight" => Admitted
        BY <2>2 DEF PreflightInv
    <2>4. j = "finalize" => result["verify"] = "succeeded"
        BY <1>1 DEF Start, Needs, Consumed, Jobs, KeyJobs, Legs
    <2>5. j = "preflight" => result'[j] = "running"
        BY <1>1 DEF Start, KeyJobs
    <2>6. step'[j] = IF j = "preflight" THEN "dispatch" ELSE "handoff"
        BY <2>1 DEF FirstStep
    <2>7. j = "finalize" => result'[j] = "pending"
        BY <1>1 DEF Start, KeyJobs
    <2>8. WindowInv'
        BY <2>1 DEF WindowInv, Jobs, KeyJobs
    <2>9. PreflightInv'
        BY <2>1, <2>3, <2>5, <2>6 DEF PreflightInv, Admitted, InputsAccepted
    <2>10. VerifyInv'
        BY <2>1, <2>6 DEF VerifyInv, Jobs
    <2>11. FinalizeInv'
        BY <2>1, <2>4, <2>6, <2>7 DEF FinalizeInv, Jobs, KeyJobs
    <2>12. QED BY <2>1, <2>8, <2>9, <2>10, <2>11
<1>2. CASE j \in KeyJobs /\ Approve(j)
    <2>1. /\ result[j] = "pending" /\ result'[j] = "running" /\ keyring[j] = "none"
          /\ \A k \in Jobs \ {j} : result'[k] = result[k]
          /\ UNCHANGED <<flaw, step, got, made, output, keyring, verified>>
          /\ DOMAIN result' = Jobs
        BY <1>2 DEF Approve, dispatched, github, history, runners, WindowInv
    <2>2. WindowInv'
        BY <1>2, <2>1 DEF WindowInv, Jobs, KeyJobs
    <2>3. PreflightInv'
        BY <1>2, <2>1 DEF PreflightInv, Admitted, InputsAccepted, KeyJobs
    <2>4. VerifyInv'
        BY <1>2, <2>1 DEF VerifyInv, Jobs, KeyJobs
    <2>5. FinalizeInv'
        BY <1>2, <2>1 DEF FinalizeInv, Jobs, KeyJobs
    <2>6. QED BY <2>1, <2>2, <2>3, <2>4, <2>5
<1>3. QED BY <1>1, <1>2

\* What a job uploads is what it made.
LEMMA UploadStep ==
    ASSUME IInv, NEW j \in Jobs, Upload(j)
    PROVE  IInv'
<1>1. \/ Refuses(j)
      \/ Proceeds(j, "upload", "end") /\ made' = made
    BY DEF Upload, Refuses, Proceeds, At, Goto, dispatched, history, runners
<1>2. /\ j = "preflight" => (At(j, "upload") => Admitted)
      /\ j = "verify" => (At(j, "upload") => "report" \in DOMAIN made[j])
    BY DEF IInv, PreflightInv, VerifyInv, At
<1>3. CASE Refuses(j)
    BY <1>3, Refused
<1>4. CASE Proceeds(j, "upload", "end") /\ made' = made
    BY <1>2, <1>4, Passed DEF KeySteps, Proceeds
<1>5. QED BY <1>1, <1>3, <1>4

\* The digest that a job leaves when it succeeds.
LEMMA FinishStep ==
    ASSUME IInv, NEW j \in Jobs, Finish(j)
    PROVE  IInv'
<1>1. /\ result[j] = "running" /\ step[j] = "end" /\ flaw' = flaw
      /\ output' = [output EXCEPT ![j] = made[j]]
      /\ verified' = IF j = "verify" THEN verified \cup {made[j]["report"]} ELSE verified
    BY DEF Finish, At, Digest, dispatched
<1>2. /\ ShapeInv' /\ result' = [result EXCEPT ![j] = "succeeded"]
      /\ step' = [step EXCEPT ![j] = "end"]
      /\ \A k \in Jobs \ {j} : got'[k] = got[k] /\ made'[k] = made[k]
      /\ \A k \in KeyJobs : keyring'[k] = IF k = j THEN "none" ELSE keyring[k]
    BY <1>1 DEF Finish, RunnerGone, IInv, ShapeInv
<1> USE DEF IInv, ShapeInv, Jobs, KeyJobs, Legs
<1>3. WindowInv'
    BY <1>2 DEF WindowInv
<1>4. PreflightInv'
    BY <1>1, <1>2 DEF PreflightInv, Admitted, InputsAccepted
<1>5. VerifyInv'
    BY <1>1, <1>2 DEF VerifyInv
<1>6. FinalizeInv'
    BY <1>1, <1>2 DEF FinalizeInv
<1>7. QED BY <1>2, <1>3, <1>4, <1>5, <1>6

\* A rejected or a lost job.
LEMMA LostStep ==
    ASSUME IInv, NEW j \in Jobs, RunnerLost(j) \/ Reject(j)
    PROVE  IInv'
<1>1. /\ result[j] \in {"pending", "running"} /\ RunnerGone(j, "failed")
      /\ UNCHANGED <<flaw, output, verified>>
    BY DEF RunnerLost, Reject, dispatched, github, history
<1>2. OnlyAt(j) /\ result'[j] = "failed" /\ (j \in KeyJobs => keyring'[j] = "none")
    BY <1>1, Gone
<1>3. QED BY <1>1, <1>2, Ended

\* People re-run jobs when nothing runs.
LEMMA ResetStep ==
    ASSUME IInv, NEW again, Reset(again)
    PROVE  IInv'
<1>1. /\ \A j \in Jobs : result[j] \notin {"pending", "running"}
      /\ result' = [j \in Jobs |-> IF j \in again THEN "waiting" ELSE result[j]]
      /\ UNCHANGED <<flaw, step, got, made, output, keyring, verified>>
    BY DEF Reset, Resting, dispatched, github, runners
<1> USE DEF IInv, ShapeInv, Jobs, KeyJobs, Legs
<1>2. WindowInv'
    BY <1>1 DEF WindowInv
<1>3. PreflightInv'
    BY <1>1 DEF PreflightInv, Admitted, InputsAccepted
<1>4. VerifyInv'
    BY <1>1 DEF VerifyInv
<1>5. FinalizeInv'
    BY <1>1 DEF FinalizeInv
<1>6. QED BY <1>1, <1>2, <1>3, <1>4, <1>5

-----------------------------------------------------------------------------
(* The jobs.  Check and Make either refuse or proceed. *)


\* Each step of preflight leaves what the next ones may rely on.
LEMMA PreflightSteps == IInv /\ Preflight => IInv'
<1> SUFFICES ASSUME IInv, Preflight PROVE IInv'
    OBVIOUS
<1> USE DEF At, Goto, dispatched, github, history, runners, Proceeds, Refuses, Check, Make
<1>1. CASE DispatchCheck
    <2>1. \/ Refuses("preflight")
          \/ flaw # "dispatch" /\ Proceeds("preflight", "dispatch", "fetch")
        BY <1>1 DEF DispatchCheck
    <2>2. QED BY <2>1, Refused, Passed DEF Jobs, KeyJobs
<1>2. CASE FetchCheck
    <2>1. \/ Refuses("preflight")
          \/ InputsAccepted /\ Proceeds("preflight", "fetch", "unpublished")
        BY <1>2 DEF FetchCheck, IInv, ShapeInv
    <2>2. At("preflight", "fetch") => flaw # "dispatch"
        BY DEF IInv, PreflightInv
    <2>3. QED BY <2>1, <2>2, Refused, Passed DEF Jobs, KeyJobs, Admitted
<1>3. CASE CheckUnpublished
    <2>1. \/ Refuses("preflight")
          \/ Proceeds("preflight", "unpublished", "upload")
        BY <1>3 DEF CheckUnpublished
    <2>2. At("preflight", "unpublished") => Admitted
        BY DEF IInv, PreflightInv
    <2>3. QED BY <2>1, <2>2, Refused, Passed DEF Jobs, KeyJobs
<1>4. QED BY <1>1, <1>2, <1>3 DEF Preflight

\* sign keeps its key within the window.
LEMMA SignSteps == IInv /\ Sign => IInv'
<1> SUFFICES ASSUME IInv, Sign PROVE IInv'
    OBVIOUS
<1> USE DEF At, Goto, dispatched, github, history, runners, outcome, Proceeds, Refuses, Check, Make
<1>1. CASE Handoff("sign", "inputs")
    BY <1>1, HandoffStep DEF Jobs, KeyJobs
<1>2. CASE CheckInputs
    <2>1. \/ Refuses("sign")
          \/ Proceeds("sign", "inputs", "import")
        BY <1>2 DEF CheckInputs
    <2>2. QED BY <2>1, Refused, Passed DEF Jobs, KeyJobs, KeySteps
<1>3. CASE Import("sign") \/ Probe("sign", "packages") \/ Destroy("sign", "gates")
    BY <1>3, KeyringSteps DEF KeyJobs, KeySteps
<1>4. CASE SignPackages
    <2>1. \/ Refuses("sign")
          \/ Proceeds("sign", "packages", "profile")
        BY <1>4 DEF SignPackages, IInv, ShapeInv
    <2>2. QED BY <2>1, Refused, Passed DEF Jobs, KeyJobs, KeySteps
<1>5. CASE BindProfile
    <2>1. \/ Refuses("sign")
          \/ Proceeds("sign", "profile", "repodata")
        BY <1>5 DEF BindProfile, IInv, ShapeInv
    <2>2. QED BY <2>1, Refused, Passed DEF Jobs, KeyJobs, KeySteps
<1>6. CASE SignRepodata
    <2>1. Proceeds("sign", "repodata", "assemble")
        BY <1>6 DEF SignRepodata, IInv, ShapeInv
    <2>2. QED BY <2>1, Passed DEF Jobs, KeyJobs, KeySteps
<1>7. CASE Assemble
    <2>1. \/ Refuses("sign")
          \/ Proceeds("sign", "assemble", "destroy")
        BY <1>7 DEF Assemble, IInv, ShapeInv
    <2>2. QED BY <2>1, Refused, Passed DEF Jobs, KeyJobs, KeySteps
<1>8. CASE SignGates
    <2>1. \/ Refuses("sign")
          \/ Proceeds("sign", "gates", "upload")
        BY <1>8 DEF SignGates
    <2>2. "gates" \notin KeySteps
        BY DEF KeySteps
    <2>3. QED BY <2>1, <2>2, Refused, Passed DEF Jobs, KeyJobs
<1>9. QED BY <1>1, <1>2, <1>3, <1>4, <1>5, <1>6, <1>7, <1>8 DEF Sign

\* The legs have no key, and nobody relies on their steps here.
LEMMA InstallerSteps ==
    ASSUME IInv, NEW j \in Legs, Installer(j)
    PROVE  IInv'
<1>1. j \in Jobs /\ j \notin KeyJobs \cup {"preflight", "verify", "finalize"}
    BY DEF Legs, Jobs, KeyJobs
<1> USE DEF At, Goto, dispatched, github, history, runners, Proceeds, Refuses, Check, Make
<1>2. CASE Handoff(j, "gates")
    BY <1>1, <1>2, HandoffStep
<1>3. CASE LegGates(j)
    <2>1. \/ Refuses(j)
          \/ Proceeds(j, "gates", "build")
        BY <1>3 DEF LegGates
    <2>2. QED BY <1>1, <2>1, Refused, Passed
<1>4. CASE Build(j)
    <2>1. \/ Refuses(j)
          \/ Proceeds(j, "build", "upload")
        BY <1>1, <1>4 DEF Build, IInv, ShapeInv
    <2>2. QED BY <1>1, <2>1, Refused, Passed
<1>5. QED BY <1>2, <1>3, <1>4 DEF Installer

\* verify reports only after everything passed.
LEMMA VerifySteps == IInv /\ Verify => IInv'
<1> SUFFICES ASSUME IInv, Verify PROVE IInv'
    OBVIOUS
<1> USE DEF At, Goto, dispatched, github, history, runners, Proceeds, Refuses, Check, Make
<1>1. CASE Handoff("verify", "compose")
    BY <1>1, HandoffStep DEF Jobs
<1>2. CASE Compose
    <2>1. \/ Refuses("verify")
          \/ Proceeds("verify", "compose", "budget")
        BY <1>2 DEF Compose, IInv, ShapeInv
    <2>2. QED BY <2>1, Refused, Passed DEF Jobs, KeyJobs
<1>3. CASE CheckUnsigned \/ ServePrimary \/ ServeCorrupted
    <2>1. \/ Refuses("verify")
          \/ Proceeds("verify", "budget", "primary")
          \/ Proceeds("verify", "primary", "corrupted")
          \/ Proceeds("verify", "corrupted", "dnf")
        BY <1>3 DEF CheckUnsigned, ServePrimary, ServeCorrupted
    <2>2. QED BY <2>1, Refused, Passed DEF Jobs, KeyJobs
<1>4. CASE ServeDnf
    <2>1. \/ Refuses("verify")
          \/ \E files : /\ At("verify", "dnf") /\ Goto("verify", "upload")
                        /\ UNCHANGED <<flaw, output, verified, got, keyring>>
                        /\ made' = [made EXCEPT !["verify"] = files]
                        /\ DOMAIN files = DOMAIN made["verify"] \cup {"report"}
        BY <1>4 DEF ServeDnf
    <2>2. \/ Refuses("verify")
          \/ Proceeds("verify", "dnf", "upload") /\ "report" \in DOMAIN made'["verify"]
        BY <2>1 DEF IInv, ShapeInv, Jobs
    <2>3. QED BY <2>2, Refused, Passed DEF Jobs, KeyJobs
<1>5. QED BY <1>1, <1>2, <1>3, <1>4 DEF Verify

\* One detached signature: with the key, or left to Destroy.
LEMMA SignFileStep ==
    ASSUME IInv, NEW name \in KeySteps, NEW data, NEW pass, NEW next \in KeySteps,
           next \notin {"import", "probe"}, SignFile(name, data, pass, next)
    PROVE  IInv'
<1>1. \/ Proceeds("finalize", name, next)
      \/ Proceeds("finalize", name, "destroy")
    BY DEF SignFile, Unsign, IInv, ShapeInv, At, Goto, Proceeds, dispatched, github, history
<1>2. QED BY <1>1, Passed DEF Jobs, KeyJobs, KeySteps

\* finalize keeps its key within the window, and what it took from verify.
LEMMA FinalizeSteps == IInv /\ Finalize => IInv'
<1> SUFFICES ASSUME IInv, Finalize PROVE IInv'
    OBVIOUS
<1> USE DEF At, Goto, dispatched, github, history, runners, Proceeds, Refuses, Check, Make
<1>1. CASE Handoff("finalize", "site")
    BY <1>1, HandoffStep DEF Jobs, KeyJobs
<1>2. CASE CheckWithoutKey
    <2>1. \/ Refuses("finalize")
          \/ Proceeds("finalize", "site", "import")
        BY <1>2 DEF CheckWithoutKey, IInv, ShapeInv
    <2>2. QED BY <2>1, Refused, Passed DEF Jobs, KeyJobs, KeySteps
<1>3. CASE Import("finalize") \/ Probe("finalize", "binary.asc") \/ Destroy("finalize", "signed")
    BY <1>3, KeyringSteps DEF KeyJobs, KeySteps
<1>4. CASE SignBinary
    <2>1. \/ Refuses("finalize")
          \/ SignFile("binary.asc", made["finalize"]["binary"], serial + 1, "install.sh.asc")
        BY <1>4 DEF SignBinary
    <2>2. QED BY <2>1, Refused, SignFileStep DEF Jobs, KeyJobs, KeySteps
<1>5. CASE SignScript \/ SignSums
    <2> HIDE DEF At, Goto, Proceeds
    <2>1. QED BY <1>5, SignFileStep DEF SignScript, SignSums, KeySteps
<1>6. CASE WriteSums
    <2>1. Proceeds("finalize", "SHA256SUMS", "SHA256SUMS.asc")
        BY <1>6 DEF WriteSums, IInv, ShapeInv
    <2>2. QED BY <2>1, Passed DEF Jobs, KeyJobs, KeySteps
<1>7. CASE CheckSigned
    <2>1. \/ Refuses("finalize")
          \/ Proceeds("finalize", "signed", "archive")
        BY <1>7 DEF CheckSigned
    <2>2. "signed" \notin KeySteps
        BY DEF KeySteps
    <2>3. QED BY <2>1, <2>2, Refused, Passed DEF Jobs, KeyJobs
<1>8. CASE ArchiveSite
    <2>1. \/ Refuses("finalize")
          \/ Proceeds("finalize", "archive", "upload")
        BY <1>8 DEF ArchiveSite, IInv, ShapeInv
    <2>2. "archive" \notin KeySteps
        BY DEF KeySteps
    <2>3. QED BY <2>1, <2>2, Refused, Passed DEF Jobs, KeyJobs
<1>9. QED BY <1>1, <1>2, <1>3, <1>4, <1>5, <1>6, <1>7, <1>8 DEF Finalize

\* attest and publish-release end without a key.
LEMMA DeliverSteps == IInv /\ Deliver => IInv'
<1> SUFFICES ASSUME IInv, Deliver PROVE IInv'
    OBVIOUS
<1> USE DEF At, dispatched, github, history
<1>1. CASE Handoff("attest", "attest") \/ Handoff("publish-release", "publish")
    BY <1>1, HandoffStep DEF Jobs
<1>2. CASE Attest
    <2>1. /\ result["attest"] = "running" /\ RunnerGone("attest", "succeeded")
          /\ UNCHANGED <<flaw, output, verified>>
        BY <1>2 DEF Attest
    <2>2. QED BY <2>1, Gone, Ended DEF Jobs, KeyJobs
<1>3. CASE Publish
    <2>1. /\ result["publish-release"] = "running"
          /\ Refuse("publish-release") \/ RunnerGone("publish-release", "succeeded")
          /\ UNCHANGED <<flaw, output, verified>>
        BY <1>3 DEF Publish
    <2>2. CASE RunnerGone("publish-release", "succeeded")
        BY <2>1, <2>2, Gone, Ended DEF Jobs, KeyJobs
    <2>3. CASE Refuse("publish-release")
        BY <2>1, <2>3, Refused DEF Jobs, Refuses
    <2>4. QED BY <2>1, <2>2, <2>3
<1>4. QED BY <1>1, <1>2, <1>3 DEF Deliver

\* Failures, and what people do at rest.
LEMMA EnvironmentSteps == IInv /\ Environment => IInv'
<1> SUFFICES ASSUME IInv, Environment PROVE IInv'
    OBVIOUS
<1>1. ASSUME NEW j \in Jobs, StepDies(j) PROVE IInv'
    BY <1>1, Refused DEF StepDies, Refuses, dispatched, github, history
<1>2. ASSUME NEW j \in Jobs, RunnerLost(j) PROVE IInv'
    BY <1>2, LostStep
<1>3. ASSUME NEW j \in Jobs, RerunFrom(j) PROVE IInv'
    BY <1>3, ResetStep DEF RerunFrom
<1>4. ASSUME NEW j \in Jobs, DeleteArtifact(j) PROVE IInv'
    BY <1>4, Untouched DEF DeleteArtifact, dispatched, runners, jobs, history
<1>5. CASE RerunFailed
    BY <1>5, ResetStep DEF RerunFailed
<1>6. QED BY <1>1, <1>2, <1>3, <1>4, <1>5 DEF Environment

-----------------------------------------------------------------------------
\* Every step keeps the invariant.
LEMMA StepInv == IInv /\ [Next]_vars => IInv'
<1> SUFFICES ASSUME IInv, [Next]_vars PROVE IInv'
    OBVIOUS
<1>1. CASE Workflow
    <2>1. ASSUME NEW j \in Jobs, Start(j) \/ Upload(j) \/ Finish(j) PROVE IInv'
        BY <2>1, StartStep, UploadStep, FinishStep
    <2>2. ASSUME NEW j \in KeyJobs, Approve(j) \/ Reject(j) PROVE IInv'
        <3>1. j \in Jobs
            BY DEF Jobs
        <3>2. QED BY <2>2, <3>1, StartStep, LostStep
    <2>3. ASSUME NEW j \in Legs, Installer(j) PROVE IInv'
        BY <2>3, InstallerSteps
    <2>4. QED BY <1>1, <2>1, <2>2, <2>3, PreflightSteps, SignSteps, VerifySteps,
                 FinalizeSteps, DeliverSteps DEF Workflow
<1>2. CASE Environment
    BY <1>2, EnvironmentSteps
<1>3. CASE Settled \/ UNCHANGED vars
    <2>1. UNCHANGED vars
        BY <1>3 DEF Settled
    <2>2. QED BY <2>1, Untouched DEF vars, dispatched, runners, jobs, github, history
<1>4. QED BY <1>1, <1>2, <1>3 DEF Next

\* The signing key is on a runner only between the import and the destroy step of a
\* running key job, for inputs and a site that passed without it: whatever the flaw,
\* the sizes, and the failures, damage, re-runs and deletions, without a bound.
THEOREM KeyStaysInWindow == Spec => []KeyOnlyInWindow
<1>1. Spec => []IInv
    BY InitInv, StepInv, PTL DEF Spec
<1>2. IInv => KeyOnlyInWindow
    <2> SUFFICES ASSUME IInv, NEW j \in KeyJobs, keyring[j] # "none"
                 PROVE  /\ result[j] = "running" /\ step[j] \in KeySteps
                        /\ InputsAccepted /\ flaw # "dispatch"
                        /\ j = "finalize" => got[j]["verify"]["report"] \in verified
        BY DEF KeyOnlyInWindow
    <2>1. result[j] = "running" /\ step[j] \in KeySteps
        BY DEF IInv, WindowInv
    <2>2. InputsAccepted /\ flaw # "dispatch"
        BY <2>1 DEF IInv, PreflightInv, Admitted, Jobs, KeyJobs
    <2>3. j = "finalize" => got[j]["verify"]["report"] \in verified
        BY <2>1 DEF IInv, FinalizeInv
    <2>4. QED BY <2>1, <2>2, <2>3
<1>3. QED BY <1>1, <1>2, PTL

-----------------------------------------------------------------------------
(* After attest nothing is signed: what a job needed has succeeded as long  *)
(* as nobody re-runs what had.                                              *)

OrderInv ==
    /\ DOMAIN result = Jobs
    /\ ~ bypass =>
        /\ \A j \in Jobs : result[j] # "waiting" => \A n \in Needs[j] : result[n] = "succeeded"
        /\ attested # {} => result["attest"] = "succeeded"

\* A job that runs or waits for its reviewer goes on or ends; no other does.
Moves(j) ==
    /\ result[j] \in {"pending", "running"} /\ bypass' = bypass
    /\ \/ result' = result
       \/ \E r \in {"pending", "running", "failed", "succeeded"} : result' = [result EXCEPT ![j] = r]

\* What it may do to the signatures and attestations of the run.
Signs(j) ==
    /\ serial' # serial => j \in KeyJobs
    /\ attested' # attested => j = "attest" /\ result' = [result EXCEPT ![j] = "succeeded"]

\* Every step of a job is one of these moves.
LEMMA WorkflowMoves ==
    ASSUME Workflow
    PROVE  \E j \in Jobs : \/ Start(j)
                           \/ Moves(j) /\ Signs(j)
<1> USE DEF Moves, Signs, At, Goto, Refuse, RunnerGone, Check, Make, runners, jobs, outcome, history
<1>1. ASSUME NEW j \in Jobs, Upload(j) \/ Finish(j) PROVE Moves(j) /\ Signs(j)
    BY <1>1 DEF Upload, Finish
<1>2. ASSUME NEW j \in KeyJobs, Approve(j) \/ Reject(j) PROVE Moves(j) /\ Signs(j)
    BY <1>2 DEF Approve, Reject
<1>3. ASSUME NEW j, NEW next, Handoff(j, next) PROVE Moves(j) /\ Signs(j)
    <2>1. result[j] = "running" /\ UNCHANGED <<serial, attested, bypass>>
        BY <1>3 DEF Handoff
    <2>2. Goto(j, next) \/ Refuse(j)
        BY <1>3 DEF Handoff
    <2>3. QED BY <2>1, <2>2
<1>4. ASSUME NEW j \in KeyJobs, NEW next, Import(j) \/ Probe(j, next) \/ Destroy(j, next)
      PROVE  Moves(j) /\ Signs(j)
    BY <1>4 DEF Import, Probe, Destroy
<1>5. ASSUME Preflight PROVE Moves("preflight") /\ Signs("preflight")
    BY <1>5 DEF Preflight, DispatchCheck, FetchCheck, CheckUnpublished
<1>6. ASSUME Sign PROVE Moves("sign") /\ Signs("sign")
    <2>1. CASE SignPackages
        BY <2>1 DEF SignPackages, KeyJobs
    <2>2. CASE CheckInputs \/ BindProfile \/ SignRepodata \/ Assemble \/ SignGates
        BY <2>2 DEF CheckInputs, BindProfile, SignRepodata, Assemble, SignGates
    <2>3. QED BY <1>3, <1>4, <1>6, <2>1, <2>2 DEF Sign, KeyJobs
<1>7. ASSUME NEW j \in Legs, Installer(j) PROVE Moves(j) /\ Signs(j)
    <2>1. CASE LegGates(j) \/ Build(j)
        BY <2>1 DEF LegGates, Build
    <2>2. QED BY <1>3, <1>7, <2>1 DEF Installer
<1>8. ASSUME Verify PROVE Moves("verify") /\ Signs("verify")
    <2>1. CASE Compose \/ CheckUnsigned \/ ServePrimary \/ ServeCorrupted \/ ServeDnf
        BY <2>1 DEF Compose, CheckUnsigned, ServePrimary, ServeCorrupted, ServeDnf
    <2>2. QED BY <1>3, <1>8, <2>1 DEF Verify
<1>9. ASSUME Finalize PROVE Moves("finalize") /\ Signs("finalize")
    <2>1. ASSUME NEW name, NEW data, NEW pass, NEW next, SignFile(name, data, pass, next)
          PROVE  Moves("finalize") /\ Signs("finalize")
        BY <2>1 DEF SignFile, Unsign, KeyJobs
    <2>2. CASE SignBinary \/ SignScript \/ SignSums
        BY <2>1, <2>2 DEF SignBinary, SignScript, SignSums
    <2>3. CASE CheckWithoutKey \/ WriteSums \/ CheckSigned \/ ArchiveSite
        BY <2>3 DEF CheckWithoutKey, WriteSums, CheckSigned, ArchiveSite
    <2>4. QED BY <1>3, <1>4, <1>9, <2>2, <2>3 DEF Finalize, KeyJobs
<1>10. ASSUME Deliver PROVE \E j \in Jobs : Moves(j) /\ Signs(j)
    <2>1. CASE Handoff("attest", "attest") \/ Attest
        BY <1>3, <2>1 DEF Attest, Jobs
    <2>2. CASE Handoff("publish-release", "publish") \/ Publish
        BY <1>3, <2>2 DEF Publish, Jobs
    <2>3. QED BY <1>10, <2>1, <2>2 DEF Deliver
<1> HIDE DEF Moves, Signs
<1>11. {"preflight", "verify"} \cup KeyJobs \cup Legs \subseteq Jobs /\ {"sign", "finalize"} = KeyJobs
    BY DEF Jobs, KeyJobs
<1>12. QED BY <1>1, <1>2, <1>5, <1>6, <1>7, <1>8, <1>9, <1>10, <1>11 DEF Workflow

\* A job needs other jobs.
LEMMA NeedsAreJobs == \A j \in Jobs : Needs[j] \subseteq Jobs
BY DEF Needs, Consumed, Jobs, KeyJobs, Legs

\* The order is kept by whatever jobs and people do.
LEMMA OrderKept == OrderInv /\ [Next]_vars => OrderInv'
<1> SUFFICES ASSUME OrderInv, [Next]_vars PROVE OrderInv'
    OBVIOUS
<1> USE DEF OrderInv
<1>1. ASSUME NEW j \in Jobs, Moves(j),
             \/ attested' = attested
             \/ j = "attest" /\ result' = [result EXCEPT ![j] = "succeeded"]
      PROVE  OrderInv'
    <2>1. /\ DOMAIN result' = Jobs /\ bypass' = bypass
          /\ \A k \in Jobs : result[k] = "succeeded" => result'[k] = "succeeded"
          /\ \A k \in Jobs : result'[k] # "waiting" => result[k] # "waiting"
        BY <1>1 DEF Moves
    <2>2. ~ bypass /\ attested' # {} => result'["attest"] = "succeeded"
        BY <1>1, <2>1 DEF Jobs
    <2>3. QED BY <2>1, <2>2, NeedsAreJobs
<1>2. ASSUME NEW j \in Jobs, Start(j) PROVE OrderInv'
    <2>1. /\ DOMAIN result' = Jobs /\ UNCHANGED <<bypass, attested>>
          /\ \A k \in Jobs : result[k] = "succeeded" => result'[k] = "succeeded"
          /\ \A k \in Jobs \ {j} : result'[k] = result[k]
          /\ \A n \in Needs[j] : result[n] = "succeeded"
        BY <1>2 DEF Start, outcome, history
    <2>2. QED BY <2>1, NeedsAreJobs DEF Jobs
<1>3. ASSUME NEW again, Reset(again) PROVE OrderInv'
    <2>1. /\ attested' = attested /\ DOMAIN result' = Jobs
          /\ \A k \in Jobs : result'[k] = IF k \in again THEN "waiting" ELSE result[k]
        BY <1>3 DEF Reset, outcome
    <2>2. ~ bypass' => ~ bypass /\ \A k \in again : result[k] # "succeeded"
        BY <1>3 DEF Reset
    <2>3. ~ bypass' => \A k \in Jobs : result[k] = "succeeded" => result'[k] = "succeeded"
        BY <2>1, <2>2
    <2>4. QED BY <2>1, <2>2, <2>3, NeedsAreJobs DEF Jobs
<1>4. CASE Workflow
    <2> HIDE DEF OrderInv
    <2>1. PICK j \in Jobs : Start(j) \/ (Moves(j) /\ Signs(j))
        BY <1>4, WorkflowMoves
    <2>2. CASE Start(j)
        BY <1>2, <2>2
    <2>3. CASE Moves(j) /\ Signs(j)
        BY <1>1, <2>3 DEF Signs
    <2>4. QED BY <2>1, <2>2, <2>3
<1>5. CASE Environment
    <2>1. ASSUME NEW j \in Jobs, StepDies(j) \/ RunnerLost(j) PROVE OrderInv'
        <3>1. Moves(j) /\ attested' = attested
            BY <2>1 DEF StepDies, RunnerLost, Moves, Refuse, RunnerGone, outcome, history
        <3>2. QED BY <1>1, <3>1
    <2>2. ASSUME NEW j \in Jobs, DeleteArtifact(j) PROVE OrderInv'
        BY <2>2 DEF DeleteArtifact, jobs, outcome, history
    <2> HIDE DEF OrderInv
    <2>3. QED BY <1>3, <1>5, <2>1, <2>2 DEF Environment, RerunFailed, RerunFrom
<1>6. CASE Settled \/ UNCHANGED vars
    BY <1>6 DEF Settled, vars, jobs, outcome, history
<1>7. QED BY <1>4, <1>5, <1>6 DEF Next

\* Nothing is signed again once a publication is attested, unless someone re-runs a
\* job that had succeeded: however jobs fail and failed ones are re-run.
THEOREM SigningEnds == Spec => NothingSignedAfterAttest
<1>1. Init => OrderInv
    BY DEF Init, OrderInv
<1>2. OrderInv /\ [Next]_vars => [attested # {} /\ ~ bypass => serial' = serial]_vars
    <2> SUFFICES ASSUME OrderInv, Next, attested # {}, ~ bypass PROVE serial' = serial
        BY DEF vars
    <2>1. result["attest"] = "succeeded" /\ result["finalize"] = "succeeded"
        BY DEF OrderInv, Needs, Consumed, Jobs, KeyJobs, Legs
    <2>2. result["verify"] = "succeeded"
        BY <2>1 DEF OrderInv, Needs, Consumed, Jobs, KeyJobs, Legs
    <2>3. result["sign"] = "succeeded"
        BY <2>2 DEF OrderInv, Needs, Consumed, Jobs, KeyJobs, Legs
    <2>4. ASSUME NEW j \in Jobs, Moves(j) /\ Signs(j) PROVE serial' = serial
        BY <2>1, <2>3, <2>4 DEF Moves, Signs, KeyJobs
    <2>5. CASE Workflow
        BY <2>4, <2>5, WorkflowMoves DEF Start
    <2>6. CASE Environment
        BY <2>6 DEF Environment, StepDies, RunnerLost, RerunFrom, RerunFailed, Reset, DeleteArtifact
    <2>7. CASE Settled
        BY <2>7 DEF Settled, vars
    <2>8. QED BY <2>5, <2>6, <2>7 DEF Next
<1>3. QED BY <1>1, <1>2, OrderKept, PTL DEF Spec, NothingSignedAfterAttest

-----------------------------------------------------------------------------
(* What is published was verified.  A job that has succeeded settled one    *)
(* part of it (Done), a running one some of that part (Held); the order    *)
(* of the jobs, which re-runs respect, puts the parts together.             *)

\* What a job needs has succeeded as long as it is not waiting itself.
ChainInv ==
    \A j \in Jobs : result[j] # "waiting" => \A n \in Needs[j] : result[n] = "succeeded"

\* The flaws that job j would have refused on its way to step s.
SignRuledOut(s) ==
    LET rest == {"destroy", "gates", "upload", "end"}
    IN  /\ s \in rest \cup {"packages", "profile", "repodata", "assemble"} => flaw # "key"
        /\ s \in rest \cup {"profile", "repodata", "assemble"} => flaw # "package"
        /\ s \in rest \cup {"repodata", "assemble"} => flaw # "binding"
        /\ s \in rest => flaw # "evidence"
VerifyRuledOut(s) ==
    /\ s \in {"budget", "primary", "corrupted", "dnf", "upload", "end"} => flaw \notin {"notes", "drift"}
    /\ s \in {"corrupted", "dnf", "upload", "end"} => flaw # "install"
    /\ s \in {"dnf", "upload", "end"} => flaw # "lax"
    /\ s \in {"upload", "end"} => flaw # "repository"
RuledOut(j, s) ==
    /\ j = "sign" => SignRuledOut(s)
    /\ j \in Legs /\ s \in {"upload", "end"} => flaw # "literals"
    /\ j = "verify" => VerifyRuledOut(s)

\* A leg's files: the build that shows drift is leg b's.
OfLeg(files, j) ==
    /\ "binary" \in DOMAIN files
    /\ files["binary"].build = IF flaw = "drift" /\ j = "installer-b" THEN 1 ELSE 0

\* What may be released: a site that verify passed, with its signatures, in its budget.
Releasable(files) ==
    LET site == files["site.tar"] IN
        /\ files = Publication(site)
        /\ DOMAIN site = SiteFiles /\ SignaturesVerify(site)
        /\ Only(site, UnsignedFiles) \in verified
        /\ site["binary"].tree = Metadata(site["tree"])
        /\ SiteBytes(site) <= Budget

\* What a job stands on at step s.
Held(j, s) ==
    /\ RuledOut(j, s)
    /\ j \in Legs /\ s \in {"upload", "end"} => OfLeg(made[j], j)
    /\ j = "verify" /\ s = "compose" => \A l \in Legs : got[j][l] = output[l]
    /\ j = "finalize" /\ s # "handoff" => got[j]["verify"]["report"] \in verified
    /\ j = "finalize" /\ s = "archive" => SiteBytes(made[j]) <= Budget
    /\ j = "finalize" /\ s \in {"upload", "end"} => Releasable(made[j])
    /\ j = "attest" => s \in {"handoff", "attest"}
    /\ j = "publish-release" => s \in {"handoff", "publish"}
    /\ j \in {"attest", "publish-release"} /\ s # "handoff" =>
           got[j]["finalize"] = output["finalize"]

\* What it has settled for the jobs that need it.
Done(j) ==
    /\ RuledOut(j, "end")
    /\ j \in Legs => OfLeg(output[j], j)
    /\ j = "finalize" => Releasable(output[j])
    /\ j = "attest" => output["finalize"] \in attested

JobInv(j) ==
    /\ result[j] = "pending" => step[j] = "handoff"
    /\ result[j] = "running" /\ ~ (step[j] = "destroy" /\ doomed[j]) => Held(j, step[j])
    /\ result[j] = "succeeded" => Done(j)

ReleasedInv ==
    published # None => Releasable(published) /\ published \in attested /\ flaw = None

CInv ==
    /\ DOMAIN doomed = Jobs /\ flaw \in Flaws \cup {None}
    /\ ChainInv /\ (\A j \in Jobs : JobInv(j)) /\ ReleasedInv

\* At j alone something happens, and nobody finishes.
Frame(j) ==
    /\ \A k \in Jobs \ {j} : /\ result'[k] = result[k] /\ step'[k] = step[k] /\ doomed'[k] = doomed[k]
                             /\ got'[k] = got[k] /\ made'[k] = made[k]
    /\ DOMAIN result' = Jobs /\ DOMAIN doomed' = Jobs
    /\ UNCHANGED <<flaw, size, output, verified>> /\ attested \subseteq attested'

\* The job of j fails, or only its Destroy step is left.
Quiet(j) ==
    /\ Frame(j) /\ result[j] \in {"pending", "running"} /\ UNCHANGED <<attested, published>>
    /\ \/ result'[j] = "failed"
       \/ result'[j] = "running" /\ step'[j] = "destroy" /\ doomed'[j]

\* Step s of j passes.
Passes(j, s, next) ==
    /\ Frame(j) /\ At(j, s) /\ result'[j] = "running" /\ step'[j] = next
    /\ UNCHANGED <<attested, published>>
    /\ s = "destroy" => ~ doomed[j]

-----------------------------------------------------------------------------
\* Before the dispatch nothing has been settled.
LEMMA InitChain == Init => CInv
BY DEF Init, CInv, ChainInv, JobInv, ReleasedInv

\* What may be released stays so while more sites are verified.
LEMMA StaysReleasable ==
    ASSUME NEW files, size' = size, verified \subseteq verified', Releasable(files)
    PROVE  Releasable(files)'
BY DEF Releasable, SiteBytes, SignatureBytes

\* Another job's part does not change by what happens at j.
LEMMA OthersStand ==
    ASSUME CInv, NEW j \in Jobs, Frame(j), NEW k \in Jobs \ {j}
    PROVE  JobInv(k)'
<1>1. JobInv(k)
    BY DEF CInv
<1>2. \A files : Releasable(files) => Releasable(files)'
    BY StaysReleasable DEF Frame
<1>3. \A files : SiteBytes(files)' = SiteBytes(files)
    BY DEF Frame, SiteBytes, SignatureBytes
<1>4. \A s : RuledOut(k, s)' = RuledOut(k, s)
    BY DEF Frame, RuledOut, SignRuledOut, VerifyRuledOut
<1>5. \A files : OfLeg(files, k)' = OfLeg(files, k)
    BY DEF Frame, OfLeg
<1>6. ASSUME NEW s, Held(k, s) PROVE Held(k, s)'
    BY <1>2, <1>3, <1>4, <1>5, <1>6 DEF Frame, Held
<1>7. Done(k) => Done(k)'
    BY <1>2, <1>4, <1>5 DEF Frame, Done
<1>8. QED BY <1>1, <1>6, <1>7 DEF JobInv, Frame

\* While j runs, nobody that needs it has begun: the order of the jobs is kept.
LEMMA ChainKept ==
    ASSUME CInv, NEW j \in Jobs, Frame(j), result[j] \in {"pending", "running"},
           result'[j] # "waiting"
    PROVE  ChainInv'
<1>1. \A k \in Jobs : \A n \in Needs[k] : n \in Jobs
    BY NeedsAreJobs
<1>2. \A k \in Jobs : j \in Needs[k] => result[k] = "waiting" /\ k # j
    BY DEF CInv, ChainInv
<1>3. \A k \in Jobs : j \in Needs[k] => result'[k] = "waiting"
    BY <1>2 DEF Frame
<1>4. ASSUME NEW k \in Jobs, result'[k] # "waiting", NEW n \in Needs[k]
      PROVE  result'[n] = "succeeded"
    <2>1. n \in Jobs \ {j} /\ result[k] # "waiting"
        BY <1>1, <1>3, <1>4 DEF Frame
    <2>2. result[n] = "succeeded"
        BY <1>4, <2>1 DEF CInv, ChainInv
    <2>3. QED BY <2>1, <2>2 DEF Frame
<1>5. QED BY <1>4 DEF ChainInv

\* What is released stays released, however little the step is about it.
LEMMA ReleaseKept ==
    ASSUME CInv, UNCHANGED <<size, flaw, published>>, verified \subseteq verified',
           attested \subseteq attested'
    PROVE  ReleasedInv'
BY StaysReleasable DEF CInv, ReleasedInv

\* A job that goes on or fails keeps everybody's part when it holds its own.
LEMMA JobMoves ==
    ASSUME CInv, NEW j \in Jobs, Frame(j), result[j] \in {"pending", "running"},
           result'[j] # "waiting", JobInv(j)', published' = published \/ ReleasedInv'
    PROVE  CInv'
<1>1. ReleasedInv'
    BY ReleaseKept DEF Frame
<1>2. QED BY <1>1, OthersStand, ChainKept DEF CInv, Frame

\* A refused step settles nothing.
LEMMA QuietStep == ASSUME CInv, NEW j \in Jobs, Quiet(j) PROVE CInv'
<1>1. JobInv(j)'
    BY DEF JobInv, Quiet
<1>2. QED BY <1>1, JobMoves DEF Quiet

\* A step that passes settles what the next one stands on.
LEMMA PassStep ==
    ASSUME CInv, NEW j \in Jobs, NEW s, NEW next, Passes(j, s, next), Held(j, s) => Held(j, next)'
    PROVE  CInv'
<1>1. Held(j, s)
    BY DEF CInv, JobInv, Passes, At
<1>2. result'[j] = "running" /\ step'[j] = next
    BY DEF Passes
<1>3. JobInv(j)'
    BY <1>1, <1>2 DEF JobInv
<1>4. QED BY <1>3, JobMoves DEF Passes, At

-----------------------------------------------------------------------------
\* The runner that goes takes nothing with it that others hold.
LEMMA GoneFrame ==
    ASSUME IInv, CInv, NEW j \in Jobs, NEW res, RunnerGone(j, res)
    PROVE  /\ \A k \in Jobs \ {j} : /\ result'[k] = result[k] /\ step'[k] = step[k]
                                    /\ doomed'[k] = doomed[k]
                                    /\ got'[k] = got[k] /\ made'[k] = made[k]
           /\ result'[j] = res /\ DOMAIN result' = Jobs /\ DOMAIN doomed' = Jobs
BY DEF IInv, ShapeInv, CInv, RunnerGone

\* However a step is refused, only Destroy is left.
LEMMA RefuseIsQuiet ==
    ASSUME IInv, CInv, NEW j \in Jobs, result[j] = "running", Refuse(j),
           UNCHANGED <<flaw, size, output, verified, attested, published>>
    PROVE  Quiet(j)
<1>1. CASE RunnerGone(j, "failed")
    BY <1>1, GoneFrame DEF Quiet, Frame
<1>2. CASE /\ step' = [step EXCEPT ![j] = "destroy"] /\ doomed' = [doomed EXCEPT ![j] = TRUE]
           /\ UNCHANGED <<result, runners>>
    BY <1>2 DEF IInv, ShapeInv, CInv, Quiet, Frame, runners
<1>3. QED BY <1>1, <1>2 DEF Refuse

\* A check that leaves no files.
LEMMA CheckMoves ==
    ASSUME IInv, CInv, NEW j \in Jobs, NEW s, NEW passes, NEW next,
           Check(j, s, passes, next), s # "destroy"
    PROVE  \/ Quiet(j)
           \/ passes /\ Passes(j, s, next) /\ UNCHANGED <<got, made>>
<1>1. result[j] = "running" /\ UNCHANGED <<flaw, size, output, verified, attested, published>>
    BY DEF Check, At, dispatched, github, outcome, history
<1>2. CASE Refuse(j)
    BY <1>1, <1>2, RefuseIsQuiet
<1>3. CASE passes /\ Goto(j, next) /\ UNCHANGED runners
    BY <1>1, <1>3 DEF Check, IInv, ShapeInv, CInv, Passes, Frame, Goto, At, runners
<1>4. QED BY <1>2, <1>3 DEF Check

\* A step that makes files of a running job.
LEMMA MakeMoves ==
    ASSUME IInv, CInv, NEW j \in Jobs, NEW s, NEW passes, NEW files, NEW next,
           Make(j, s, passes, files, next), s # "destroy"
    PROVE  \/ Quiet(j)
           \/ passes /\ Passes(j, s, next) /\ got' = got /\ made'[j] = files
<1>1. result[j] = "running" /\ UNCHANGED <<flaw, size, output, verified, attested, published>>
    BY DEF Make, At, dispatched, github, outcome, history
<1>2. CASE Refuse(j)
    BY <1>1, <1>2, RefuseIsQuiet
<1>3. CASE passes /\ Goto(j, next) /\ made' = [made EXCEPT ![j] = files] /\ UNCHANGED <<got, keyring>>
    BY <1>1, <1>3 DEF Make, IInv, ShapeInv, CInv, Passes, Frame, Goto, At
<1>4. QED BY <1>2, <1>3 DEF Make

\* A download that is accepted is what its producer put into its output.
LEMMA HandoffMoves ==
    ASSUME IInv, CInv, NEW j \in Jobs, NEW next, Handoff(j, next)
    PROVE  \/ Quiet(j)
           \/ Passes(j, "handoff", next) /\ \A p \in Consumed[j] : got'[j][p] = output[p]
<1>1. result[j] = "running" /\ UNCHANGED <<flaw, size, output, verified, attested, published>>
    BY DEF Handoff, At, dispatched, github, outcome, history
<1>2. CASE Refuse(j)
    BY <1>1, <1>2, RefuseIsQuiet
<1>3. ASSUME NEW dirs,
             Delivered(j, dirs),
             got' = [got EXCEPT ![j] = [p \in Consumed[j] |-> dirs[p].files]],
             Goto(j, next), UNCHANGED <<made, keyring>>
      PROVE  Passes(j, "handoff", next) /\ \A p \in Consumed[j] : got'[j][p] = output[p]
    <2>1. Passes(j, "handoff", next)
        BY <1>1, <1>3 DEF Handoff, IInv, ShapeInv, CInv, Passes, Frame, Goto, At
    <2>2. \A p \in Consumed[j] : got'[j][p] = output[p]
        BY <1>3 DEF IInv, ShapeInv, Delivered, HandoffAccepted
    <2>3. QED BY <2>1, <2>2
<1>4. QED BY <1>2, <1>3 DEF Handoff

\* import, probe and destroy of the key.
LEMMA KeyMoves ==
    ASSUME IInv, CInv, NEW j \in KeyJobs, NEW next
    PROVE  /\ Import(j) => Passes(j, "import", "probe") /\ UNCHANGED <<got, made>>
           /\ Probe(j, next) => \/ Quiet(j)
                                \/ flaw # "key" /\ Passes(j, "probe", next) /\ UNCHANGED <<got, made>>
           /\ Destroy(j, next) => \/ Quiet(j)
                                  \/ Passes(j, "destroy", next) /\ UNCHANGED <<got, made>>
<1> USE DEF IInv, ShapeInv, CInv, Frame, At, Goto, dispatched, github, outcome, history, KeyJobs, Jobs
<1>1. Import(j) => Passes(j, "import", "probe") /\ UNCHANGED <<got, made>>
    BY DEF Import, Passes
<1>2. Probe(j, next) => \/ Quiet(j)
                        \/ flaw # "key" /\ Passes(j, "probe", next) /\ UNCHANGED <<got, made>>
    BY DEF Probe, Passes, Quiet
<1>3. ASSUME Destroy(j, next)
      PROVE  \/ Quiet(j)
             \/ Passes(j, "destroy", next) /\ UNCHANGED <<got, made>>
    <2>1. CASE doomed[j]
        <3>1. RunnerGone(j, "failed")
            BY <1>3, <2>1 DEF Destroy
        <3>2. QED BY <1>3, <3>1, GoneFrame DEF Quiet, Destroy
    <2>2. CASE ~ doomed[j]
        BY <1>3, <2>2 DEF Destroy, Passes
    <2>3. QED BY <2>1, <2>2
<1>4. QED BY <1>1, <1>2, <1>3

\* preflight has no part of its own here: what it admits is in IInv.
LEMMA PreflightMoves == ASSUME IInv, CInv, Preflight PROVE CInv'
<1>1. "preflight" \in Jobs /\ "preflight" \notin Legs
    BY DEF Jobs, Legs
<1>2. \A s : Held("preflight", s)'
    BY <1>1 DEF Held, RuledOut
<1>3. \/ Quiet("preflight")
      \/ \E s, next : Passes("preflight", s, next)
    BY <1>1, CheckMoves, MakeMoves DEF Preflight, DispatchCheck, FetchCheck, CheckUnpublished
<1>4. QED BY <1>1, <1>2, <1>3, QuietStep, PassStep

\* sign rules out what it refuses.
LEMMA SignMoves == ASSUME IInv, CInv, Sign PROVE CInv'
<1>1. "sign" \in Jobs /\ "sign" \in KeyJobs /\ "sign" \notin Legs
    BY DEF Jobs, KeyJobs, Legs
<1>2. ASSUME NEW s, NEW next, Passes("sign", s, next), SignRuledOut(s) => SignRuledOut(next)
      PROVE  CInv'
    <2>1. Held("sign", s) => Held("sign", next)'
        BY <1>1, <1>2 DEF Held, RuledOut, SignRuledOut, Passes, Frame
    <2>2. QED BY <1>1, <1>2, <2>1, PassStep
<1> HIDE DEF Passes
<1> USE DEF SignRuledOut
<1>3. CASE Handoff("sign", "inputs")
    BY <1>1, <1>2, <1>3, HandoffMoves, QuietStep
<1>4. CASE CheckInputs
    BY <1>1, <1>2, <1>4, CheckMoves, QuietStep DEF CheckInputs
<1>5. CASE Import("sign") \/ Probe("sign", "packages") \/ Destroy("sign", "gates")
    BY <1>1, <1>2, <1>5, KeyMoves, QuietStep
<1>6. CASE SignPackages
    <2>1. \/ Quiet("sign")
          \/ flaw # "package" /\ Passes("sign", "packages", "profile")
        <3>1. /\ result["sign"] = "running" /\ At("sign", "packages")
              /\ UNCHANGED <<flaw, size, output, verified, attested, published>>
            BY <1>6 DEF SignPackages, At, dispatched, github, outcome, history
        <3>2. CASE Refuse("sign")
            BY <1>1, <3>1, <3>2, RefuseIsQuiet
        <3>3. CASE flaw # "package" /\ ~ Refuse("sign")
            BY <1>1, <1>6, <3>1, <3>3 DEF SignPackages, IInv, ShapeInv, CInv, Passes, Frame, Goto, At
        <3>4. QED BY <1>6, <3>2, <3>3 DEF SignPackages
    <2>2. QED BY <1>1, <1>2, <2>1, QuietStep
<1>7. CASE BindProfile \/ SignRepodata \/ Assemble
    <2>1. \/ Quiet("sign")
          \/ flaw # "binding" /\ Passes("sign", "profile", "repodata")
          \/ Passes("sign", "repodata", "assemble")
          \/ flaw # "evidence" /\ Passes("sign", "assemble", "destroy")
        BY <1>1, <1>7, MakeMoves DEF BindProfile, SignRepodata, Assemble
    <2>2. QED BY <1>1, <1>2, <2>1, QuietStep
<1>8. CASE SignGates
    BY <1>1, <1>2, <1>8, CheckMoves, QuietStep DEF SignGates
<1>9. QED BY <1>3, <1>4, <1>5, <1>6, <1>7, <1>8 DEF Sign

\* A leg's binary is of its build.
LEMMA LegMoves == ASSUME IInv, CInv, NEW j \in Legs, Installer(j) PROVE CInv'
<1>1. j \in Jobs /\ j \notin {"sign", "verify", "finalize", "attest", "publish-release"}
    BY DEF Jobs, Legs
<1>2. \A s : s \notin {"upload", "end"} => Held(j, s)'
    BY <1>1 DEF Held, RuledOut
<1>3. CASE Handoff(j, "gates")
    BY <1>1, <1>2, <1>3, HandoffMoves, QuietStep, PassStep
<1>4. CASE LegGates(j)
    <2>1. Quiet(j) \/ Passes(j, "gates", "build")
        BY <1>1, <1>4, CheckMoves DEF LegGates
    <2>2. QED BY <1>1, <1>2, <2>1, QuietStep, PassStep
<1>5. CASE Build(j)
    <2> DEFINE pinned == Metadata(got[j]["sign"]["tree"])
               build == IF flaw = "drift" /\ j = "installer-b" THEN 1 ELSE 0
               binary == Binary(pinned, build)
               files == [f \in {"binary", "install.sh", "trust", "record"} |->
                           CASE f = "binary" -> binary
                             [] f = "install.sh" -> Scripts(binary)
                             [] f = "trust" -> Trust(pinned)
                             [] f = "record" -> LegRecord(j, pinned, build)]
    <2>1. \/ Quiet(j)
          \/ flaw # "literals" /\ Passes(j, "build", "upload") /\ made'[j] = files
        BY <1>1, <1>5, MakeMoves, Zenon DEF Build
    <2>2. "binary" \in DOMAIN files /\ files["binary"] = binary
        OBVIOUS
    <2>3. binary.build = build
        BY DEF Binary, File
    <2> HIDE DEF files, binary
    <2>4. ASSUME flaw # "literals", Passes(j, "build", "upload"), made'[j] = files
          PROVE  Held(j, "upload")'
        <3>1. flaw' = flaw
            BY <2>4 DEF Passes, Frame
        <3>2. OfLeg(made[j], j)'
            BY <2>2, <2>3, <2>4, <3>1 DEF OfLeg
        <3>3. QED BY <1>1, <2>4, <3>1, <3>2 DEF Held, RuledOut
    <2>5. QED BY <1>1, <2>1, <2>4, QuietStep, PassStep
<1>6. QED BY <1>3, <1>4, <1>5 DEF Installer

\* Legs that agree are of one build, and leg a's shows no drift.
LEMMA AgreedLegs ==
    ASSUME CInv, NEW a, NEW b, LegsAgree(a, b), OfLeg(a, "installer-a"), OfLeg(b, "installer-b")
    PROVE  flaw # "drift"
<1>1. Without(a, {"record"}) = Without(b, {"record"})
    BY DEF LegsAgree
<1>2. "binary" \in DOMAIN a \ {"record"} /\ "binary" \in DOMAIN b \ {"record"}
    BY DEF OfLeg
<1>3. a["binary"] = b["binary"]
    BY <1>1, <1>2 DEF Without
<1>4. QED BY <1>3 DEF OfLeg

\* verify rules out what it refuses, and drift by comparing the legs.
LEMMA VerifyMoves == ASSUME IInv, CInv, Verify PROVE CInv'
<1>1. "verify" \in Jobs /\ "verify" \notin Legs
    BY DEF Jobs, Legs
<1>2. ASSUME NEW s, NEW next, Passes("verify", s, next), next # "compose",
             VerifyRuledOut(s) => VerifyRuledOut(next)
      PROVE  CInv'
    <2>1. Held("verify", s) => Held("verify", next)'
        BY <1>1, <1>2 DEF Held, RuledOut, VerifyRuledOut, Passes, Frame
    <2>2. QED BY <1>1, <1>2, <2>1, PassStep
<1> USE DEF VerifyRuledOut
<1>3. CASE Handoff("verify", "compose")
    <2>1. Legs \subseteq Consumed["verify"]
        BY DEF Consumed, Jobs, Legs, KeyJobs
    <2>2. ASSUME Passes("verify", "handoff", "compose"),
                 \A p \in Consumed["verify"] : got'["verify"][p] = output[p]
          PROVE  Held("verify", "compose")'
        <3>1. \A l \in Legs : got'["verify"][l] = output'[l]
            BY <2>1, <2>2 DEF Passes, Frame
        <3>2. QED BY <1>1, <3>1 DEF Held, RuledOut
    <2>3. QED BY <1>1, <1>3, <2>2, HandoffMoves, QuietStep, PassStep
<1>4. CASE Compose
    <2>1. \/ Quiet("verify")
          \/ /\ LegsAgree(got["verify"]["installer-a"], got["verify"]["installer-b"])
             /\ flaw # "notes" /\ Passes("verify", "compose", "budget")
        BY <1>1, <1>4, MakeMoves DEF Compose
    <2>2. ASSUME LegsAgree(got["verify"]["installer-a"], got["verify"]["installer-b"]),
                 Passes("verify", "compose", "budget")
          PROVE  flaw # "drift"
        <3>1. Held("verify", "compose") /\ \A n \in Needs["verify"] : result[n] = "succeeded"
            BY <1>1, <2>2 DEF CInv, ChainInv, JobInv, Passes, At
        <3>2. Legs \subseteq Needs["verify"] /\ Legs \subseteq Jobs
            BY DEF Needs, Consumed, Jobs, Legs, KeyJobs
        <3>3. \A l \in Legs : Done(l) /\ got["verify"][l] = output[l]
            BY <3>1, <3>2 DEF CInv, JobInv, Held
        <3>4. OfLeg(got["verify"]["installer-a"], "installer-a")
              /\ OfLeg(got["verify"]["installer-b"], "installer-b")
            BY <3>3 DEF Done, Legs
        <3>5. QED BY <2>2, <3>4, AgreedLegs
    <2>3. QED BY <1>1, <1>2, <2>1, <2>2, QuietStep
<1>5. CASE CheckUnsigned \/ ServePrimary \/ ServeCorrupted
    <2>1. \/ Quiet("verify")
          \/ Passes("verify", "budget", "primary")
          \/ flaw # "install" /\ Passes("verify", "primary", "corrupted")
          \/ flaw # "lax" /\ Passes("verify", "corrupted", "dnf")
        BY <1>1, <1>5, CheckMoves DEF CheckUnsigned, ServePrimary, ServeCorrupted
    <2>2. QED BY <1>1, <1>2, <2>1, QuietStep
<1>6. CASE ServeDnf
    <2>1. \/ Quiet("verify")
          \/ flaw # "repository" /\ Passes("verify", "dnf", "upload")
        BY <1>1, <1>6, MakeMoves DEF ServeDnf
    <2>2. QED BY <1>1, <1>2, <2>1, QuietStep
<1>7. QED BY <1>3, <1>4, <1>5, <1>6 DEF Verify

\* What passes the last check of finalize may be released.
LEMMA SignedIsReleasable ==
    ASSUME NEW site, NEW expected \in verified, VerifySigned(site, expected), SiteBytes(site) <= Budget
    PROVE  Releasable(Publication(site))
<1>1. /\ DOMAIN site = SiteFiles /\ SignaturesVerify(site) /\ Only(site, UnsignedFiles) \in verified
      /\ InstallerPinned(site)
    BY DEF VerifySigned, UnsignedSitePasses
<1>2. site["binary"].tree = Metadata(site["tree"])
    <2>1. site["binary"] = Binary(Metadata(site["tree"]), site["binary"].build)
        BY <1>1 DEF InstallerPinned
    <2>2. \A n, b : Binary(n, b).tree = n
        BY DEF Binary, File
    <2>3. QED BY <2>1, <2>2
<1>3. Publication(site)["site.tar"] = site
    BY DEF Publication
<1> HIDE DEF Publication
<1>4. QED BY <1>1, <1>2, <1>3 DEF Releasable

\* What may be released may be wherever it is kept.
LEMMA ReleasableAnywhere ==
    ASSUME NEW files, Releasable(files)'
    PROVE  /\ \A j : made'[j] = files => Releasable(made[j])'
           /\ \A j : output'[j] = files => Releasable(output[j])'
           /\ published' = files => Releasable(published)'
BY DEF Releasable, SiteBytes, SignatureBytes

\* finalize works on the site that verify reported, from its handoff to its upload.
LEMMA FinalizeMoves == ASSUME IInv, CInv, Finalize PROVE CInv'
<1>1. "finalize" \in Jobs /\ "finalize" \in KeyJobs /\ "finalize" \notin Legs
    BY DEF Jobs, KeyJobs, Legs
<1>2. ASSUME NEW s, NEW next, Passes("finalize", s, next), got' = got, s # "handoff",
             next \notin {"archive", "upload", "end"}
      PROVE  CInv'
    <2>1. Held("finalize", s) => Held("finalize", next)'
        BY <1>1, <1>2 DEF Held, RuledOut, Passes, Frame
    <2>2. QED BY <1>1, <1>2, <2>1, PassStep
<1>3. CASE Handoff("finalize", "site")
    <2>1. "verify" \in Consumed["finalize"] /\ "verify" \in Needs["finalize"]
        BY DEF Consumed, Needs, Jobs, Legs, KeyJobs
    <2>2. result["verify"] = "succeeded"
        BY <1>1, <1>3, <2>1 DEF Handoff, At, CInv, ChainInv
    <2>3. output["verify"]["report"] \in verified
        BY <2>2 DEF IInv, VerifyInv
    <2>4. ASSUME Passes("finalize", "handoff", "site"), got'["finalize"]["verify"] = output["verify"]
          PROVE  Held("finalize", "site")'
        <3>1. (got["finalize"]["verify"]["report"] \in verified)'
            BY <2>3, <2>4 DEF Passes, Frame
        <3>2. QED BY <1>1, <3>1 DEF Held, RuledOut
    <2>5. QED BY <1>1, <1>3, <2>1, <2>4, HandoffMoves, QuietStep, PassStep
<1>4. CASE CheckWithoutKey \/ WriteSums
    <2>1. \/ Quiet("finalize")
          \/ Passes("finalize", "site", "import") /\ got' = got
          \/ Passes("finalize", "SHA256SUMS", "SHA256SUMS.asc") /\ got' = got
        BY <1>1, <1>4, MakeMoves DEF CheckWithoutKey, WriteSums
    <2>2. QED BY <1>1, <1>2, <2>1, QuietStep
<1>5. CASE Import("finalize") \/ Probe("finalize", "binary.asc") \/ Destroy("finalize", "signed")
    BY <1>1, <1>2, <1>5, KeyMoves, QuietStep
<1>6. ASSUME NEW name \in KeySteps \ {"destroy"}, NEW data, NEW pass, NEW next \in KeySteps,
             SignFile(name, data, pass, next)
      PROVE  CInv'
    <2>1. \/ Quiet("finalize")
          \/ Passes("finalize", name, next) /\ got' = got
        BY <1>1, <1>6 DEF SignFile, Unsign, At, Goto, IInv, ShapeInv, CInv, Quiet, Passes, Frame,
                          dispatched, github, outcome, history
    <2>2. QED BY <1>1, <1>2, <1>6, <2>1, QuietStep DEF KeySteps
<1>7. CASE SignBinary
    <2>1. \/ Quiet("finalize")
          \/ SignFile("binary.asc", made["finalize"]["binary"], serial + 1, "install.sh.asc")
        BY <1>1, <1>7, CheckMoves DEF SignBinary
    <2>2. QED BY <1>1, <1>6, <2>1, QuietStep DEF KeySteps
<1>8. CASE SignScript \/ SignSums
    BY <1>6, <1>8 DEF SignScript, SignSums, KeySteps
<1>9. CASE CheckSigned
    <2>1. \/ Quiet("finalize")
          \/ /\ SiteBytes(made["finalize"]) <= Budget
             /\ Passes("finalize", "signed", "archive") /\ UNCHANGED <<got, made>>
        BY <1>1, <1>9, CheckMoves DEF CheckSigned
    <2>2. ASSUME SiteBytes(made["finalize"]) <= Budget, Passes("finalize", "signed", "archive"),
                 UNCHANGED <<got, made>>, Held("finalize", "signed")
          PROVE  Held("finalize", "archive")'
        <3>1. SiteBytes(made["finalize"])' <= Budget
            BY <2>2 DEF SiteBytes, SignatureBytes, Passes, Frame
        <3>2. QED BY <1>1, <2>2, <3>1 DEF Held, RuledOut, Passes, Frame
    <2>3. QED BY <1>1, <2>1, <2>2, QuietStep, PassStep
<1>10. CASE ArchiveSite
    <2> DEFINE site == made["finalize"]
               expected == got["finalize"]["verify"]["report"]
    <2>1. \/ Quiet("finalize")
          \/ /\ VerifySigned(site, expected) /\ Passes("finalize", "archive", "upload")
             /\ got' = got /\ made'["finalize"] = Publication(site)
        BY <1>1, <1>10, MakeMoves DEF ArchiveSite
    <2>2. ASSUME VerifySigned(site, expected), Passes("finalize", "archive", "upload"),
                 got' = got, made'["finalize"] = Publication(site), Held("finalize", "archive")
          PROVE  Held("finalize", "upload")'
        <3>1. expected \in verified /\ SiteBytes(site) <= Budget
            BY <2>2 DEF Held
        <3>2. Releasable(Publication(site))
            BY <2>2, <3>1, SignedIsReleasable
        <3>3. \A files : Releasable(files) => Releasable(files)'
            BY <2>2, StaysReleasable DEF Passes, Frame
        <3>4. Releasable(made["finalize"])'
            <4>1. PICK files : files = Publication(site)
                OBVIOUS
            <4>2. Releasable(files)'
                BY <3>2, <3>3, <4>1
            <4>3. QED BY <2>2, <4>1, <4>2, ReleasableAnywhere
        <3>5. QED BY <1>1, <2>2, <3>1, <3>4 DEF Held, RuledOut, Passes, Frame
    <2>3. QED BY <1>1, <2>1, <2>2, QuietStep, PassStep
<1>11. QED BY <1>3, <1>4, <1>5, <1>7, <1>8, <1>9, <1>10 DEF Finalize

-----------------------------------------------------------------------------
(* The start and the end of a job. *)

\* A job that starts has settled nothing, and nobody waited for it yet.
LEMMA StartMoves ==
    ASSUME IInv, CInv, NEW j \in Jobs, Start(j) \/ Approve(j)
    PROVE  CInv'
<1> USE DEF IInv, ShapeInv, dispatched, runners, github, outcome, history
<1>1. CASE Start(j)
    <2>1. Frame(j) /\ result[j] = "waiting" /\ published' = published
        BY <1>1 DEF Start, CInv, Frame
    <2>2. ChainInv'
        <3>1. \A k \in Jobs : \A n \in Needs[k] : n \in Jobs
            BY NeedsAreJobs
        <3>2. \A n \in Needs[j] : n # j /\ result[n] = "succeeded"
            BY <1>1, <2>1 DEF Start
        <3>3. \A k \in Jobs \ {j} : result[k] # "waiting" => j \notin Needs[k]
            BY <2>1 DEF CInv, ChainInv
        <3>4. QED BY <2>1, <3>1, <3>2, <3>3 DEF CInv, ChainInv, Frame
    <2>3. JobInv(j)'
        <3>1. /\ result'[j] = IF j \in KeyJobs THEN "pending" ELSE "running"
              /\ step'[j] = IF j = "preflight" THEN "dispatch" ELSE "handoff"
            BY <1>1 DEF Start, FirstStep
        <3>2. j \in KeyJobs => j # "preflight"
            BY DEF KeyJobs
        <3>3. Held(j, "handoff")' /\ (j = "preflight" => Held(j, "dispatch")')
            BY DEF Held, RuledOut, SignRuledOut, VerifyRuledOut, Legs
        <3>4. QED BY <3>1, <3>2, <3>3 DEF JobInv
    <2>4. ReleasedInv'
        BY <2>1, ReleaseKept DEF Frame
    <2>5. QED BY <2>1, <2>2, <2>3, <2>4, OthersStand DEF CInv, Frame
<1>2. CASE Approve(j)
    <2>1. /\ Frame(j) /\ result[j] = "pending" /\ result'[j] = "running"
          /\ step'[j] = step[j] /\ published' = published
        BY <1>2 DEF Approve, CInv, Frame
    <2>2. step'[j] = "handoff"
        BY <2>1 DEF CInv, JobInv
    <2>3. Held(j, "handoff")'
        BY DEF Held, RuledOut, SignRuledOut, VerifyRuledOut, Legs
    <2>4. JobInv(j)'
        BY <2>1, <2>2, <2>3 DEF JobInv
    <2>5. QED BY <2>1, <2>4, JobMoves
<1>3. QED BY <1>1, <1>2

\* An upload leaves everything as it is.
LEMMA UploadMoves == ASSUME IInv, CInv, NEW j \in Jobs, Upload(j) PROVE CInv'
<1>1. result[j] = "running" /\ UNCHANGED <<flaw, size, output, verified, attested, published>>
    BY DEF Upload, At, dispatched, outcome, history
<1>2. CASE Refuse(j)
    BY <1>1, <1>2, RefuseIsQuiet, QuietStep
<1>3. CASE Goto(j, "end") /\ UNCHANGED runners
    <2>1. Passes(j, "upload", "end") /\ UNCHANGED <<got, made>>
        BY <1>1, <1>3 DEF Upload, IInv, ShapeInv, CInv, Passes, Frame, Goto, At, runners
    <2>2. ASSUME Held(j, "upload") PROVE Held(j, "end")'
        <3>1. Releasable(made[j]) => Releasable(made[j])'
            <4>1. PICK files : files = made[j]
                OBVIOUS
            <4>2. Releasable(made[j]) => Releasable(files)'
                BY <1>1, <4>1, StaysReleasable
            <4>3. QED BY <2>1, <4>1, <4>2, ReleasableAnywhere
        <3>2. OfLeg(made[j], j) => OfLeg(made[j], j)'
            BY <1>1, <2>1 DEF OfLeg
        <3>3. RuledOut(j, "upload") => RuledOut(j, "end")'
            BY <1>1 DEF RuledOut, SignRuledOut, VerifyRuledOut
        <3>4. QED BY <1>1, <2>1, <2>2, <3>1, <3>2, <3>3 DEF Held
    <2>3. QED BY <2>1, <2>2, PassStep
<1>4. QED BY <1>2, <1>3 DEF Upload

\* A job that succeeds hands on what it held; who needs it has not begun.
LEMMA FinishMoves == ASSUME IInv, CInv, NEW j \in Jobs, Finish(j) PROVE CInv'
<1>1. /\ result[j] = "running" /\ step[j] = "end" /\ result'[j] = "succeeded"
      /\ \A k \in Jobs \ {j} : /\ result'[k] = result[k] /\ step'[k] = step[k] /\ doomed'[k] = doomed[k]
                               /\ got'[k] = got[k] /\ made'[k] = made[k]
                               /\ output'[k] = output[k]
      /\ output'[j] = made[j] /\ DOMAIN result' = Jobs /\ DOMAIN doomed' = Jobs
      /\ UNCHANGED <<flaw, size, attested, published>> /\ verified \subseteq verified'
    BY GoneFrame DEF Finish, At, Digest, dispatched, outcome, IInv, ShapeInv
<1>2. Held(j, "end") /\ j \notin {"attest", "publish-release"}
    BY <1>1 DEF CInv, JobInv, Held
<1>3. \A files : Releasable(files) => Releasable(files)'
    BY <1>1, StaysReleasable
<1>4. \A k \in Jobs : \A n \in Needs[k] : n \in Jobs
    BY NeedsAreJobs
<1>5. \A k \in Jobs : j \in Needs[k] => result[k] = "waiting" /\ k # j
    BY <1>1 DEF CInv, ChainInv
<1>6. ChainInv'
    <2>1. ASSUME NEW k \in Jobs, result'[k] # "waiting", NEW n \in Needs[k]
          PROVE  result'[n] = "succeeded"
        <3>1. result[k] # "waiting" /\ result[n] = "succeeded" /\ n # j
            BY <1>1, <2>1, <1>5 DEF CInv, ChainInv
        <3>2. QED BY <1>1, <1>4, <2>1, <3>1
    <2>2. QED BY <2>1 DEF ChainInv
<1>7. Done(j)'
    <2>1. RuledOut(j, "end")'
        BY <1>1, <1>2 DEF Held, RuledOut, SignRuledOut, VerifyRuledOut
    <2>2. j \in Legs => OfLeg(output[j], j)'
        BY <1>1, <1>2 DEF Held, OfLeg
    <2>3. j = "finalize" => Releasable(output[j])'
        <3>1. PICK files : files = made[j]
            OBVIOUS
        <3>2. j = "finalize" => Releasable(files)
            BY <1>2, <3>1 DEF Held
        <3>3. QED BY <1>1, <1>3, <3>1, <3>2, ReleasableAnywhere
    <2>4. QED BY <1>2, <2>1, <2>2, <2>3 DEF Done
<1>8. ASSUME NEW k \in Jobs \ {j} PROVE JobInv(k)'
    <2>1. JobInv(k)
        BY DEF CInv
    <2>2. \A s : RuledOut(k, s)' = RuledOut(k, s)
        BY <1>1 DEF RuledOut, SignRuledOut, VerifyRuledOut
    <2>3. \A files : OfLeg(files, k)' = OfLeg(files, k)
        BY <1>1 DEF OfLeg
    <2>4. \A files : SiteBytes(files)' = SiteBytes(files)
        BY <1>1 DEF SiteBytes, SignatureBytes
    <2>5. result[k] # "waiting" => \A n \in Needs[k] : output'[n] = output[n]
        BY <1>1, <1>4, <1>5
    <2>6. /\ k = "verify" => Legs \subseteq Needs[k]
          /\ k \in {"attest", "publish-release"} => "finalize" \in Needs[k]
        BY DEF Needs, Consumed, Jobs, Legs, KeyJobs
    <2>7. Releasable(made[k]) => Releasable(made[k])'
        <3>1. PICK files : files = made[k]
            OBVIOUS
        <3>2. QED BY <1>1, <1>3, <3>1, ReleasableAnywhere
    <2>8. ASSUME result[k] = "running", NEW s, Held(k, s) PROVE Held(k, s)'
        <3>1. \A n \in Needs[k] : output'[n] = output[n]
            BY <2>5, <2>8
        <3>2. got'[k] = got[k] /\ made'[k] = made[k] /\ verified \subseteq verified'
            BY <1>1
        <3>3. OfLeg(made[k], k) => OfLeg(made[k], k)'
            BY <2>3, <3>2 DEF OfLeg
        <3>4. SiteBytes(made[k]) <= Budget => SiteBytes(made[k])' <= Budget
            BY <1>1, <3>2 DEF SiteBytes, SignatureBytes
        <3>5. QED BY <2>2, <2>6, <2>7, <2>8, <3>1, <3>2, <3>3, <3>4 DEF Held
    <2>9. ASSUME result[k] = "succeeded", Done(k) PROVE Done(k)'
        <3>1. OfLeg(output[k], k) => OfLeg(output[k], k)'
            BY <1>1 DEF OfLeg
        <3>2. Releasable(output[k]) => Releasable(output[k])'
            <4>1. PICK files : files = output[k]
                OBVIOUS
            <4>2. QED BY <1>1, <1>3, <4>1, ReleasableAnywhere
        <3>3. k = "attest" => output'["finalize"] = output["finalize"]
            BY <2>5, <2>6, <2>9
        <3>4. QED BY <1>1, <2>2, <2>9, <3>1, <3>2, <3>3 DEF Done
    <2>10. QED BY <1>1, <2>1, <2>8, <2>9 DEF JobInv
<1>9. JobInv(j)'
    BY <1>1, <1>7 DEF JobInv
<1>10. QED BY <1>1, <1>6, <1>8, <1>9, ReleaseKept DEF CInv

-----------------------------------------------------------------------------
(* attest and publish-release *)

\* Once verify has succeeded, every job before it has refused what it could.
LEMMA Cleared ==
    ASSUME IInv, CInv, result["verify"] = "succeeded"
    PROVE  flaw = None
<1>1. \A k \in {"sign", "verify"} \cup Legs : result[k] = "succeeded" /\ RuledOut(k, "end")
    <2>1. /\ "verify" \in Jobs /\ {"sign"} \cup Legs \subseteq Needs["verify"]
          /\ Needs["verify"] \subseteq Jobs
        BY DEF Needs, Consumed, Jobs, Legs, KeyJobs
    <2>2. \A k \in {"sign", "verify"} \cup Legs : k \in Jobs /\ result[k] = "succeeded"
        BY <2>1 DEF CInv, ChainInv
    <2>3. QED BY <2>2 DEF CInv, JobInv, Done
<1>2. flaw \notin {"dispatch", "archive", "inputs", "profile"}
    BY <1>1 DEF IInv, PreflightInv, Admitted, InputsAccepted, Jobs, KeyJobs
<1>3. flaw \notin {"key", "package", "binding", "evidence"}
    BY <1>1 DEF RuledOut, SignRuledOut
<1>4. flaw # "literals"
    BY <1>1 DEF RuledOut, Legs
<1>5. flaw \notin {"drift", "notes", "install", "lax", "repository"}
    BY <1>1 DEF RuledOut, VerifyRuledOut
<1>6. QED BY <1>2, <1>3, <1>4, <1>5, CustodyConstants DEF CInv, KnownFlaws

\* attest attests what finalize released, and publish-release publishes that.
LEMMA DeliverMoves == ASSUME IInv, CInv, Deliver PROVE CInv'
<1>1. /\ {"attest", "publish-release", "finalize"} \subseteq Jobs
      /\ {"attest", "publish-release"} \cap (Legs \cup KeyJobs \cup {"verify"}) = {}
      /\ "finalize" \in Needs["attest"] /\ {"finalize", "attest"} \subseteq Needs["publish-release"]
      /\ "finalize" \in Consumed["attest"] /\ "finalize" \in Consumed["publish-release"]
    BY DEF Needs, Consumed, Jobs, Legs, KeyJobs
<1>2. ASSUME NEW j \in {"attest", "publish-release"}, NEW next, Handoff(j, next),
             next = IF j = "attest" THEN "attest" ELSE "publish"
      PROVE  CInv'
    <2>1. \/ Quiet(j)
          \/ Passes(j, "handoff", next) /\ got'[j]["finalize"] = output["finalize"]
        BY <1>1, <1>2, HandoffMoves
    <2>2. ASSUME Passes(j, "handoff", next), got'[j]["finalize"] = output["finalize"]
          PROVE  Held(j, next)'
        BY <1>1, <1>2, <2>2 DEF Held, RuledOut, Passes, Frame, KeyJobs
    <2>3. QED BY <1>1, <2>1, <2>2, QuietStep, PassStep
<1>3. CASE Attest
    <2>1. /\ At("attest", "attest") /\ RunnerGone("attest", "succeeded")
          /\ attested' = attested \cup {got["attest"]["finalize"]}
          /\ UNCHANGED <<flaw, size, output, verified, published>>
        BY <1>3 DEF Attest, dispatched, github, history
    <2>2. Frame("attest") /\ result'["attest"] = "succeeded" /\ result["attest"] = "running"
        BY <1>1, <2>1, GoneFrame DEF Frame, At
    <2>3. Held("attest", "attest")
        BY <1>1, <2>1 DEF CInv, JobInv, At
    <2>4. JobInv("attest")'
        BY <1>1, <2>1, <2>2, <2>3 DEF JobInv, Done, Held, RuledOut, KeyJobs
    <2>5. QED BY <1>1, <2>1, <2>2, <2>4, JobMoves
<1>4. CASE Publish
    <2> DEFINE files == got["publish-release"]["finalize"]
    <2>1. /\ At("publish-release", "publish") /\ result["publish-release"] = "running"
          /\ UNCHANGED <<flaw, size, output, verified, attested>>
        BY <1>4 DEF Publish, At, dispatched, github, history
    <2>2. CASE Refuse("publish-release") /\ UNCHANGED published
        BY <1>1, <2>1, <2>2, RefuseIsQuiet, QuietStep
    <2>3. CASE published' = files /\ RunnerGone("publish-release", "succeeded")
        <3>1. Frame("publish-release") /\ result'["publish-release"] = "succeeded"
            BY <1>1, <2>1, <2>3, GoneFrame DEF Frame
        <3>2. JobInv("publish-release")'
            BY <1>1, <3>1 DEF JobInv, Done, RuledOut, KeyJobs
        <3>3. files = output["finalize"]
            BY <1>1, <2>1 DEF CInv, JobInv, At, Held
        <3>4. Done("finalize") /\ Done("attest") /\ result["finalize"] = "succeeded"
            BY <1>1, <2>1 DEF CInv, JobInv, ChainInv
        <3>5. result["verify"] = "succeeded"
            BY <1>1, <3>4 DEF CInv, ChainInv, Needs, Consumed, Jobs, Legs, KeyJobs
        <3>6. published' \in attested' /\ flaw' = None
            BY <2>1, <2>3, <3>3, <3>4, <3>5, Cleared DEF Done
        <3>7. Releasable(published)'
            <4>1. PICK made1 : made1 = output["finalize"]
                OBVIOUS
            <4>2. Releasable(made1)
                BY <3>4, <4>1 DEF Done
            <4>3. QED BY <2>1, <2>3, <3>3, <4>1, <4>2, StaysReleasable, ReleasableAnywhere
        <3>8. QED BY <1>1, <2>1, <3>1, <3>2, <3>6, <3>7, JobMoves DEF ReleasedInv
    <2>4. QED BY <1>4, <2>2, <2>3 DEF Publish
<1>5. QED BY <1>2, <1>3, <1>4 DEF Deliver

-----------------------------------------------------------------------------
(* Re-runs.  Re-running a job re-runs whatever needs it, by way of any job: *)
(* no chain of needs is longer than the seven stages of the workflow.       *)

Stage(j) ==
    IF j = "preflight" THEN 0 ELSE IF j = "sign" THEN 1 ELSE IF j \in Legs THEN 2
    ELSE IF j = "verify" THEN 3 ELSE IF j = "finalize" THEN 4 ELSE IF j = "attest" THEN 5 ELSE 6

\* What a job needs is of an earlier stage.
LEMMA NeedsAreEarlier ==
    \A j \in Jobs : Stage(j) \in 0..6 /\ \A n \in Needs[j] : Stage(n) < Stage(j)
BY DEF Stage, Needs, Consumed, Jobs, Legs, KeyJobs

\* What is added when the dependents of `more' are is of a later stage than what was
\* added to `some' before.
LEMMA LaterAdded ==
    ASSUME NEW i \in Nat, NEW some, NEW more, more \subseteq Jobs, NeedsOf(some) \subseteq more,
           \A j \in more \ some : Stage(j) >= i
    PROVE  /\ more \cup NeedsOf(more) \subseteq Jobs
           /\ \A j \in (more \cup NeedsOf(more)) \ more : Stage(j) >= i + 1
<1>1. more \cup NeedsOf(more) \subseteq Jobs
    BY DEF NeedsOf
<1>2. ASSUME NEW j \in NeedsOf(more) \ more PROVE Stage(j) >= i + 1
    <2>1. PICK n \in Needs[j] : n \in more
        BY DEF NeedsOf
    <2>2. j \in Jobs /\ j \notin NeedsOf(some)
        BY DEF NeedsOf
    <2>3. n \notin some
        BY <2>2 DEF NeedsOf
    <2>4. Stage(n) >= i /\ Stage(n) < Stage(j) /\ Stage(j) \in Nat /\ Stage(n) \in Nat
        BY <2>1, <2>2, <2>3, NeedsAreEarlier
    <2>5. QED BY <2>4
<1>3. QED BY <1>1, <1>2

\* So what depends on a job is closed.
LEMMA DependentsClosed ==
    ASSUME NEW j \in Jobs
    PROVE  NeedsOf(Dependents(j)) \subseteq Dependents(j)
<1> DEFINE one == {j} \cup NeedsOf({j})
           two == one \cup NeedsOf(one)
           three == two \cup NeedsOf(two)
           four == three \cup NeedsOf(three)
           five == four \cup NeedsOf(four)
           six == five \cup NeedsOf(five)
           seven == six \cup NeedsOf(six)
<1>1. Dependents(j) = six
    BY Zenon DEF Dependents
<1>2. one \subseteq Jobs /\ \A k \in one \ {j} : Stage(k) >= 1
    BY LaterAdded, NeedsAreEarlier DEF NeedsOf
<1>3. NeedsOf({j}) \subseteq one /\ NeedsOf(one) \subseteq two /\ NeedsOf(two) \subseteq three
      /\ NeedsOf(three) \subseteq four /\ NeedsOf(four) \subseteq five /\ NeedsOf(five) \subseteq six
    OBVIOUS
<1> HIDE DEF one
<1>4. two \subseteq Jobs /\ \A k \in two \ one : Stage(k) >= 1 + 1
    BY <1>2, <1>3, LaterAdded
<1> HIDE DEF two
<1>5. three \subseteq Jobs /\ \A k \in three \ two : Stage(k) >= 2 + 1
    BY <1>3, <1>4, LaterAdded
<1> HIDE DEF three
<1>6. four \subseteq Jobs /\ \A k \in four \ three : Stage(k) >= 3 + 1
    BY <1>3, <1>5, LaterAdded
<1> HIDE DEF four
<1>7. five \subseteq Jobs /\ \A k \in five \ four : Stage(k) >= 4 + 1
    BY <1>3, <1>6, LaterAdded
<1> HIDE DEF five
<1>8. six \subseteq Jobs /\ \A k \in six \ five : Stage(k) >= 5 + 1
    BY <1>3, <1>7, LaterAdded
<1> HIDE DEF six
<1>9. seven \subseteq Jobs /\ \A k \in seven \ six : Stage(k) >= 6 + 1
    BY <1>3, <1>8, LaterAdded
<1>10. seven \ six = {}
    BY <1>9, NeedsAreEarlier
<1>11. QED BY <1>1, <1>10

\* A re-run takes back what the jobs that wait again had settled, and no more.
LEMMA ResetMoves ==
    ASSUME IInv, CInv, NEW again, Reset(again),
           \A k \in NeedsOf(again) : k \in again \/ result[k] = "waiting"
    PROVE  CInv'
<1>1. /\ \A k \in Jobs : result'[k] = IF k \in again THEN "waiting" ELSE result[k]
      /\ DOMAIN result' = Jobs
      /\ UNCHANGED <<flaw, size, step, doomed, got, made, output, attested, published, verified>>
    BY DEF Reset, dispatched, runners, github, outcome
<1>2. ChainInv'
    <2>1. ASSUME NEW k \in Jobs, result'[k] # "waiting", NEW n \in Needs[k]
          PROVE  result'[n] = "succeeded"
        <3>1. k \notin again /\ result[k] # "waiting"
            BY <1>1, <2>1
        <3>2. n \notin again
            BY <2>1, <3>1 DEF NeedsOf
        <3>3. n \in Jobs /\ result[n] = "succeeded"
            BY <2>1, <3>1, NeedsAreJobs DEF CInv, ChainInv
        <3>4. QED BY <1>1, <3>2, <3>3
    <2>2. QED BY <2>1 DEF ChainInv
<1>3. ASSUME NEW k \in Jobs PROVE JobInv(k)'
    <2>1. JobInv(k) /\ result'[k] \in {"waiting", result[k]}
        BY <1>1 DEF CInv
    <2>2. QED BY <1>1, <2>1 DEF JobInv, Held, Done, RuledOut, SignRuledOut, VerifyRuledOut, OfLeg,
                                Releasable, SiteBytes, SignatureBytes
<1>4. QED BY <1>1, <1>2, <1>3, ReleaseKept DEF CInv

\* What is not of these variables changes nothing here either.
LEMMA Unmoved ==
    ASSUME CInv, UNCHANGED <<flaw, size, jobs, got, made, output, attested, published, verified>>
    PROVE  CInv'
BY DEF CInv, ChainInv, JobInv, ReleasedInv, Held, Done, RuledOut, SignRuledOut, VerifyRuledOut, OfLeg,
       Releasable, SiteBytes, SignatureBytes, jobs

\* Failures, and what people do at rest.
LEMMA EnvironmentMoves == ASSUME IInv, CInv, Environment PROVE CInv'
<1>1. ASSUME NEW j \in Jobs, StepDies(j) PROVE CInv'
    BY <1>1, RefuseIsQuiet, QuietStep DEF StepDies, dispatched, github, outcome, history
<1>2. ASSUME NEW j \in Jobs, RunnerLost(j) PROVE CInv'
    <2>1. Quiet(j)
        BY <1>2, GoneFrame DEF RunnerLost, Quiet, Frame, dispatched, github, outcome, history
    <2>2. QED BY <2>1, QuietStep
<1>3. ASSUME NEW j \in Jobs, RerunFrom(j) PROVE CInv'
    <2>1. Reset(Dependents(j))
        BY <1>3 DEF RerunFrom
    <2>2. QED BY <2>1, DependentsClosed, ResetMoves
<1>4. ASSUME NEW j \in Jobs, DeleteArtifact(j) PROVE CInv'
    BY <1>4, Unmoved DEF DeleteArtifact, dispatched, runners, outcome, history
<1>5. CASE RerunFailed
    <2> DEFINE failed == {j \in Jobs : result[j] = "failed"}
    <2>1. Reset(failed)
        BY <1>5 DEF RerunFailed
    <2>2. \A k \in NeedsOf(failed) : result[k] = "waiting"
        BY DEF NeedsOf, CInv, ChainInv
    <2> HIDE DEF failed
    <2>3. QED BY <2>1, <2>2, ResetMoves
<1>6. QED BY <1>1, <1>2, <1>3, <1>4, <1>5 DEF Environment

-----------------------------------------------------------------------------
\* Every step keeps what the jobs settled.
LEMMA ChainStep == IInv /\ CInv /\ [Next]_vars => CInv'
<1> SUFFICES ASSUME IInv, CInv, [Next]_vars PROVE CInv'
    OBVIOUS
<1>1. CASE Workflow
    <2>1. ASSUME NEW j \in Jobs, Start(j) \/ Upload(j) \/ Finish(j) PROVE CInv'
        BY <2>1, StartMoves, UploadMoves, FinishMoves
    <2>2. ASSUME NEW j \in KeyJobs, Approve(j) \/ Reject(j) PROVE CInv'
        <3>1. j \in Jobs
            BY DEF Jobs
        <3>2. CASE Reject(j)
            <4>1. Quiet(j)
                BY <3>1, <3>2, GoneFrame DEF Reject, Quiet, Frame, dispatched, github, outcome, history
            <4>2. QED BY <3>1, <4>1, QuietStep
        <3>3. QED BY <2>2, <3>1, <3>2, StartMoves
    <2>3. ASSUME NEW j \in Legs, Installer(j) PROVE CInv'
        BY <2>3, LegMoves
    <2>4. QED BY <1>1, <2>1, <2>2, <2>3, PreflightMoves, SignMoves, VerifyMoves, FinalizeMoves,
                 DeliverMoves DEF Workflow
<1>2. CASE Environment
    BY <1>2, EnvironmentMoves
<1>3. CASE Settled \/ UNCHANGED vars
    <2>1. UNCHANGED vars
        BY <1>3 DEF Settled
    <2>2. QED BY <2>1, Unmoved DEF vars, dispatched, runners, jobs, github, outcome, history
<1>4. QED BY <1>1, <1>2, <1>3 DEF Next

\* What the jobs of a run settled for each other, however it fails and is re-run.
LEMMA Custody == Spec => [](IInv /\ CInv)
BY InitInv, InitChain, StepInv, ChainStep, PTL DEF Spec

\* A reader downloads the bytes that verify served and installed: with the four signing
\* files added, within the budget, attested, and of a dispatch without a flaw.
THEOREM ReleaseIsVerified == Spec => []PublishedIsVerified
<1>1. ReleasedInv => PublishedIsVerified
    <2> SUFFICES ASSUME ReleasedInv, published # None PROVE PublishedIsVerified
        BY DEF PublishedIsVerified
    <2>1. Releasable(published) /\ published \in attested /\ flaw = None
        BY DEF ReleasedInv
    <2>2. published = Publication(published["site.tar"])
        BY <2>1 DEF Releasable
    <2>3. \A site : Publication(site)["SHA256SUMS.asc"] = site["SHA256SUMS.asc"]
        BY DEF Publication
    <2>4. published["SHA256SUMS.asc"] = published["site.tar"]["SHA256SUMS.asc"]
        BY <2>2, <2>3
    <2>5. QED BY <2>1, <2>4 DEF PublishedIsVerified, Releasable
<1>2. QED BY <1>1, Custody, PTL DEF CInv

\* Nobody is asked to approve the second signing of a release with a flaw, or before
\* verify passed the site that it is to sign.
THEOREM ApprovalIsEarned == Spec => []ApprovalIsForVerified
<1>1. IInv /\ CInv => ApprovalIsForVerified
    <2> SUFFICES ASSUME IInv, CInv, result["finalize"] = "pending"
                 PROVE  flaw = None /\ output["verify"]["report"] \in verified
        BY DEF ApprovalIsForVerified
    <2>1. result["verify"] = "succeeded"
        BY DEF IInv, FinalizeInv
    <2>2. QED BY <2>1, Cleared DEF IInv, VerifyInv
<1>2. QED BY <1>1, Custody, PTL

-----------------------------------------------------------------------------
(* A flawless release is refused nowhere, but over a signature that is too  *)
(* large.  As long as nothing goes wrong every step passes, because the     *)
(* files of the steps before it are as it expects them: parts of a tree     *)
(* that bind each other, two equal legs, a site of them, its signatures.    *)

\* Nothing is wrong with the release, and nothing went wrong with its run.
Smooth ==
    /\ flaw = None /\ size + SigningBytes <= Budget
    /\ budgets.failures + budgets.damage + budgets.reruns + budgets.deletes = 0

CountInv ==
    /\ budgets \in [{"failures", "damage", "reruns", "deletes"} -> Nat]
    /\ serial \in Nat /\ size \in Nat

\* What sign has made, step by step.
IsTree(files) ==
    /\ DOMAIN files = {"tree", "records"} /\ GatesPass(files["tree"])
    /\ files["records"] = Records(Metadata(files["tree"]))
IsSigned(parts) == parts["rpms"].pass # 0
IsBound(parts) ==
    /\ IsSigned(parts) /\ parts["profile"] = Profile(parts["rpms"])
    /\ parts["profile.rpm"] = ProfileRpm(parts["profile"])
SignMade(s, parts) ==
    /\ s = "profile" => DOMAIN parts = {"rpms"} /\ IsSigned(parts)
    /\ s = "repodata" => DOMAIN parts = {"rpms", "profile", "profile.rpm"} /\ IsBound(parts)
    /\ s = "assemble" =>
        DOMAIN parts = {"rpms", "profile", "profile.rpm", "repomd"} /\ AssemblyAccepts(parts)
    /\ s \in {"destroy", "gates", "upload", "end"} => IsTree(parts)

\* What leg j makes of a tree: the same as the other leg, but for its name.
IsLeg(files, j, tree) ==
    LET binary == Binary(Metadata(tree), 0) IN
        /\ DOMAIN files = {"binary", "install.sh", "trust", "record"}
        /\ files["binary"] = binary /\ files["install.sh"] = Scripts(binary)
        /\ files["trust"] = Trust(Metadata(tree)) /\ files["record"] = LegRecord(j, Metadata(tree), 0)

\* What verify composed, and what it puts out of it.
IsReported(files) ==
    VerifyUnsigned(files["report"]) /\ Without(files, {"report"}) = files["report"]
VerifyMade(s, files) ==
    /\ s \in {"budget", "primary", "corrupted", "dnf"} =>
        VerifyUnsigned(files) /\ files = Only(files, UnsignedFiles)
    /\ s \in {"upload", "end"} => IsReported(files)

\* What finalize has made of it: files of `names' are added, signed in one pass.
Data(name) == IF name = "install.sh.asc" THEN "install.sh" ELSE "binary"
SignedSoFar(site, report, names, pass) ==
    /\ DOMAIN site = UnsignedFiles \cup names /\ Only(site, UnsignedFiles) = report
    /\ "SHA256SUMS" \in names => site["SHA256SUMS"] = Listing(site)
    /\ \A name \in names \ {"SHA256SUMS"} : \E bytes \in SignatureSizes :
          bytes <= SignatureLimit /\ site[name] = Signature(report[Data(name)], pass, bytes)
FinalizeMade(s, site, files, pass) ==
    LET report == files["report"]
        Names(n) == SignedSoFar(site, report, n, pass)
    IN  /\ s \notin {"handoff", "upload", "end"} => IsReported(files)
        /\ s \in {"import", "probe", "binary.asc"} => site = report
        /\ s = "install.sh.asc" => Names({"binary.asc"})
        /\ s = "SHA256SUMS" => Names({"binary.asc", "install.sh.asc"})
        /\ s = "SHA256SUMS.asc" => Names({"binary.asc", "install.sh.asc", "SHA256SUMS"})
        /\ s \in {"destroy", "signed", "archive"} => Names(FinalizeFiles)

\* What a running job j has at step s.
Content(j, s) ==
    /\ j = "sign" => SignMade(s, made[j])
    /\ j \in Legs /\ s \in {"upload", "end"} => IsLeg(made[j], j, output["sign"]["tree"])
    /\ j = "verify" => VerifyMade(s, made[j])
    /\ j \in Legs \cup {"verify"} /\ s \in {"gates", "build", "compose"} =>
        \A p \in Consumed[j] : got[j][p] = output[p]
    /\ j = "finalize" /\ ~ doomed[j] => FinalizeMade(s, made[j], got[j]["verify"], serial)

\* The artifact of a job is kept once it is uploaded, and is what the job puts out.
Kept(j, files) == j \in DOMAIN store /\ store[j] = Seal(files)
KeptInv(j) ==
    /\ \/ result[j] \in {"waiting", "pending"}
       \/ result[j] = "running" /\ step[j] # "end"
       => j \notin DOMAIN store
    /\ result[j] = "running" /\ step[j] = "end" => Kept(j, made[j])
    /\ result[j] = "succeeded" /\ j \notin {"attest", "publish-release"} => Kept(j, output[j])

SoundInv(j) ==
    /\ KeptInv(j)
    /\ doomed[j] => j = "finalize" /\ result[j] = "running" /\ step[j] = "destroy"
    /\ result[j] = "running" => Content(j, step[j])
    /\ result[j] = "succeeded" =>
        /\ j = "sign" => IsTree(output[j])
        /\ j \in Legs => IsLeg(output[j], j, output["sign"]["tree"])
        /\ j = "verify" => IsReported(output[j])

SmoothInv ==
    /\ \A j \in Jobs : SoundInv(j)
    /\ published # None => result["publish-release"] = "succeeded"

FInv == CountInv /\ (Smooth => SmoothInv)

\* Nobody is refused but finalize, over a signature that is too large.
Unrefused == \A j \in Jobs : Refusal(j) => Oversized(j)

-----------------------------------------------------------------------------
\* Before the dispatch nothing is made and nothing went wrong.
LEMMA InitSmooth == Init => FInv
BY CustodyConstants DEF Init, FInv, CountInv, SmoothInv, SoundInv, KeptInv, NoFiles, Only

\* Failures, damage, re-runs and deletions are only ever counted up.
LEMMA CountStep ==
    ASSUME CountInv, [Next]_vars
    PROVE  /\ CountInv' /\ UNCHANGED <<flaw, size>>
           /\ Smooth' => Smooth /\ budgets' = budgets
<1>1. UNCHANGED <<flaw, size>>
    BY DEF Next, vars, dispatched, Workflow, Environment, Settled, Start, Upload, Finish, Approve,
           Reject,
           Preflight, DispatchCheck, FetchCheck, CheckUnpublished, Check, Make,
           Sign, Handoff, CheckInputs, Import, Probe, SignPackages, BindProfile, SignRepodata, Assemble,
           Destroy, SignGates, Installer, LegGates, Build, Verify, Compose, CheckUnsigned, ServePrimary,
           ServeCorrupted, ServeDnf, Finalize, CheckWithoutKey, SignBinary, SignScript, WriteSums,
                  SignSums,
           SignFile, CheckSigned, ArchiveSite, Deliver, Attest, Publish, StepDies, RunnerLost, RerunFrom,
           RerunFailed, Reset, DeleteArtifact
<1>2. serial' \in Nat
    <2>1. serial' \in {serial, serial + 1}
        <3>1. CASE SignPackages \/ SignBinary \/ SignScript \/ SignSums
            BY <3>1 DEF SignPackages, SignBinary, SignScript, SignSums, SignFile, Check
        <3>2. CASE ~ (SignPackages \/ SignBinary \/ SignScript \/ SignSums)
            BY <3>2 DEF Next, vars, Workflow, Environment, Settled, Start, Upload, Finish, Approve,
                   Reject,
               Preflight, DispatchCheck, FetchCheck, CheckUnpublished, Check, Make,
               Sign, Handoff, CheckInputs, Import, Probe, BindProfile, SignRepodata, Assemble,
               Destroy, SignGates, Installer, LegGates, Build, Verify, Compose, CheckUnsigned,
                      ServePrimary,
               ServeCorrupted, ServeDnf, Finalize, CheckWithoutKey, WriteSums, CheckSigned, ArchiveSite,
               Deliver, Attest, Publish, StepDies, RunnerLost, RerunFrom, RerunFailed, Reset,
                      DeleteArtifact
        <3>3. QED BY <3>1, <3>2
    <2>2. QED BY <2>1 DEF CountInv
<1>3. \/ budgets' = budgets
      \/ \E what \in {"failures", "damage", "reruns", "deletes"} :
            budgets' = [budgets EXCEPT ![what] = @ + 1]
    <2>1. ASSUME NEW j, NEW next, Handoff(j, next)
          PROVE  budgets' = budgets \/ budgets' = [budgets EXCEPT !["damage"] = @ + 1]
        BY <2>1 DEF Handoff, CountInv
    <2>2. CASE Workflow
        BY <2>1, <2>2 DEF Workflow, Start, Upload, Finish, Approve, Reject, history,
           Preflight, DispatchCheck, FetchCheck, CheckUnpublished, Check, Make,
           Sign, CheckInputs, Import, Probe, SignPackages, BindProfile, SignRepodata, Assemble,
           Destroy, SignGates, Installer, LegGates, Build, Verify, Compose, CheckUnsigned, ServePrimary,
           ServeCorrupted, ServeDnf, Finalize, CheckWithoutKey, SignBinary, SignScript, WriteSums,
                  SignSums,
           SignFile, CheckSigned, ArchiveSite, Deliver, Attest, Publish
    <2>3. CASE Environment
        BY <2>3 DEF Environment, StepDies, RunnerLost, RerunFrom, RerunFailed, Reset, DeleteArtifact,
               Spend
    <2>4. CASE Settled \/ UNCHANGED vars
        BY <2>4 DEF Settled, vars
    <2>5. QED BY <2>2, <2>3, <2>4 DEF Next
<1>4. CASE budgets' = budgets
    BY <1>1, <1>2, <1>4 DEF CountInv, Smooth, SigningBytes
<1>5. ASSUME NEW what \in {"failures", "damage", "reruns", "deletes"},
             budgets' = [budgets EXCEPT ![what] = @ + 1]
      PROVE  CountInv' /\ ~ Smooth'
    <2>1. CountInv'
        BY <1>1, <1>2, <1>5 DEF CountInv
    <2>2. /\ budgets[what] \in Nat /\ budgets'[what] = budgets[what] + 1
          /\ \A b \in {"failures", "damage", "reruns", "deletes"} : budgets'[b] \in Nat
        BY <1>5 DEF CountInv
    <2>3. QED BY <2>1, <2>2 DEF Smooth
<1>6. QED BY <1>1, <1>3, <1>4, <1>5

\* What a step of a calm run starts from.
Calm == IInv /\ CInv /\ SmoothInv /\ CountInv /\ Smooth /\ Smooth' /\ budgets' = budgets

\* GitHub keeps of k what it did.
KeptAlike(k) ==
    /\ k \in DOMAIN store' <=> k \in DOMAIN store
    /\ k \in DOMAIN store => store'[k] = store[k]

\* The artifacts of other jobs than j are left alone, and only a key job signs.
Apart(j) ==
    /\ \A k \in Jobs \ {j} : KeptAlike(k)
    /\ serial' # serial => j \in KeyJobs /\ result[j] = "running"

\* What other jobs have stays as they expect it.
LEMMA OthersSound ==
    ASSUME Calm, NEW j \in Jobs, Frame(j), Apart(j), NEW k \in Jobs \ {j}
    PROVE  SoundInv(k)'
<1> USE DEF Calm
<1>1. SoundInv(k)
    BY DEF SmoothInv
<1>2. /\ result'[k] = result[k] /\ step'[k] = step[k] /\ doomed'[k] = doomed[k]
      /\ got'[k] = got[k] /\ made'[k] = made[k] /\ output' = output
      /\ KeptAlike(k)
    BY DEF Frame, Apart
<1>3. KeptInv(k)'
    BY <1>1, <1>2 DEF SoundInv, KeptInv, Kept, KeptAlike
<1>4. k = "finalize" /\ result[k] = "running" => serial' = serial
    <2>1. CASE j = "sign" /\ result[j] = "running" /\ k = "finalize"
        BY <2>1 DEF CInv, ChainInv, Needs, Consumed, Jobs, Legs, KeyJobs
    <2>2. QED BY <2>1 DEF Apart, KeyJobs
<1>5. result[k] = "running" => \A s : Content(k, s)' = Content(k, s)
    BY <1>2, <1>4 DEF Content
<1>6. QED BY <1>1, <1>2, <1>3, <1>5 DEF SoundInv

\* Whom a step is not about it does not refuse.
LEMMA NobodyElse ==
    ASSUME NEW j \in Jobs, Refusal(j) => Oversized(j),
           \A k \in Jobs \ {j} : result'[k] = result[k] /\ doomed'[k] = doomed[k]
    PROVE  Unrefused
BY DEF Unrefused, Refusal

\* A job keeps everybody sound when it stays sound itself.
LEMMA SoundMove ==
    ASSUME Calm, NEW j \in Jobs, Frame(j), Apart(j), published' = published,
           result[j] # "succeeded", SoundInv(j)', Refusal(j) => Oversized(j)
    PROVE  SmoothInv' /\ Unrefused
<1>1. published' # None => result'["publish-release"] = "succeeded"
    BY DEF Calm, SmoothInv, Frame, Jobs
<1>2. Unrefused
    BY NobodyElse DEF Frame
<1>3. QED BY <1>1, <1>2, OthersSound DEF SmoothInv

\* A step that passes leaves what the next one needs.
LEMMA SoundPass ==
    ASSUME Calm, NEW j \in Jobs, NEW s, NEW next, Passes(j, s, next), store' = store,
           serial' = serial \/ j \in KeyJobs, doomed' = doomed,
           s # "end", next # "end", Content(j, next)'
    PROVE  SmoothInv' /\ Unrefused
<1>1. SoundInv(j) /\ result[j] = "running" /\ step[j] = s /\ result'[j] = "running" /\ step'[j] = next
    BY DEF Calm, SmoothInv, Passes, At
<1>2. KeptInv(j)'
    BY <1>1 DEF SoundInv, KeptInv
<1>3. ~ doomed[j]
    BY <1>1 DEF SoundInv, Passes
<1>4. SoundInv(j)'
    BY <1>1, <1>2, <1>3 DEF SoundInv
<1>5. Frame(j) /\ Apart(j) /\ published' = published /\ ~ Refusal(j)
    BY <1>1, <1>3 DEF Passes, Apart, KeptAlike, Refusal
<1>6. QED BY <1>1, <1>4, <1>5, SoundMove

\* A check that passes, and a step that makes its files.
LEMMA GoesThrough ==
    ASSUME Calm, NEW j \in Jobs, NEW s, NEW next, s # "destroy"
    PROVE  /\ \A passes : Check(j, s, passes, next) /\ passes =>
                Passes(j, s, next) /\ UNCHANGED <<got, made, store, serial, doomed>>
           /\ \A passes, files : Make(j, s, passes, files, next) /\ passes =>
                Passes(j, s, next) /\ UNCHANGED <<got, store, serial, doomed>> /\ made'[j] = files
<1> USE DEF Calm, IInv, ShapeInv, CInv, Passes, Frame, Goto, At, runners, dispatched, github, outcome,
       history
<1>1. ASSUME NEW passes, Check(j, s, passes, next), passes
      PROVE  Passes(j, s, next) /\ UNCHANGED <<got, made, store, serial, doomed>>
    BY <1>1 DEF Check
<1>2. ASSUME NEW passes, NEW files, Make(j, s, passes, files, next), passes
      PROVE  Passes(j, s, next) /\ UNCHANGED <<got, store, serial, doomed>> /\ made'[j] = files
    BY <1>2 DEF Make
<1>3. QED BY <1>1, <1>2

\* Nothing is damaged on its way: a download delivers what its producers uploaded.
LEMMA CalmHandoff ==
    ASSUME Calm, NEW j \in Jobs, NEW next, Handoff(j, next)
    PROVE  /\ Passes(j, "handoff", next) /\ UNCHANGED <<made, store, serial, doomed>>
           /\ \A p \in Consumed[j] : got'[j][p] = output[p]
<1>1. PICK dirs \in {Sent(j)} \cup IF budgets.damage < MaxDamage THEN Spoilt(j) ELSE {} :
        /\ budgets' = [budgets EXCEPT !["damage"] = IF dirs = Sent(j) THEN @ ELSE @ + 1]
        /\ IF Delivered(j, dirs)
           THEN /\ got' = [got EXCEPT ![j] = [p \in Consumed[j] |-> dirs[p].files]]
                /\ Goto(j, next)
                /\ UNCHANGED <<made, keyring>>
           ELSE Refuse(j)
    BY DEF Handoff
<1>2. dirs = Sent(j)
    BY <1>1 DEF Calm, CountInv
<1>3. ASSUME NEW p \in Consumed[j]
      PROVE  p \in DOMAIN dirs /\ dirs[p].files = output[p] /\ dirs[p].sums = output[p]
    <2>1. p \in Needs[j] /\ p \in Jobs \ {"attest", "publish-release"}
        BY <1>3 DEF Needs, Consumed, Jobs, Legs, KeyJobs
    <2>2. result[p] = "succeeded"
        BY <2>1 DEF Calm, CInv, ChainInv, Handoff, At
    <2>3. Kept(p, output[p])
        BY <2>1, <2>2 DEF Calm, SmoothInv, SoundInv, KeptInv
    <2>4. p \in DOMAIN dirs /\ dirs[p] = store[p]
        BY <1>2, <2>3 DEF Kept, Sent, Only
    <2>5. QED BY <2>3, <2>4 DEF Kept, Seal
<1>4. Delivered(j, dirs)
    BY <1>3 DEF Delivered, HandoffAccepted
<1>5. \A p \in Consumed[j] : got'[j][p] = output[p]
    BY <1>1, <1>3, <1>4 DEF Calm, IInv, ShapeInv
<1>6. Passes(j, "handoff", next) /\ UNCHANGED <<made, store, serial, doomed>>
    BY <1>1, <1>4 DEF Handoff, Calm, IInv, ShapeInv, CInv, Passes, Frame, Goto, At, dispatched, github,
                      outcome, history
<1>7. QED BY <1>5, <1>6

-----------------------------------------------------------------------------
(* How a calm run goes on: the start and the end of its jobs. *)

\* A job that starts finds nothing of an earlier attempt.
LEMMA CalmStart ==
    ASSUME Calm, NEW j \in Jobs, Start(j) \/ Approve(j)
    PROVE  SmoothInv' /\ Unrefused
<1>1. /\ Frame(j) /\ Apart(j) /\ published' = published /\ store' = store /\ serial' = serial
      /\ UNCHANGED <<doomed, output>>
    BY DEF Calm, IInv, ShapeInv, CInv, Start, Approve, Frame, Apart, KeptAlike, dispatched, runners,
           github, outcome,
           history
<1>2. SoundInv(j) /\ JobInv(j)
    BY DEF Calm, SmoothInv, CInv
<1>3. /\ result[j] \in {"waiting", "pending"} /\ result'[j] \in {"pending", "running"}
      /\ result[j] = "waiting" => result'[j] = IF j \in KeyJobs THEN "pending" ELSE "running"
      /\ step'[j] = IF result[j] = "waiting" /\ j = "preflight" THEN "dispatch" ELSE "handoff"
    BY <1>2 DEF Calm, IInv, ShapeInv, Start, Approve, FirstStep, JobInv
<1>4. Content(j, step[j])'
    BY <1>3 DEF Content, SignMade, VerifyMade, FinalizeMade, Legs
<1>5. SoundInv(j)' /\ ~ Refusal(j)
    BY <1>1, <1>2, <1>3, <1>4 DEF SoundInv, KeptInv, Refusal
<1>6. QED BY <1>1, <1>3, <1>5, SoundMove

\* A reviewer's rejection is no refusal of what was made.
LEMMA CalmReject ==
    ASSUME Calm, NEW j \in KeyJobs, Reject(j)
    PROVE  SmoothInv' /\ Unrefused
<1>1. j \in Jobs /\ j \notin Legs
    BY DEF Jobs, Legs, KeyJobs
<1>2. /\ Frame(j) /\ Apart(j) /\ published' = published /\ serial' = serial
      /\ result[j] = "pending" /\ result'[j] = "failed" /\ ~ doomed'[j]
    BY <1>1, GoneFrame DEF Reject, Calm, CInv, Frame, Apart, KeptAlike, dispatched, github, outcome,
           history, RunnerGone
<1>3. SoundInv(j)' /\ ~ Refusal(j)
    BY <1>1, <1>2 DEF Calm, SmoothInv, SoundInv, KeptInv, Refusal
<1>4. QED BY <1>1, <1>2, <1>3, SoundMove

\* The name of an upload is free.
LEMMA CalmUpload ==
    ASSUME Calm, NEW j \in Jobs, Upload(j)
    PROVE  SmoothInv' /\ Unrefused
<1>1. SoundInv(j) /\ At(j, "upload")
    BY DEF Calm, SmoothInv, Upload
<1>2. j \notin DOMAIN store
    BY <1>1 DEF SoundInv, KeptInv, At
<1>3. /\ store' = With(store, j, Seal(made[j])) /\ Goto(j, "end") /\ UNCHANGED runners
      /\ UNCHANGED <<dispatched, output, outcome, serial, budgets, history>>
    BY <1>2 DEF Upload
<1>4. Passes(j, "upload", "end") /\ UNCHANGED <<got, made, output, doomed>>
    BY <1>1, <1>3 DEF Calm, IInv, ShapeInv, CInv, Passes, Frame, Goto, At, runners, dispatched, outcome,
                      history
<1>5. Kept(j, made[j])' /\ Apart(j)
    <2>1. Kept(j, made[j])'
        BY <1>3, <1>4 DEF Kept, With, Seal
    <2>2. \A k \in Jobs \ {j} : KeptAlike(k)
        BY <1>3 DEF With, KeptAlike
    <2>3. QED BY <1>3, <2>1, <2>2 DEF Apart
<1>6. Content(j, "upload") => Content(j, "end")'
    BY <1>4 DEF Content, SignMade, VerifyMade, FinalizeMade
<1>7. SoundInv(j)' /\ ~ Refusal(j)
    BY <1>1, <1>4, <1>5, <1>6 DEF SoundInv, KeptInv, Passes, At, Refusal
<1>8. QED BY <1>1, <1>4, <1>5, <1>7, SoundMove DEF Passes, At

\* A job puts out what it uploaded; who reads it has not begun.
LEMMA CalmFinish ==
    ASSUME Calm, NEW j \in Jobs, Finish(j)
    PROVE  SmoothInv' /\ Unrefused
<1>1. /\ result[j] = "running" /\ step[j] = "end" /\ result'[j] = "succeeded"
      /\ \A k \in Jobs \ {j} : /\ result'[k] = result[k] /\ step'[k] = step[k] /\ doomed'[k] = doomed[k]
                               /\ got'[k] = got[k] /\ made'[k] = made[k]
                               /\ output'[k] = output[k]
      /\ output'[j] = made[j] /\ ~ doomed'[j] /\ UNCHANGED <<store, serial, published>>
    BY GoneFrame DEF Calm, Finish, At, Digest, dispatched, outcome, IInv, ShapeInv, CInv, RunnerGone
<1>2. SoundInv(j)
    BY DEF Calm, SmoothInv
<1>3. \A k \in Jobs : \A n \in Needs[k] : n \in Jobs
    BY NeedsAreJobs
<1>4. \A k \in Jobs : j \in Needs[k] => result[k] = "waiting" /\ k # j
    BY <1>1 DEF Calm, CInv, ChainInv
<1>5. SoundInv(j)'
    <2>1. KeptInv(j)'
        BY <1>1, <1>2 DEF SoundInv, KeptInv, Kept, Seal
    <2>2. j \in Legs => output'["sign"] = output["sign"]
        BY <1>1 DEF Jobs, KeyJobs, Legs
    <2>3. QED BY <1>1, <1>2, <2>1, <2>2 DEF SoundInv, Content, SignMade, VerifyMade
<1>6. ASSUME NEW k \in Jobs \ {j} PROVE SoundInv(k)'
    <2>1. SoundInv(k) /\ KeptInv(k)'
        BY <1>1 DEF Calm, SmoothInv, SoundInv, KeptInv, Kept, Seal
    <2>2. result[k] # "waiting" => \A n \in Needs[k] : output'[n] = output[n]
        BY <1>1, <1>3, <1>4
    <2>3. Consumed[k] \subseteq Needs[k] /\ (k \in Legs => "sign" \in Needs[k])
        BY DEF Needs, Consumed, Jobs, Legs, KeyJobs
    <2>4. ASSUME result[k] = "running" PROVE Content(k, step[k]) => Content(k, step[k])'
        BY <1>1, <2>2, <2>3, <2>4 DEF Content
    <2>5. QED BY <1>1, <2>1, <2>2, <2>3, <2>4 DEF SoundInv
<1>7. published' # None => result'["publish-release"] = "succeeded"
    BY <1>1 DEF Calm, SmoothInv, Jobs
<1>8. Unrefused
    BY <1>1, NobodyElse DEF Refusal
<1>9. QED BY <1>5, <1>6, <1>7, <1>8 DEF SmoothInv

-----------------------------------------------------------------------------
(* What the jobs of a calm run make. *)

\* preflight admits it: nothing is published yet.
LEMMA CalmPreflight == ASSUME Calm, Preflight PROVE SmoothInv' /\ Unrefused
<1>1. "preflight" \in Jobs /\ "preflight" \notin KeyJobs \cup Legs
    BY DEF Jobs, Legs, KeyJobs
<1>2. \A s : Content("preflight", s)'
    BY <1>1 DEF Content
<1>3. flaw # "dispatch" /\ InputsAccepted
    BY CustodyConstants DEF Calm, Smooth, InputsAccepted, KnownFlaws
<1>4. CASE DispatchCheck \/ FetchCheck
    <2>1. \/ Passes("preflight", "dispatch", "fetch") /\ UNCHANGED <<store, serial, doomed>>
          \/ Passes("preflight", "fetch", "unpublished") /\ UNCHANGED <<store, serial, doomed>>
        BY <1>1, <1>3, <1>4, GoesThrough DEF DispatchCheck, FetchCheck
    <2>2. QED BY <1>1, <1>2, <2>1, SoundPass
<1>5. CASE CheckUnpublished
    <2>1. result["preflight"] = "running"
        BY <1>5 DEF CheckUnpublished, Check, At
    <2>2. result["sign"] = "waiting"
        BY <2>1 DEF Calm, CInv, ChainInv, Needs, Consumed, Jobs, Legs, KeyJobs
    <2>3. result["verify"] = "waiting"
        BY <2>2 DEF Calm, CInv, ChainInv, Needs, Consumed, Jobs, Legs, KeyJobs
    <2>4. result["finalize"] = "waiting"
        BY <2>3 DEF Calm, CInv, ChainInv, Needs, Consumed, Jobs, Legs, KeyJobs
    <2>5. result["publish-release"] = "waiting"
        BY <2>4 DEF Calm, CInv, ChainInv, Needs, Consumed, Jobs, Legs, KeyJobs
    <2>6. published = None
        BY <2>5 DEF Calm, SmoothInv
    <2>7. Passes("preflight", "unpublished", "upload") /\ UNCHANGED <<store, serial, doomed>>
        BY <1>1, <1>5, <2>6, GoesThrough DEF CheckUnpublished
    <2>8. QED BY <1>1, <1>2, <2>7, SoundPass
<1>6. QED BY <1>4, <1>5 DEF Preflight

\* What assembly puts together passes the gates: it binds the final bytes of each part.
LEMMA AssembledPasses ==
    ASSUME NEW parts, AssemblyAccepts(parts),
           DOMAIN parts = {"rpms", "profile", "profile.rpm", "repomd"}
    PROVE  GatesPass(Assembled(parts)) /\ Assembled(parts)["rpms"] = parts["rpms"]
<1> DEFINE released == With(parts, "release.json", ReleaseJson(parts))
           signed == With(released, "release.json.sig", ReleaseSignature(released["release.json"]))
           tree == With(signed, "checksums", Checksums(signed))
<1>1. Assembled(parts) = tree
    BY DEF Assembled
<1>2. /\ DOMAIN released = DOMAIN parts \cup {"release.json"}
      /\ released["release.json"] = ReleaseJson(parts)
      /\ \A f \in DOMAIN parts : released[f] = parts[f]
    BY DEF With
<1> HIDE DEF released
<1>3. /\ DOMAIN signed = DOMAIN released \cup {"release.json.sig"}
      /\ signed["release.json.sig"] = ReleaseSignature(released["release.json"])
      /\ \A f \in DOMAIN released : f # "release.json.sig" => signed[f] = released[f]
    BY DEF With
<1> HIDE DEF signed
<1>4. /\ DOMAIN tree = DOMAIN signed \cup {"checksums"} /\ tree["checksums"] = Checksums(signed)
      /\ \A f \in DOMAIN signed \ {"checksums"} : tree[f] = signed[f]
    BY DEF With
<1> HIDE DEF tree
<1>5. /\ \A f \in DOMAIN parts : tree[f] = parts[f]
      /\ tree["release.json"] = ReleaseJson(parts)
      /\ tree["release.json.sig"] = ReleaseSignature(tree["release.json"])
      /\ DOMAIN tree = TreeParts
    BY <1>2, <1>3, <1>4 DEF TreeParts
<1>6. /\ ReleaseJson(parts).binds["rpms"] = parts["rpms"]
      /\ ReleaseJson(parts).binds["profile"] = parts["profile"]
      /\ ReleaseJson(parts).binds["profile.rpm"] = parts["profile.rpm"]
      /\ ReleaseJson(parts).binds["repomd"] = parts["repomd"]
    BY DEF ReleaseJson, Bound, Only
<1>7. MetadataBinds(tree)
    BY <1>5, <1>6 DEF MetadataBinds
<1>8. ProfileBinds(tree)
    BY <1>5, <1>6 DEF ProfileBinds, AssemblyAccepts
<1>9. SignaturesTrusted(tree)
    BY <1>5 DEF SignaturesTrusted, AssemblyAccepts
<1>10. ChecksumsCover(tree)
    <2>1. DOMAIN tree \ {"checksums"} = DOMAIN signed \ {"checksums"}
        BY <1>4
    <2>2. Without(tree, {"checksums"}) = Without(signed, {"checksums"})
        BY <1>4, <2>1 DEF Without
    <2>3. QED BY <1>4, <2>2 DEF ChecksumsCover, Checksums
<1>11. QED BY <1>1, <1>5, <1>7, <1>8, <1>9, <1>10 DEF GatesPass

\* import, probe and destroy pass: the key is the committed one.
LEMMA CalmKey ==
    ASSUME Calm, NEW j \in KeyJobs, NEW next, ~ doomed[j]
    PROVE  /\ Import(j) => Passes(j, "import", "probe")
           /\ Probe(j, next) => Passes(j, "probe", next)
           /\ Destroy(j, next) => Passes(j, "destroy", next)
           /\ Import(j) \/ Probe(j, next) \/ Destroy(j, next) =>
                UNCHANGED <<got, made, store, serial, doomed>>
<1> USE DEF Calm, IInv, ShapeInv, CInv, Passes, Frame, At, Goto, dispatched, github, outcome, history,
            KeyJobs, Jobs
<1>1. ASSUME Import(j) PROVE Passes(j, "import", "probe") /\ UNCHANGED <<got, made, store, serial,
       doomed>>
    BY <1>1 DEF Import
<1>2. flaw # "key"
    BY CustodyConstants DEF Smooth, KnownFlaws
<1>3. ASSUME Probe(j, next)
      PROVE  Passes(j, "probe", next) /\ UNCHANGED <<got, made, store, serial, doomed>>
    BY <1>2, <1>3 DEF Probe
<1>4. ASSUME Destroy(j, next)
      PROVE  Passes(j, "destroy", next) /\ UNCHANGED <<got, made, store, serial, doomed>>
    BY <1>4 DEF Destroy
<1>5. QED BY <1>1, <1>3, <1>4

\* sign passes from its handoff to its upload.
LEMMA CalmSign == ASSUME Calm, Sign PROVE SmoothInv' /\ Unrefused
<1>1. "sign" \in Jobs /\ "sign" \in KeyJobs /\ "sign" \notin Legs
    BY DEF Jobs, KeyJobs, Legs
<1>2. SoundInv("sign") /\ ~ doomed["sign"]
    BY <1>1 DEF Calm, SmoothInv, SoundInv
<1>3. ASSUME NEW s, At("sign", s) PROVE SignMade(s, made["sign"])
    BY <1>2, <1>3 DEF SoundInv, Content, At
<1>4. flaw \notin {"package", "binding", "evidence"} /\ InputsAccepted
    BY CustodyConstants DEF Calm, Smooth, InputsAccepted, KnownFlaws
<1>5. ASSUME NEW s, NEW next, Passes("sign", s, next), UNCHANGED <<store, doomed>>,
             s # "end", next # "end", SignMade(next, made'["sign"])
      PROVE  SmoothInv' /\ Unrefused
    <2>1. Content("sign", next)'
        BY <1>1, <1>5 DEF Content
    <2>2. QED BY <1>1, <1>5, <2>1, SoundPass
<1>6. CASE Handoff("sign", "inputs")
    BY <1>1, <1>5, <1>6, CalmHandoff DEF SignMade
<1>7. CASE CheckInputs
    <2>1. Passes("sign", "inputs", "import") /\ UNCHANGED <<store, doomed>>
        BY <1>1, <1>4, <1>7, GoesThrough DEF CheckInputs
    <2>2. QED BY <1>5, <2>1 DEF SignMade
<1>8. CASE Import("sign") \/ Probe("sign", "packages")
    BY <1>1, <1>2, <1>5, <1>8, CalmKey DEF SignMade
<1>9. CASE Destroy("sign", "gates")
    <2>1. At("sign", "destroy")
        BY <1>9 DEF Destroy
    <2>2. SignMade("gates", made["sign"])
        BY <1>3, <2>1 DEF SignMade
    <2>3. QED BY <1>1, <1>2, <1>5, <1>9, <2>2, CalmKey
<1>10. CASE SignPackages
    <2>1. /\ Passes("sign", "packages", "profile") /\ UNCHANGED <<store, doomed>>
          /\ made'["sign"] = With(NoFiles, "rpms", Rpms(serial + 1))
        BY <1>1, <1>4, <1>10 DEF SignPackages, Calm, IInv, ShapeInv, CInv, Passes, Frame, Goto, At,
                                 dispatched, github, outcome, history
    <2>2. /\ DOMAIN With(NoFiles, "rpms", Rpms(serial + 1)) = {"rpms"}
          /\ With(NoFiles, "rpms", Rpms(serial + 1))["rpms"] = Rpms(serial + 1)
        BY DEF With, NoFiles, Only
    <2>3. Rpms(serial + 1).pass = serial + 1 /\ serial + 1 # 0
        BY DEF Rpms, File, Calm, CountInv
    <2>4. SignMade("profile", made'["sign"])
        BY <2>1, <2>2, <2>3 DEF SignMade, IsSigned
    <2>5. QED BY <1>5, <2>1, <2>4
<1>11. CASE BindProfile
    <2> DEFINE parts == made["sign"]
               profile == Profile(parts["rpms"])
               bound == With(With(parts, "profile", profile), "profile.rpm", ProfileRpm(profile))
    <2>1. /\ Passes("sign", "profile", "repodata") /\ UNCHANGED <<store, doomed>>
          /\ made'["sign"] = bound
        BY <1>1, <1>4, <1>11, GoesThrough DEF BindProfile
    <2>2. DOMAIN parts = {"rpms"} /\ IsSigned(parts)
        BY <1>3, <2>1 DEF SignMade, Passes
    <2>3. /\ DOMAIN bound = {"rpms", "profile", "profile.rpm"} /\ bound["rpms"] = parts["rpms"]
          /\ bound["profile"] = profile /\ bound["profile.rpm"] = ProfileRpm(profile)
        BY <2>2 DEF With
    <2> HIDE DEF bound
    <2>4. SignMade("repodata", made'["sign"])
        BY <2>1, <2>2, <2>3 DEF SignMade, IsSigned, IsBound
    <2>5. QED BY <1>5, <2>1, <2>4
<1>12. CASE SignRepodata
    <2> DEFINE parts == made["sign"]
               repomd == Repomd(parts["rpms"], parts["profile.rpm"])
    <2>1. /\ Passes("sign", "repodata", "assemble") /\ UNCHANGED <<store, doomed>>
          /\ made'["sign"] = With(parts, "repomd", repomd)
        BY <1>1, <1>12, GoesThrough DEF SignRepodata
    <2>2. DOMAIN parts = {"rpms", "profile", "profile.rpm"} /\ IsBound(parts)
        BY <1>3, <2>1 DEF SignMade, Passes
    <2>3. /\ DOMAIN With(parts, "repomd", repomd) = {"rpms", "profile", "profile.rpm", "repomd"}
          /\ \A f \in DOMAIN parts : With(parts, "repomd", repomd)[f] = parts[f]
          /\ With(parts, "repomd", repomd)["repomd"] = repomd
        BY <2>2 DEF With
    <2>4. SignMade("assemble", made'["sign"])
        BY <2>1, <2>2, <2>3 DEF SignMade, IsSigned, IsBound, AssemblyAccepts
    <2>5. QED BY <1>5, <2>1, <2>4
<1>13. CASE Assemble
    <2> DEFINE parts == made["sign"]
               files == [f \in {"tree", "records"} |->
                           IF f = "tree" THEN Assembled(parts) ELSE Records(parts["rpms"].pass)]
    <2>1. At("sign", "assemble")
        BY <1>13 DEF Assemble, Make
    <2>2. DOMAIN parts = {"rpms", "profile", "profile.rpm", "repomd"} /\ AssemblyAccepts(parts)
        BY <1>3, <2>1 DEF SignMade
    <2>3. /\ Passes("sign", "assemble", "destroy") /\ UNCHANGED <<store, doomed>>
          /\ made'["sign"] = files
        BY <1>1, <1>4, <1>13, <2>2, GoesThrough DEF Assemble
    <2>4. GatesPass(Assembled(parts)) /\ Assembled(parts)["rpms"] = parts["rpms"]
        BY <2>2, AssembledPasses
    <2>5. IsTree(files)
        BY <2>4 DEF IsTree, Metadata
    <2> HIDE DEF files
    <2>6. SignMade("destroy", made'["sign"])
        BY <2>3, <2>5 DEF SignMade
    <2>7. QED BY <1>5, <2>3, <2>6
<1>14. CASE SignGates
    <2>1. At("sign", "gates")
        BY <1>14 DEF SignGates, Check
    <2>2. IsTree(made["sign"])
        BY <1>3, <2>1 DEF SignMade
    <2>3. Passes("sign", "gates", "upload") /\ UNCHANGED <<store, doomed, made>>
        BY <1>1, <1>14, <2>2, GoesThrough DEF SignGates, IsTree
    <2>4. QED BY <1>5, <2>2, <2>3 DEF SignMade
<1>15. QED BY <1>6, <1>7, <1>8, <1>9, <1>10, <1>11, <1>12, <1>13, <1>14 DEF Sign

\* Both legs build the same of one tree.
LEMMA CalmLeg ==
    ASSUME Calm, NEW j \in Legs, Installer(j)
    PROVE  SmoothInv' /\ Unrefused
<1>1. /\ j \in Jobs /\ j \notin KeyJobs \cup {"sign", "verify", "finalize"} /\ Consumed[j] = {"sign"}
      /\ Needs[j] = {"sign"} /\ "sign" \in Jobs
    BY DEF Consumed, Needs, Jobs, Legs, KeyJobs
<1>2. result[j] = "running"
    BY DEF Installer, Handoff, LegGates, Build, Check, Make, At
<1>3. IsTree(output["sign"])
    BY <1>1, <1>2 DEF Calm, CInv, ChainInv, SmoothInv, SoundInv
<1>4. ASSUME NEW s \in {"gates", "build"}, At(j, s) PROVE got[j]["sign"] = output["sign"]
    BY <1>1, <1>4 DEF Calm, SmoothInv, SoundInv, Content, At
<1>5. ASSUME NEW s, NEW next \in {"gates", "build"}, Passes(j, s, next),
             UNCHANGED <<store, serial, doomed>>, s # "end", got'[j]["sign"] = output["sign"]
      PROVE  SmoothInv' /\ Unrefused
    <2>1. Content(j, next)'
        BY <1>1, <1>5 DEF Content, Passes, Frame
    <2>2. QED BY <1>1, <1>5, <2>1, SoundPass
<1>6. CASE Handoff(j, "gates")
    BY <1>1, <1>5, <1>6, CalmHandoff
<1>7. CASE LegGates(j)
    <2>1. got[j]["sign"] = output["sign"]
        BY <1>4, <1>7 DEF LegGates, Check
    <2>2. Passes(j, "gates", "build") /\ UNCHANGED <<store, serial, doomed, got>>
        BY <1>1, <1>3, <1>7, <2>1, GoesThrough DEF LegGates, IsTree
    <2>3. QED BY <1>5, <2>1, <2>2
<1>8. CASE Build(j)
    <2> DEFINE tree == output["sign"]["tree"]
               pinned == Metadata(got[j]["sign"]["tree"])
               build == IF flaw = "drift" /\ j = "installer-b" THEN 1 ELSE 0
               binary == Binary(pinned, build)
               files == [f \in {"binary", "install.sh", "trust", "record"} |->
                           CASE f = "binary" -> binary
                             [] f = "install.sh" -> Scripts(binary)
                             [] f = "trust" -> Trust(pinned)
                             [] f = "record" -> LegRecord(j, pinned, build)]
    <2>1. flaw # "literals" /\ build = 0
        BY CustodyConstants DEF Calm, Smooth, KnownFlaws
    <2>2. Passes(j, "build", "upload") /\ UNCHANGED <<store, serial, doomed>> /\ made'[j] = files
        BY <1>1, <1>8, <2>1, GoesThrough, Zenon DEF Build
    <2>3. pinned = Metadata(tree)
        BY <1>4, <1>8 DEF Build, Make
    <2>4. /\ DOMAIN files = {"binary", "install.sh", "trust", "record"}
          /\ files["binary"] = binary /\ files["install.sh"] = Scripts(binary)
          /\ files["trust"] = Trust(pinned) /\ files["record"] = LegRecord(j, pinned, build)
        OBVIOUS
    <2> HIDE DEF files, build, pinned
    <2>5. IsLeg(files, j, tree)
        BY <2>1, <2>3, <2>4 DEF IsLeg
    <2>6. Content(j, "upload")'
        BY <1>1, <2>2, <2>5 DEF Content, Passes, Frame
    <2>7. QED BY <1>1, <2>2, <2>6, SoundPass
<1>9. QED BY <1>6, <1>7, <1>8 DEF Installer

\* Two legs of one tree agree.
LEMMA LegsOfOneTree ==
    ASSUME NEW a, NEW b, NEW tree, IsLeg(a, "installer-a", tree), IsLeg(b, "installer-b", tree)
    PROVE  LegsAgree(a, b) /\ a["record"].tree = Metadata(tree)
<1>1. DOMAIN Without(a, {"record"}) = DOMAIN Without(b, {"record"})
    BY DEF Without, IsLeg
<1>2. \A f \in DOMAIN a \ {"record"} : a[f] = b[f]
    BY DEF IsLeg
<1>3. Without(a, {"record"}) = Without(b, {"record"})
    BY <1>2 DEF Without, IsLeg
<1>4. /\ Binary(Metadata(tree), 0).tree = Metadata(tree) /\ Binary(Metadata(tree), 0).build = 0
      /\ LegRecord("installer-a", Metadata(tree), 0).tree = Metadata(tree)
    BY DEF Binary, LegRecord, File
<1>5. QED BY <1>3, <1>4 DEF LegsAgree, IsLeg

\* The site composed of a tree and its legs passes the checks of an unsigned site.
LEMMA ComposedPasses ==
    ASSUME IsTree(got["verify"]["sign"]),
           IsLeg(got["verify"]["installer-a"], "installer-a", got["verify"]["sign"]["tree"])
    PROVE  VerifyUnsigned(Composed) /\ Composed = Only(Composed, UnsignedFiles)
<1> DEFINE signed == got["verify"]["sign"]
           leg == got["verify"]["installer-a"]
           n == Metadata(signed["tree"])
           both == [f \in DOMAIN signed \cup DOMAIN Without(leg, {"record"}) |->
                      IF f \in DOMAIN signed THEN signed[f] ELSE leg[f]]
           legs == BuildRecord(leg["binary"].tree, leg["binary"].build)
           rendered == Rendered(n, leg["binary"])
           site == With(With(both, "legs", legs), "rendered", rendered)
<1>1. Composed = site
    BY DEF Composed
<1>2. /\ DOMAIN both = {"tree", "records", "binary", "install.sh", "trust"}
      /\ both["tree"] = signed["tree"] /\ both["records"] = signed["records"]
      /\ both["binary"] = leg["binary"] /\ both["install.sh"] = leg["install.sh"]
      /\ both["trust"] = leg["trust"]
    BY DEF IsTree, IsLeg, Without
<1> HIDE DEF both
<1>3. /\ DOMAIN site = UnsignedFiles /\ \A f \in DOMAIN both : site[f] = both[f]
      /\ site["legs"] = legs /\ site["rendered"] = rendered
    BY <1>2 DEF With, UnsignedFiles
<1>4. site = [f \in DOMAIN site |-> site[f]]
    BY DEF With
<1> HIDE DEF site, legs, rendered
<1>5. /\ leg["binary"] = Binary(n, 0) /\ leg["binary"].tree = n /\ leg["binary"].build = 0
    BY DEF IsLeg, Binary, File
<1>6. InstallerPinned(site)
    BY <1>2, <1>3, <1>5 DEF InstallerPinned, IsLeg, legs
<1>7. SigningRecordsBound(site)
    BY <1>2, <1>3 DEF SigningRecordsBound, IsTree
<1>8. RenderedExactly(site)
    BY <1>2, <1>3, <1>5 DEF RenderedExactly, IsLeg, rendered
<1>9. GatesPass(site["tree"])
    BY <1>2, <1>3 DEF IsTree
<1>10. site = Only(site, UnsignedFiles)
    BY <1>3, <1>4 DEF Only
<1>11. QED BY <1>1, <1>3, <1>6, <1>7, <1>8, <1>9, <1>10 DEF VerifyUnsigned, UnsignedSitePasses

\* An unsigned site has the bytes it was dispatched with.
LEMMA UnsignedBytes ==
    ASSUME NEW site, DOMAIN site = UnsignedFiles, size \in Nat
    PROVE  SiteBytes(site) = size
BY DEF SiteBytes, SignatureBytes, UnsignedFiles

\* verify passes the site of the two legs.
LEMMA CalmVerify == ASSUME Calm, Verify PROVE SmoothInv' /\ Unrefused
<1>1. /\ "verify" \in Jobs /\ "verify" \notin KeyJobs \cup Legs
      /\ Consumed["verify"] = {"sign"} \cup Legs /\ Needs["verify"] = {"sign"} \cup Legs
      /\ {"sign"} \cup Legs \subseteq Jobs
    BY DEF Consumed, Needs, Jobs, Legs, KeyJobs
<1>2. flaw \notin {"notes", "install", "lax", "repository"}
    BY CustodyConstants DEF Calm, Smooth, KnownFlaws
<1>3. SoundInv("verify")
    BY <1>1 DEF Calm, SmoothInv
<1>4. ASSUME NEW s, NEW next, Passes("verify", s, next), UNCHANGED <<store, serial, doomed>>, s # "end",
             next \notin {"end", "compose", "gates", "build"}, VerifyMade(next, made'["verify"])
      PROVE  SmoothInv' /\ Unrefused
    <2>1. Content("verify", next)'
        BY <1>1, <1>4 DEF Content
    <2>2. QED BY <1>1, <1>4, <2>1, SoundPass
<1>5. CASE Handoff("verify", "compose")
    <2>1. /\ Passes("verify", "handoff", "compose") /\ UNCHANGED <<store, serial, doomed>>
          /\ \A p \in Consumed["verify"] : got'["verify"][p] = output[p]
        BY <1>1, <1>5, CalmHandoff
    <2>2. Content("verify", "compose")'
        BY <1>1, <2>1 DEF Content, VerifyMade, Passes, Frame
    <2>3. QED BY <1>1, <2>1, <2>2, SoundPass
<1>6. CASE Compose
    <2> DEFINE legs == got["verify"]
               tree == output["sign"]["tree"]
    <2>1. At("verify", "compose")
        BY <1>6 DEF Compose, Make
    <2>2. \A p \in {"sign"} \cup Legs : result[p] = "succeeded" /\ legs[p] = output[p]
        BY <1>1, <1>3, <2>1 DEF Calm, CInv, ChainInv, SoundInv, Content, At
    <2>3. /\ IsTree(legs["sign"])
          /\ \A l \in Legs : IsLeg(legs[l], l, legs["sign"]["tree"])
        BY <1>1, <2>2 DEF Calm, SmoothInv, SoundInv
    <2>4. /\ IsLeg(legs["installer-a"], "installer-a", legs["sign"]["tree"])
          /\ IsLeg(legs["installer-b"], "installer-b", legs["sign"]["tree"])
        BY <2>3 DEF Legs
    <2>5. /\ LegsAgree(legs["installer-a"], legs["installer-b"])
          /\ legs["installer-a"]["record"].tree = Metadata(legs["sign"]["tree"])
        BY <2>4, LegsOfOneTree
    <2>6. VerifyUnsigned(Composed) /\ Composed = Only(Composed, UnsignedFiles)
        BY <2>3, <2>4, ComposedPasses
    <2>7. PICK site : site = Composed
        OBVIOUS
    <2>8. Passes("verify", "compose", "budget") /\ UNCHANGED <<store, serial, doomed>> /\ made'["verify"] = site
        BY <1>1, <1>2, <1>6, <2>5, <2>6, <2>7, GoesThrough DEF Compose
    <2>9. VerifyMade("budget", made'["verify"])
        BY <2>6, <2>7, <2>8 DEF VerifyMade
    <2>10. QED BY <1>4, <2>8, <2>9
<1>7. ASSUME NEW s \in {"budget", "primary", "corrupted", "dnf"}, At("verify", s)
      PROVE  VerifyUnsigned(made["verify"]) /\ made["verify"] = Only(made["verify"], UnsignedFiles)
    BY <1>3, <1>7 DEF SoundInv, Content, VerifyMade, At
<1>8. CASE CheckUnsigned
    <2>1. VerifyUnsigned(made["verify"]) /\ made["verify"] = Only(made["verify"], UnsignedFiles)
        BY <1>7, <1>8 DEF CheckUnsigned, Check
    <2>2. SiteBytes(made["verify"]) + SigningBytes <= Budget
        BY <2>1, UnsignedBytes DEF VerifyUnsigned, Calm, CountInv, Smooth
    <2>3. Passes("verify", "budget", "primary") /\ UNCHANGED <<made, store, serial, doomed>>
        BY <1>1, <1>8, <2>1, <2>2, GoesThrough DEF CheckUnsigned
    <2>4. QED BY <1>4, <2>1, <2>3 DEF VerifyMade
<1>9. CASE ServePrimary \/ ServeCorrupted
    <2>1. VerifyUnsigned(made["verify"]) /\ made["verify"] = Only(made["verify"], UnsignedFiles)
        BY <1>7, <1>9 DEF ServePrimary, ServeCorrupted, Check
    <2>2. /\ UNCHANGED <<made, store, serial, doomed>>
          /\ \/ Passes("verify", "primary", "corrupted")
             \/ Passes("verify", "corrupted", "dnf")
        BY <1>1, <1>2, <1>9, GoesThrough DEF ServePrimary, ServeCorrupted
    <2>3. QED BY <1>4, <2>1, <2>2 DEF VerifyMade
<1>10. CASE ServeDnf
    <2> DEFINE site == made["verify"]
               files == [f \in DOMAIN site \cup {"report"} |-> IF f = "report" THEN site ELSE site[f]]
    <2>1. VerifyUnsigned(site) /\ site = Only(site, UnsignedFiles)
        BY <1>7, <1>10 DEF ServeDnf, Make
    <2>2. /\ Passes("verify", "dnf", "upload") /\ UNCHANGED <<store, serial, doomed>>
          /\ made'["verify"] = files
        BY <1>1, <1>2, <1>10, GoesThrough DEF ServeDnf
    <2>3. IsReported(files)
        <3>1. DOMAIN site = UnsignedFiles
            BY <2>1 DEF VerifyUnsigned
        <3>2. /\ DOMAIN files = UnsignedFiles \cup {"report"} /\ files["report"] = site
              /\ \A f \in UnsignedFiles : files[f] = site[f]
            BY <3>1 DEF UnsignedFiles
        <3> HIDE DEF files
        <3>3. DOMAIN files \ {"report"} = UnsignedFiles
            BY <3>2 DEF UnsignedFiles
        <3>4. Without(files, {"report"}) = [f \in UnsignedFiles |-> site[f]]
            BY <3>2, <3>3 DEF Without
        <3>5. Only(site, UnsignedFiles) = [f \in UnsignedFiles |-> site[f]]
            BY <3>1 DEF Only
        <3>6. QED BY <2>1, <3>2, <3>4, <3>5 DEF IsReported
    <2> HIDE DEF files
    <2>4. VerifyMade("upload", made'["verify"])
        BY <2>2, <2>3 DEF VerifyMade
    <2>5. QED BY <1>4, <2>2, <2>4
<1>11. QED BY <1>5, <1>6, <1>8, <1>9, <1>10 DEF Verify

\* One more signature of the pass.
LEMMA SignatureAdded ==
    ASSUME NEW site, NEW report, NEW names, NEW pass, SignedSoFar(site, report, names, pass),
           NEW name \in FinalizeFiles \ {"SHA256SUMS"},
           "SHA256SUMS" \in names => name = "SHA256SUMS.asc",
           NEW bytes \in SignatureSizes, bytes <= SignatureLimit
    PROVE  SignedSoFar(With(site, name, Signature(report[Data(name)], pass, bytes)),
                       report, names \cup {name}, pass)
<1> DEFINE signature == Signature(report[Data(name)], pass, bytes)
           signed == With(site, name, signature)
<1>1. /\ DOMAIN signed = DOMAIN site \cup {name} /\ signed[name] = signature
      /\ \A f \in DOMAIN site \ {name} : signed[f] = site[f]
    BY DEF With
<1>2. name \notin UnsignedFiles
    BY DEF FinalizeFiles, UnsignedFiles
<1> HIDE DEF signed
<1>3. DOMAIN signed = UnsignedFiles \cup (names \cup {name})
    BY <1>1 DEF SignedSoFar
<1>4. Only(signed, UnsignedFiles) = report
    <2>1. DOMAIN signed \cap UnsignedFiles = DOMAIN site \cap UnsignedFiles
        BY <1>1, <1>2
    <2>2. Only(signed, UnsignedFiles) = Only(site, UnsignedFiles)
        BY <1>1, <1>2, <2>1 DEF Only
    <2>3. QED BY <2>2 DEF SignedSoFar
<1>5. ASSUME "SHA256SUMS" \in names \cup {name} PROVE signed["SHA256SUMS"] = Listing(signed)
    <2>1. name = "SHA256SUMS.asc" /\ "SHA256SUMS" \in DOMAIN site
        BY <1>5 DEF SignedSoFar
    <2>2. DOMAIN signed \ {"SHA256SUMS", "SHA256SUMS.asc"} = DOMAIN site \ {"SHA256SUMS", "SHA256SUMS.asc"}
        BY <1>1, <2>1
    <2>3. Listing(signed) = Listing(site)
        BY <1>1, <2>1, <2>2 DEF Listing, Without
    <2>4. QED BY <1>1, <1>5, <2>1, <2>3 DEF SignedSoFar
<1>6. ASSUME NEW other \in (names \cup {name}) \ {"SHA256SUMS"}
      PROVE  \E b \in SignatureSizes :
                b <= SignatureLimit /\ signed[other] = Signature(report[Data(other)], pass, b)
    <2>1. CASE other = name
        BY <1>1, <2>1
    <2>2. CASE other # name
        BY <1>1, <1>6, <2>2 DEF SignedSoFar
    <2>3. QED BY <2>1, <2>2
<1>7. QED BY <1>3, <1>4, <1>5, <1>6 DEF SignedSoFar, signed

\* The list of what there is so far.
LEMMA SumsAdded ==
    ASSUME NEW site, NEW report, NEW names, NEW pass, SignedSoFar(site, report, names, pass),
           "SHA256SUMS" \notin names
    PROVE  SignedSoFar(With(site, "SHA256SUMS", Listing(site)), report,
                       names \cup {"SHA256SUMS"}, pass)
<1> DEFINE listed == With(site, "SHA256SUMS", Listing(site))
<1>1. /\ DOMAIN listed = DOMAIN site \cup {"SHA256SUMS"} /\ listed["SHA256SUMS"] = Listing(site)
      /\ \A f \in DOMAIN site \ {"SHA256SUMS"} : listed[f] = site[f]
    BY DEF With
<1> HIDE DEF listed
<1>2. DOMAIN listed = UnsignedFiles \cup (names \cup {"SHA256SUMS"})
    BY <1>1 DEF SignedSoFar
<1>3. Only(listed, UnsignedFiles) = report
    <2>1. DOMAIN listed \cap UnsignedFiles = DOMAIN site \cap UnsignedFiles
        BY <1>1 DEF UnsignedFiles
    <2>2. \A f \in DOMAIN site \cap UnsignedFiles : listed[f] = site[f]
        BY <1>1 DEF UnsignedFiles
    <2>3. QED BY <2>1, <2>2 DEF Only, SignedSoFar
<1>4. listed["SHA256SUMS"] = Listing(listed)
    <2>1. DOMAIN listed \ {"SHA256SUMS", "SHA256SUMS.asc"} = DOMAIN site \ {"SHA256SUMS", "SHA256SUMS.asc"}
        BY <1>1
    <2>2. Listing(listed) = Listing(site)
        BY <1>1, <2>1 DEF Listing, Without
    <2>3. QED BY <1>1, <2>2
<1>5. \A name \in (names \cup {"SHA256SUMS"}) \ {"SHA256SUMS"} : listed[name] = site[name]
    BY <1>1 DEF SignedSoFar
<1>6. QED BY <1>2, <1>3, <1>4, <1>5 DEF SignedSoFar, listed

\* A site with its four signing files passes, in the bytes that were kept for them.
LEMMA SignedPasses ==
    ASSUME NEW site, NEW report, NEW pass, SignedSoFar(site, report, FinalizeFiles, pass),
           VerifyUnsigned(report), size \in Nat
    PROVE  VerifySigned(site, report) /\ SiteBytes(site) \in Nat /\ SiteBytes(site) <= size + SigningBytes
<1>1. DOMAIN site = SiteFiles /\ Only(site, UnsignedFiles) = report
    BY DEF SignedSoFar, SiteFiles
<1>2. \A f \in UnsignedFiles : site[f] = report[f]
    BY <1>1 DEF Only, SiteFiles
<1>3. UnsignedSitePasses(site)
    <2>1. /\ site["tree"] = report["tree"] /\ site["records"] = report["records"]
          /\ site["trust"] = report["trust"] /\ site["binary"] = report["binary"]
          /\ site["install.sh"] = report["install.sh"] /\ site["legs"] = report["legs"]
          /\ site["rendered"] = report["rendered"]
        BY <1>2 DEF UnsignedFiles
    <2>2. QED BY <2>1 DEF VerifyUnsigned, UnsignedSitePasses, InstallerPinned, SigningRecordsBound,
                          RenderedExactly
<1>4. ASSUME NEW name \in {"binary.asc", "install.sh.asc", "SHA256SUMS.asc"}
      PROVE  /\ site[name] = Signature(site[Data(name)], pass, site[name].bytes)
             /\ site[name].pass = pass
             /\ site[name].bytes \in Nat /\ site[name].bytes <= SignatureLimit
    <2>1. PICK bytes \in SignatureSizes :
             bytes <= SignatureLimit /\ site[name] = Signature(report[Data(name)], pass, bytes)
        BY <1>4 DEF SignedSoFar, FinalizeFiles
    <2>2. site[name].bytes = bytes /\ site[name].pass = pass
        BY <2>1 DEF Signature, File
    <2>3. report[Data(name)] = site[Data(name)]
        BY <1>2 DEF Data, UnsignedFiles
    <2>4. QED BY <2>1, <2>2, <2>3, CustodyConstants
<1>5. site["SHA256SUMS"] = Listing(site)
    BY DEF SignedSoFar, FinalizeFiles
<1>6. SignaturesVerify(site)
    <2>1. Data("binary.asc") = "binary" /\ Data("install.sh.asc") = "install.sh"
        BY DEF Data
    <2>2. QED BY <1>4, <1>5, <2>1 DEF SignaturesVerify
<1>7. SiteBytes(site) \in Nat /\ SiteBytes(site) <= size + SigningBytes
    <2>1. {"SHA256SUMS", "binary.asc", "install.sh.asc", "SHA256SUMS.asc"} \subseteq DOMAIN site
        BY <1>1 DEF SiteFiles, FinalizeFiles
    <2>2. SiteBytes(site) = size + SumsBytes + site["binary.asc"].bytes
                            + site["install.sh.asc"].bytes + site["SHA256SUMS.asc"].bytes
        BY <2>1 DEF SiteBytes, SignatureBytes
    <2>3. QED BY <1>4, <2>2, CustodyConstants DEF SigningBytes
<1>8. QED BY <1>1, <1>3, <1>6, <1>7 DEF VerifySigned

\* What verify reported is a site without a signature, and finalize gets it whole.
LEMMA ReportedSite ==
    ASSUME NEW files, IsReported(files), NEW pass
    PROVE  SignedSoFar(files["report"], files["report"], {}, pass)
<1>1. files["report"] = [f \in DOMAIN files \ {"report"} |-> files[f]]
    BY DEF IsReported, Without
<1>2. DOMAIN files["report"] = UnsignedFiles
    BY DEF IsReported, VerifyUnsigned
<1>3. Only(files["report"], UnsignedFiles) = files["report"]
    BY <1>1, <1>2 DEF Only
<1>4. QED BY <1>2, <1>3 DEF SignedSoFar

\* gpg makes one signature: of an accepted size, or the job is refused for it.
LEMMA CalmSignature ==
    ASSUME Calm, ~ doomed["finalize"], NEW name \in FinalizeFiles \ {"SHA256SUMS"}, NEW data, NEW pass,
           NEW next, next # "end", SignFile(name, data, pass, next),
           name = "binary.asc" => pass # serial,
           \A bytes \in SignatureSizes : bytes <= SignatureLimit =>
              FinalizeMade(next, With(made["finalize"], name, Signature(data, pass, bytes)),
                           got["finalize"]["verify"], pass)
    PROVE  SmoothInv' /\ Unrefused
<1>1. /\ "finalize" \in Jobs /\ "finalize" \in KeyJobs /\ "finalize" \notin Legs
      /\ name \notin {"destroy", "end"}
    BY DEF Jobs, KeyJobs, Legs, FinalizeFiles
<1>2. /\ At("finalize", name) /\ serial' = pass
      /\ UNCHANGED <<dispatched, got, keyring, github, outcome, budgets, history>>
    BY DEF SignFile
<1>3. PICK bytes \in SignatureSizes :
         IF bytes <= SignatureLimit
         THEN /\ made' = [made EXCEPT !["finalize"] = With(@, name, Signature(data, pass, bytes))]
              /\ Goto("finalize", next)
         ELSE Unsign
    BY DEF SignFile
<1>4. CASE bytes <= SignatureLimit
    <2>1. /\ Passes("finalize", name, next) /\ UNCHANGED <<store, doomed, got>>
          /\ made'["finalize"] = With(made["finalize"], name, Signature(data, pass, bytes))
        BY <1>1, <1>2, <1>3, <1>4 DEF Calm, IInv, ShapeInv, CInv, Passes, Frame, Goto, At, dispatched,
                                      github, outcome, history
    <2>2. FinalizeMade(next, made'["finalize"], got'["finalize"]["verify"], serial')
        BY <1>2, <1>4, <2>1
    <2>3. Content("finalize", next)'
        BY <1>1, <2>2 DEF Content
    <2>4. QED BY <1>1, <2>1, <2>3, SoundPass
<1>5. CASE ~ (bytes <= SignatureLimit)
    <2>1. /\ Frame("finalize") /\ Apart("finalize") /\ published' = published /\ store' = store
          /\ result'["finalize"] = "running" /\ step'["finalize"] = "destroy" /\ doomed'["finalize"]
        BY <1>1, <1>2, <1>3, <1>5 DEF Unsign, Calm, IInv, ShapeInv, CInv, Frame, Apart, KeptAlike, At,
                                      dispatched, github, outcome, history
    <2>2. SoundInv("finalize")'
        BY <1>1, <1>2, <2>1 DEF Calm, SmoothInv, SoundInv, KeptInv, Content, At
    <2>3. bytes > SignatureLimit
        BY <1>5, CustodyConstants
    <2>4. Oversized("finalize")
        BY <1>2, <2>3 DEF Oversized, At
    <2>5. QED BY <1>1, <1>2, <2>1, <2>2, <2>4, SoundMove DEF At
<1>6. QED BY <1>4, <1>5

\* finalize passes from its handoff to its upload, unless a signature is too large.
LEMMA CalmFinalize == ASSUME Calm, Finalize PROVE SmoothInv' /\ Unrefused
<1>1. /\ "finalize" \in Jobs /\ "finalize" \in KeyJobs /\ "finalize" \notin Legs \cup {"sign", "verify"}
      /\ Consumed["finalize"] = {"verify"} /\ Needs["finalize"] = {"verify"} /\ "verify" \in Jobs
    BY DEF Consumed, Needs, Jobs, Legs, KeyJobs
<1>2. SoundInv("finalize")
    BY <1>1 DEF Calm, SmoothInv
<1>3. CASE doomed["finalize"]
    <2>1. At("finalize", "destroy")
        BY <1>2, <1>3 DEF SoundInv, At
    <2>2. Destroy("finalize", "signed")
        BY <2>1 DEF Finalize, Handoff, CheckWithoutKey, Import, Probe, SignBinary, SignScript, WriteSums,
                    SignSums, SignFile, CheckSigned, ArchiveSite, Check, Make, At
    <2>3. /\ RunnerGone("finalize", "failed")
          /\ UNCHANGED <<dispatched, github, outcome, serial, budgets, history>>
        BY <1>3, <2>2 DEF Destroy
    <2>4. /\ Frame("finalize") /\ Apart("finalize") /\ published' = published
          /\ result'["finalize"] = "failed" /\ ~ doomed'["finalize"]
        BY <1>1, <2>3, GoneFrame DEF Calm, CInv, Frame, Apart, KeptAlike, dispatched, github, outcome,
                                     history, RunnerGone
    <2>5. SoundInv("finalize")' /\ ~ Refusal("finalize")
        BY <1>1, <1>3, <2>4 DEF SoundInv, KeptInv, Refusal
    <2>6. QED BY <1>1, <2>1, <2>4, <2>5, SoundMove DEF At
<1>4. SUFFICES ASSUME ~ doomed["finalize"] PROVE SmoothInv' /\ Unrefused
    BY <1>3
<1> DEFINE site == made["finalize"]
           files == got["finalize"]["verify"]
           report == files["report"]
<1>5. ASSUME NEW s, At("finalize", s) PROVE FinalizeMade(s, site, files, serial)
    BY <1>1, <1>2, <1>4, <1>5 DEF SoundInv, Content, At
<1>6. ASSUME NEW s, NEW next, Passes("finalize", s, next), UNCHANGED <<store, serial, doomed>>,
             s # "end", next # "end",
             FinalizeMade(next, made'["finalize"], got'["finalize"]["verify"], serial)
      PROVE  SmoothInv' /\ Unrefused
    <2>1. Content("finalize", next)'
        BY <1>1, <1>6 DEF Content
    <2>2. QED BY <1>1, <1>6, <2>1, SoundPass
<1>7. CASE Handoff("finalize", "site")
    <2>1. /\ Passes("finalize", "handoff", "site") /\ UNCHANGED <<store, serial, doomed>>
          /\ got'["finalize"]["verify"] = output["verify"]
        BY <1>1, <1>7, CalmHandoff
    <2>2. IsReported(output["verify"])
        BY <1>1, <2>1 DEF Passes, At, Calm, CInv, ChainInv, SmoothInv, SoundInv
    <2>3. FinalizeMade("site", made'["finalize"], got'["finalize"]["verify"], serial)
        BY <2>1, <2>2 DEF FinalizeMade
    <2>4. QED BY <1>6, <2>1, <2>3
<1>8. CASE CheckWithoutKey
    <2>1. IsReported(files)
        BY <1>5, <1>8 DEF CheckWithoutKey, Make, FinalizeMade
    <2>2. SiteBeforeKey = report /\ VerifyUnsigned(report)
        BY <2>1 DEF IsReported, SiteBeforeKey
    <2>3. /\ Passes("finalize", "site", "import") /\ UNCHANGED <<got, store, serial, doomed>>
          /\ made'["finalize"] = report
        BY <1>1, <1>8, <2>2, GoesThrough DEF CheckWithoutKey
    <2>4. FinalizeMade("import", made'["finalize"], got'["finalize"]["verify"], serial)
        BY <2>1, <2>3 DEF FinalizeMade
    <2>5. QED BY <1>6, <2>3, <2>4
<1>9. CASE Import("finalize") \/ Probe("finalize", "binary.asc") \/ Destroy("finalize", "signed")
    <2>1. /\ UNCHANGED <<got, made, store, serial, doomed>>
          /\ \/ Passes("finalize", "import", "probe")
             \/ Passes("finalize", "probe", "binary.asc")
             \/ Passes("finalize", "destroy", "signed")
        BY <1>1, <1>4, <1>9, CalmKey
    <2>2. ASSUME NEW s, NEW next, Passes("finalize", s, next), s # "end", next # "end",
                 FinalizeMade(s, site, files, serial) => FinalizeMade(next, site, files, serial)
          PROVE  SmoothInv' /\ Unrefused
        <3>1. FinalizeMade(s, site, files, serial)
            BY <1>5, <2>2 DEF Passes
        <3>2. FinalizeMade(next, made'["finalize"], got'["finalize"]["verify"], serial)
            BY <2>1, <2>2, <3>1
        <3>3. QED BY <1>6, <2>1, <2>2, <3>2
    <2>3. /\ FinalizeMade("import", site, files, serial) => FinalizeMade("probe", site, files, serial)
          /\ FinalizeMade("probe", site, files, serial) => FinalizeMade("binary.asc", site, files, serial)
          /\ FinalizeMade("destroy", site, files, serial) => FinalizeMade("signed", site, files, serial)
        BY DEF FinalizeMade
    <2>4. QED BY <2>1, <2>2, <2>3
<1>10. CASE SignBinary
    <2>1. At("finalize", "binary.asc")
        BY <1>10 DEF SignBinary, SignFile, Check
    <2>2. IsReported(files) /\ site = report
        BY <1>5, <2>1 DEF FinalizeMade
    <2>3. SignFile("binary.asc", report["binary"], serial + 1, "install.sh.asc")
        BY <1>10, <2>2 DEF SignBinary, IsReported
    <2>4. ASSUME NEW pass, NEW bytes \in SignatureSizes, bytes <= SignatureLimit
          PROVE  FinalizeMade("install.sh.asc",
                    With(site, "binary.asc", Signature(report["binary"], pass, bytes)),
                    files, pass)
        <3>1. SignedSoFar(site, report, {}, pass)
            BY <2>2, ReportedSite
        <3>2. SignedSoFar(With(site, "binary.asc", Signature(report["binary"], pass, bytes)),
                          report, {"binary.asc"}, pass)
            <4>1. Data("binary.asc") = "binary" /\ "binary.asc" \in FinalizeFiles \ {"SHA256SUMS"}
                BY DEF Data, FinalizeFiles
            <4>2. SignedSoFar(With(site, "binary.asc", Signature(report[Data("binary.asc")], pass, bytes)),
                              report, {} \cup {"binary.asc"}, pass)
                BY <2>4, <3>1, <4>1, SignatureAdded
            <4>3. {} \cup {"binary.asc"} = {"binary.asc"}
                OBVIOUS
            <4>4. QED BY <4>1, <4>2, <4>3
        <3>3. QED BY <2>2, <3>2 DEF FinalizeMade
    <2>5. serial + 1 # serial
        BY DEF Calm, CountInv
    <2>6. "binary.asc" \in FinalizeFiles \ {"SHA256SUMS"}
        BY DEF FinalizeFiles
    <2>7. QED BY <1>4, <2>3, <2>4, <2>5, <2>6, CalmSignature
<1>11. CASE SignScript
    <2>1. At("finalize", "install.sh.asc")
        BY <1>11 DEF SignScript, SignFile
    <2>2. IsReported(files) /\ SignedSoFar(site, report, {"binary.asc"}, serial)
        BY <1>5, <2>1 DEF FinalizeMade
    <2>3. site["install.sh"] = report["install.sh"]
        BY <2>2 DEF SignedSoFar, Only, UnsignedFiles
    <2>4. ASSUME NEW bytes \in SignatureSizes, bytes <= SignatureLimit
          PROVE  FinalizeMade("SHA256SUMS",
                    With(site, "install.sh.asc", Signature(report["install.sh"], serial, bytes)),
                    files, serial)
        <3>1. SignedSoFar(With(site, "install.sh.asc", Signature(report["install.sh"], serial, bytes)),
                          report, {"binary.asc", "install.sh.asc"}, serial)
            <4>1. /\ Data("install.sh.asc") = "install.sh"
                  /\ "install.sh.asc" \in FinalizeFiles \ {"SHA256SUMS"}
                BY DEF Data, FinalizeFiles
            <4>2. {"binary.asc"} \cup {"install.sh.asc"} = {"binary.asc", "install.sh.asc"}
                OBVIOUS
            <4>3. QED BY <2>2, <2>4, <4>1, <4>2, SignatureAdded
        <3>2. QED BY <2>2, <3>1 DEF FinalizeMade
    <2>5. "install.sh.asc" \in FinalizeFiles \ {"SHA256SUMS"}
        BY DEF FinalizeFiles
    <2>6. QED BY <1>4, <1>11, <2>3, <2>4, <2>5, CalmSignature DEF SignScript
<1>12. CASE WriteSums
    <2>1. /\ Passes("finalize", "SHA256SUMS", "SHA256SUMS.asc") /\ UNCHANGED <<got, store, serial, doomed>>
          /\ made'["finalize"] = With(site, "SHA256SUMS", Listing(site))
        BY <1>1, <1>12, GoesThrough DEF WriteSums
    <2>2. IsReported(files) /\ SignedSoFar(site, report, {"binary.asc", "install.sh.asc"}, serial)
        BY <1>5, <2>1 DEF FinalizeMade, Passes
    <2>3. SignedSoFar(made'["finalize"], report, {"binary.asc", "install.sh.asc", "SHA256SUMS"}, serial)
        <3>1. {"binary.asc", "install.sh.asc"} \cup {"SHA256SUMS"}
              = {"binary.asc", "install.sh.asc", "SHA256SUMS"}
            OBVIOUS
        <3>2. QED BY <2>1, <2>2, <3>1, SumsAdded
    <2>4. FinalizeMade("SHA256SUMS.asc", made'["finalize"], got'["finalize"]["verify"], serial)
        BY <2>1, <2>2, <2>3 DEF FinalizeMade
    <2>5. QED BY <1>6, <2>1, <2>4
<1>13. CASE SignSums
    <2>1. At("finalize", "SHA256SUMS.asc")
        BY <1>13 DEF SignSums, SignFile
    <2>2. /\ IsReported(files)
          /\ SignedSoFar(site, report, {"binary.asc", "install.sh.asc", "SHA256SUMS"}, serial)
        BY <1>5, <2>1 DEF FinalizeMade
    <2>3. site["binary"] = report["binary"]
        BY <2>2 DEF SignedSoFar, Only, UnsignedFiles
    <2>4. ASSUME NEW bytes \in SignatureSizes, bytes <= SignatureLimit
          PROVE  FinalizeMade("destroy",
                    With(site, "SHA256SUMS.asc", Signature(report["binary"], serial, bytes)),
                    files, serial)
        <3>1. SignedSoFar(With(site, "SHA256SUMS.asc", Signature(report["binary"], serial, bytes)),
                          report, FinalizeFiles, serial)
            <4>1. Data("SHA256SUMS.asc") = "binary" /\ "SHA256SUMS.asc" \in FinalizeFiles \ {"SHA256SUMS"}
                BY DEF Data, FinalizeFiles
            <4>2. {"binary.asc", "install.sh.asc", "SHA256SUMS"} \cup {"SHA256SUMS.asc"} = FinalizeFiles
                BY DEF FinalizeFiles
            <4>3. QED BY <2>2, <2>4, <4>1, <4>2, SignatureAdded
        <3>2. QED BY <2>2, <3>1 DEF FinalizeMade
    <2>5. "SHA256SUMS.asc" \in FinalizeFiles \ {"SHA256SUMS"}
        BY DEF FinalizeFiles
    <2>6. QED BY <1>4, <1>13, <2>3, <2>4, <2>5, CalmSignature DEF SignSums
<1>14. CASE CheckSigned \/ ArchiveSite
    <2>1. \E s \in {"signed", "archive"} : At("finalize", s)
        BY <1>14 DEF CheckSigned, ArchiveSite, Check, Make
    <2>2. IsReported(files) /\ SignedSoFar(site, report, FinalizeFiles, serial)
        BY <1>5, <2>1 DEF FinalizeMade
    <2>3. VerifySigned(site, report) /\ SiteBytes(site) \in Nat /\ SiteBytes(site) <= size + SigningBytes
        BY <2>2, SignedPasses DEF IsReported, Calm, CountInv
    <2>4. SiteBytes(site) <= Budget
        <3>1. size + SigningBytes \in Nat /\ size + SigningBytes <= Budget
            BY CustodyConstants DEF Calm, CountInv, Smooth, SigningBytes
        <3>2. QED BY <2>3, <3>1, CustodyConstants
    <2>5. CASE CheckSigned
        <3>1. Passes("finalize", "signed", "archive") /\ UNCHANGED <<got, made, store, serial, doomed>>
            BY <1>1, <2>3, <2>4, <2>5, GoesThrough DEF CheckSigned
        <3>2. QED BY <1>6, <2>2, <3>1 DEF FinalizeMade
    <2>6. CASE ArchiveSite
        <3>1. Passes("finalize", "archive", "upload") /\ UNCHANGED <<store, serial, doomed>>
            BY <1>1, <2>3, <2>6, GoesThrough DEF ArchiveSite
        <3>2. QED BY <1>6, <3>1 DEF FinalizeMade
    <2>7. QED BY <1>14, <2>5, <2>6
<1>15. QED BY <1>7, <1>8, <1>9, <1>10, <1>11, <1>12, <1>13, <1>14 DEF Finalize

\* attest and publish-release pass: nothing of this version is public yet.
LEMMA CalmDeliver == ASSUME Calm, Deliver PROVE SmoothInv' /\ Unrefused
<1>1. /\ {"attest", "publish-release"} \subseteq Jobs
      /\ {"attest", "publish-release"} \cap (KeyJobs \cup Legs \cup {"sign", "verify"}) = {}
    BY DEF Jobs, Legs, KeyJobs
<1>2. ASSUME NEW j \in {"attest", "publish-release"}, NEW next \in {"attest", "publish"}, Handoff(j,
       next)
      PROVE  SmoothInv' /\ Unrefused
    <2>1. Passes(j, "handoff", next) /\ UNCHANGED <<store, serial, doomed>>
        BY <1>1, <1>2, CalmHandoff
    <2>2. Content(j, next)'
        BY <1>1 DEF Content
    <2>3. QED BY <1>1, <2>1, <2>2, SoundPass
<1>3. ASSUME NEW j \in {"attest", "publish-release"}, result[j] = "running", RunnerGone(j, "succeeded"),
             UNCHANGED <<flaw, size, output, verified, store, serial>>, attested \subseteq attested'
      PROVE  (\A k \in Jobs : SoundInv(k)') /\ Unrefused
    <2>1. /\ Frame(j) /\ Apart(j) /\ result'[j] = "succeeded" /\ ~ doomed'[j] /\ j \in Jobs
        BY <1>1, <1>3, GoneFrame DEF Calm, CInv, Frame, Apart, KeptAlike, RunnerGone
    <2>2. SoundInv(j)' /\ ~ Refusal(j)
        BY <1>1, <2>1 DEF SoundInv, KeptInv, Refusal
    <2>3. QED BY <2>1, <2>2, OthersSound, NobodyElse DEF Frame
<1>4. CASE Attest
    <2>1. /\ result["attest"] = "running" /\ RunnerGone("attest", "succeeded")
          /\ UNCHANGED <<flaw, size, output, verified, store, serial, published>>
          /\ attested \subseteq attested'
        BY <1>4 DEF Attest, At, dispatched, github, history
    <2>2. result'["publish-release"] = result["publish-release"]
        BY <1>1, <2>1, GoneFrame DEF Calm
    <2>3. QED BY <1>3, <2>1, <2>2 DEF Calm, SmoothInv
<1>5. CASE Publish
    <2>1. result["publish-release"] = "running"
        BY <1>5 DEF Publish, At
    <2>2. published = None
        BY <2>1 DEF Calm, SmoothInv
    <2>3. /\ RunnerGone("publish-release", "succeeded") /\ attested' = attested
          /\ UNCHANGED <<flaw, size, output, verified, store, serial>>
        BY <1>5, <2>2 DEF Publish, dispatched, github, history
    <2>4. result'["publish-release"] = "succeeded"
        BY <1>1, <2>3, GoneFrame DEF Calm
    <2>5. QED BY <1>3, <2>1, <2>3, <2>4 DEF SmoothInv
<1>6. QED BY <1>2, <1>4, <1>5 DEF Deliver

-----------------------------------------------------------------------------
\* A run in which nothing went wrong stays sound by every step that is nothing wrong.
LEMMA SmoothStep ==
    ASSUME IInv, CInv, FInv, [Next]_vars
    PROVE  FInv' /\ (Smooth' => Unrefused)
<1>1. CountInv' /\ (Smooth' => Smooth /\ budgets' = budgets)
    BY CountStep DEF FInv
<1>2. ASSUME Smooth' PROVE SmoothInv' /\ Unrefused
    <2>1. Calm
        BY <1>1, <1>2 DEF FInv, Calm
    <2>2. CASE Workflow
        <3>1. ASSUME NEW j \in KeyJobs PROVE j \in Jobs
            BY DEF Jobs
        <3>2. QED BY <2>1, <2>2, <3>1, CalmStart, CalmReject, CalmUpload, CalmFinish, CalmPreflight,
                     CalmSign, CalmLeg, CalmVerify, CalmFinalize, CalmDeliver DEF Workflow
    <2>3. ~ Environment
        <3>1. ASSUME NEW what \in {"failures", "damage", "reruns", "deletes"}, NEW limit, Spend(what,
               limit)
              PROVE  FALSE
            <4>1. budgets[what] \in Nat /\ budgets'[what] = budgets[what] + 1
                BY <3>1 DEF FInv, CountInv, Spend
            <4>2. QED BY <1>1, <1>2, <4>1
        <3>2. QED BY <3>1 DEF Environment, StepDies, RunnerLost, RerunFrom, RerunFailed, Reset,
                               DeleteArtifact
    <2>4. CASE Settled \/ UNCHANGED vars
        <3>1. UNCHANGED vars
            BY <2>4 DEF Settled
        <3>2. UNCHANGED <<result, step, doomed, got, made, store, output, serial, published>>
            BY <3>1 DEF vars, runners, jobs, github, outcome
        <3>3. \A k \in Jobs : \A s : Content(k, s)' = Content(k, s)
            BY <3>2 DEF Content
        <3>4. SmoothInv'
            BY <2>1, <3>2, <3>3 DEF Calm, SmoothInv, SoundInv, KeptInv, Kept
        <3>5. Unrefused
            BY <3>2 DEF Unrefused, Refusal
        <3>6. QED BY <3>4, <3>5
    <2>5. QED BY <2>2, <2>3, <2>4 DEF Next
<1>3. QED BY <1>1, <1>2 DEF FInv

\* A release without a flaw, whose site fits, goes through to its publication as long as
\* nothing fails: no job makes what a later step refuses, for any sizes and limits, and
\* finalize can be refused over nothing but a signature larger than the limit.
THEOREM FlawlessPasses == Spec => FlawlessIsNotRefused
<1>1. ASSUME IInv, CInv, FInv, [Next]_vars
      PROVE  /\ (IInv /\ CInv /\ FInv)'
             /\ [/\ flaw = None /\ size + SigningBytes <= Budget
                 /\ budgets'.failures + budgets'.damage + budgets'.reruns + budgets'.deletes = 0
                 => \A j \in Jobs : Refusal(j) => Oversized(j)]_vars
    <2>1. UNCHANGED <<flaw, size>>
        BY <1>1, CountStep DEF FInv
    <2>2. FInv' /\ (Smooth' => Unrefused)
        BY <1>1, SmoothStep
    <2>3. /\ flaw = None /\ size + SigningBytes <= Budget
          /\ budgets'.failures + budgets'.damage + budgets'.reruns + budgets'.deletes = 0
          => \A j \in Jobs : Refusal(j) => Oversized(j)
        BY <2>1, <2>2 DEF Smooth, SigningBytes, Unrefused
    <2>4. QED BY <1>1, <2>2, <2>3, StepInv, ChainStep
<1>2. QED BY <1>1, InitInv, InitChain, InitSmooth, PTL DEF Spec, FlawlessIsNotRefused
-----------------------------------------------------------------------------
(* What is left of a run: the safety half of ComesToRest.  A job that does  *)
(* or suffers something comes nearer to its end, and no job goes back but   *)
(* by a re-run.                                                             *)

\* The most steps a running job can still take from one.
StepsAhead(s) ==
    CASE s \in {"dispatch", "handoff"} -> 13
      [] s \in {"fetch", "inputs", "site"} -> 12
      [] s \in {"unpublished", "import"} -> 11
      [] s = "probe" -> 10
      [] s \in {"packages", "binary.asc"} -> 9
      [] s \in {"profile", "install.sh.asc"} -> 8
      [] s \in {"repodata", "SHA256SUMS", "compose"} -> 7
      [] s \in {"assemble", "SHA256SUMS.asc", "budget"} -> 6
      [] s \in {"destroy", "primary"} -> 5
      [] s \in {"gates", "signed", "corrupted"} -> 4
      [] s \in {"build", "archive", "dnf"} -> 3
      [] s = "upload" -> 2
      [] OTHER -> 1
StepsLeft(j) ==
    CASE result[j] = "waiting" -> 15
      [] result[j] = "pending" -> 14
      [] result[j] = "running" -> StepsAhead(step[j])
      [] OTHER -> 0
Work ==
    StepsLeft("preflight") + StepsLeft("sign") + StepsLeft("installer-a") + StepsLeft("installer-b")
    + StepsLeft("verify") + StepsLeft("finalize") + StepsLeft("attest") + StepsLeft("publish-release")

\* The steps that each job of release.yml has.
OwnSteps == [j \in Jobs |->
    CASE j = "preflight" -> {"dispatch", "fetch", "unpublished", "upload", "end"}
      [] j = "sign" -> {"handoff", "inputs", "import", "probe", "packages", "profile", "repodata",
                        "assemble", "destroy", "gates", "upload", "end"}
      [] j \in Legs -> {"handoff", "gates", "build", "upload", "end"}
      [] j = "verify" -> {"handoff", "compose", "budget", "primary", "corrupted", "dnf", "upload", "end"}
      [] j = "finalize" -> {"handoff", "site", "import", "probe", "binary.asc", "install.sh.asc",
                            "SHA256SUMS", "SHA256SUMS.asc", "destroy", "signed", "archive", "upload",
                            "end"}
      [] j = "attest" -> {"handoff", "attest"}
      [] j = "publish-release" -> {"handoff", "publish"}]

\* No job stands where nothing is left for it to do: one that runs is at a step of its
\* own, one that waits for a reviewer has one, and at rest no runner has a key.
NobodyStranded ==
    /\ \A j \in Jobs : /\ result[j] \in {"pending", "running"} => step[j] \in OwnSteps[j]
                       /\ result[j] = "pending" => j \in KeyJobs
    /\ Resting => \A j \in KeyJobs : keyring[j] = "none"

\* People re-run jobs and delete artifacts, once everything is at rest.
PeopleGoOn ==
    Resting /\ (RerunFailed \/ \E j \in Jobs : RerunFrom(j) \/ DeleteArtifact(j))

\* A job comes nearer to its end, at a step of its own or ended; the others stand still.
Nears(j) ==
    /\ StepsLeft(j)' < StepsLeft(j)
    /\ result'[j] \in {"pending", "running"} => step'[j] \in OwnSteps[j]
    /\ result'[j] = "pending" => j \in KeyJobs
    /\ \A k \in Jobs \ {j} : result'[k] = result[k] /\ step'[k] = step[k]

\* Steps are counted in natural numbers.
LEMMA StepsCounted == \A j \in Jobs : StepsLeft(j) \in 0 .. 15
BY DEF StepsLeft, StepsAhead

\* What one job uses up nobody else adds.
LEMMA WorkFalls ==
    ASSUME NEW j \in Jobs, Nears(j)
    PROVE  Work' < Work
<1>1. \A k \in Jobs \ {j} : StepsLeft(k)' = StepsLeft(k)
    BY DEF Nears, StepsLeft
<1>2. \A k \in Jobs : StepsLeft(k) \in Nat /\ StepsLeft(k)' \in Nat
    BY DEF StepsLeft, StepsAhead
<1>3. StepsLeft(j)' < StepsLeft(j)
    BY DEF Nears
<1> HIDE DEF StepsLeft
<1>4. QED BY <1>1, <1>2, <1>3 DEF Work, Jobs, KeyJobs, Legs

\* A job goes on to a later step.
LEMMA GoingNears ==
    ASSUME IInv, NEW j \in Jobs, NEW s, NEW next, At(j, s), next \in OwnSteps[j],
           StepsAhead(next) < StepsAhead(s), step' = [step EXCEPT ![j] = next], result' = result
    PROVE  Nears(j)
<1>1. /\ DOMAIN step = Jobs /\ step'[j] = next /\ result'[j] = "running"
      /\ \A k \in Jobs \ {j} : step'[k] = step[k]
    BY DEF IInv, ShapeInv, At
<1>2. StepsLeft(j) = StepsAhead(s) /\ StepsLeft(j)' = StepsAhead(next)
    BY <1>1 DEF StepsLeft, At
<1>3. QED BY <1>1, <1>2 DEF Nears

\* A job ends.
LEMMA GoneNears ==
    ASSUME IInv, NEW j \in Jobs, NEW res \in {"failed", "succeeded"},
           result[j] \in {"pending", "running"}, RunnerGone(j, res)
    PROVE  Nears(j)
<1>1. /\ result'[j] = res
      /\ \A k \in Jobs \ {j} : result'[k] = result[k] /\ step'[k] = step[k]
    BY DEF IInv, ShapeInv, RunnerGone
<1>2. StepsLeft(j) > 0 /\ StepsLeft(j)' = 0
    BY <1>1 DEF StepsLeft, StepsAhead
<1>3. QED BY <1>1, <1>2 DEF Nears

\* Destroy still lies ahead of a key job's step that fails.
LEMMA RefusalNears ==
    ASSUME IInv, NEW j \in Jobs, result[j] = "running", step[j] # "destroy", Refuse(j)
    PROVE  Nears(j)
<1>1. CASE RunnerGone(j, "failed")
    BY <1>1, GoneNears
<1>2. CASE /\ j \in KeyJobs /\ step[j] \in KeylessSteps \cup KeySteps
           /\ step' = [step EXCEPT ![j] = "destroy"] /\ UNCHANGED <<result, runners>>
    <2>1. "destroy" \in OwnSteps[j]
        BY <1>2 DEF OwnSteps, KeyJobs, Legs
    <2>2. StepsAhead("destroy") < StepsAhead(step[j])
        BY <1>2 DEF StepsAhead, KeylessSteps, KeySteps
    <2>3. QED BY <1>2, <2>1, <2>2, GoingNears DEF At
<1>3. QED BY <1>1, <1>2 DEF Refuse

\* Which step of a job may follow which.
Follows(j, s, next) ==
    next \in OwnSteps[j] /\ StepsAhead(next) < StepsAhead(s) /\ s # "destroy"

\* A step as most are: it passes on to the next one or is refused.
LEMMA StepNears ==
    ASSUME IInv, NEW j \in Jobs, NEW s, NEW next, At(j, s), Follows(j, s, next),
           Goto(j, next) \/ Refuse(j)
    PROVE  Nears(j)
BY GoingNears, RefusalNears DEF Goto, At, Follows

\* The order of the steps of each job.
LEMMA Order ==
    /\ \A j \in Jobs : "upload" \in OwnSteps[j] => Follows(j, "upload", "end")
    /\ Follows("preflight", "dispatch", "fetch") /\ Follows("preflight", "fetch", "unpublished")
    /\ Follows("preflight", "unpublished", "upload")
    /\ Follows("sign", "handoff", "inputs") /\ Follows("sign", "inputs", "import")
    /\ Follows("sign", "probe", "packages") /\ Follows("sign", "packages", "profile")
    /\ Follows("sign", "profile", "repodata") /\ Follows("sign", "repodata", "assemble")
    /\ Follows("sign", "assemble", "destroy") /\ Follows("sign", "gates", "upload")
    /\ \A j \in Legs : /\ Follows(j, "handoff", "gates") /\ Follows(j, "gates", "build")
                       /\ Follows(j, "build", "upload")
    /\ Follows("verify", "handoff", "compose") /\ Follows("verify", "compose", "budget")
    /\ Follows("verify", "budget", "primary") /\ Follows("verify", "primary", "corrupted")
    /\ Follows("verify", "corrupted", "dnf") /\ Follows("verify", "dnf", "upload")
    /\ Follows("finalize", "handoff", "site") /\ Follows("finalize", "site", "import")
    /\ Follows("finalize", "probe", "binary.asc") /\ Follows("finalize", "binary.asc", "install.sh.asc")
    /\ Follows("finalize", "install.sh.asc", "SHA256SUMS")
    /\ Follows("finalize", "SHA256SUMS", "SHA256SUMS.asc")
    /\ Follows("finalize", "SHA256SUMS.asc", "destroy") /\ Follows("finalize", "signed", "archive")
    /\ Follows("finalize", "archive", "upload")
    /\ Follows("attest", "handoff", "attest") /\ Follows("publish-release", "handoff", "publish")
<1>1. /\ OwnSteps["preflight"] = {"dispatch", "fetch", "unpublished", "upload", "end"}
      /\ OwnSteps["sign"] = {"handoff", "inputs", "import", "probe", "packages", "profile", "repodata",
                             "assemble", "destroy", "gates", "upload", "end"}
      /\ \A j \in Legs : OwnSteps[j] = {"handoff", "gates", "build", "upload", "end"}
      /\ OwnSteps["verify"] = {"handoff", "compose", "budget", "primary", "corrupted", "dnf", "upload",
                               "end"}
      /\ OwnSteps["finalize"] = {"handoff", "site", "import", "probe", "binary.asc", "install.sh.asc",
                                 "SHA256SUMS", "SHA256SUMS.asc", "destroy", "signed", "archive",
                                 "upload", "end"}
      /\ OwnSteps["attest"] = {"handoff", "attest"}
      /\ OwnSteps["publish-release"] = {"handoff", "publish"}
    BY DEF OwnSteps, Jobs, KeyJobs, Legs
<1>2. \A j \in Jobs : "upload" \in OwnSteps[j] => "end" \in OwnSteps[j]
    BY <1>1 DEF Jobs, KeyJobs, Legs
<1>3. QED BY <1>1, <1>2 DEF Follows, StepsAhead

\* So do the steps with the key.
LEMMA KeyNears ==
    ASSUME IInv, NEW j \in KeyJobs, NEW next,
           \/ Import(j)
           \/ Probe(j, next) /\ Follows(j, "probe", next)
           \/ Destroy(j, next) /\ next \in OwnSteps[j] /\ StepsAhead(next) < StepsAhead("destroy")
    PROVE  Nears(j)
<1>1. j \in Jobs /\ {"probe", "destroy"} \subseteq OwnSteps[j]
    BY DEF Jobs, OwnSteps, KeyJobs, Legs
<1>2. StepsAhead("destroy") < StepsAhead("probe") /\ StepsAhead("probe") < StepsAhead("import")
    BY DEF StepsAhead
<1>3. CASE Import(j)
    BY <1>1, <1>2, <1>3, GoingNears DEF Import, Goto
<1>4. CASE Probe(j, next) /\ Follows(j, "probe", next)
    <2>1. /\ At(j, "probe") /\ result' = result
          /\ step' = [step EXCEPT ![j] = next] \/ step' = [step EXCEPT ![j] = "destroy"]
        BY <1>4 DEF Probe, Goto
    <2>2. QED BY <1>1, <1>2, <1>4, <2>1, GoingNears DEF Follows
<1>5. CASE Destroy(j, next) /\ next \in OwnSteps[j] /\ StepsAhead(next) < StepsAhead("destroy")
    <2>1. At(j, "destroy") /\ (Goto(j, next) \/ RunnerGone(j, "failed"))
        BY <1>5 DEF Destroy
    <2>2. QED BY <1>1, <1>5, <2>1, GoingNears, GoneNears DEF Goto, At
<1>6. QED BY <1>3, <1>4, <1>5

\* Before its reviewer, and after its last step.
LEMMA EndsNear ==
    ASSUME IInv, NobodyStranded, NEW j \in Jobs,
           \/ Start(j) \/ Upload(j) \/ Finish(j) \/ StepDies(j) \/ RunnerLost(j)
           \/ j \in KeyJobs /\ (Approve(j) \/ Reject(j))
    PROVE  Nears(j)
<1>1. DOMAIN result = Jobs /\ DOMAIN step = Jobs
    BY DEF IInv, ShapeInv
<1>2. FirstStep(j) \in OwnSteps[j] /\ (j \in KeyJobs => "handoff" \in OwnSteps[j])
    BY DEF FirstStep, OwnSteps, Jobs, KeyJobs, Legs
<1>3. \A s : StepsAhead(s) \in 1 .. 13
    BY DEF StepsAhead
<1>4. CASE Start(j)
    <2>1. /\ result[j] = "waiting" /\ step'[j] = FirstStep(j)
          /\ result'[j] = IF j \in KeyJobs THEN "pending" ELSE "running"
          /\ \A k \in Jobs \ {j} : result'[k] = result[k] /\ step'[k] = step[k]
        BY <1>1, <1>4 DEF Start
    <2>2. QED BY <1>2, <1>3, <2>1 DEF Nears, StepsLeft
<1>5. CASE j \in KeyJobs /\ Approve(j)
    <2>1. /\ result[j] = "pending" /\ result'[j] = "running" /\ step' = step
          /\ \A k \in Jobs \ {j} : result'[k] = result[k]
        BY <1>1, <1>5 DEF Approve
    <2>2. step[j] \in OwnSteps[j]
        BY <2>1 DEF NobodyStranded
    <2>3. QED BY <1>3, <2>1, <2>2 DEF Nears, StepsLeft
<1>6. CASE Upload(j)
    <2>1. At(j, "upload") /\ (Goto(j, "end") \/ Refuse(j))
        BY <1>6 DEF Upload
    <2>2. Follows(j, "upload", "end")
        BY <2>1, Order DEF At, NobodyStranded
    <2>3. QED BY <2>1, <2>2, StepNears
<1>7. CASE Finish(j) \/ StepDies(j) \/ RunnerLost(j) \/ (j \in KeyJobs /\ Reject(j))
    BY <1>7, GoneNears, RefusalNears DEF Finish, StepDies, RunnerLost, Reject, At
<1>8. QED BY <1>4, <1>5, <1>6, <1>7

\* Every step of the workflow brings one job nearer to its end.
LEMMA WorkflowNears ==
    ASSUME IInv, NobodyStranded, Workflow
    PROVE  \E j \in Jobs : Nears(j)
<1>1. ASSUME Preflight PROVE Nears("preflight")
    BY <1>1, StepNears, Order
       DEF Preflight, DispatchCheck, FetchCheck, CheckUnpublished, Check, Make, Jobs
<1>2. ASSUME Sign PROVE Nears("sign")
    <2>1. CASE Handoff("sign", "inputs") \/ CheckInputs \/ SignPackages
        BY <2>1, StepNears, Order DEF Handoff, CheckInputs, SignPackages, Check, Jobs, KeyJobs
    <2>2. CASE Import("sign") \/ Probe("sign", "packages") \/ Destroy("sign", "gates")
        <3>1. "gates" \in OwnSteps["sign"] /\ StepsAhead("gates") < StepsAhead("destroy")
            BY DEF OwnSteps, StepsAhead, Jobs, KeyJobs, Legs
        <3>2. QED BY <2>2, <3>1, KeyNears, Order DEF KeyJobs
    <2>3. CASE BindProfile \/ SignRepodata
        BY <2>3, StepNears, Order DEF BindProfile, SignRepodata, Make, Jobs, KeyJobs
    <2>4. CASE Assemble \/ SignGates
        BY <2>4, StepNears, Order DEF Assemble, SignGates, Check, Make, Jobs, KeyJobs
    <2>5. QED BY <1>2, <2>1, <2>2, <2>3, <2>4 DEF Sign
<1>3. ASSUME NEW j \in Legs, Installer(j) PROVE Nears(j)
    BY <1>3, StepNears, Order DEF Installer, Handoff, LegGates, Build, Check, Make, Jobs
<1>4. ASSUME Verify PROVE Nears("verify")
    <2>1. CASE Handoff("verify", "compose") \/ Compose \/ CheckUnsigned
        BY <2>1, StepNears, Order DEF Handoff, Compose, CheckUnsigned, Check, Make, Jobs
    <2>2. CASE ServePrimary \/ ServeCorrupted \/ ServeDnf
        BY <2>2, StepNears, Order DEF ServePrimary, ServeCorrupted, ServeDnf, Check, Make, Jobs
    <2>3. QED BY <1>4, <2>1, <2>2 DEF Verify
<1>5. ASSUME Finalize PROVE Nears("finalize")
    <2>1. "finalize" \in KeyJobs /\ "finalize" \in Jobs
        BY DEF Jobs, KeyJobs
    <2>2. /\ "destroy" \in OwnSteps["finalize"]
          /\ "signed" \in OwnSteps["finalize"] /\ StepsAhead("signed") < StepsAhead("destroy")
          /\ \A s \in {"binary.asc", "install.sh.asc", "SHA256SUMS.asc"} :
                StepsAhead("destroy") < StepsAhead(s)
        BY DEF OwnSteps, StepsAhead, Jobs, KeyJobs, Legs
    <2>3. CASE Handoff("finalize", "site") \/ CheckWithoutKey \/ WriteSums
        BY <2>1, <2>3, StepNears, Order DEF Handoff, CheckWithoutKey, WriteSums, Make
    <2>4. CASE Import("finalize") \/ Probe("finalize", "binary.asc") \/ Destroy("finalize", "signed")
        BY <2>1, <2>2, <2>4, KeyNears, Order
    <2>5. ASSUME NEW name \in {"binary.asc", "install.sh.asc", "SHA256SUMS.asc"},
                 NEW data, NEW pass, NEW next,
                 Follows("finalize", name, next), SignFile(name, data, pass, next)
          PROVE  Nears("finalize")
        <3>1. /\ At("finalize", name) /\ result' = result
              /\ \/ step' = [step EXCEPT !["finalize"] = next]
                 \/ step' = [step EXCEPT !["finalize"] = "destroy"]
            BY <2>5 DEF SignFile, Unsign, Goto
        <3>2. QED BY <2>1, <2>2, <2>5, <3>1, GoingNears DEF Follows
    <2>6. CASE SignBinary
        <3>1. CASE SignFile("binary.asc", made["finalize"]["binary"], serial + 1, "install.sh.asc")
            BY <2>5, <3>1, Order
        <3>2. CASE Check("finalize", "binary.asc", FALSE, "end")
            BY <2>1, <3>2, RefusalNears DEF Check, At
        <3>3. QED BY <2>6, <3>1, <3>2 DEF SignBinary
    <2>7. CASE SignScript \/ SignSums
        BY <2>5, <2>7, Order DEF SignScript, SignSums
    <2>8. CASE CheckSigned \/ ArchiveSite
        BY <2>1, <2>8, StepNears, Order DEF CheckSigned, ArchiveSite, Check, Make
    <2>9. QED BY <1>5, <2>3, <2>4, <2>6, <2>7, <2>8 DEF Finalize
<1>6. ASSUME Deliver PROVE Nears("attest") \/ Nears("publish-release")
    <2>1. CASE Handoff("attest", "attest") \/ Handoff("publish-release", "publish")
        BY <2>1, StepNears, Order DEF Handoff, Jobs
    <2>2. CASE Attest \/ Publish
        BY <2>2, GoneNears, RefusalNears DEF Attest, Publish, At, Jobs
    <2>3. QED BY <1>6, <2>1, <2>2 DEF Deliver
<1>7. {"preflight", "verify", "attest", "publish-release"} \cup KeyJobs \cup Legs \subseteq Jobs
      /\ {"sign", "finalize"} = KeyJobs
    BY DEF Jobs, KeyJobs
<1>8. QED BY <1>1, <1>2, <1>3, <1>4, <1>5, <1>6, <1>7, EndsNear DEF Workflow

\* A job that comes nearer to its end stays on its way.
LEMMA NearsStays ==
    ASSUME IInv, IInv', NobodyStranded, NEW j \in Jobs, Nears(j)
    PROVE  NobodyStranded'
<1>1. \A k \in KeyJobs : keyring'[k] # "none" => result'[k] = "running"
    BY DEF IInv, WindowInv
<1>2. Resting' => \A k \in KeyJobs : keyring'[k] = "none"
    BY <1>1 DEF Resting, Jobs
<1>3. \A k \in Jobs : /\ result'[k] \in {"pending", "running"} => step'[k] \in OwnSteps[k]
                      /\ result'[k] = "pending" => k \in KeyJobs
    BY DEF Nears, NobodyStranded
<1>4. QED BY <1>2, <1>3 DEF NobodyStranded

\* People act only at rest; everything else uses up some of what is left.
LEMMA WorkStep ==
    ASSUME IInv, NobodyStranded, [Next]_vars
    PROVE  NobodyStranded' /\ (UNCHANGED vars \/ PeopleGoOn \/ Work' < Work)
<1>1. IInv'
    BY StepInv
<1>2. ASSUME NEW j \in Jobs, Nears(j) PROVE NobodyStranded' /\ Work' < Work
    BY <1>1, <1>2, WorkFalls, NearsStays
<1>3. CASE Workflow
    BY <1>2, <1>3, WorkflowNears
<1>4. ASSUME NEW j \in Jobs, StepDies(j) \/ RunnerLost(j) PROVE NobodyStranded' /\ Work' < Work
    BY <1>2, <1>4, EndsNear
<1>5. CASE RerunFailed \/ \E j \in Jobs : RerunFrom(j) \/ DeleteArtifact(j)
    <2>1. PeopleGoOn
        BY <1>5 DEF PeopleGoOn, RerunFailed, RerunFrom, Reset, DeleteArtifact
    <2>2. /\ Resting /\ DOMAIN result = Jobs
          /\ \/ result' = result
             \/ \E again : result' = [j \in Jobs |-> IF j \in again THEN "waiting" ELSE result[j]]
        BY <1>5, <2>1 DEF PeopleGoOn, RerunFailed, RerunFrom, Reset, DeleteArtifact, jobs, IInv, ShapeInv
    <2>3. \A j \in Jobs : result'[j] \notin {"pending", "running"}
        BY <2>2 DEF Resting
    <2>4. \A j \in KeyJobs : keyring'[j] = "none"
        BY <1>1, <2>3 DEF IInv, WindowInv, Jobs
    <2>5. QED BY <2>1, <2>3, <2>4 DEF NobodyStranded
<1>6. CASE Settled \/ UNCHANGED vars
    <2>1. UNCHANGED vars
        BY <1>6 DEF Settled
    <2>2. NobodyStranded'
        BY <2>1 DEF NobodyStranded, Resting, Startable, vars, jobs, runners
    <2>3. QED BY <2>1, <2>2
<1>7. QED BY <1>3, <1>4, <1>5, <1>6 DEF Next, Environment

\* The steps of a release run come to an end, however they fail and whatever is damaged:
\* each takes some of Work, a natural number, unless people re-run jobs or delete artifacts,
\* which they do at rest.  No job is left at a step that nothing follows, and at rest no
\* key is left on a runner.
THEOREM RunsToRest ==
    Spec => [](Work \in Nat /\ NobodyStranded) /\ [][PeopleGoOn \/ Work' < Work]_vars
<1>1. Init => NobodyStranded
    BY DEF Init, NobodyStranded, Resting
<1>2. Work \in Nat
    <2>1. \A j \in Jobs : StepsLeft(j) \in Nat
        BY StepsCounted
    <2> HIDE DEF StepsLeft
    <2>2. QED BY <2>1 DEF Work, Jobs, KeyJobs, Legs
<1>3. IInv /\ NobodyStranded /\ [Next]_vars => NobodyStranded' /\ [PeopleGoOn \/ Work' < Work]_vars
    BY WorkStep
<1>4. QED BY <1>1, <1>2, <1>3, InitInv, StepInv, PTL DEF Spec
=============================================================================
