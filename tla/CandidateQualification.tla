----------------------- MODULE CandidateQualification -----------------------
(***************************************************************************)
(* CandidateProfile and RuntimeInspection composed: a profile that tools   *)
(* made is collected with xtask collect-candidate --profile-sha256, which  *)
(* inspects this host with it; or a public command runs.                   *)
(*                                                                         *)
(* One session per behaviour, after whatever was done to the profiles.     *)
(* Nothing reads the tools' files once it starts, and they are forgotten.  *)
(***************************************************************************)
EXTENDS RuntimeInspection, CandidateProfile

\* A profile's window is of releases that kernels may have.
ASSUME QualificationConstants == Releases \subseteq Kernels

VARIABLE handed \* the text collect has read, until the session leaves its selection

qualificationVars == <<vars, candidateVars, handed>>

NoSession == pc = "done" /\ verdict = "none"

QualificationInit ==
    /\ CandidateInit
    /\ handed = None
    /\ system = HealthySystem
    /\ inputs = NoInputs
    /\ command = "status" /\ root = FALSE
    /\ pc = "done" /\ verdict = "none"
    /\ phase = "inspect"
    /\ query = [n \in Names |-> Unasked]
    /\ hash = [f \in Paths |-> "unread"]
    /\ owned = [f \in Paths |-> "unasked"]
    /\ provider = <<>>
    /\ checks = [i \in Ids |-> "none"]
    /\ reboot = FALSE /\ unsafe = FALSE
    /\ before = NoSnapshot
    /\ native = [m \in Helpers |-> Idle]
    /\ early = 0 /\ late = 0 /\ faulted = FALSE
    /\ wasHealthy = TRUE /\ wasReady = TRUE

ProfileWork == NoSession /\ CandidateNext /\ UNCHANGED <<vars, handed>>

PutAway ==
    /\ rpms' = Nothing /\ extracted' = Nothing /\ shelf' = Nothing
    /\ lock' = None
    /\ tool' = NoTool
    /\ receipts' = {} /\ edits' = 0 /\ runs' = 0

\* The session's own variables at its start.
Begins ==
    /\ UNCHANGED <<system, caches, provider, checks, reboot, before, native, unsafe, early, late, faulted>>
    /\ phase' = IF Collecting' THEN "preflight" ELSE "inspect"
    /\ wasHealthy' = HealthyIn(system)' /\ wasReady' = ReadyIn(system)'

\* status and doctor, whose profiles are those of a release: any.
StartPublic ==
    /\ NoSession /\ edits = 0 /\ runs = 0 /\ tool = NoTool
    /\ inputs' \in Requests
    /\ command' \in {"status", "doctor"} /\ root' \in BOOLEAN
    /\ pc' = "select"
    /\ Begins
    /\ PutAway
    /\ UNCHANGED <<verdict, handed>>

\* The digests a maintainer pins: of a generator's record, or of a retargeting of one.
Traced ==
    LET generated == {r.text : r \in {r \in receipts : r.from = None}}
        next(texts) == texts \cup {r.text : r \in {r \in receipts : r.from \in texts}}
    IN next(next(generated))

AnyDigest(text, pin) == RegularFile(text) /\ ValidProfile(text) \* mutant: the digest is not compared

\* read_profile and the comparison of digests, then the parser.
DigestMatches(text, pin) == RegularFile(text) /\ text = pin /\ ValidProfile(text)

StartCollect ==
    /\ NoSession /\ ~Running
    /\ command' \in {"preflight", "probe"} /\ root' \in BOOLEAN
    /\ \E s \in Spots, pin \in Traced :
         IF DigestMatches(shelf[s], pin)
         THEN /\ \E accept, platform \in BOOLEAN, kernel \in Kernels :
                   inputs' = [channel |-> "stable", accept |-> accept, kernel |-> kernel,
                              profiles |-> [p \in Profiles |->
                                  [status |-> shelf[s].status, platform |-> platform,
                                   min |-> shelf[s].min, max |-> shelf[s].max]]]
              /\ pc' = "select"
              /\ handed' = shelf[s]
              /\ UNCHANGED verdict
         ELSE /\ pc' = "done" /\ verdict' = "refused"
              /\ UNCHANGED <<inputs, handed>>
    /\ Begins
    /\ PutAway

QualificationNext ==
    \/ ProfileWork
    \/ StartPublic
    \/ StartCollect
    \/ ~NoSession /\ Next /\ handed' = None /\ UNCHANGED candidateVars
    \/ NoSession /\ UNCHANGED qualificationVars

QualificationSpec ==
    /\ QualificationInit /\ [][QualificationNext]_qualificationVars
    /\ WF_qualificationVars(Session /\ handed' = None /\ UNCHANGED candidateVars)

-----------------------------------------------------------------------------

\* Sessions and tools hold what they may hold; a retargeted window has an upper end.
QualificationTypeOK ==
    /\ TypeOK /\ CandidateTypeOK
    /\ handed \in {None} \cup Texts

\* What collect inspects this host with was made as the records say: whole, still an
\* unqualified candidate for one kernel release, and bound to the RPMs and the lock
\* of one run of the generator, whatever happened to the files between the tools.
CollectedIsPinned ==
    [][handed' # None =>
         /\ ~handed'.link /\ handed'.defect = None
         /\ handed'.status = "candidate" /\ handed'.evidence = "absent"
         /\ handed'.max = handed'.min + 1
         /\ \E r \in receipts : /\ r.from = None
                                /\ r.text.bound = handed'.bound
                                /\ r.text.lock = handed'.lock /\ r.text.sources = handed'.sources
      ]_qualificationVars

\* A session that has begun ends whatever its helpers do: each has a deadline.
SessionEnds == []<>(pc = "done")
=============================================================================
