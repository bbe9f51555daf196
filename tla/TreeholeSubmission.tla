------------------------ MODULE TreeholeSubmission ------------------------
(***************************************************************************)
(* Submissions to the topics of module TreeholeTopic: a visitor's insert,  *)
(* which first looks at the topic, the anchor's verdict, and the cached    *)
(* page that shows a submission to everybody once it is approved           *)
(* (services/treehole_submission.go).                                      *)
(***************************************************************************)
EXTENDS TreeholeTopic

CONSTANT Submissions    \* the attempts, numbered like the ids of their rows

ASSUME SubmissionAssumption == Submissions \subseteq Nat /\ IsFiniteSet(Submissions)

VARIABLES subs,      \* subs[s]: the committed row, or None
          author,    \* author[s]: Create between its SELECT and its commit
          verdict,   \* verdict[s]: UpdateAuditStatusByID between UPDATE and commit
          page,      \* page[s], pageFill[s]: GetBySubmissionID's cache
          pageFill

Page == INSTANCE CacheData WITH Keys <- Submissions, cached <- page, fill <- pageFill

subvars == <<subs, author, verdict, page, pageFill>>

Pending == "pending"
Hidden == "hidden"
Approved == "approved"
Undecided == "undecided"

SubInit ==
  /\ Init
  /\ subs = [s \in Submissions |-> None]
  /\ author = [s \in Submissions |-> None]
  /\ verdict = [s \in Submissions |-> Undecided]
  /\ Page!CacheInit

-----------------------------------------------------------------------------
(* Create.                                                                 *)

\* The SELECT takes no lock; the checks and the submit time are one moment.
SubmitChecks(s) ==
  /\ subs[s] = None /\ author[s] = None
  /\ \E t \in DOMAIN topics :
       /\ IsOpen(topics[t])
       /\ author' = [author EXCEPT ![s] = [topic |-> t, moment |-> now]]
  /\ UNCHANGED <<vars, subs, verdict, page, pageFill>>
SubmitCommits(s) ==
  /\ author[s] # None /\ subs[s] = None
  /\ subs' = [subs EXCEPT ![s] =
              [topic |-> author[s].topic, moment |-> author[s].moment, status |-> Pending]]
  /\ author' = [author EXCEPT ![s] = None]
  /\ Page!Overtake(s) /\ UNCHANGED <<vars, verdict, page>>
SubmitFails(s) ==
  /\ author[s] # None
  /\ author' = [author EXCEPT ![s] = None]
  /\ UNCHANGED <<vars, subs, verdict, page, pageFill>>

-----------------------------------------------------------------------------
(* UpdateAuditStatusByID: the page is cleared before the commit, with the   *)
(* row locked, so that verdicts on one submission take turns.               *)
JudgeKeepsPage(s) ==
  /\ subs[s] # None /\ verdict[s] = Undecided
  /\ \E v \in {Hidden, Approved} : verdict' = [verdict EXCEPT ![s] = v]
  /\ UNCHANGED <<vars, subs, author, page, pageFill>>
Judge(s) ==
  /\ subs[s] # None /\ verdict[s] = Undecided
  /\ \E v \in {Hidden, Approved} : verdict' = [verdict EXCEPT ![s] = v]
  /\ Page!Overtake(s) /\ Page!Invalidate(s)
  /\ UNCHANGED <<vars, subs, author>>
JudgeCommits(s) ==
  /\ verdict[s] # Undecided
  /\ subs' = [subs EXCEPT ![s].status = verdict[s]]
  /\ verdict' = [verdict EXCEPT ![s] = Undecided]
  /\ Page!Overtake(s)
  /\ UNCHANGED <<vars, author, page>>
JudgeFails(s) ==
  /\ verdict[s] # Undecided
  /\ verdict' = [verdict EXCEPT ![s] = Undecided]
  /\ UNCHANGED <<vars, subs, author, page, pageFill>>

-----------------------------------------------------------------------------
(* GetBySubmissionID: an approved row, or nothing; the nothing is cached too. *)
Shown(s) == subs[s] # None /\ subs[s].status = Approved
GetBySubmissionID(s) ==
  Page!Miss(s, Shown(s), verdict[s] # Undecided) /\ UNCHANGED <<vars, subs, author, verdict>>
PageStep(s) == Page!CacheStep(s) /\ UNCHANGED <<vars, subs, author, verdict>>

SubmissionStep(s) ==
  \/ SubmitChecks(s) \/ SubmitCommits(s) \/ SubmitFails(s)
  \/ Judge(s) \/ JudgeCommits(s) \/ JudgeFails(s)
SubNext ==
  \/ Next /\ UNCHANGED subvars
  \/ \E s \in Submissions \cap crew.subs :
       \/ SubmissionStep(s)
       \/ "page" \in crew.roles /\ (GetBySubmissionID(s) \/ PageStep(s))

SubSpec == SubInit /\ [][SubNext]_<<vars, subvars>>

-----------------------------------------------------------------------------
(* Properties.                                                             *)

SubRow == [topic : Nat, moment : Nat, status : {Pending, Hidden, Approved}]
SubTypeOK ==
  /\ subs \in [Submissions -> {None} \cup SubRow]
  /\ author \in [Submissions -> {None} \cup [topic : Nat, moment : Nat]]
  /\ verdict \in [Submissions -> {Undecided, Hidden, Approved}]
  /\ \A s \in Submissions : verdict[s] # Undecided => subs[s] # None

\* What everybody is shown of a submission is its committed verdict, unless the
\* page was queried across a verdict's transaction or clearing it failed.
PageStaleOnlyByRace ==
  \A s \in Submissions : page[s] = None \/ page[s].raced \/ page[s].data = Shown(s)

\* What is taken back fades out: a submission whose last verdict hides it is not
\* shown for ever, nor is a topic listed that stays inactive.  An entry cached
\* across the change, or never cleared, is gone after its hour.
FadesOut ==
  /\ \A s \in Submissions :
       <>[](subs[s] # None /\ subs[s].status = Hidden /\ verdict[s] = Undecided) =>
       <>[](page[s] = None \/ ~page[s].data)
  /\ \A t \in 1..MaxTopics :
       <>[](t \notin Active(topics)) => <>[](cached["list"] = None \/ t \notin cached["list"].data)
=============================================================================
