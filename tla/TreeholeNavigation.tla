------------------------- MODULE TreeholeNavigation -------------------------
(***************************************************************************)
(* Staff who go through the submissions of a topic one by one              *)
(* (NavigateByTopicID in services/treehole_submission.go): each request    *)
(* counts the submissions, then takes the one at an offset, in two         *)
(* statements, and the list may change between them and between requests.  *)
(***************************************************************************)
EXTENDS TreeholeSubmission

VARIABLE walk   \* the reader's walk from the first page to the last, Resting or Lost

navvars == <<vars, subvars, walk>>

Resting == [at |-> "resting"]
\* A record has left the list during the walk: those behind it move up, and one of
\* them may be skipped.  Such a walk promises nothing and is followed no further.
Lost == [at |-> "lost"]

\* Only approved ones, or all that are not hidden.  (All topics here are one
\* anchor's, and the reader walks through topic 1.)
ListedIn(rows, approved) ==
  {s \in Submissions :
     /\ rows[s] # None /\ rows[s].topic = 1
     /\ IF approved THEN rows[s].status = Approved ELSE rows[s].status # Hidden}
\* ORDER BY submit_time, id.
Before(s, t) ==
  \/ subs[s].moment < subs[t].moment
  \/ subs[s].moment = subs[t].moment /\ s < t
OffsetOneMore(p) == p
Offset(p) == p - 1
Record(approved, p) ==
  LET listed == ListedIn(subs, approved)
  IN {s \in listed : Cardinality({t \in listed : Before(t, s)}) = Offset(p)}

NavInit == SubInit /\ walk = Resting

\* The reader opens the first page.  Ghost: "due" holds what was listed then.
Open ==
  /\ walk = Resting
  /\ \E approved \in BOOLEAN :
       walk' = [at |-> "count", page |-> 1, approved |-> approved, seen |-> {},
                due |-> ListedIn(subs, approved)]
  /\ UNCHANGED <<vars, subvars>>
\* Nothing to count, or no record at the offset, and the walk is over.
NavigateCounts ==
  /\ walk.at = "count"
  /\ walk' = [walk EXCEPT !.at = IF ListedIn(subs, walk.approved) = {} THEN "end" ELSE "scan"]
  /\ UNCHANGED <<vars, subvars>>
NavigateScans ==
  LET record == Record(walk.approved, walk.page)
  IN /\ walk.at = "scan"
     /\ walk' = IF record = {} THEN [walk EXCEPT !.at = "end"]
                ELSE [walk EXCEPT !.at = "count", !.page = @ + 1, !.seen = @ \cup record]
     /\ UNCHANGED <<vars, subvars>>

Noticed ==
  IF walk \notin {Resting, Lost} /\
     ~(ListedIn(subs, walk.approved) \subseteq ListedIn(subs', walk.approved))
  THEN Lost ELSE walk

NavNext ==
  \/ SubNext /\ walk' = Noticed
  \/ "walk" \in crew.roles /\ (Open \/ NavigateCounts \/ NavigateScans)
NavSpec == NavInit /\ [][NavNext]_navvars

\* Steps of the job, of the list's cache and of a page's cache.
ByJob(A) == A /\ UNCHANGED <<subvars, walk>>
OfList(A) == A /\ UNCHANGED <<now, topics, op, job, crew, excused, subvars, walk>>
OfPage(A) == A /\ UNCHANGED <<vars, subs, author, verdict, walk>>

\* The job runs every night and its statements do not fail for ever; a transaction
\* ends, a fill stores or fails, and an entry's hour passes.
NavFairSpec ==
  /\ NavSpec
  /\ WF_navvars(ByJob(JobStep)) /\ SF_navvars(ByJob("job" \in crew.roles /\ JobUpdates))
  /\ WF_navvars(OfList(Store("list") \/ StoreFails("list")))
  /\ WF_navvars(OfList(Expire("list")))
  /\ \A s \in Submissions :
       /\ WF_navvars(JudgeCommits(s) /\ walk' = Noticed)
       /\ WF_navvars(OfPage(Page!Store(s) \/ Page!StoreFails(s)))
       /\ WF_navvars(OfPage(Page!Expire(s)))

-----------------------------------------------------------------------------
(* Properties.                                                             *)

\* A walk that has come to its end has shown every submission that was listed when
\* it began, in whatever order others were committed or approved meanwhile, unless
\* one left the list, which moves those behind it.
SkippedOnlyByRemoval ==
  walk.at = "end" => walk.due \subseteq walk.seen
=============================================================================
