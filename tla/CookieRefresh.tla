---------------------------- MODULE CookieRefresh ---------------------------
(***************************************************************************)
(* The refresh of one scraper account's cookies (services/cookie.go,       *)
(* bilibili_auth/cookie.go): two rows of sys_scraper_cookie, SESSDATA and  *)
(* RefreshToken, that have to change together, though they are saved by    *)
(* two statements, and the same pair at bilibili, where the old one stops  *)
(* working when a new one is issued.                                       *)
(*                                                                         *)
(* Each statement and each exchange with bilibili is a step; the job and   *)
(* the requests of administrators interleave.  A value of a cookie is the  *)
(* number of the pair it belongs to.                                       *)
(***************************************************************************)
EXTENDS Naturals

CONSTANTS Workers,     \* runs of the job and requests that can overlap
          None,        \* no value: the empty string
          MaxPairs     \* bound: pairs bilibili issues after the first

ASSUME CookieAssumption == MaxPairs \in Nat /\ None \notin Nat

VARIABLES row,     \* row[n]: the value and the flag need_refresh of cookie n
          pair,    \* the pair bilibili accepts
          work,    \* work[w]: where worker w stands
          harm     \* ghost: what can have parted the rows from bilibili's pair

vars == <<row, pair, work, harm>>

Names == {"SESSDATA", "RefreshToken"}
Pairs == 0..MaxPairs
Idle == [at |-> "idle"]

\* The workers that hold a new pair they have not saved whole, among ws.
Carrying(ws) ==
  {w \in ws : work[w].at \in {"saveSess", "saveToken"} /\ work[w].got # None}

\* Once values of several pairs are mixed in the rows there is no more to part.
Harmed(by) ==
  IF by = "mixed" \/ harm = {"mixed"} THEN {"mixed"} ELSE harm \cup {by}

Become(w, step) == work' = [work EXCEPT ![w] = step]
GoTo(w, at) == work' = [work EXCEPT ![w].at = at]
\* RefreshByID is done, with whatever result: on to the next cookie.
NextCookie(w) == Become(w, [at |-> "next", todo |-> work[w].todo])
\* It has succeeded; due is a ghost: bilibili wanted the pair replaced.
ToMark(w, got, due) ==
  Become(w, [at |-> "mark", todo |-> work[w].todo, id |-> work[w].id,
             got |-> got, due |-> due])

Init ==
  /\ row = [n \in Names |-> [value |-> 0, need |-> TRUE]]
  /\ pair = 0
  /\ work = [w \in Workers |-> Idle]
  /\ harm = {}

-----------------------------------------------------------------------------
(* RefreshAll, and RefreshByID up to the exchange.                         *)

\* The job, or an administrator, takes all flagged rows.
RefreshAll(w) ==
  /\ work[w] = Idle
  /\ Become(w, [at |-> "next", todo |-> {n \in Names : row[n].need}])
  /\ UNCHANGED <<row, pair, harm>>
\* An administrator asks for one.
RefreshOne(w) ==
  /\ work[w] = Idle
  /\ \E n \in Names : Become(w, [at |-> "next", todo |-> {n}])
  /\ UNCHANGED <<row, pair, harm>>
RoundDone(w) ==
  /\ work[w].at = "next" /\ work[w].todo = {}
  /\ Become(w, Idle)
  /\ UNCHANGED <<row, pair, harm>>

\* GetByID.  A RefreshToken goes to bilibili alone; SESSDATA with the token the
\* next query finds.
Found(w, n) ==
  LET alone == n = "RefreshToken"
  IN [at |-> IF alone THEN "ask" ELSE "find",
      todo |-> work[w].todo \ {n}, id |-> n,
      sess |-> IF alone THEN None ELSE row[n].value,
      token |-> IF alone THEN row[n].value ELSE None]
RefreshByID(w) ==
  /\ work[w].at = "next"
  /\ \E n \in work[w].todo :
       Become(w, Found(w, n)) \/ Become(w, [at |-> "next", todo |-> work[w].todo \ {n}])
  /\ UNCHANGED <<row, pair, harm>>

FindTokenRetries(w) ==
  /\ work[w].at = "find"
  /\ \/ Become(w, [work[w] EXCEPT !.at = "ask", !.token = row["RefreshToken"].value])
     \/ Become(w, [at |-> "next", todo |-> work[w].todo \cup {work[w].id}])
  /\ UNCHANGED <<row, pair, harm>>
FindToken(w) ==
  /\ work[w].at = "find"
  /\ \/ Become(w, [work[w] EXCEPT !.at = "ask", !.token = row["RefreshToken"].value])
     \/ NextCookie(w)
  /\ UNCHANGED <<row, pair, harm>>

-----------------------------------------------------------------------------
(* The exchange: CookieRefresher.ShouldRefresh and Refresh.                *)

\* bilibili may want the pair replaced that it is shown.  Only a yes in XML is read
\* as one: shouldRefreshJSON compares the colon after "refresh" with t, and so
\* reads every answer in JSON as a no; a no counts as a refresh that succeeded.
ShouldRefresh(w) ==
  /\ work[w].at = "ask"
  /\ \E due \in BOOLEAN :
       /\ due => work[w].sess = pair
       /\ (due /\ GoTo(w, "post")) \/ ToMark(w, None, due) \/ NextCookie(w)
  /\ UNCHANGED <<row, pair, harm>>

\* RefreshResult.Success: got is the pair bilibili issued with this answer, if it
\* did; an empty SESSDATA is not saved.
Success(w, got, sess, token) ==
  Become(w, [at |-> IF sess = None THEN "saveToken" ELSE "saveSess",
             todo |-> work[w].todo, id |-> work[w].id, tried |-> work[w].token,
             got |-> got, newSess |-> sess, newToken |-> token])
\* bilibili takes the current pair and issues the next.  The answer may be lost,
\* or cut: SESSDATA is what its cookies have, the token what its body has, the old
\* one where no token begins in it.  (The piece of a token that breaks off is one
\* more that bilibili does not take, like an old one, which stands for it.)
Accepted(w) ==
  LET new == pair + 1
  IN /\ work[w].sess = pair /\ work[w].token = pair
     /\ pair < MaxPairs
     /\ pair' = new
     /\ \/ NextCookie(w) /\ harm' = Harmed("lost")
        \/ \E sess \in {new, None}, token \in {new, work[w].token} :
             /\ Success(w, new, sess, token)
             /\ harm' = IF sess = new /\ token = new THEN harm ELSE Harmed("mixed")
\* No answer, or a refusal.  A refusal that sets any cookie is Success with the
\* token that was refused; its cookies are others, or SESSDATA emptied: bilibili
\* sets a SESSDATA with the pair it belongs to.
Refused(w) ==
  /\ NextCookie(w) \/ Success(w, None, None, work[w].token)
  /\ UNCHANGED <<pair, harm>>
Refresh(w) ==
  /\ work[w].at = "post"
  /\ Accepted(w) \/ Refused(w)
  /\ UNCHANGED row

-----------------------------------------------------------------------------
(* updateCookiesFromResult and MarkRefreshed.                              *)

\* The statement failed: a new pair is lost, or half of it.
Unsaved(w) == IF work[w].got = None THEN harm ELSE Harmed("lost")
SaveFailsUnseen(w) ==
  /\ work[w].at \in {"saveSess", "saveToken"}
  /\ ToMark(w, work[w].got, TRUE)
  /\ harm' = Unsaved(w)
  /\ UNCHANGED <<row, pair>>
SaveFails(w) ==
  /\ work[w].at \in {"saveSess", "saveToken"}
  /\ NextCookie(w)
  /\ harm' = Unsaved(w)
  /\ UNCHANGED <<row, pair>>

SaveSess(w) ==
  /\ work[w].at = "saveSess"
  /\ row' = [row EXCEPT !["SESSDATA"].value = work[w].newSess]
  /\ GoTo(w, "saveToken")
  /\ UNCHANGED <<pair, harm>>
SaveTokenOfCookie(w) ==
  /\ work[w].at = "saveToken"
  /\ row' = [row EXCEPT ![work[w].id].value = work[w].newToken]
  /\ ToMark(w, work[w].got, TRUE)
  /\ UNCHANGED <<pair, harm>>
\* Whatever is in the row by now, the token the refresh was tried with included.
SaveToken(w) ==
  /\ work[w].at = "saveToken"
  /\ row' = [row EXCEPT !["RefreshToken"].value = work[w].newToken]
  /\ harm' = IF work[w].newToken = work[w].tried
                /\ row["RefreshToken"].value # work[w].tried
             THEN Harmed("reverted") ELSE harm
  /\ ToMark(w, work[w].got, TRUE)
  /\ UNCHANGED pair

\* Nobody looks at the error of MarkRefreshed.
MarkRefreshed(n) ==
  row' \in {row, [row EXCEPT ![n].need = FALSE]}
MarkCookie(w) ==
  /\ work[w].at = "mark"
  /\ MarkRefreshed(work[w].id)
  /\ IF work[w].id = "SESSDATA" THEN GoTo(w, "markToken") ELSE NextCookie(w)
  /\ UNCHANGED <<pair, harm>>
MarkToken(w) ==
  /\ work[w].at = "markToken"
  /\ MarkRefreshed("RefreshToken")
  /\ NextCookie(w)
  /\ UNCHANGED <<pair, harm>>

-----------------------------------------------------------------------------
(* The surroundings.                                                       *)

\* An administrator enters a value and the flag: the one a browser has, or an
\* older one.  With a worker still to save, the current one can end in an older
\* value on top of a newer one.
Update(n) ==
  /\ \E value \in 0..pair, need \in BOOLEAN :
       /\ row' = [row EXCEPT ![n] = [value |-> value, need |-> need]]
       /\ harm' = IF value # pair \/ Carrying(Workers) # {} THEN Harmed("mixed")
                  ELSE IF \A o \in Names \ {n} : row[o].value = pair THEN {}
                  ELSE harm
  /\ UNCHANGED <<pair, work>>

\* The process dies and starts again.
Restart ==
  /\ work' = [w \in Workers |-> Idle]
  /\ harm' = IF Carrying(Workers) = {} THEN harm ELSE Harmed("lost")
  /\ UNCHANGED <<row, pair>>

Step(w) ==
  \/ RoundDone(w) \/ RefreshByID(w) \/ FindToken(w)
  \/ ShouldRefresh(w) \/ Refresh(w)
  \/ SaveSess(w) \/ SaveToken(w) \/ SaveFails(w)
  \/ MarkCookie(w) \/ MarkToken(w)

Next ==
  \/ \E w \in Workers : RefreshAll(w) \/ RefreshOne(w) \/ Step(w)
  \/ \E n \in Names : Update(n)
  \/ Restart

\* A round that has begun goes on.
Spec == Init /\ [][Next]_vars /\ \A w \in Workers : WF_vars(Step(w))

-----------------------------------------------------------------------------
(* Properties.                                                             *)

Choosing == [at : {"next"}, todo : SUBSET Names]
Trying ==
  [at : {"find", "ask", "post"}, todo : SUBSET Names, id : Names,
   sess : Pairs \cup {None}, token : Pairs \cup {None}]
Saving ==
  [at : {"saveSess", "saveToken"}, todo : SUBSET Names, id : Names,
   tried : Pairs, got : Pairs \cup {None},
   newSess : Pairs \cup {None}, newToken : Pairs]
Marking ==
  [at : {"mark", "markToken"}, todo : SUBSET Names, id : Names,
   got : Pairs \cup {None}, due : BOOLEAN]
Tasks == {Idle} \cup Choosing \cup Trying \cup Saving \cup Marking
TypeOK ==
  /\ row \in [Names -> [value : Pairs, need : BOOLEAN]]
  /\ pair \in Pairs
  /\ work \in [Workers -> Tasks]
  /\ harm \in {{"mixed"}} \cup SUBSET {"lost", "reverted"}

\* Cookie n's row holds the pair bilibili accepts, or one worker alone is about to
\* save it.
Kept(n) ==
  \/ row[n].value = pair
  \/ \E w \in Carrying(Workers) : Carrying(Workers) = {w} /\ work[w].got = pair
\* The rows hold the pair bilibili accepts, or one worker alone is about to save
\* it, however many refresh at once: no refresh can issue another pair between an
\* exchange and its two saves.  Excused are an answer, a save or a process that
\* failed after the exchange, and an edit of an old value or in the middle of an
\* exchange.  The write of a token bilibili refused over the newer one of another
\* worker, which the code does, excuses the token's row and never SESSDATA's.
PairKept ==
  /\ harm \subseteq {"reverted"} => Kept("SESSDATA")
  /\ harm = {} => Kept("RefreshToken")

\* A refresh that got a new pair and is about to be marked and reported as
\* successful has both its values in the rows, or newer ones: a save that failed
\* is not reported as success, and no other worker's pair that is older comes
\* after it.  Excused are an answer that was cut, an old token written back and
\* an edit; a refresh that got no pair may be reported as successful all the same
\* and claims nothing here.
SuccessIsSaved ==
  harm \subseteq {"lost"} =>
    \A w \in Workers : work[w].at \in {"mark", "markToken"} /\ work[w].got # None =>
      \A n \in Names : row[n].value >= work[w].got

\* A round ends, whatever fails in it: a cookie is tried once in it.
RoundEnds == \A w \in Workers : work[w] # Idle ~> work[w] = Idle

\* A cookie about to be marked as refreshed though bilibili wanted it replaced
\* has been replaced ("MarkRefreshed marks the cookie as refreshed").
MarkedIsRefreshed ==
  \A w \in Workers : work[w].at = "mark" /\ work[w].due => work[w].got # None
=============================================================================
