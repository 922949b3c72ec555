------------------------ MODULE TelegramLinkingProofs ------------------------
(***************************************************************************)
(* Proofs about TelegramLinking for any number of accounts, rows and       *)
(* requests in flight.                                                     *)
(*                                                                         *)
(* Every property needs to know what a request in flight can still do to   *)
(* rows that have changed since it read them (WellRead, Supersedes).       *)
(***************************************************************************)
EXTENDS TelegramLinking, TLAPS

Creating(r) == req[r].kind = "create"

\* The account for which r creates or consumes a session.
OnBehalfOf(r) == sessions[req[r].session].user

\* What a request has read and checked.  A consumption writes no row that was
\* active when it was read, and deletes none.
WellRead(r) ==
    /\ req[r].kind \in {"create", "mark", "link"} =>
          req[r].session \in Sessions /\ OnBehalfOf(r) \in Users
    /\ req[r].kind = "unlink" => req[r].row \in LinkIds
    /\ req[r].kind = "link" =>
          /\ req[r].telegram \in Telegrams
          /\ ~req[r].loaded.active /\ ~req[r].dropped.active
          /\ req[r].row = None => req[r].loaded = NoLink /\ req[r].drop = None
          /\ req[r].drop # None => req[r].drop # req[r].row

\* A request that creates a session revokes every other one of its user.
Supersedes(r) ==
    Creating(r) =>
        \A o \in Sessions :
            sessions[o].active /\ sessions[o].user = OnBehalfOf(r) =>
                o \in req[r].revoke \/ OnBehalfOf(r) \in paired

\* Two requests that create sessions of one user are known to overlap.
Overlaps ==
    \A r, q \in Requests :
        r # q /\ Creating(r) /\ Creating(q) /\ OnBehalfOf(r) = OnBehalfOf(q) =>
            OnBehalfOf(r) \in paired

\* LinkWasAsked, of the rows.
RowAsked(l) ==
    links[l].active => <<links[l].user, links[l].telegram>> \in granted \/ l \in raced

IInv ==
    /\ TypeOK
    /\ UniqueColumns(links)
    /\ \A r \in Requests : WellRead(r) /\ Supersedes(r)
    /\ Overlaps
    /\ OneLiveSession
    /\ \A l \in LinkIds : RowAsked(l)

-----------------------------------------------------------------------------
LEMMA Lookup ==
    ASSUME NEW u, NEW t
    PROVE  /\ LinkOfUser(u) \in LinkIds \cup {None}
           /\ LinkOfUser(u) # None => links[LinkOfUser(u)].user = u
           /\ LinkOfUser(u) = None => \A l \in LinkIds : links[l].user # u
           /\ LinkOfTelegram(t) \in LinkIds \cup {None}
           /\ LinkOfTelegram(t) # None => links[LinkOfTelegram(t)].telegram = t
BY ConstantsAssumption DEF LinkOfUser, LinkOfTelegram

LEMMA LoadedType ==
    ASSUME TypeOK, NEW l \in LinkIds \cup {None}
    PROVE  /\ Loaded(l) \in Link \cup {NoLink}
           /\ Loaded(l).active => l \in LinkIds
BY DEF TypeOK, Loaded, NoLink

\* A consumption leaves alone whoever else is linked already.
LEMMA ConsumeReads ==
    ASSUME TypeOK, UniqueColumns(links),
           NEW r \in Requests, NEW s \in Sessions, NEW t \in Telegrams, Consume(r, s, t)
    PROVE  /\ req'[r] \in Request
           /\ \A q \in Requests \ {r} : req'[q] = req[q]
           /\ UNCHANGED <<links, sessions, granted, raced, paired>>
           /\ WellRead(r)' /\ req'[r].kind = "link"
<1> DEFINE u == sessions[s].user
           ul == LinkOfUser(u)
           tl == LinkOfTelegram(t)
           row == IF ul # None THEN ul ELSE tl
           drop == IF ul # None /\ tl # None /\ ul # tl THEN tl ELSE None
           new == [NoRequest EXCEPT !.kind = "link", !.session = s, !.telegram = t,
                     !.row = row, !.loaded = Loaded(row),
                     !.drop = drop, !.dropped = Loaded(drop)]
<1>1. /\ u \in Users
      /\ ~(Loaded(ul).active /\ Loaded(ul).telegram = t)
      /\ FreeOfOthers(u, t)
      /\ req' = [req EXCEPT ![r] = new]
      /\ UNCHANGED <<links, sessions, granted, raced, paired>>
  BY DEF Consume, Consumable, TypeOK, Session
<1>2. /\ ul \in LinkIds \cup {None} /\ tl \in LinkIds \cup {None}
      /\ ul # None => links[ul].user = u
      /\ ul = None => \A l \in LinkIds : links[l].user # u
  BY Lookup
<1>3. ~Loaded(ul).active
  BY <1>1 DEF FreeOfOthers
<1>4. Loaded(tl).active => Loaded(tl).user = u /\ tl \in LinkIds
  BY <1>1, <1>2, LoadedType DEF FreeOfOthers
<1>5. Loaded(tl).active => links[tl].user = u /\ links[tl] # NoLink
  BY <1>4, ConstantsAssumption DEF Loaded, NoLink
<1>6. Loaded(tl).active => ul = tl
  <2>1. u # None
    BY <1>1, ConstantsAssumption
  <2>2. ul # None => links[ul] # NoLink
    BY <1>2, <2>1 DEF NoLink
  <2> QED
    BY <1>2, <1>4, <1>5, <2>2 DEF UniqueColumns
<1>7. /\ row \in LinkIds \cup {None} /\ drop \in LinkIds \cup {None}
      /\ Loaded(row) \in Link \cup {NoLink} /\ Loaded(drop) \in Link \cup {NoLink}
      /\ ~Loaded(row).active /\ ~Loaded(drop).active
      /\ row = None => Loaded(row) = NoLink /\ drop = None
      /\ drop # None => drop # row
  <2>1. row \in {ul, tl} /\ drop \in {tl, None}
    OBVIOUS
  <2>2. ~Loaded(None).active /\ Loaded(None) = NoLink
    BY DEF Loaded, NoLink
  <2>3. ~Loaded(tl).active
    BY <1>3, <1>6
  <2> QED
    BY <1>2, <1>3, <2>1, <2>2, <2>3, LoadedType
<1> HIDE DEF u, ul, tl, row, drop
<1>8. new \in Request
  BY <1>7 DEF Request, NoRequest
<1>9. req'[r] = new /\ \A q \in Requests \ {r} : req'[q] = req[q]
  BY <1>1 DEF TypeOK
<1>10. /\ new.kind = "link" /\ new.session = s /\ new.telegram = t /\ new.row = row
       /\ new.loaded = Loaded(row) /\ new.drop = drop /\ new.dropped = Loaded(drop)
  BY DEF NoRequest
<1>11. sessions'[s].user \in Users
  BY <1>1 DEF u
<1> HIDE DEF new
<1> QED
  BY <1>1, <1>7, <1>8, <1>9, <1>10, <1>11 DEF WellRead, OnBehalfOf

\* The row that a consumption leaves is a link.
LEMMA WrittenType ==
    ASSUME TypeOK, NEW r \in Requests, WellRead(r), req[r].kind = "link",
           NEW l \in LinkIds,
           req[r].row = None \/ (l = req[r].row /\ links[l] # NoLink)
    PROVE  LET kept == IF req[r].drop = None THEN links
                       ELSE [links EXCEPT ![req[r].drop] = NoLink]
               new == Written(kept[l], req[r].loaded, OnBehalfOf(r), req[r].telegram)
           IN  /\ new \in Link
               /\ links[l] = req[r].loaded \/ req[r].row = None =>
                     new.user = OnBehalfOf(r) /\ new.telegram = req[r].telegram
<1> DEFINE kept == IF req[r].drop = None THEN links
                   ELSE [links EXCEPT ![req[r].drop] = NoLink]
<1>1. /\ OnBehalfOf(r) \in Users /\ req[r].telegram \in Telegrams
      /\ req[r].row = None => req[r].loaded = NoLink /\ req[r].drop = None
      /\ req[r].drop # None => req[r].drop # req[r].row
      /\ req[r] \in Request
  BY DEF WellRead, TypeOK
<1>2. req[r].row # None => kept[l] = links[l] /\ links[l] \in Link
  BY <1>1 DEF TypeOK
<1>3. CASE req[r].row # None
  BY <1>1, <1>2, <1>3 DEF Written, Link
<1>4. CASE req[r].row = None
  BY <1>1, <1>4, ConstantsAssumption DEF Written, Link, NoLink
<1> QED
  BY <1>3, <1>4

-----------------------------------------------------------------------------
LEMMA TypeStep ==
    ASSUME TypeOK, UniqueColumns(links), \A r \in Requests : WellRead(r), Next
    PROVE  TypeOK'
<1>1. NoRequest \in Request /\ NoLink \in Link \cup {NoLink}
  BY DEF Request, NoRequest
<1>2. ASSUME NEW r \in Requests, End(r) PROVE req' \in [Requests -> Request]
  BY <1>1, <1>2 DEF End, TypeOK
<1>3. \A s \in Sessions : \A b, c, d \in BOOLEAN :
         /\ [sessions[s] EXCEPT !.active = b] \in Session
         /\ [sessions[s] EXCEPT !.active = b, !.revoked = c] \in Session
         /\ [sessions[s] EXCEPT !.used = c, !.active = b] \in Session
         /\ [sessions[s] EXCEPT !.expired = d] \in Session
         /\ \A u \in Users : [sessions[s] EXCEPT !.user = u] \in Session
  BY DEF TypeOK, Session
<1>4. ASSUME NEW r \in Requests, NEW u \in Users, NEW s \in Sessions,
             CreateLinkSession(r, u, s)
      PROVE  TypeOK'
  <2> DEFINE new == [NoRequest EXCEPT !.kind = "create", !.session = s,
                       !.revoke = {o \in Sessions : sessions[o].user = u /\ sessions[o].active}]
  <2>1. new \in Request
    BY DEF Request, NoRequest
  <2>2. req' = [req EXCEPT ![r] = new] /\ sessions' = [sessions EXCEPT ![s].user = u]
    BY <1>4 DEF CreateLinkSession
  <2> HIDE DEF new
  <2>3. req' \in [Requests -> Request] /\ sessions' \in [Sessions -> Session]
    BY <1>3, <2>1, <2>2 DEF TypeOK
  <2> QED
    BY <1>4, <2>3 DEF CreateLinkSession, TypeOK
<1>5. ASSUME NEW r \in Requests, CommitLinkSession(r) PROVE TypeOK'
  <2>1. sessions' \in [Sessions -> Session]
    BY <1>3, <1>5 DEF CommitLinkSession, TypeOK
  <2> QED
    BY <1>2, <1>5, <2>1 DEF CommitLinkSession, TypeOK
<1>6. ASSUME NEW s \in Sessions, Expire(s) PROVE TypeOK'
  BY <1>3, <1>6 DEF Expire, TypeOK
<1>7. ASSUME NEW s \in Sessions, ConsumeExpired(s) PROVE TypeOK'
  BY <1>3, <1>7 DEF ConsumeExpired, TypeOK
<1>8. ASSUME NEW r \in Requests, NEW s \in Sessions, NEW t \in Telegrams, ConsumeAgain(r, s, t)
      PROVE  TypeOK'
  <2>1. [NoRequest EXCEPT !.kind = "mark", !.session = s] \in Request
    BY DEF Request, NoRequest
  <2> QED
    BY <1>8, <2>1 DEF ConsumeAgain, TypeOK
<1>9. ASSUME NEW r \in Requests, CommitMark(r) PROVE TypeOK'
  <2>1. sessions' \in [Sessions -> Session]
    BY <1>3, <1>9 DEF CommitMark, TypeOK
  <2> QED
    BY <1>2, <1>9, <2>1 DEF CommitMark, TypeOK
<1>10. ASSUME NEW r \in Requests, NEW s \in Sessions, NEW t \in Telegrams, Consume(r, s, t)
       PROVE  TypeOK'
  <2>1. req' \in [Requests -> Request]
    <3>1. /\ req'[r] \in Request /\ \A q \in Requests \ {r} : req'[q] = req[q]
      BY <1>10, ConsumeReads
    <3>2. req' = [q \in Requests |-> req'[q]]
      BY <1>10 DEF Consume, TypeOK
    <3> QED
      BY <3>1, <3>2 DEF TypeOK
  <2> QED
    BY <1>10, <2>1 DEF Consume, TypeOK
<1>11. ASSUME NEW r \in Requests, CommitLink(r) PROVE TypeOK'
  <2> DEFINE kept == IF req[r].drop = None THEN links
                     ELSE [links EXCEPT ![req[r].drop] = NoLink]
  <2>1. PICK l \in LinkIds :
          /\ req[r].row = None \/ (l = req[r].row /\ links[l] # NoLink)
          /\ links' = [kept EXCEPT ![l] =
                         Written(kept[l], req[r].loaded, OnBehalfOf(r), req[r].telegram)]
          /\ raced' \subseteq raced \cup ({req[r].row, req[r].drop} \ {None})
    BY <1>11 DEF CommitLink, OnBehalfOf
  <2>2. /\ OnBehalfOf(r) \in Users /\ req[r].telegram \in Telegrams
        /\ req[r] \in Request /\ WellRead(r)
    BY <1>11 DEF CommitLink, WellRead, TypeOK
  <2>3. Written(kept[l], req[r].loaded, OnBehalfOf(r), req[r].telegram) \in Link
    BY <1>11, <2>1, <2>2, WrittenType DEF CommitLink
  <2>4. kept \in [LinkIds -> Link \cup {NoLink}]
    BY DEF TypeOK
  <2>5. links' \in [LinkIds -> Link \cup {NoLink}]
    <3> HIDE DEF kept
    <3> QED
      BY <2>1, <2>3, <2>4
  <2>6. raced' \in SUBSET LinkIds
    BY <2>1, <2>2 DEF TypeOK, Request
  <2>7. granted' \in SUBSET (Users \X Telegrams)
    <3>1. granted' = granted \cup {<<OnBehalfOf(r), req[r].telegram>>}
      BY <1>11 DEF CommitLink, OnBehalfOf
    <3> QED
      BY <2>2, <3>1 DEF TypeOK
  <2>8. sessions' \in [Sessions -> Session] /\ UNCHANGED paired
    <3>1. /\ sessions' = [sessions EXCEPT ![req[r].session].used = TRUE,
                                          ![req[r].session].active = FALSE]
          /\ UNCHANGED paired
      BY <1>11 DEF CommitLink
    <3> QED
      BY <1>3, <3>1 DEF TypeOK
  <2> QED
    BY <1>2, <1>11, <2>5, <2>6, <2>7, <2>8 DEF CommitLink, TypeOK
<1>12. ASSUME NEW r \in Requests, NEW l \in LinkIds, Unlink(r, l) PROVE TypeOK'
  <2>1. [NoRequest EXCEPT !.kind = "unlink", !.row = l, !.loaded = links[l]] \in Request
    BY DEF Request, NoRequest, TypeOK
  <2> QED
    BY <1>12, <2>1 DEF Unlink, TypeOK
<1>13. ASSUME NEW r \in Requests, CommitUnlink(r) PROVE TypeOK'
  <2>1. req[r].row \in LinkIds /\ links[req[r].row] \in Link
    BY <1>13 DEF CommitUnlink, WellRead, TypeOK
  <2>2. [links[req[r].row] EXCEPT !.active = FALSE] \in Link
    BY <2>1 DEF Link
  <2>3. links' \in [LinkIds -> Link \cup {NoLink}]
    BY <1>13, <2>1, <2>2 DEF CommitUnlink, TypeOK
  <2>4. granted' \in SUBSET (Users \X Telegrams)
    BY <1>13 DEF CommitUnlink, TypeOK
  <2> QED
    BY <1>2, <1>13, <2>3, <2>4 DEF CommitUnlink, TypeOK
<1>14. ASSUME NEW r \in Requests, RollBack(r) PROVE TypeOK'
  BY <1>2, <1>14 DEF RollBack, TypeOK
<1> QED
  BY <1>4, <1>5, <1>6, <1>7, <1>8, <1>9, <1>10, <1>11, <1>12, <1>13, <1>14
     DEF Next, PublicApi, InternalApi, Commit

-----------------------------------------------------------------------------
\* A step that neither creates a session nor commits one.
Quiet ==
    /\ UNCHANGED paired
    /\ \A s \in Sessions :
          /\ sessions'[s].user = sessions[s].user
          /\ sessions'[s].active => sessions[s].active
    /\ \A r \in Requests :
          \/ req'[r] \in {req[r], NoRequest}
          \/ WellRead(r)' /\ ~Creating(r)'

LEMMA QuietSteps ==
    ASSUME TypeOK, UniqueColumns(links), \A r \in Requests : WellRead(r), Next
    PROVE  \/ Quiet
           \/ \E r \in Requests, u \in Users, s \in Sessions : CreateLinkSession(r, u, s)
           \/ \E r \in Requests : CommitLinkSession(r)
<1>1. ASSUME NEW r \in Requests, End(r)
      PROVE  \A q \in Requests : req'[q] \in {req[q], NoRequest}
  BY <1>1 DEF End, TypeOK
<1>2. ASSUME NEW s \in Sessions, NEW b \in BOOLEAN, NEW x \in Sessions,
             \/ sessions' = [sessions EXCEPT ![x].active = FALSE]
             \/ sessions' = [sessions EXCEPT ![x].expired = TRUE]
             \/ sessions' = [sessions EXCEPT ![x].used = TRUE, ![x].active = FALSE]
      PROVE  /\ sessions'[s].user = sessions[s].user
             /\ sessions'[s].active => sessions[s].active
  BY <1>2 DEF TypeOK, Session
<1>3. ASSUME NEW s \in Sessions, Expire(s) \/ ConsumeExpired(s) PROVE Quiet
  BY <1>2, <1>3 DEF Expire, ConsumeExpired, Quiet
<1>4. ASSUME NEW r \in Requests, NEW s \in Sessions, NEW t \in Telegrams, ConsumeAgain(r, s, t)
      PROVE  Quiet
  <2>1. /\ req' = [req EXCEPT ![r] = [NoRequest EXCEPT !.kind = "mark", !.session = s]]
        /\ sessions[s].user \in Users
        /\ UNCHANGED <<links, sessions, granted, raced, paired>>
    BY <1>4 DEF ConsumeAgain, Consumable, TypeOK, Session
  <2>2. \A q \in Requests \ {r} : req'[q] = req[q]
    BY <2>1 DEF TypeOK
  <2>3. req'[r].kind = "mark" /\ req'[r].session = s
    BY <2>1 DEF TypeOK, NoRequest
  <2>4. WellRead(r)' /\ ~Creating(r)'
    BY <2>1, <2>3 DEF WellRead, OnBehalfOf, Creating
  <2> QED
    BY <2>1, <2>2, <2>4 DEF Quiet
<1>5. ASSUME NEW r \in Requests, NEW s \in Sessions, NEW t \in Telegrams, Consume(r, s, t)
      PROVE  Quiet
  <2>1. /\ \A q \in Requests \ {r} : req'[q] = req[q]
        /\ UNCHANGED <<links, sessions, granted, raced, paired>>
        /\ WellRead(r)' /\ ~Creating(r)'
    BY <1>5, ConsumeReads DEF Creating
  <2> QED
    BY <2>1 DEF Quiet
<1>6. ASSUME NEW r \in Requests, CommitMark(r) \/ CommitLink(r) PROVE Quiet
  <2>1. /\ req[r].session \in Sessions
        /\ sessions' = [sessions EXCEPT ![req[r].session].used = TRUE,
                                        ![req[r].session].active = FALSE]
        /\ End(r)
        /\ UNCHANGED paired
    BY <1>6 DEF CommitMark, CommitLink, WellRead
  <2> QED
    BY <1>1, <1>2, <2>1 DEF Quiet
<1>7. ASSUME NEW r \in Requests, NEW l \in LinkIds, Unlink(r, l) PROVE Quiet
  <2>1. /\ req' = [req EXCEPT ![r] =
                     [NoRequest EXCEPT !.kind = "unlink", !.row = l, !.loaded = links[l]]]
        /\ UNCHANGED <<sessions, paired>>
    BY <1>7 DEF Unlink
  <2>2. \A q \in Requests \ {r} : req'[q] = req[q]
    BY <2>1 DEF TypeOK
  <2>3. req'[r].kind = "unlink" /\ req'[r].row = l
    BY <2>1 DEF TypeOK, NoRequest
  <2>4. WellRead(r)' /\ ~Creating(r)'
    BY <2>3 DEF WellRead, Creating
  <2> QED
    BY <2>1, <2>2, <2>4 DEF Quiet
<1>8. ASSUME NEW r \in Requests, CommitUnlink(r) \/ RollBack(r) PROVE Quiet
  BY <1>1, <1>8 DEF CommitUnlink, RollBack, Quiet
<1> QED
  BY <1>3, <1>4, <1>5, <1>6, <1>7, <1>8 DEF Next, PublicApi, InternalApi, Commit

\* What the two steps that are not quiet do.
LEMMA CreateStep ==
    ASSUME TypeOK, \A q \in Requests : WellRead(q),
           NEW r \in Requests, NEW u \in Users, NEW s \in Sessions,
           CreateLinkSession(r, u, s)
    PROVE  /\ ~sessions[s].active /\ sessions[s].user = None
           /\ \A o \in Sessions : sessions'[o].active = sessions[o].active
           /\ sessions'[s].user = u
           /\ \A o \in Sessions \ {s} : sessions'[o].user = sessions[o].user
           /\ \A q \in Requests : req[q].session # s
           /\ \A q \in Requests \ {r} : req'[q] = req[q]
           /\ req'[r].kind = "create" /\ req'[r].session = s
           /\ \A o \in Sessions : sessions[o].user = u /\ sessions[o].active =>
                                     o \in req'[r].revoke
           /\ paired \subseteq paired'
           /\ \A q \in Requests : Creating(q) /\ OnBehalfOf(q) = u => u \in paired'
<1> DEFINE new == [NoRequest EXCEPT !.kind = "create", !.session = s,
                     !.revoke = {o \in Sessions : sessions[o].user = u /\ sessions[o].active}]
<1>1. req' = [req EXCEPT ![r] = new] /\ sessions' = [sessions EXCEPT ![s].user = u]
  BY DEF CreateLinkSession
<1>2. /\ new.kind = "create" /\ new.session = s
      /\ new.revoke = {o \in Sessions : sessions[o].user = u /\ sessions[o].active}
  BY DEF NoRequest
<1> HIDE DEF new
<1>3. req'[r] = new /\ \A q \in Requests \ {r} : req'[q] = req[q]
  BY <1>1 DEF TypeOK
<1>4. /\ sessions[s].user = None /\ ~sessions[s].active
      /\ \A q \in Requests : req[q].session # s
  BY DEF CreateLinkSession, NoSession
<1>5. /\ \A o \in Sessions : sessions'[o].active = sessions[o].active
      /\ sessions'[s].user = u
      /\ \A o \in Sessions \ {s} : sessions'[o].user = sessions[o].user
  BY <1>1 DEF TypeOK, Session
<1>6. /\ paired \subseteq paired'
      /\ \A q \in Requests : Creating(q) /\ OnBehalfOf(q) = u => u \in paired'
  BY DEF CreateLinkSession, Creating, OnBehalfOf
<1> QED
  BY <1>2, <1>3, <1>4, <1>5, <1>6

LEMMA CommitCreateStep ==
    ASSUME TypeOK, NEW r \in Requests, WellRead(r), CommitLinkSession(r)
    PROVE  /\ Creating(r) /\ req[r].session \in Sessions
           /\ \A o \in Sessions :
                 /\ sessions'[o].user = sessions[o].user
                 /\ sessions'[o].active =>
                       \/ o = req[r].session
                       \/ o \notin req[r].revoke /\ sessions[o].active
           /\ \A q \in Requests \ {r} : req'[q] = req[q]
           /\ req'[r] = NoRequest
           /\ UNCHANGED paired
BY DEF CommitLinkSession, Creating, WellRead, End, TypeOK, Session

LEMMA WellReadStep ==
    ASSUME TypeOK, UniqueColumns(links), \A r \in Requests : WellRead(r), Next
    PROVE  \A r \in Requests : WellRead(r)'
<1>1. ASSUME NEW r \in Requests, req'[r] \in {req[r], NoRequest},
             \A s \in Sessions : sessions[s].user \in Users => sessions'[s].user = sessions[s].user
      PROVE  WellRead(r)'
  <2>1. CASE req'[r] = NoRequest
    BY <2>1 DEF WellRead, NoRequest
  <2>2. CASE req'[r] = req[r]
    BY <1>1, <2>2 DEF WellRead, OnBehalfOf
  <2> QED
    BY <1>1, <2>1, <2>2
<1>2. CASE Quiet
  BY <1>1, <1>2 DEF Quiet
<1>3. ASSUME NEW r \in Requests, NEW u \in Users, NEW s \in Sessions, CreateLinkSession(r, u, s)
      PROVE  \A q \in Requests : WellRead(q)'
  <2>1. \A o \in Sessions : sessions[o].user \in Users => sessions'[o].user = sessions[o].user
    BY <1>3, CreateStep, ConstantsAssumption
  <2>2. WellRead(r)'
    BY <1>3, CreateStep DEF WellRead, OnBehalfOf
  <2> QED
    BY <1>1, <1>3, <2>1, <2>2, CreateStep
<1>4. ASSUME NEW r \in Requests, CommitLinkSession(r) PROVE \A q \in Requests : WellRead(q)'
  BY <1>1, <1>4, CommitCreateStep
<1> QED
  BY <1>2, <1>3, <1>4, QuietSteps

LEMMA SessionStep ==
    ASSUME IInv, Next
    PROVE  Overlaps' /\ OneLiveSession' /\ \A r \in Requests : Supersedes(r)'
<1> USE DEF IInv
<1>1. CASE Quiet
  <2>1. \A r \in Requests : Creating(r)' =>
           req'[r] = req[r] /\ Creating(r) /\ OnBehalfOf(r)' = OnBehalfOf(r)
    <3> TAKE r \in Requests
    <3> HAVE Creating(r)'
    <3>1. req'[r] = req[r]
      BY <1>1 DEF Quiet, Creating, NoRequest
    <3> QED
      BY <1>1, <3>1 DEF Quiet, Creating, WellRead, OnBehalfOf
  <2>2. /\ UNCHANGED paired
        /\ \A s \in Sessions : /\ sessions'[s].user = sessions[s].user
                               /\ sessions'[s].active => sessions[s].active
    BY <1>1 DEF Quiet
  <2>3. Overlaps'
    BY <2>1, <2>2 DEF Overlaps
  <2>4. OneLiveSession'
    BY <2>2 DEF OneLiveSession
  <2>5. ASSUME NEW r \in Requests PROVE Supersedes(r)'
    BY <2>1, <2>2 DEF Supersedes
  <2> QED
    BY <2>3, <2>4, <2>5
<1>2. ASSUME NEW r \in Requests, NEW u \in Users, NEW s \in Sessions, CreateLinkSession(r, u, s)
      PROVE  Overlaps' /\ OneLiveSession' /\ \A q \in Requests : Supersedes(q)'
  <2>1. \A q \in Requests \ {r} : Creating(q)' =>
           req'[q] = req[q] /\ Creating(q) /\ OnBehalfOf(q)' = OnBehalfOf(q)
    BY <1>2, CreateStep DEF Creating, WellRead, OnBehalfOf
  <2>2. OnBehalfOf(r)' = u
    BY <1>2, CreateStep DEF OnBehalfOf
  <2>3. paired \subseteq paired'
        /\ \A q \in Requests : Creating(q) /\ OnBehalfOf(q) = u => u \in paired'
    BY <1>2, CreateStep
  <2>4. Overlaps'
    BY <2>1, <2>2, <2>3 DEF Overlaps
  <2>5. /\ ~sessions'[s].active
        /\ \A o \in Sessions : sessions'[o].active => sessions[o].active
        /\ \A o \in Sessions \ {s} : sessions'[o].user = sessions[o].user
    BY <1>2, CreateStep
  <2>6. OneLiveSession'
    BY <2>3, <2>5 DEF OneLiveSession
  <2>7. ASSUME NEW q \in Requests \ {r} PROVE Supersedes(q)'
    BY <2>1, <2>3, <2>5 DEF Supersedes
  <2>8. Supersedes(r)'
    BY <1>2, <2>2, <2>5, CreateStep DEF Supersedes
  <2> QED
    BY <2>4, <2>6, <2>7, <2>8
<1>3. ASSUME NEW r \in Requests, CommitLinkSession(r)
      PROVE  Overlaps' /\ OneLiveSession' /\ \A q \in Requests : Supersedes(q)'
  <2>1. \A q \in Requests : Creating(q)' =>
           q # r /\ req'[q] = req[q] /\ Creating(q) /\ OnBehalfOf(q)' = OnBehalfOf(q)
    BY <1>3, CommitCreateStep DEF Creating, WellRead, OnBehalfOf, NoRequest
  <2>2. /\ Creating(r) /\ UNCHANGED paired
        /\ \A o \in Sessions :
              /\ sessions'[o].user = sessions[o].user
              /\ sessions'[o].active =>
                    o = req[r].session \/ (o \notin req[r].revoke /\ sessions[o].active)
    BY <1>3, CommitCreateStep
  <2>3. Overlaps'
    BY <2>1, <2>2 DEF Overlaps
  <2>4. OneLiveSession'
    BY <2>2 DEF OneLiveSession, Supersedes, OnBehalfOf
  <2>5. ASSUME NEW q \in Requests PROVE Supersedes(q)'
    BY <2>1, <2>2 DEF Supersedes, Overlaps, OnBehalfOf
  <2> QED
    BY <2>3, <2>4, <2>5
<1> QED
  BY <1>1, <1>2, <1>3, QuietSteps

-----------------------------------------------------------------------------
\* What the commit of a consumption does to the rows.
LEMMA CommitLinkStep ==
    ASSUME TypeOK, NEW r \in Requests, WellRead(r), CommitLink(r)
    PROVE  \E l \in LinkIds :
             /\ req[r].kind = "link"
             /\ UniqueColumns(links')
             /\ granted \subseteq granted'
             /\ \A m \in LinkIds \ {l} :
                   /\ links'[m] \in {links[m], NoLink}
                   /\ links'[m] # links[m] =>
                         m = req[r].drop /\ (links[m] = req[r].dropped \/ m \in raced')
                   /\ m \in raced => m \in raced'
             /\ \/ l \in raced'
                \/ /\ <<links'[l].user, links'[l].telegram>> \in granted'
                   /\ ~links[l].active
<1> DEFINE kept == IF req[r].drop = None THEN links
                   ELSE [links EXCEPT ![req[r].drop] = NoLink]
           new(l) == Written(kept[l], req[r].loaded, OnBehalfOf(r), req[r].telegram)
<1>1. PICK l \in LinkIds :
        /\ IF req[r].row = None THEN links[l] = NoLink
                                ELSE l = req[r].row /\ links[l] # NoLink
        /\ UniqueColumns(links')
        /\ links' = [kept EXCEPT ![l] = new(l)]
        /\ raced' = (raced \ {l}) \cup
                       {m \in {req[r].row, req[r].drop} \ {None} :
                          links[m] # IF m = req[r].row THEN req[r].loaded ELSE req[r].dropped}
  BY DEF CommitLink, OnBehalfOf
<1>2. /\ req[r].kind = "link"
      /\ granted' = granted \cup {<<OnBehalfOf(r), req[r].telegram>>}
      /\ req[r] \in Request
  BY DEF CommitLink, OnBehalfOf, TypeOK
<1>3. /\ req[r].row = None => req[r].loaded = NoLink /\ req[r].drop = None
      /\ req[r].drop # None => req[r].drop # req[r].row
      /\ ~req[r].loaded.active
  BY <1>2 DEF WellRead
<1>4. links[l] = req[r].loaded \/ req[r].row = None =>
         new(l).user = OnBehalfOf(r) /\ new(l).telegram = req[r].telegram
  BY <1>1, <1>2, WrittenType
<1> HIDE DEF new
<1>5. links'[l] = new(l) /\ \A m \in LinkIds \ {l} : links'[m] = kept[m]
  BY <1>1 DEF TypeOK
<1>6. ASSUME NEW m \in LinkIds \ {l}
      PROVE  /\ links'[m] \in {links[m], NoLink}
             /\ links'[m] # links[m] =>
                   m = req[r].drop /\ (links[m] = req[r].dropped \/ m \in raced')
             /\ m \in raced => m \in raced'
  <2>1. kept[m] = IF m = req[r].drop THEN NoLink ELSE links[m]
    BY ConstantsAssumption DEF TypeOK
  <2>2. m # None
    BY ConstantsAssumption
  <2> HIDE DEF kept
  <2> QED
    BY <1>1, <1>3, <1>5, <2>1, <2>2
<1>7. \/ l \in raced'
      \/ /\ <<links'[l].user, links'[l].telegram>> \in granted'
         /\ ~links[l].active
  <2>1. CASE req[r].row = None
    <3>1. links'[l].user = OnBehalfOf(r) /\ links'[l].telegram = req[r].telegram
      BY <1>4, <1>5, <2>1
    <3>2. ~links[l].active
      BY <1>1, <2>1 DEF NoLink
    <3> QED
      BY <1>2, <3>1, <3>2
  <2>2. CASE req[r].row # None /\ links[l] = req[r].loaded
    <3>1. links'[l].user = OnBehalfOf(r) /\ links'[l].telegram = req[r].telegram
      BY <1>4, <1>5, <2>2
    <3>2. ~links[l].active
      BY <1>3, <2>2
    <3> QED
      BY <1>2, <3>1, <3>2
  <2>3. CASE req[r].row # None /\ links[l] # req[r].loaded
    BY <1>1, <2>3
  <2> QED
    BY <2>1, <2>2, <2>3
<1> HIDE DEF kept
<1>8. granted \subseteq granted'
  BY <1>2
<1> QED
  BY <1>1, <1>2, <1>6, <1>7, <1>8

\* The steps that leave the rows of telegram_links as they are.
LEMMA LinksKept ==
    ASSUME Next
    PROVE  \/ UNCHANGED <<links, granted, raced>>
           \/ \E r \in Requests : CommitLink(r) \/ CommitUnlink(r)
<1>1. ASSUME NEW s \in Sessions, Expire(s) \/ ConsumeExpired(s)
      PROVE  UNCHANGED <<links, granted, raced>>
  BY <1>1 DEF Expire, ConsumeExpired
<1>2. ASSUME NEW r \in Requests, PublicApi(r)
      PROVE  UNCHANGED <<links, granted, raced>>
  BY <1>2 DEF PublicApi, CreateLinkSession, Unlink
<1>3. ASSUME NEW r \in Requests, InternalApi(r)
      PROVE  UNCHANGED <<links, granted, raced>>
  BY <1>3 DEF InternalApi, Consume, ConsumeAgain
<1>4. ASSUME NEW r \in Requests, CommitLinkSession(r) \/ CommitMark(r) \/ RollBack(r)
      PROVE  UNCHANGED <<links, granted, raced>>
  BY <1>4 DEF CommitLinkSession, CommitMark, RollBack
<1> QED
  BY <1>1, <1>2, <1>3, <1>4 DEF Next, Commit

LEMMA CommitUnlinkStep ==
    ASSUME TypeOK, NEW r \in Requests, WellRead(r), CommitUnlink(r)
    PROVE  \E l \in LinkIds :
             /\ req[r].kind = "unlink" /\ req[r].row = l /\ req'[r] = NoRequest
             /\ links[l] # NoLink /\ links'[l] # NoLink
             /\ links'[l].user = links[l].user /\ links'[l].telegram = links[l].telegram
             /\ ~links'[l].active
             /\ \A m \in LinkIds \ {l} : links'[m] = links[m]
             /\ granted' = granted \ {<<links[l].user, links[l].telegram>>}
             /\ UNCHANGED raced
<1>1. req[r].row \in LinkIds /\ links[req[r].row] \in Link
  BY DEF CommitUnlink, WellRead, TypeOK
<1>2. /\ links' = [links EXCEPT ![req[r].row].active = FALSE]
      /\ req' = [req EXCEPT ![r] = NoRequest]
      /\ req[r].kind = "unlink" /\ links[req[r].row] # NoLink
      /\ granted' = granted \ {<<links[req[r].row].user, links[req[r].row].telegram>>}
      /\ UNCHANGED raced
  BY DEF CommitUnlink, End
<1>3. /\ links'[req[r].row].user = links[req[r].row].user
      /\ links'[req[r].row].telegram = links[req[r].row].telegram
      /\ ~links'[req[r].row].active
      /\ \A m \in LinkIds \ {req[r].row} : links'[m] = links[m]
      /\ req'[r] = NoRequest
  BY <1>1, <1>2 DEF Link, TypeOK
<1>4. links'[req[r].row] # NoLink
  BY <1>1, <1>3, ConstantsAssumption DEF Link, NoLink
<1> QED
  BY <1>1, <1>2, <1>3, <1>4

LEMMA RowStep ==
    ASSUME IInv, Next
    PROVE  UniqueColumns(links') /\ \A l \in LinkIds : RowAsked(l)'
<1> USE DEF IInv
<1>1. CASE UNCHANGED <<links, granted, raced>>
  BY <1>1 DEF RowAsked
<1>2. ASSUME NEW r \in Requests, CommitLink(r)
      PROVE  UniqueColumns(links') /\ \A l \in LinkIds : RowAsked(l)'
  <2>1. PICK l \in LinkIds :
          /\ UniqueColumns(links')
          /\ granted \subseteq granted'
          /\ \A m \in LinkIds \ {l} : /\ links'[m] \in {links[m], NoLink}
                                      /\ m \in raced => m \in raced'
          /\ l \in raced' \/ <<links'[l].user, links'[l].telegram>> \in granted'
    BY <1>2, CommitLinkStep
  <2>2. \A m \in LinkIds \ {l} : RowAsked(m)'
    BY <2>1 DEF RowAsked, NoLink
  <2> QED
    BY <2>1, <2>2 DEF RowAsked
<1>3. ASSUME NEW r \in Requests, CommitUnlink(r)
      PROVE  UniqueColumns(links') /\ \A l \in LinkIds : RowAsked(l)'
  <2>1. PICK l \in LinkIds :
          /\ links[l] # NoLink /\ links'[l] # NoLink
          /\ links'[l].user = links[l].user /\ links'[l].telegram = links[l].telegram
          /\ ~links'[l].active
          /\ \A m \in LinkIds \ {l} : links'[m] = links[m]
          /\ granted' = granted \ {<<links[l].user, links[l].telegram>>}
          /\ UNCHANGED raced
    BY <1>3, CommitUnlinkStep
  <2>2. UniqueColumns(links')
    BY <2>1 DEF UniqueColumns
  <2>3. \A m \in LinkIds \ {l} : links[m].active => links[m].user # links[l].user
    BY <2>1 DEF UniqueColumns, NoLink
  <2>4. \A m \in LinkIds \ {l} : RowAsked(m)'
    BY <2>1, <2>3 DEF RowAsked
  <2> QED
    BY <2>1, <2>2, <2>4 DEF RowAsked
<1> QED
  BY <1>1, <1>2, <1>3, LinksKept

-----------------------------------------------------------------------------
LEMMA Invariance == Spec => []IInv
<1>1. Init => IInv
  <2> SUFFICES ASSUME Init PROVE IInv
    OBVIOUS
  <2> USE DEF Init
  <2>1. TypeOK
    BY DEF TypeOK, Session, NoSession, Request, NoRequest
  <2>2. UniqueColumns(links) /\ \A l \in LinkIds : RowAsked(l)
    BY DEF UniqueColumns, RowAsked, NoLink
  <2>3. Overlaps /\ OneLiveSession
    BY DEF Overlaps, OneLiveSession, Creating, NoRequest, NoSession
  <2>4. \A r \in Requests : WellRead(r) /\ Supersedes(r)
    BY DEF WellRead, Supersedes, Creating, NoRequest
  <2> QED
    BY <2>1, <2>2, <2>3, <2>4 DEF IInv
<1>2. IInv /\ [Next]_vars => IInv'
  <2>1. ASSUME IInv, Next PROVE IInv'
    <3>1. TypeOK' /\ \A r \in Requests : WellRead(r)'
      BY <2>1, TypeStep, WellReadStep DEF IInv
    <3> QED
      BY <2>1, <3>1, SessionStep, RowStep DEF IInv, UniqueColumns
  <2>2. ASSUME IInv, UNCHANGED vars PROVE IInv'
    BY <2>2 DEF IInv, vars, TypeOK, UniqueColumns, WellRead, Supersedes, Overlaps,
                OneLiveSession, RowAsked, Creating, OnBehalfOf
  <2> QED
    BY <2>1, <2>2
<1> QED
  BY <1>1, <1>2, PTL DEF Spec

\* Rows, sessions and what requests have read keep their types: a
\* consumption never leaves a row that lacks one of its two accounts
\* (_resolve_link_record, whose row to write is not the one to delete).
THEOREM Typed == Spec => []TypeOK
<1>1. IInv => TypeOK
  BY DEF IInv
<1> QED
  BY <1>1, Invariance, PTL

\* Whatever the number of requests in flight, a user has one session that can
\* be consumed, unless two were created at the same time
\* (create_link_session).
THEOREM OneSession == Spec => []OneLiveSession
<1>1. IInv => OneLiveSession
  BY DEF IInv
<1> QED
  BY <1>1, Invariance, PTL

\* Whoever acts through the bot was linked on request, unless the row was
\* written by a request that had read another version of it
\* (_consume_link_session, _resolve_actor_from_telegram).
THEOREM Asked == Spec => []LinkWasAsked
<1>1. IInv => LinkWasAsked
  <2> SUFFICES ASSUME IInv, NEW t \in Telegrams, Actor(t) # None
               PROVE  <<Actor(t), t>> \in granted \/ LinkOfTelegram(t) \in raced
    BY DEF LinkWasAsked
  <2>1. /\ Loaded(LinkOfTelegram(t)).active
        /\ Actor(t) = links[LinkOfTelegram(t)].user
    BY DEF Actor
  <2>2. LinkOfTelegram(t) # None
    BY <2>1 DEF Loaded, NoLink
  <2>3. LinkOfTelegram(t) \in LinkIds /\ links[LinkOfTelegram(t)].telegram = t
    BY <2>2, Lookup
  <2>4. links[LinkOfTelegram(t)].active
    BY <2>1, <2>2 DEF Loaded
  <2> QED
    BY <2>1, <2>3, <2>4 DEF IInv, RowAsked
<1> QED
  BY <1>1, Invariance, PTL

\* An active link ends by being unlinked, or by a write over a row that had
\* changed since it was read (unlink, _consume_link_session).
THEOREM EndsByUnlink == Spec => ActiveLinkEndsByUnlink
<1> DEFINE EndsWell ==
             \A l \in LinkIds :
                (links[l].active /\ links'[l] # links[l]) =>
                   \/ \E r \in Requests : req[r].kind = "unlink" /\ req[r].row = l
                                            /\ req'[r] = NoRequest
                   \/ l \in raced'
<1>1. ASSUME IInv, Next PROVE EndsWell
  <2>1. CASE UNCHANGED <<links, granted, raced>>
    BY <2>1
  <2>2. ASSUME NEW r \in Requests, CommitLink(r) PROVE EndsWell
    <3>1. ~req[r].dropped.active
      BY <1>1, <2>2 DEF IInv, WellRead, CommitLink
    <3> QED
      BY <1>1, <2>2, <3>1, CommitLinkStep DEF IInv
  <2>3. ASSUME NEW r \in Requests, CommitUnlink(r) PROVE EndsWell
    BY <1>1, <2>3, CommitUnlinkStep DEF IInv
  <2> QED
    BY <1>1, <2>1, <2>2, <2>3, LinksKept
<1>2. ASSUME UNCHANGED vars PROVE EndsWell
  BY <1>2 DEF vars
<1>3. IInv /\ [Next]_vars => [EndsWell]_vars
  BY <1>1, <1>2
<1> QED
  BY <1>3, Invariance, PTL DEF Spec, ActiveLinkEndsByUnlink
=============================================================================
