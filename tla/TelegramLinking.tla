--------------------------- MODULE TelegramLinking ---------------------------
(***************************************************************************)
(* Linking a Telegram account to a platform account (TelegramService and   *)
(* its public and internal routes).                                        *)
(*                                                                         *)
(* A request reads its rows, without locks, in one step and writes in      *)
(* another, at its commit: between the two other requests commit.  The     *)
(* ORM writes the columns that differ from what it loaded, and no others.  *)
(***************************************************************************)
EXTENDS FiniteSets, Naturals

CONSTANTS
    Users, Telegrams,   \* platform accounts and Telegram accounts
    LinkIds,            \* bound: rows of telegram_links
    Sessions,           \* bound: rows of telegram_link_sessions
    Requests,           \* bound: requests in flight at a time
    None

ASSUME ConstantsAssumption ==
    None \notin Users \cup Telegrams \cup LinkIds \cup Sessions

VARIABLES
    links,      \* telegram_links
    sessions,   \* telegram_link_sessions
    req,        \* what each request in flight has read and is to write
    granted,    \* history: pairs linked on request and not unlinked since
    raced,      \* history: rows written by a request that had read another
                \* version of them, and not set right since
    paired      \* history: users who created two sessions at the same time

vars == <<links, sessions, req, granted, raced, paired>>

-----------------------------------------------------------------------------
Link == [user : Users, telegram : Telegrams, active : BOOLEAN]

NoLink == [user |-> None, telegram |-> None, active |-> FALSE]

Session ==
    [user : Users \cup {None},
     active : BOOLEAN, used : BOOLEAN, revoked : BOOLEAN, expired : BOOLEAN]

NoSession ==
    [user |-> None, active |-> FALSE, used |-> FALSE, revoked |-> FALSE,
     expired |-> FALSE]

Request ==
    [kind : {"idle", "create", "mark", "link", "unlink"},
     session : Sessions \cup {None},
     telegram : Telegrams \cup {None},
     revoke : SUBSET Sessions,          \* create: the rows its UPDATE matched
     row : LinkIds \cup {None},         \* link, unlink: the row to write
     loaded : Link \cup {NoLink},       \* ... as it was read
     drop : LinkIds \cup {None},        \* link: the row to delete
     dropped : Link \cup {NoLink}]      \* ... as it was read

NoRequest ==
    [kind |-> "idle", session |-> None, telegram |-> None, revoke |-> {},
     row |-> None, loaded |-> NoLink, drop |-> None, dropped |-> NoLink]

Init ==
    /\ links = [l \in LinkIds |-> NoLink]
    /\ sessions = [s \in Sessions |-> NoSession]
    /\ req = [r \in Requests |-> NoRequest]
    /\ granted = {}
    /\ raced = {}
    /\ paired = {}

\* _get_link_by_user_id and _get_link_by_telegram_user_id; both columns are
\* unique.
LinkOfUser(u) ==
    IF \E l \in LinkIds : links[l].user = u
    THEN CHOOSE l \in LinkIds : links[l].user = u ELSE None

LinkOfTelegram(t) ==
    IF \E l \in LinkIds : links[l].telegram = t
    THEN CHOOSE l \in LinkIds : links[l].telegram = t ELSE None

Loaded(l) == IF l = None THEN NoLink ELSE links[l]

\* _resolve_actor_from_telegram: on whose behalf the bot acts for t.
Actor(t) ==
    IF Loaded(LinkOfTelegram(t)).active THEN links[LinkOfTelegram(t)].user ELSE None

End(r) == req' = [req EXCEPT ![r] = NoRequest]

Ready(r) == req[r].kind = "idle"

-----------------------------------------------------------------------------
\* create_link_session: the UPDATE revokes the active sessions it sees ...
CreateLinkSession(r, u, s) ==
    /\ Ready(r)
    /\ sessions[s] = NoSession
    /\ \A q \in Requests : req[q].session # s
    /\ req' = [req EXCEPT ![r] =
                 [NoRequest EXCEPT !.kind = "create", !.session = s,
                    !.revoke = {o \in Sessions : sessions[o].user = u /\ sessions[o].active}]]
    /\ sessions' = [sessions EXCEPT ![s].user = u]
    /\ paired' = IF \E q \in Requests : req[q].kind = "create" /\ sessions[req[q].session].user = u
                 THEN paired \cup {u} ELSE paired
    /\ UNCHANGED <<links, granted, raced>>

\* Variant: the earlier sessions stay active.
CommitLinkSessionOnly(r) ==
    /\ req[r].kind = "create"
    /\ sessions' = [sessions EXCEPT ![req[r].session].active = TRUE]
    /\ End(r)
    /\ UNCHANGED <<links, granted, raced, paired>>

\* ... and the commit makes the new one visible.
CommitLinkSession(r) ==
    /\ req[r].kind = "create"
    /\ sessions' = [s \in Sessions |->
                      IF s = req[r].session THEN [sessions[s] EXCEPT !.active = TRUE]
                      ELSE IF s \in req[r].revoke
                      THEN [sessions[s] EXCEPT !.active = FALSE, !.revoked = TRUE]
                      ELSE sessions[s]]
    /\ End(r)
    /\ UNCHANGED <<links, granted, raced, paired>>

\* expires_at passes.
Expire(s) ==
    /\ sessions[s].active
    /\ ~sessions[s].expired
    /\ sessions' = [sessions EXCEPT ![s].expired = TRUE]
    /\ UNCHANGED <<links, req, granted, raced, paired>>

\* The first checks of _consume_link_session.
Consumable(s) ==
    /\ sessions[s].user # None
    /\ ~sessions[s].used
    /\ sessions[s].active /\ ~sessions[s].revoked

ConsumeExpired(s) ==
    /\ Consumable(s)
    /\ sessions[s].expired
    /\ sessions' = [sessions EXCEPT ![s].active = FALSE]
    /\ UNCHANGED <<links, req, granted, raced, paired>>

\* already_linked_to_this_account: only the session is written.
ConsumeAgain(r, s, t) ==
    LET ul == LinkOfUser(sessions[s].user) IN
    /\ Ready(r)
    /\ Consumable(s) /\ ~sessions[s].expired
    /\ Loaded(ul).active /\ Loaded(ul).telegram = t
    /\ req' = [req EXCEPT ![r] = [NoRequest EXCEPT !.kind = "mark", !.session = s]]
    /\ UNCHANGED <<links, sessions, granted, raced, paired>>

CommitMark(r) ==
    /\ req[r].kind = "mark"
    /\ sessions' = [sessions EXCEPT ![req[r].session].used = TRUE,
                                    ![req[r].session].active = FALSE]
    /\ End(r)
    /\ UNCHANGED <<links, granted, raced, paired>>

\* Variant: the Telegram account may have an active link already.
FreeOfOthersTelegram(u, t) ==
    LET ul == Loaded(LinkOfUser(u)) IN ~ul.active

\* telegram_account_already_used, platform_account_has_another_telegram.
FreeOfOthers(u, t) ==
    LET ul == Loaded(LinkOfUser(u))
        tl == Loaded(LinkOfTelegram(t))
    IN  /\ ~(tl.active /\ tl.user # u)
        /\ ~(ul.active /\ ul.telegram # t)

\* consume_token, verify_code: the rows are read and checked, and
\* _resolve_link_record chooses the row to use and the one to delete.
Consume(r, s, t) ==
    LET u == sessions[s].user
        ul == LinkOfUser(u)
        tl == LinkOfTelegram(t)
        row == IF ul # None THEN ul ELSE tl
        drop == IF ul # None /\ tl # None /\ ul # tl THEN tl ELSE None
    IN  /\ Ready(r)
        /\ Consumable(s) /\ ~sessions[s].expired
        /\ ~(Loaded(ul).active /\ Loaded(ul).telegram = t)
        /\ FreeOfOthers(u, t)
        /\ req' = [req EXCEPT ![r] =
                     [NoRequest EXCEPT !.kind = "link", !.session = s, !.telegram = t,
                        !.row = row, !.loaded = Loaded(row),
                        !.drop = drop, !.dropped = Loaded(drop)]]
        /\ UNCHANGED <<links, sessions, granted, raced, paired>>

\* Variants: the Telegram account is not written, or only into a new row.
WrittenUserOnly(old, loaded, u, t) ==
    [user |-> u, telegram |-> old.telegram, active |-> TRUE]

WrittenOldTelegram(old, loaded, u, t) ==
    [user |-> u,
     telegram |-> IF old.telegram = None THEN t ELSE old.telegram,
     active |-> TRUE]

\* The columns that changed since the row was loaded.
Written(old, loaded, u, t) ==
    [user |-> IF loaded.user # u THEN u ELSE old.user,
     telegram |-> IF loaded.telegram # t THEN t ELSE old.telegram,
     active |-> TRUE]

UniqueColumns(f) ==
    \A l, m \in LinkIds :
        l # m /\ f[l] # NoLink /\ f[m] # NoLink =>
            f[l].user # f[m].user /\ f[l].telegram # f[m].telegram

\* The commit of a consumption, into the row l: a fresh one when none was
\* found.  An UPDATE that finds no row, or a duplicate, rolls all back.
CommitLink(r) ==
    LET q == req[r]
        u == sessions[q.session].user
        kept == IF q.drop = None THEN links ELSE [links EXCEPT ![q.drop] = NoLink]
    IN  /\ q.kind = "link"
        /\ End(r)
        /\ \E l \in LinkIds :
             LET new == [kept EXCEPT ![l] = Written(kept[l], q.loaded, u, q.telegram)]
             IN  /\ IF q.row = None THEN links[l] = NoLink
                                    ELSE l = q.row /\ links[l] # NoLink
                 /\ UniqueColumns(new)
                 /\ links' = new
                 /\ raced' = (raced \ {l}) \cup
                             {m \in {q.row, q.drop} \ {None} :
                                 links[m] # IF m = q.row THEN q.loaded ELSE q.dropped}
        /\ sessions' = [sessions EXCEPT ![q.session].used = TRUE,
                                        ![q.session].active = FALSE]
        /\ granted' = granted \cup {<<u, q.telegram>>}
        /\ UNCHANGED paired

\* unlink and unlink_by_telegram_user_id: the active link is read ...
Unlink(r, l) ==
    /\ Ready(r)
    /\ links[l].active
    /\ req' = [req EXCEPT ![r] =
                 [NoRequest EXCEPT !.kind = "unlink", !.row = l, !.loaded = links[l]]]
    /\ UNCHANGED <<links, sessions, granted, raced, paired>>

\* ... and deactivated by its primary key.
CommitUnlink(r) ==
    LET l == req[r].row IN
    /\ req[r].kind = "unlink"
    /\ links[l] # NoLink
    /\ links' = [links EXCEPT ![l].active = FALSE]
    /\ granted' = granted \ {<<links[l].user, links[l].telegram>>}
    /\ End(r)
    /\ UNCHANGED <<sessions, raced, paired>>

\* A request that fails at its commit, or is cut off before it; the session
\* that was to be created never becomes active.
RollBack(r) ==
    /\ ~Ready(r)
    /\ End(r)
    /\ UNCHANGED <<links, sessions, granted, raced, paired>>

\* The routes of the public and of the internal API.
PublicApi(r) ==
    \/ \E u \in Users, s \in Sessions : CreateLinkSession(r, u, s)
    \/ \E l \in LinkIds : Unlink(r, l)

InternalApi(r) ==
    \E s \in Sessions, t \in Telegrams : Consume(r, s, t) \/ ConsumeAgain(r, s, t)

Commit(r) ==
    CommitLinkSession(r) \/ CommitMark(r) \/ CommitLink(r) \/ CommitUnlink(r)

Next ==
    \/ \E r \in Requests : PublicApi(r) \/ InternalApi(r) \/ Commit(r) \/ RollBack(r)
    \/ \E s \in Sessions : Expire(s) \/ ConsumeExpired(s)

Spec == Init /\ [][Next]_vars

-----------------------------------------------------------------------------
(***************************************************************************)
(* Properties                                                              *)
(***************************************************************************)

\* Every variable has its type.
TypeOK ==
    /\ links \in [LinkIds -> Link \cup {NoLink}]
    /\ sessions \in [Sessions -> Session]
    /\ req \in [Requests -> Request]
    /\ granted \in SUBSET (Users \X Telegrams)
    /\ raced \in SUBSET LinkIds
    /\ paired \in SUBSET Users

\* Whoever acts through the bot was linked on request: an active link joins
\* a platform account with the Telegram account that consumed a session of
\* that very account, unless its row was written by a request that had read
\* an older version of it (_consume_link_session, whose writes are per
\* column: two requests can leave a pair that neither asked for).
LinkWasAsked ==
    \A t \in Telegrams :
        Actor(t) # None => <<Actor(t), t>> \in granted \/ LinkOfTelegram(t) \in raced

\* An active link ends only by being unlinked: no consumption, by whatever
\* account, takes it over or deletes it, unless it wrote over a row that had
\* changed since it was read (the refusals of _consume_link_session).
ActiveLinkEndsByUnlink ==
    [][\A l \in LinkIds :
          (links[l].active /\ links'[l] # links[l]) =>
              \/ \E r \in Requests : req[r].kind = "unlink" /\ req[r].row = l /\ req'[r] = NoRequest
              \/ l \in raced']_vars

\* A user has one session that can be consumed, the latest, unless two were
\* created at the same time: the UPDATE of create_link_session does not see
\* the row that the other request has not committed.
OneLiveSession ==
    \A s, o \in Sessions :
        (sessions[s].active /\ sessions[o].active /\ sessions[s].user = sessions[o].user) =>
            s = o \/ sessions[s].user \in paired
=============================================================================
