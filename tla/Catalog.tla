------------------------------- MODULE Catalog -------------------------------
(***************************************************************************)
(* The catalogue of universities, faculties and subjects, the proposals    *)
(* to extend it and the users' home universities (CatalogService,          *)
(* CatalogProposalService, and the parts of AuthService, UserService and   *)
(* AdminService that work on them).  Who may decide on a proposal is       *)
(* checked for every set of scopes that a moderator can have.              *)
(*                                                                         *)
(* The three kinds of rows are levels 1, 2 and 3 of one tree.  A request   *)
(* reads and checks in one step and commits in another, with no lock in    *)
(* between: what it read may have changed, and the database only enforces  *)
(* the foreign keys and the uniqueness of slugs among siblings.            *)
(***************************************************************************)
EXTENDS FiniteSets, Integers, Sequences

CONSTANTS
    Users,          \* bound: students
    Names,          \* normalised names
    Slugs, SlugOf,  \* slugs, and what slugify makes of a name
    Seed,           \* rows of seed_catalog, parents before their children
    MaxEntities,    \* bound: rows of the three catalogue tables
    MaxProposals,   \* bound: rows of the three proposal tables
    Requests        \* bound: requests in flight at a time

ASSUME ConstantsAssumption ==
    /\ SlugOf \in [Names -> Slugs]
    /\ MaxEntities \in Nat /\ MaxProposals \in Nat

\* The tree of seed_catalog.  Names differ among siblings, which is how it is
\* in data/data.json.
ASSUME SeedAssumption ==
    /\ Seed \in Seq([level : 1..3, parent : 0..MaxEntities, name : Names])
    /\ Len(Seed) <= MaxEntities
    /\ \A i \in DOMAIN Seed :
         IF Seed[i].level = 1 THEN Seed[i].parent = 0
         ELSE Seed[i].parent \in 1..(i - 1) /\ Seed[Seed[i].parent].level = Seed[i].level - 1
    /\ \A i, j \in DOMAIN Seed :
         i # j /\ Seed[i].parent = Seed[j].parent => SlugOf[Seed[i].name] # SlugOf[Seed[j].name]

VARIABLES
    entities,   \* catalogue rows in the order of their creation
    proposals,  \* proposals in the order of their creation
    users,      \* the home university columns of users
    req,        \* what each request in flight has read and is to write
    raced       \* history: what was written by a request after a related
                \* one had committed since it read

vars == <<entities, proposals, users, req, raced>>

-----------------------------------------------------------------------------
Ids == 1..MaxEntities

\* universities, faculties, subjects; origin is a history of the proposal
\* whose approval inserted the row.
Entity ==
    [level : 1..3, parent : 0..MaxEntities, name : Names, slug : Slugs,
     origin : 0..MaxProposals]

Proposal ==
    [level : 1..3, parent : 0..MaxEntities, name : Names, slug : Slugs,
     by : Users, status : {"pending", "approved", "rejected"},
     entity : 0..MaxEntities]

\* What is left of a deleted row.
NoEntity == [level |-> 0]
NoProposal == [level |-> 0, parent |-> 0, status |-> "gone", entity |-> 0]

\* university_id, university_status, and whether the 45 days since
\* university_changed_at have not passed.
User ==
    [university : 0..MaxEntities,
     status : {"none", "selected", "pending", "rejected"},
     cooling : BOOLEAN]

NoUser == [university |-> 0, status |-> "none", cooling |-> FALSE]

NewRow(level, parent, name, slug) ==
    [level |-> level, parent |-> parent, name |-> name, slug |-> slug, origin |-> 0]

\* seed_catalog; with different slugs, _unique_slug returns them as they are.
SeedCatalog ==
    [i \in DOMAIN Seed |->
       NewRow(Seed[i].level, Seed[i].parent, Seed[i].name, SlugOf[Seed[i].name])]

Init ==
    /\ entities = SeedCatalog
    /\ proposals = <<>>
    /\ users = [u \in Users |-> NoUser]
    /\ req = [r \in Requests |-> [kind |-> "idle"]]
    /\ raced = {}

Live(e) == e \in DOMAIN entities /\ entities[e].level # 0

At(level) == {e \in DOMAIN entities : entities[e].level = level}

\* Parents of rows of a level; universities have none.
Parents(level) == IF level = 1 THEN {0} ELSE At(level - 1)

Siblings(level, parent) == {e \in At(level) : entities[e].parent = parent}

UserExists(u) == users[u].status # "none"

\* _ensure_university_name_available and its counterparts.
NameFree(level, parent, name, except) ==
    \A e \in Siblings(level, parent) \ {except} : entities[e].name # name

\* _ensure_university_slug_available and its counterparts; also what the
\* unique constraints enforce at the commit.
SlugFree(level, parent, slug, except) ==
    \A e \in Siblings(level, parent) \ {except} : entities[e].slug # slug

-----------------------------------------------------------------------------
\* Two requests that work on the same proposal, on the same user or on rows
\* of the same level.
Related(a, b) ==
    \/ a.proposal # 0 /\ a.proposal = b.proposal
    \/ a.user # {} /\ a.user = b.user
    \/ a.row # <<>> /\ b.row # <<>> /\ a.row[1].level = b.row[1].level

Blank ==
    [kind |-> "idle", proposal |-> 0, user |-> {}, loaded |-> NoUser,
     target |-> 0, row |-> <<>>, stale |-> FALSE]

Start(r, q) == req' = [req EXCEPT ![r] = q]

\* The request ends and those it has overtaken are stale.
End(r) ==
    req' = [o \in Requests |->
              IF o = r THEN [kind |-> "idle"]
              ELSE IF req[o].kind \notin {"idle", "propose", "register"} /\ Related(req[o], req[r])
              THEN [req[o] EXCEPT !.stale = TRUE] ELSE req[o]]

\* A stale request leaves a mark on what it writes.
Mark(r, things) == raced' = IF req[r].stale THEN raced \cup things ELSE raced

\* An exception after the reads: the session dependency rolls back.
Abort(r) ==
    /\ req[r].kind # "idle"
    /\ req' = [req EXCEPT ![r] = [kind |-> "idle"]]
    /\ UNCHANGED <<entities, proposals, users, raced>>

-----------------------------------------------------------------------------
(* Proposals.                                                              *)

NewProposal(level, parent, name, u) ==
    [level |-> level, parent |-> parent, name |-> name, slug |-> SlugOf[name],
     by |-> u, status |-> "pending", entity |-> 0]

Pending(level, parent) ==
    {p \in DOMAIN proposals : /\ proposals[p].status = "pending"
                              /\ proposals[p].level = level
                              /\ proposals[p].parent = parent}

\* The look for duplicates of create_university_proposal, which is that of
\* _ensure_university_proposal_available.
UniversityProposalAvailable(name) ==
    /\ NameFree(1, 0, name, 0) /\ SlugFree(1, 0, SlugOf[name], 0)
    /\ \A p \in Pending(1, 0) : /\ proposals[p].name # name
                                /\ proposals[p].slug # SlugOf[name]

Propose(r, row, newUser) ==
    /\ Len(proposals) < MaxProposals
    /\ Start(r, [Blank EXCEPT !.kind = IF newUser THEN "register" ELSE "propose",
                              !.user = IF newUser THEN {row.by} ELSE {}, !.row = <<row>>])
    /\ UNCHANGED <<entities, proposals, users, raced>>

CreateUniversityProposal(r, u, name) ==
    /\ UserExists(u)
    /\ UniversityProposalAvailable(name)
    /\ Propose(r, NewProposal(1, 0, name, u), FALSE)

\* The pending proposals are compared by name only.
CreateFacultyProposal(r, u, parent, name) ==
    /\ UserExists(u)
    /\ parent \in At(1)
    /\ NameFree(2, parent, name, 0) /\ SlugFree(2, parent, SlugOf[name], 0)
    /\ \A p \in Pending(2, parent) : proposals[p].name # name
    /\ Propose(r, NewProposal(2, parent, name, u), FALSE)

CreateSubjectProposal(r, u, parent, name) ==
    /\ UserExists(u)
    /\ parent \in At(2)
    /\ NameFree(3, parent, name, 0) /\ SlugFree(3, parent, SlugOf[name], 0)
    /\ \A p \in Pending(3, parent) : proposals[p].name # name
    /\ Propose(r, NewProposal(3, parent, name, u), FALSE)

\* register, with the name of a university that is not in the catalogue.
RegisterWithProposal(r, u, name) ==
    /\ ~UserExists(u)
    /\ UniversityProposalAvailable(name)
    /\ Propose(r, NewProposal(1, 0, name, u), TRUE)

\* register, with a university of the catalogue.
RegisterSelected(u, e) ==
    /\ ~UserExists(u)
    /\ e \in At(1)
    /\ users' = [users EXCEPT ![u] = [@ EXCEPT !.university = e, !.status = "selected"]]
    /\ UNCHANGED <<entities, proposals, req, raced>>

\* _create_registration_university_proposal and the commits of the others;
\* the email of a user is unique, the parent is a foreign key.
CommitProposal(r) ==
    LET row == req[r].row[1] IN
    /\ req[r].kind \in {"propose", "register"}
    /\ Len(proposals) < MaxProposals
    /\ row.parent \in Parents(row.level)
    /\ req[r].kind = "register" => ~UserExists(row.by)
    /\ proposals' = Append(proposals, row)
    /\ users' = IF req[r].kind = "register"
                THEN [users EXCEPT ![row.by].status = "pending"] ELSE users
    /\ End(r)
    /\ UNCHANGED <<entities, raced>>

-----------------------------------------------------------------------------
(* Who may decide: admins, and moderators by the rows they have a scope on. *)

Admin == [admin |-> TRUE, scope |-> {}]

Actors == {Admin} \cup [admin : {FALSE}, scope : SUBSET Ids]

\* _scope_ids; a scope goes with the row it is on.
ScopeIds(m, level) == m.scope \cap At(level)

\* _list_pending_faculty_proposals, for a moderator
ListedFaculty(m, p) ==
    proposals[p].parent \in ScopeIds(m, 1) \cup {entities[f].parent : f \in ScopeIds(m, 2)}

\* _list_pending_subject_proposals, for a moderator
ListedSubject(m, p) ==
    LET f == proposals[p].parent IN
    \/ entities[f].parent \in ScopeIds(m, 1)
    \/ f \in ScopeIds(m, 2)
    \/ f \in {entities[s].parent : s \in ScopeIds(m, 3)}

\* _assert_faculty_proposal_scope
FacultyScope(m, p) == proposals[p].parent \in ScopeIds(m, 1)

\* Variant: whoever has a scope below the university decides, too.
SubjectScopeByUniversity(m, p) ==
    LET u == entities[proposals[p].parent].parent IN
    \E f \in ScopeIds(m, 2) : entities[f].parent = u

\* _assert_subject_proposal_scope; scalar_one_or_none raises on two rows.
SubjectScope(m, p) ==
    LET f == proposals[p].parent IN
    \/ entities[f].parent \in ScopeIds(m, 1)
    \/ f \in ScopeIds(m, 2)
    \/ Cardinality({s \in ScopeIds(m, 3) : entities[s].parent = f}) = 1

\* ModerationService._apply_scope: the materials of a subject that a
\* moderator finds in the queue.
ListedMaterials(m, s) ==
    LET f == entities[s].parent IN
    \/ entities[f].parent \in ScopeIds(m, 1)
    \/ f \in ScopeIds(m, 2)
    \/ s \in ScopeIds(m, 3)

\* ModerationService._assert_scope: the materials that a moderator may open,
\* decide on and move.
MayModerate(m, s) ==
    LET f == entities[s].parent IN
    s \in ScopeIds(m, 3) \/ f \in ScopeIds(m, 2) \/ entities[f].parent \in ScopeIds(m, 1)

\* _require_admin and the two assertions.
MayDecide(a, p) ==
    \/ a.admin
    \/ proposals[p].level = 2 /\ FacultyScope(a, p)
    \/ proposals[p].level = 3 /\ SubjectScope(a, p)

-----------------------------------------------------------------------------
(* Decisions.                                                              *)

\* Variant: the status is not looked at.
OpenForAny(r, p, a) ==
    /\ p \in DOMAIN proposals /\ proposals[p].status # "gone"
    /\ MayDecide(a, p)

\* What every decision checks first.
Open(r, p, a) ==
    /\ p \in DOMAIN proposals /\ proposals[p].status = "pending"
    /\ MayDecide(a, p)

\* Only a university proposal concerns the home of the user who made it.
Decide(r, kind, p, target, row) ==
    LET u == proposals[p].by IN
    /\ Start(r, [Blank EXCEPT !.kind = kind, !.proposal = p, !.target = target, !.row = row,
                              !.user = IF proposals[p].level = 1 THEN {u} ELSE {},
                              !.loaded = IF proposals[p].level = 1 THEN users[u] ELSE NoUser])
    /\ UNCHANGED <<entities, proposals, users, raced>>

\* The row to insert, under the parent of the proposal.
ApprovedRow(p, name, slug) ==
    [level |-> proposals[p].level, parent |-> proposals[p].parent,
     name |-> name, slug |-> slug, origin |-> p]

Available(p, name, slug) ==
    /\ NameFree(proposals[p].level, proposals[p].parent, name, 0)
    /\ SlugFree(proposals[p].level, proposals[p].parent, slug, 0)

ApproveUniversity(r, p, a, name, slug) ==
    /\ Open(r, p, a) /\ proposals[p].level = 1
    /\ Available(p, name, slug)
    /\ Decide(r, "approve", p, 0, <<ApprovedRow(p, name, slug)>>)

ApproveFaculty(r, p, a, name, slug) ==
    /\ Open(r, p, a) /\ proposals[p].level = 2
    /\ Available(p, name, slug)
    /\ Decide(r, "approve", p, 0, <<ApprovedRow(p, name, slug)>>)

ApproveSubject(r, p, a, name, slug) ==
    /\ Open(r, p, a) /\ proposals[p].level = 3
    /\ Available(p, name, slug)
    /\ Decide(r, "approve", p, 0, <<ApprovedRow(p, name, slug)>>)

\* map_existing_*: the row must exist; nothing says under which parent.
MapExisting(r, p, a, e, level) ==
    /\ Open(r, p, a) /\ proposals[p].level = level
    /\ e \in At(level)
    /\ Decide(r, "map", p, e, <<>>)

MapExistingUniversity(r, p, a, e) == MapExisting(r, p, a, e, 1)
MapExistingFaculty(r, p, a, e) == MapExisting(r, p, a, e, 2)
MapExistingSubject(r, p, a, e) == MapExisting(r, p, a, e, 3)

\* reject_university, reject_faculty, reject_subject: _reject_proposal.
RejectProposal(r, p, a) ==
    /\ Open(r, p, a)
    /\ Decide(r, "reject", p, 0, <<>>)

\* _apply_approved_university_to_registration_user, on the user as loaded.
ApplyApprovedUniversity(q, e) ==
    IF q.user # {} /\ q.loaded.university = 0 /\ q.loaded.status \in {"pending", "rejected"}
    THEN [u \in Users |-> IF u \in q.user
                          THEN [university |-> e, status |-> "selected", cooling |-> TRUE]
                          ELSE users[u]]
    ELSE users

\* Variant: a user who has a university is marked as well.
MarkRejectedAny(q) ==
    [u \in Users |-> IF u \in q.user THEN [users[u] EXCEPT !.status = "rejected"] ELSE users[u]]

\* _mark_registration_university_rejected, on the user as loaded.
MarkRejected(q) ==
    IF q.user # {} /\ q.loaded.university = 0 /\ q.loaded.status = "pending"
    THEN [u \in Users |-> IF u \in q.user THEN [users[u] EXCEPT !.status = "rejected"]
                          ELSE users[u]]
    ELSE users

\* The commit of a decision writes the proposal, the user and, for an
\* approval, the new row; it fails if the proposal, the parent or the target
\* has gone, or the slug is taken.
CommitApproval(r) ==
    LET q == req[r]
        row == q.row[1]
        e == Len(entities) + 1
    IN  /\ q.kind = "approve"
        /\ proposals[q.proposal].status # "gone"
        /\ Len(entities) < MaxEntities
        /\ row.parent \in Parents(row.level)
        /\ SlugFree(row.level, row.parent, row.slug, 0)
        /\ entities' = Append(entities, row)
        /\ proposals' = [proposals EXCEPT ![q.proposal].status = "approved",
                                          ![q.proposal].entity = e]
        /\ users' = ApplyApprovedUniversity(q, e)
        /\ Mark(r, {<<"proposal", q.proposal>>, <<"entity", e>>}
                     \cup {<<"user", u>> : u \in q.user})
        /\ End(r)

CommitMap(r) ==
    LET q == req[r] IN
    /\ q.kind = "map"
    /\ proposals[q.proposal].status # "gone"
    /\ Live(q.target)
    /\ proposals' = [proposals EXCEPT ![q.proposal].status = "approved",
                                      ![q.proposal].entity = q.target]
    /\ users' = ApplyApprovedUniversity(q, q.target)
    /\ Mark(r, {<<"proposal", q.proposal>>} \cup {<<"user", u>> : u \in q.user})
    /\ End(r)
    /\ UNCHANGED entities

CommitReject(r) ==
    LET q == req[r] IN
    /\ q.kind = "reject"
    /\ proposals[q.proposal].status # "gone"
    /\ proposals' = [proposals EXCEPT ![q.proposal].status = "rejected"]
    /\ users' = MarkRejected(q)
    /\ Mark(r, {<<"proposal", q.proposal>>} \cup {<<"user", u>> : u \in q.user})
    /\ End(r)
    /\ UNCHANGED entities

-----------------------------------------------------------------------------
(* The catalogue itself, which admins edit, and the users' homes.          *)

\* create_university, create_faculty, create_subject
CreateEntity(r, level, parent, name, slug) ==
    /\ Len(entities) < MaxEntities
    /\ parent \in Parents(level)
    /\ NameFree(level, parent, name, 0) /\ SlugFree(level, parent, slug, 0)
    /\ Start(r, [Blank EXCEPT !.kind = "create", !.row = <<NewRow(level, parent, name, slug)>>])
    /\ UNCHANGED <<entities, proposals, users, raced>>

CommitEntity(r) ==
    LET row == req[r].row[1] IN
    /\ req[r].kind = "create"
    /\ Len(entities) < MaxEntities
    /\ row.parent \in Parents(row.level)
    /\ SlugFree(row.level, row.parent, row.slug, 0)
    /\ entities' = Append(entities, row)
    /\ Mark(r, {<<"entity", Len(entities) + 1>>})
    /\ End(r)
    /\ UNCHANGED <<proposals, users>>

\* Variant: only a new name is looked up, although the parent may be new, too.
NameGiven(old, name) == name # old.name

\* Whether an update looks the name up: update_university does so only for a
\* name that is given, the other two also for the name that the row keeps.
NameLookedUp(old, name) == old.level # 1 \/ name # old.name

\* update_university, update_faculty, update_subject: a new name, slug or
\* parent.  The name is looked up under the new parent, the slug only when
\* one of name and slug is given; that the parent exists, only at the commit.
UpdateEntity(r, e, parent, name, slug) ==
    LET old == entities[e]
        row == [old EXCEPT !.parent = parent, !.name = name, !.slug = slug]
    IN  /\ Live(e)
        /\ old.level = 1 => parent = 0
        /\ old.level # 1 => parent \in Ids
        /\ row # old
        /\ NameLookedUp(old, name) => NameFree(old.level, parent, name, e)
        /\ name # old.name \/ slug # old.slug => SlugFree(old.level, parent, slug, e)
        /\ Start(r, [Blank EXCEPT !.kind = "update", !.target = e, !.row = <<old, row>>])
        /\ UNCHANGED <<entities, proposals, users, raced>>

\* The columns that changed since the row was loaded.
CommitUpdate(r) ==
    LET q == req[r]
        e == q.target
        new == [entities[e] EXCEPT
                  !.parent = IF q.row[1].parent # q.row[2].parent THEN q.row[2].parent ELSE @,
                  !.name = IF q.row[1].name # q.row[2].name THEN q.row[2].name ELSE @,
                  !.slug = IF q.row[1].slug # q.row[2].slug THEN q.row[2].slug ELSE @]
    IN  /\ q.kind = "update"
        /\ Live(e)
        /\ new.parent \in Parents(new.level)
        /\ SlugFree(new.level, new.parent, new.slug, e)
        /\ entities' = [entities EXCEPT ![e] = new]
        /\ Mark(r, {<<"entity", e>>})
        /\ End(r)
        /\ UNCHANGED <<proposals, users>>

\* Variant: the users keep the university that is gone.
HomesKept(gone) == users

\* users.university_id is set to NULL; university_status stays.
HomesWithout(gone) ==
    [u \in Users |-> IF users[u].university \in gone
                     THEN [users[u] EXCEPT !.university = 0] ELSE users[u]]

\* The foreign keys to the parent cascade, for rows and for proposals.
Below(s) == {d \in DOMAIN entities : Live(d) /\ entities[d].parent \in s}

ProposalsBelow(s) == {p \in DOMAIN proposals : proposals[p].parent \in s}

\* delete_university, delete_faculty, delete_subject: the rows below go, with
\* the proposals under them.
DeleteEntity(e) ==
    LET gone == {e} \cup Below({e}) \cup Below(Below({e}))
        lost == ProposalsBelow(gone)
    IN  /\ Live(e)
        /\ entities' = [d \in DOMAIN entities |->
                          IF d \in gone THEN NoEntity
                          ELSE IF entities[d].level # 0 /\ entities[d].origin \in lost
                          THEN [entities[d] EXCEPT !.origin = 0] ELSE entities[d]]
        /\ proposals' = [p \in DOMAIN proposals |->
                           IF p \in lost THEN NoProposal
                           ELSE IF proposals[p].entity \in gone
                           THEN [proposals[p] EXCEPT !.entity = 0]
                           ELSE proposals[p]]
        /\ users' = HomesWithout(gone)
        /\ raced' = raced \ (({"entity"} \X gone) \cup ({"proposal"} \X lost))
        /\ UNCHANGED req

\* update_home_university, and update_user of the admin, who need not wait.
UpdateHomeUniversity(r, u, e, byAdmin) ==
    /\ UserExists(u)
    /\ e \in At(1)
    /\ byAdmin \/ (users[u].university # e /\ ~users[u].cooling)
    /\ Start(r, [Blank EXCEPT !.kind = IF byAdmin THEN "assign" ELSE "home",
                              !.user = {u}, !.loaded = users[u], !.target = e])
    /\ UNCHANGED <<entities, proposals, users, raced>>

CommitHome(r) ==
    LET q == req[r]
        new(old) == [university |-> IF q.loaded.university # q.target THEN q.target
                                    ELSE old.university,
                     status |-> IF q.loaded.status # "selected" THEN "selected" ELSE old.status,
                     cooling |-> old.cooling \/ q.kind = "home"]
    IN  /\ q.kind \in {"home", "assign"}
        /\ Live(q.target)
        /\ users' = [u \in Users |-> IF u \in q.user THEN new(users[u]) ELSE users[u]]
        /\ Mark(r, {<<"user", u>> : u \in q.user})
        /\ End(r)
        /\ UNCHANGED <<entities, proposals>>

\* HOME_UNIVERSITY_COOLDOWN_DAYS pass.
CooldownEnds(u) ==
    /\ users[u].cooling
    /\ users' = [users EXCEPT ![u].cooling = FALSE]
    /\ UNCHANGED <<entities, proposals, req, raced>>

-----------------------------------------------------------------------------
Proposing(r) ==
    \E u \in Users, name \in Names :
        \/ CreateUniversityProposal(r, u, name)
        \/ RegisterWithProposal(r, u, name)
        \/ \E parent \in Ids : \/ CreateFacultyProposal(r, u, parent, name)
                               \/ CreateSubjectProposal(r, u, parent, name)

\* moderation/catalog_proposals_api and the bot's moderation routes.
Deciding(r) ==
    \E p \in 1..MaxProposals, a \in Actors :
        \/ RejectProposal(r, p, a)
        \/ \E name \in Names, slug \in Slugs : \/ ApproveUniversity(r, p, a, name, slug)
                                               \/ ApproveFaculty(r, p, a, name, slug)
                                               \/ ApproveSubject(r, p, a, name, slug)
        \/ \E e \in Ids : \/ MapExistingUniversity(r, p, a, e)
                          \/ MapExistingFaculty(r, p, a, e)
                          \/ MapExistingSubject(r, p, a, e)

\* admin/catalog_api.  A new parent that is no row of the level above is left
\* out: such an update fails at its commit, if not before.
Editing(r) ==
    \E name \in Names, slug \in Slugs :
        \/ \E level \in 1..3 : \E parent \in Parents(level) :
              CreateEntity(r, level, parent, name, slug)
        \/ \E e \in {d \in Ids : Live(d)} : \E parent \in Parents(entities[e].level) :
              UpdateEntity(r, e, parent, name, slug)

Committing(r) ==
    \/ CommitProposal(r)
    \/ CommitApproval(r)
    \/ CommitMap(r)
    \/ CommitReject(r)
    \/ CommitEntity(r)
    \/ CommitUpdate(r)
    \/ CommitHome(r)

Starting(r) ==
    /\ req[r].kind = "idle"
    /\ \/ Proposing(r) \/ Deciding(r) \/ Editing(r)
       \/ \E u \in Users, e \in Ids, byAdmin \in BOOLEAN : UpdateHomeUniversity(r, u, e, byAdmin)

Next ==
    \/ \E r \in Requests : Starting(r) \/ Committing(r) \/ Abort(r)
    \/ \E u \in Users, e \in Ids : RegisterSelected(u, e)
    \/ \E u \in Users : CooldownEnds(u)
    \/ \E e \in Ids : DeleteEntity(e)

Spec == Init /\ [][Next]_vars

-----------------------------------------------------------------------------
\* The rows are well formed and every reference among them is to a row that
\* exists and is of the right level: deletions leave nothing behind.
TypeOK ==
    /\ entities \in Seq(Entity \cup {NoEntity}) /\ proposals \in Seq(Proposal \cup {NoProposal})
    /\ \A e \in DOMAIN entities :
         Live(e) => entities[e].parent \in Parents(entities[e].level)
    /\ \A p \in DOMAIN proposals :
         /\ proposals[p].status # "gone" => proposals[p].parent \in Parents(proposals[p].level)
         /\ proposals[p].entity # 0 => proposals[p].entity \in At(proposals[p].level)
    /\ users \in [Users -> User]
    /\ \A u \in Users : users[u].university \in {0} \cup At(1)

\* The check of a name is not backed by a constraint: siblings have the same
\* name only if one of them was written by a request that another write on
\* that level had overtaken.
NamesUnique ==
    \A d, e \in DOMAIN entities :
        (/\ d # e /\ Live(d) /\ Live(e)
         /\ entities[d].level = entities[e].level
         /\ entities[d].parent = entities[e].parent
         /\ entities[d].name = entities[e].name)
        => <<"entity", d>> \in raced \/ <<"entity", e>> \in raced

\* The decision that a proposal shows is the one that took effect: a row that
\* an approval inserted belongs to a proposal that is approved and refers to
\* it, and only approved proposals refer to rows, unless two decisions on the
\* proposal overlapped.
DecisionTookEffect ==
    \A p \in DOMAIN proposals : <<"proposal", p>> \notin raced =>
        /\ proposals[p].entity # 0 => proposals[p].status = "approved"
        /\ \A e \in DOMAIN entities :
             Live(e) /\ entities[e].origin = p
               => proposals[p].status = "approved" /\ proposals[p].entity = e

\* Whoever may decide on a pending proposal finds it in the list, although
\* the list and the check are separate queries; for subjects, whoever finds it
\* may also decide, unless they have scopes on several of its siblings.  The
\* queue of materials and the check on one agree on every subject.
DecidableIsListed ==
    /\ \A m \in Actors \ {Admin}, s \in At(3) : MayModerate(m, s) <=> ListedMaterials(m, s)
    /\ \A m \in Actors \ {Admin}, p \in DOMAIN proposals : proposals[p].status = "pending" =>
           /\ proposals[p].level = 2 /\ MayDecide(m, p) => ListedFaculty(m, p)
           /\ proposals[p].level = 3 /\ MayDecide(m, p) => ListedSubject(m, p)
           /\ (/\ proposals[p].level = 3 /\ ListedSubject(m, p)
               /\ Cardinality({s \in ScopeIds(m, 3) : entities[s].parent = proposals[p].parent}) <= 1)
              => MayDecide(m, p)

\* A user whose university is still to be decided on, or was rejected, has
\* none: the decision and a choice of their own do not get mixed up, unless
\* they overlapped.
HomeMatchesStatus ==
    \A u \in Users : <<"user", u>> \notin raced =>
        (users[u].status \in {"none", "pending", "rejected"} => users[u].university = 0)
=============================================================================
