------------------------------ MODULE MCCatalog ------------------------------
EXTENDS Catalog, TLC

MCSlugOf == [n \in Names |-> IF n = "n1" THEN "s1" ELSE "s2"]

\* Two universities, with room for a faculty each, two at one of them, or a
\* faculty with a subject.
MCSeed ==
    <<[level |-> 1, parent |-> 0, name |-> "n1"],
      [level |-> 1, parent |-> 0, name |-> "n2"]>>

\* A university with a faculty, and room for one row more.
MCFacultySeed ==
    <<[level |-> 1, parent |-> 0, name |-> "n1"],
      [level |-> 2, parent |-> 1, name |-> "n1"]>>

\* The smaller of two instances, in which all rows have one name.
Small == INSTANCE Catalog WITH Names <- {"n1"}, SlugOf <- [n \in {"n1"} |-> "s1"],
                               Seed <- MCFacultySeed, MaxEntities <- 3

\* The steps of the larger instance, which is for the names of siblings: rows
\* are created, renamed and moved.  A request that is given up has changed
\* nothing, so Abort would add no tree.
Naming ==
    \E r \in Requests : \/ req[r].kind = "idle" /\ Editing(r)
                        \/ CommitEntity(r) \/ CommitUpdate(r)

\* The second seeded row, a university in the larger instance alone, tells
\* the two apart.
MCInit == Init \/ Small!Init

MCNext ==
    \/ entities[2].level = 1 /\ Naming
    \/ entities[2].level # 1 /\ Small!Next

MCSpec == MCInit /\ [][MCNext]_vars

RequestSymmetry == Permutations(Requests)

=============================================================================
