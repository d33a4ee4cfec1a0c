\* One administration request at a time, over enough role ids to delete a
\* role and create another under the same name.
\* Renames = TRUE and Seeds = TRUE: the operations as they are written, without
\* the two errors that keep the deployed ones from committing.
SPECIFICATION Spec
CONSTANTS
    User = {root, u1}
    Role = {r1, r2, r3}
    Permission = {p1, p2}
    Name = {admin, member}
    Key = {read, write}
    Star = Star
    AdminUser = root
    AdminName = admin
    DefaultName = member
    DefaultKey = read
    None = None
    Gone = Gone
    Request = {q1}
    Overlap = FALSE
    Renames = TRUE
    Seeds = TRUE
SYMMETRY Symmetry
INVARIANTS
    TypeOK
    Mirror
    DecisionsFollowTables
PROPERTY NewTextGrantsNothing
CHECK_DEADLOCK FALSE
