\* Two overlapping requests, on the deployed async session and without a seeder:
\* the roles and permissions are those created through the API.
SPECIFICATION Spec
CONSTANTS
    User = {root, u1}
    Role = {r1, r2, r3}
    Permission = {p1}
    Name = {admin, member}
    Key = {read}
    Star = Star
    AdminUser = root
    AdminName = admin
    DefaultName = member
    DefaultKey = read
    None = None
    Gone = Gone
    Request = {q1, q2}
    Overlap = TRUE
    Renames = FALSE
    Seeds = FALSE
SYMMETRY Symmetry
INVARIANT SingleRule
CHECK_DEADLOCK FALSE
