\* Four roles or two todos, pages of one and two, two instants: several pages
\* forward and back with rows of one time; two users, two overlapping requests.
SPECIFICATION Spec
CONSTANTS
  User = {alice, bob}
  Request = {r1, r2}
  MaxRole = 4
  MaxTodo = 2
  MaxLimit = 2
  MaxClock = 2
SYMMETRY Symmetry
INVARIANTS TypeOK ListedOnce
PROPERTIES PagesExact BackAgain NextOffered OnlyOwnerWrites
CHECK_DEADLOCK FALSE
