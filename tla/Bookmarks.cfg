\* Two users, two requests under way, a walk with pages of one, three writes.
SPECIFICATION Spec
SYMMETRY Alike
CONSTANTS
    u1 = u1
    u2 = u2
    User = {u1, u2}
    r1 = r1
    r2 = r2
    Request = {r1, r2}
    a = a
    b = b
    Value = {a, b}
    Time = {0, 1}
    WeekLength = 1
    PageSize = 1
    MaxWrites = 3
INVARIANT TypeOK WalkRepeatsNothing WalkSkipsNothing
PROPERTY PatchesMerge
