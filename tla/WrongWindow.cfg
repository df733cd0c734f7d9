\* A PATCH meets another bookmark of its user under the identifier it has read.
SPECIFICATION Spec
SYMMETRY Alike
CONSTANTS
    u1 = u1
    u2 = u2
    User = {u1}
    r1 = r1
    r2 = r2
    Request = {r1, r2}
    a = a
    b = b
    Value = {a, b}
    Time = {0, 1}
    WeekLength = 1
    PageSize = 1
    MaxWrites = 4
PROPERTY ChangesMarkTheirWindow
