CONSTANTS
  Rows = {Admin, Namesake, a, b}
  Admin = Admin
  Namesake = Namesake
SPECIFICATION Spec
INVARIANTS
  FileIsCurrent
  AdminServes
PROPERTY
  AllOrNothing
