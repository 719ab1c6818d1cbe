SPECIFICATION Spec
CONSTANTS
  Commits = {A, B, C}
  Patches = {p, q}
  Patched = {B}
  MaxChanges = 3
  None = None
INVARIANT
  ChangedSourceRebuilds
