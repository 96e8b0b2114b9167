\* Two launchers that are called again and again, an archive of two blocks.
SPECIFICATION Spec
CONSTANTS
  Launchers = {p, q}
  Files = {f, g, h}
  Size = 2
  None = None
SYMMETRY Symmetry
INVARIANTS TypeOK InstalledIsLocked
PROPERTY RetrySucceeds
