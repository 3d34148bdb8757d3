SPECIFICATION FairSpec
CONSTANTS
  Artworks = {a1, a2, a3}
  None = None
  Placeholder = Placeholder
  Requests = {r1, r2}
  MaxChanges = 4
INVARIANTS
  TypeOK
  MovesWithTheWall
PROPERTIES
  NeverAnother
  CatchesUp
