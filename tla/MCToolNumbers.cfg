\* Lines of one option: does every argument arrive as written?
CONSTANTS
  MaxFailures = 0
  Tails <- NoTails
  Lines <- MCLines
SPECIFICATION MCSpec
INVARIANTS
  NumbersArrive
