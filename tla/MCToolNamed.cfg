\* Lines of one option: is the named command the one performed?
CONSTANTS
  MaxFailures = 0
  Tails <- NoTails
  Lines <- MCLines
SPECIFICATION MCSpec
INVARIANTS
  NamedIsPerformed
