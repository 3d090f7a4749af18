\* The tool, from its command line to the library's answers.
CONSTANTS
  MaxFailures = 2
  Tails <- AllTails
  Lines <- MCLines
SPECIFICATION MCSpec
INVARIANTS
  ArgumentsAreThere
  NoWordIsDropped
  ShownWasRead
PROPERTIES
  OnceInOrder
  EndsOrComplains
