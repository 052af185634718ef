SPECIFICATION Spec
CONSTANTS
  Libraries <- MCLibraries
  Cuts <- MCCuts
  Variants <- MCVariants
  Value <- MCValue
INVARIANTS
  ArgumentsArrive
  AnswersArrive
  CallbacksArrive
  DamageIsAnswered
