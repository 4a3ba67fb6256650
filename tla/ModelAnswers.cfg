SPECIFICATION Spec
CONSTANTS
  MaxAttempts = 3
  Providers = {"google", "openrouter"}
  Replies <- SomeReplies
  Answers <- SomeAnswers
  NoAnswer = NoAnswer
CHECK_DEADLOCK FALSE
INVARIANTS
  ContractIsValidated
