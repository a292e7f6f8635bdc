CONSTANTS
  Names = {"A", "B", "C"}
  Unspecified = Unspecified
  Schemes <- MCSchemes
  Findings = {0, 1}
  Answers <- MCAnswers
SPECIFICATION Spec
INVARIANTS ExitCodeCounts CleanExitVouches AnswersAreGrounded
CHECK_DEADLOCK FALSE
