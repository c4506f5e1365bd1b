\* A submission of any shape, one that repeats its key, and a GET.
SPECIFICATION HttpSpec
CONSTANTS
  r1 = r1
  r2 = r2
  r3 = r3
  NoId = NoId
  Request = {r1, r2, r3}
  Key <- MCKey
  Type <- MCType
  Content <- MCContent
  Ask <- MCAsk
\* The requests come to an end.
CHECK_DEADLOCK FALSE
INVARIANTS OneEventPerKey AnswersAgree RefusedLeavesNoTrace OnlyVetted ReadYourSubmission
PROPERTIES FirstSubmissionWins ImplementsIntake
