SPECIFICATION FairSpec
CONSTANTS
  e1 = e1
  e2 = e2
  weak = weak
  invented = invented
  NoDraft = NoDraft
  NoDirective = NoDirective
  Evidence <- MCEvidence
  Invented = invented
  Usable <- MCUsable
  Replies <- MCReplies
  Texts <- MCTexts
  ReadBatch = 1
  WriterTurns = 3
  WriterNudges = 1
  MaxQuestions = 2
  ClarifierTurns = 2
  MaxReviews = 2
  MaxCrashes = 1
\* The run ends.
CHECK_DEADLOCK FALSE
INVARIANT QuestionsBounded
INVARIANT CitesAreRead
INVARIANT ReportIsReviewed
PROPERTY AcceptedDraftSurvives
PROPERTY RunSettles
