SPECIFICATION ReviewSpec
CONSTANTS
  w1 = w1
  u1 = u1
  u2 = u2
  s1 = s1
  s2 = s2
  open = open
  a = a
  NoTask = NoTask
  Batch <- OneRecord
  Reviewers <- TwoReviewers
  Suggestions <- TwoSuggestions
  Decisions <- TwoDecisions
  Undecided <- OpenDecision
  MaxAnswers = 1
PROPERTIES
  SyncKeepsActiveReviews
