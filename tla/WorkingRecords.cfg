SPECIFICATION WorkingRecordsSpec
CONSTANTS
  w1 = w1
  u1 = u1
  u2 = u2
  s1 = s1
  s2 = s2
  open = open
  a = a
  NoTask = NoTask
  Batch <- OneRecord
  Reviewers <- OneReviewer
  Suggestions <- TwoSuggestions
  Decisions <- TwoDecisions
  Undecided <- OpenDecision
  MaxAnswers = 2
  f1 = f1
  f2 = f2
  d1 = d1
  d2 = d2
  d3 = d3
  c1 = c1
  c2 = c2
  fam1 = fam1
  fam2 = fam2
  fam3 = fam3
  g1 = g1
  g2 = g2
  t1 = t1
  t2 = t2
  b1 = b1
  b2 = b2
  v1 = v1
  v2 = v2
  r1 = r1
  r2 = r2
  r3 = r3
  r4 = r4
  NoDocument = NoDocument
  Records = {r1, r2, r3, r4}
  Documents = {d1, d2, d3}
  Contents = {c1, c2}
  Families = {fam1, fam2, fam3}
  Groups = {g1, g2}
  Targets = {t1, t2}
  Batches = {b1, b2}
  Guidelines = {v1, v2}
  SourceOf <- MCSourceOf
  TargetOf <- MCTargetOf
  BatchOf <- MCBatchOf
  GuidelineOf <- MCGuidelineOf
  Eligible = {r1, r2, r3, r4}
  Plans <- MCPlans
  Calls = {f1, f2}
  RequiredSplits = {"train", "test"}
  MaxFaults = 1
  MaxDamages = 1
SYMMETRY Symmetry
INVARIANTS
  AppliedAtMostOnce
  
  NoCurrentAnswerRefused
  NoLeakage
  PublishedIsWhole
  OneWinner
  DebrisComesFromFaults
  ValidReportsAreTrue
  IntactReleasesVerify
PROPERTIES
  AdjudicationIsFinal
  ImplementsStore
CHECK_DEADLOCK FALSE
