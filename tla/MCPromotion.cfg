\* Two candidates make two promotions that can race; one edit moves main once.
CONSTANTS
  learner = learner
  web = web
  c1 = c1
  c2 = c2
  e1 = e1
  Nobody = Nobody
  Promoters = {learner, web}
  Learners = {learner}
  Candidates = {c1, c2}
  Edits = {e1}
  MaxRuns = 1
SPECIFICATION FairSpec
INVARIANTS
  PromotionsAreOrdered
  NoPromotionMissed
  RebasedIsWhatIsMerged
  PromotedPassedItsLastGate
PROPERTY PromotionEnds
CHECK_DEADLOCK FALSE
