SPECIFICATION Spec
CONSTANTS
  t1 = t1
  t2 = t2
  Tasks = {t1, t2}
  Active = {t1}
  Keys = {"NEXT", "DONE"}
INVARIANTS FileKeepsHistory KeywordTruth
PROPERTIES OutcomeSurvives NothingResumed ForeignEditsKept
