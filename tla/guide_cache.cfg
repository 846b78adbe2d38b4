SPECIFICATION FairSpec
CONSTANTS
  Keys = {k1, k2}
  KnownKeys = {k1}
  Requests = {r1, r2}
  Texts = {t1, t2, broken}
  ParsableTexts = {t1, t2}
  RETRY_LIMIT = 2
  NoGuide = NoGuide
INVARIANTS
  TypeOK
  RepeatCallsDoNotDraft
PROPERTIES
  RequestsAreAnswered
  ImplementsGuideCache
