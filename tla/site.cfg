SPECIFICATION Spec
CONSTANTS
  t1 = t1
  t2 = t2
  Tabs = {t1, t2}
  Starts <- MixedStarts
  Accept = "en"
  KeepsMoved = TRUE
INVARIANTS PublicStaysOpen SwitchWorks SitemapIsCanonical
PROPERTIES VisitsEnd
