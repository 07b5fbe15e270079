SPECIFICATION FairSpec
CONSTANTS
  NoSockets = 2
  Child = {t1, t2}
  EagerClient = FALSE
PROPERTIES
  ListensAgain
  ChildListens
  GoneClientReleases
