SPECIFICATION HeatmapsSpec
CONSTANTS
  Paths = {"a", "b"}
  Clicks = {c1, c2, c3}
  MaxClicks = 2
  BatchViews = 1
  BatchClicks = 1
  KeepaliveSize = 2
  MaxViews = 2
  MaxChained = 1
  MaxTurns = 1
INVARIANTS SentOnceEach ClicksOnTheirPage SnapshotShowsItsPage
PROPERTY QuietWithoutConsent
SYMMETRY Symmetry
CHECK_DEADLOCK FALSE
