SPECIFICATION FairSpec
CONSTANTS
  left = left
  right = right
  small = small
  FirstMode <- MCFirstMode
  Nothing = Nothing
  Output = {left, right}
  Area = {small, large}
  Snapshots <- MCSnapshots
  MaxChanges = 2
CHECK_DEADLOCK FALSE
INVARIANT TypeOK
INVARIANT SurfaceIsAsAsked
INVARIANT BufferOnlyAfterConfigure
PROPERTY LatestIsShown
