SPECIFICATION FairSpec
CONSTANTS
  Tags = {t1, t2, t3}
  NoTag = NoTag
  Depth = 3
  Programs <- MCLive
PROPERTIES
  FreezeEnds
