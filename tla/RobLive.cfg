SPECIFICATION FairSpec
CONSTANTS
  N = 3
  G = 1
  MaxReuse = 0
  NBranches = 2
  Programs <- MCLivePrograms
PROPERTIES
  HeadLeaves
