\* Two tasks, three cgroups of which one is nested and one has a long path, three test
\* CPUs or one; rows for two cgroups and five scheduling groups.
CONSTANTS
  t1 = t1
  t2 = t2
  a = a
  b = b
  ab = ab
  Root = Root
  None = None
  NumCpus = 4
  Tasks <- MCTasks
  Groups <- MCGroups
  Parent <- MCParent
  Lists <- MCLists
  Long <- MCLong
  Hierarchies <- MCHierarchies
  MaxTasks = 2
  MaxCgroups = 2
  MaxGroups = 5
SPECIFICATION RegionSpec
INVARIANTS TypeOK TreeSound TasksOnTestCpus  
SYMMETRY TaskSymmetry
