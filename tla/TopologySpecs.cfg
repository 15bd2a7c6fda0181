\* Every spec of up to two groups, over a machine of four CPUs.
SPECIFICATION Spec
CONSTANTS
  NumCpus = 4
  Levels = {"SMT", "CLS"}
  KernelLevels = {"SMT"}
  Machine <- MCMachine
  Scales = {512}
  FullScale = 1024
  Lists = {{}, {1, 2}, {2, 3}, {0, 1}}
  MaxGroups = 2
  Tasks = {1}
INVARIANTS
  TypeOK
  MasksGrouped
  DomainsGrouped
  TasksOnTestCpus
