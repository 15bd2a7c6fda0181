\* A kill between a new kernel image and the drop of the kmod mirror.
CONSTANTS
  MaxEdits = 1
  MaxTime = 10
  Clients = 1
SPECIFICATION Spec
INVARIANT ModuleMatchesKernel
