SPECIFICATION Spec
CONSTANTS
  Page = 2
  Sector = 1
  HeaderEnd = 2
  StackSize = 2
  W32 = 9
  MaxE820 = 3
  Frames = 7
  Layouts <- MCLayouts
  Shapes <- MCShapes
  Kernels <- MCKernels
  Initrds = {0, 3, None, Missing}
  Cmdlines = {0, 2}
  None = None
  Missing = Missing
INVARIANTS
  TypeOK
  CopiesStayApart
  KernelIsTold
  MemoryMapIsTold
CHECK_DEADLOCK FALSE
