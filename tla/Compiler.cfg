CONSTANTS
    N = 3
    Kernels <- MCKernels
    Args <- MCArgs
    Memories <- MCMemories
SPECIFICATION Spec
INVARIANTS WellFormed MeaningKept SimplifyEnds
