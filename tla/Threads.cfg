SPECIFICATION ThreadsSpec
CONSTANTS
  w1 = w1  w2 = w2  w3 = w3  c1 = c1  c2 = c2
  main_thread = main_thread  t1 = t1  t2 = t2
  Workers <- TwoWorkers
  Contexts <- TwoContexts
  Splits <- AllSplits
  DesiredThreads <- AllDesired
  InitialDesired <- NoGarbage
  IntMax = 8
  MaxRuns = 2
  NoTask = NoTask
  TheCaller = main_thread
  Threads <- ThreeThreads
  Pools <- AllPools
  Tasks <- TwoTasks
  MaxTasks = 3
  MainThread = main_thread
  Runners <- ThreeRunners
  MaxTrees = 3
  MaxFailures = 1
  MaxKernels = 2
  MaxOffloads = 2
INVARIANTS QuiescentBetweenRuns AllTasksTaken WakeupsOnTheWay ModulesErasable
  TasksOfTheKernel LinkedWhole
PROPERTIES ImplementsParallelFor TearDown ImplementsTaskQueue ThreadsJoin
