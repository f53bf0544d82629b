SPECIFICATION FairSpec
CONSTANTS
    b1 = b1
    b2 = b2
    build = build
    test = test
    deploy = deploy
    main = main
    pull = pull
    Builds = {b1, b2}
    Trigger <- MCTrigger
    Names = {build, test, deploy}
    Scenarios <- AllScenarios
    Runners = {r1, r2}
    NumExecutors = 1
    None = None
INVARIANTS TypeOK DependencyOrder SingleExecution PermitsConserved BuildNumbers
PROPERTIES VerdictIsFinal ImplementsJobQueue BuildEnds
