SPECIFICATION Spec
CONSTANTS
    b1 = b1
    b2 = b2
    build = build
    test = test
    deploy = deploy
    main = main
    pull = pull
    Builds = {b1}
    Names = {build, test, deploy}
    Trigger <- MCTrigger
    Scenarios <- CalmScenario
    Runners = {r1, r2}
    NumExecutors = 1
    None = None
INVARIANT ReleasedAfterAllDependencies
