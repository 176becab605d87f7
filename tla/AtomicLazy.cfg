CONSTANT Threads = {t1, t2, t3}
SPECIFICATION FairSpec
INVARIANTS Inv RefsAreBuilt
PROPERTIES OncePerThread RefsSettle ImplementsMutex SomeoneGetsIn CtorReturns
