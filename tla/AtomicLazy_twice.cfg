CONSTANT Threads = {t1, t2}
SPECIFICATION Spec
PROPERTIES ConstructsWhenEmpty
