\* Two job functions; j1 with up to two arguments, j2 with none but a context.
\* MaxInt 7: with 7 retries the insert fails, 8 become -8.
CONSTANTS
    Null = Null
    NoLiteral = NoLiteral
    j1 = j1
    j2 = j2
    n1 = n1
    p1 = p1
    t1 = t1
    Job = {j1, j2}
    Path = {p1}
    PathOf <- JobPaths
    Names <- JobNames
    ChannelNames <- Foo
    Retries <- Counts
    Secs <- Seconds
    Protos <- MyProtos
    MaxArgs <- JobArgs
    MaxInt = 7
    Message = {m1, m2}
    Context = {t1}
    Needs <- JobNeeds
    MaxJobs = 2
SPECIFICATION Spec
SYMMETRY Symmetry
INVARIANTS LibraryTypeOK RunsTheJobSpawned GracefulExit
PROPERTY AsDeclared
\* A crate with a rejected argument does not compile.
CHECK_DEADLOCK FALSE
