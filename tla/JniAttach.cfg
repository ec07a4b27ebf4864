CONSTANTS
    main = main
    server = server
    JavaThreads = {main}
    NativeThreads = {server}
    MaxAttaches = 3
SPECIFICATION Spec
INVARIANTS
    EnvIsValid
    LeftAsFound
PROPERTY ThrowSkipsNoDetach
