SPECIFICATION Spec
CONSTANTS
    a = a
    b = b
    d = d
    eval = eval
    load = load
    quit = quit
    None = None
    Quit = quit
    Clients <- MCClients
    Commands <- MCCommands
INVARIANTS TypeOK CommandIsAlive
PROPERTIES ImplementsService RepliesCome
CHECK_DEADLOCK FALSE
