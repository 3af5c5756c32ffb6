SPECIFICATION CliSpec
CONSTANTS
    p1 = p1
    p2 = p2
    page = page
    pageOfPort = pageOfPort
    agentsFile = agentsFile
    memoryFile = memoryFile
    turn1 = turn1
    Commands <- MCCommands
    Files <- MCFiles
    CommandOf <- MCCommandOf
    Extensions <- MCExtensions
    Turns <- MCTurns
    MaxChunks = 2
    BatchSize = 1
    TopK = 1
    MaxVersion = 2
    MaxEdited = 1
SYMMETRY MCSymmetry
INVARIANT StagingIsBackup
CHECK_DEADLOCK FALSE
