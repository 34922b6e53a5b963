SPECIFICATION Spec
CONSTANTS
    Server = 1111
    Peers = {2221, 2222}
    MaxFile = 3
    AssumedFile = 4
    MaxClients = 3
INVARIANTS TypeOK ReplacedWhileConnected AnswersOnSameConn DestroyedOnce ReportedIsAlive
CHECK_DEADLOCK FALSE
