SPECIFICATION ClusterSpec
CONSTANTS
    Servers = {1, 2}
    RemotesOf <- MCRemotesOf
    Conns = {1, 2}
    RunnerCount = 2
    Txs = {1, 2, 4}
    KeyOf <- MCKeyOf
INVARIANTS
    OneWayToRemotes
    TxInOrder
PROPERTIES
    
    TxAnswered
CHECK_DEADLOCK FALSE
