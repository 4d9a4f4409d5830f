\* parse_transaction returns: the states with a result have no successor.
CONSTANTS
    Trees <- MCTrees
    Nodes <- MCNodes
    Accounts <- MCAccounts
    Hashes <- MCHashes
    NoSeq = NoSeq
    Pubkeys <- MCPubkeys
    ACCOUNT_COMPRESSION_PROGRAM_ID = ACP
    NOOP_PROGRAM_ID = NOOP
    OtherProgram = OtherProgram
    Payloads <- MCPayloads
    DecodeFail = DecodeFail
    Assemble <- MCAssemble
    TxInputs <- MCTxInputs
    t1 = t1  t2 = t2  n1 = n1  n2 = n2  a1 = a1  a2 = a2  h1 = h1  h2 = h2
SPECIFICATION Spec
INVARIANTS TypeOK ScanCorrect
PROPERTIES ImplementsParserSpec
CHECK_DEADLOCK FALSE
