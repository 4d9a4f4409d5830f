\* Events whose output hashes do not pair up with the output accounts occur.
CONSTANTS
    Trees <- MCTrees
    Nodes <- MCNodes
    Accounts <- MCAccounts
    Hashes <- MCHashes
    NoSeq = NoSeq
    Pubkeys = {ACP, NOOP}
    ACCOUNT_COMPRESSION_PROGRAM_ID = ACP
    NOOP_PROGRAM_ID = NOOP
    Payloads = {}
    DecodeFail = DecodeFail
    t1 = t1  t2 = t2  n1 = n1  n2 = n2  a1 = a1  a2 = a2
    h1 = h1  h2 = h2  h3 = h3
    TreeIndices = {0, 1}
    ChangelogsInputs <- MCChangelogsInputs
    EventInputs <- MCEventInputs
    PubkeyArrays <- InRangePubkeyArrays
SPECIFICATION Spec
INVARIANT OutputPerPathUpdate
CHECK_DEADLOCK FALSE
