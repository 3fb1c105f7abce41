\* The search from prime node a, target id unknown to every remote, with
\* every answer on time: it goes on while responses bring new nodes.
\* K = 2 makes one answer start two queries; three slots leave room for
\* them beside the answering query; Try = 1 and MaxNodes = 2 keep the
\* liveness check small while a failed node can still be re-advertised.
CONSTANTS
    a = a
    b = b
    c = c
    Remotes <- MCRemotes
    Dist <- MCDist
    Adv <- MCAdv
    TargetNode = None
    Values = {b}
    SearchTypes = {"find_node", "get_peers"}
    Seed = a
    K = 2
    Try = 1
    MaxNodes = 2
    MaxQueries = 3
    LateAnswers = TRUE
    None = None
SPECIFICATION FairSpec
INVARIANT TypeOK
PROPERTY SearchEndsUnlessLate
CHECK_DEADLOCK FALSE
