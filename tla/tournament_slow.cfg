SPECIFICATION FairSpec
CONSTANTS
    A = A
    B = B
    C = C
    F = F
    G = G
    H = H
    Battle = {A, B}
    Final = A
    Real = {0, 1}
    Agent = {14}
    Left <- TwoLeft
    Right <- TwoRight
    LoserAgent <- TwoLoser
    Field <- TwoField
    Attr <- TwoAttr
    Atk <- TwoAtk
    FullHp = {2, 3}
    Prompt = FALSE
PROPERTIES
    ChampionNamed
CHECK_DEADLOCK FALSE
