SPECIFICATION FairSpec
CONSTANTS
    A = A
    B = B
    C = C
    F = F
    G = G
    H = H
    Battle = {A, B, C, F, G, H}
    Final = A
    Real = {0, 1, 2, 3}
    Agent = {8, 11, 14}
    Left <- FourLeft
    Right <- FourRight
    LoserAgent <- FourLoser
    Field <- FourField
    Attr <- FourAttr
    Atk <- FourAtk
    FullHp = {2, 3}
    Prompt = TRUE
INVARIANTS
    TypeOK
    FightersAlive
    ChildrenFirst
    ChampionDetermined
PROPERTIES
    ChampionNamed
