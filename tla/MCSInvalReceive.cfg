SPECIFICATION FairSpec
CONSTANTS
    Rels = {r1, r2, r3}
    NoRel = NoRel
    NoEntry = NoEntry
    OpenRels = {r1, r2}
    Overrun = Overrun
    MAXINVALMSGS = 2
    RC_MAX_NUM = 1
    MaxCommits = 4
PROPERTIES NoMessageOverwritten Returns
