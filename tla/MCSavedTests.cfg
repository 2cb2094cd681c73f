\* One name, two texts (one without a URL; a blank favourite is a third), two environments, two requests at a time.
CONSTANTS
    e1 = e1
    e2 = e2
    Names = {"n"}
    Texts = {t1, t2}
    Hosted = {t2}
    Envs = {e1, e2}
    Versions <- MCVersions
    Calls = {c1, c2}
    Blank = Blank
    NoVars = NoVars
    NoEnv = NoEnv
    NoRow = NoRow
    NoJob = NoJob
    Nobody = Nobody
SPECIFICATION Spec
SYMMETRY Symmetry
INVARIANTS
    TypeOK
    TokensKept
    ConfFollowsRaw
    ResumedRuns
PROPERTIES
    FreshEnvironment
