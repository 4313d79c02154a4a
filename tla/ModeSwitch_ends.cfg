CONSTANTS
    None = None
    Requests = {r1, r2}
    Transitions = {t1}
    Edits = {}
    Calls = {"switch", "recode", "start", "external", "apply", "enforce", "session", "patch"}
SPECIFICATION FairSpec
PROPERTIES SwitchEnds
