CONSTANTS
    None = None
    Requests = {r1, r2}
    Transitions = {t1, t2}
    Edits = {e1}
    Calls = {"switch", "stop", "edit", "disconnect", "lose"}
SPECIFICATION Spec
INVARIANTS SwitchExclusive ReadyTellsMode ModePersisted NoCaptureBehindWebRTC
SYMMETRY Interchanged
