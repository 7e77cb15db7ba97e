CONSTANTS
    Clis = {c1, c2}
    MaxPid = 2
SPECIFICATION Spec
INVARIANTS TypeOK OneWorkerOnRecord
PROPERTY StopKills
