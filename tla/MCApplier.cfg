CONSTANTS
    Background = background
    Compactors = {c1}
    Installers = {i1, i2}
    Serializers = {s1}
    None = None
    Threshold = 0
    MaxIndex = 3
    MaxRestarts = 1
SPECIFICATION Spec
INVARIANTS TypeOK UnappliedEntriesInLog SnapshotCoversLabel
PROPERTIES SnapshotIsPointInTime
CHECK_DEADLOCK FALSE
SYMMETRY Symmetry
VIEW View
