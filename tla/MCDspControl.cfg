SPECIFICATION Spec
CONSTANTS
    osc = osc
    dac = dac
    inlet = inlet
    Dsp = {osc, dac}
    Thru = {inlet}
    Wires <- MCWires
    Rates = {44, 48}
    MaxEdits = 6
    MaxReact = 2
INVARIANTS
    TypeOK
    ChainCurrent
    ActiveRuns
    EditsKeepDsp
    MarksExact
CHECK_DEADLOCK FALSE
