SPECIFICATION HSpec
CONSTANTS
    PORT_CNT = 2
    VCTL_DELAY = 2
    ICTL_DELAY = 1
    TIMER_MOD = 2
    PCYCLE_MAX_TIME = 30
    VMAX = 40
    MaxOutages = 0
    Volts <- SuperviseVolts
    Loads <- SuperviseLoads
    Commands <- SuperviseCommands
    BootBytes <- SuperviseBoot
    CycleBytes = {2}
    CutOffWords <- SuperviseCutOff
    CutOnWords <- SuperviseCutOn
INVARIANT TwoPolls
