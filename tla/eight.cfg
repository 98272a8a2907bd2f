SPECIFICATION Spec
CONSTANTS
    PORT_CNT = 8
    VCTL_DELAY = 1
    ICTL_DELAY = 1
    TIMER_MOD = 1
    PCYCLE_MAX_TIME = 30
    VMAX = 40
    MaxOutages = 1
    Volts <- EightVolts
    Loads <- EightLoads
    Commands <- EightCommands
    BootBytes <- EightBoot
    CycleBytes = {1}
    CutOffWords <- EightCutOff
    CutOnWords <- EightCutOn
INVARIANT PinsMatchState
PROPERTY ImplementsPolicy
