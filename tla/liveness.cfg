SPECIFICATION FairSpec
CONSTANTS
    PORT_CNT = 1
    VCTL_DELAY = 2
    ICTL_DELAY = 1
    TIMER_MOD = 2
    PCYCLE_MAX_TIME = 30
    VMAX = 40
    MaxOutages = 0
    Volts <- LivenessVolts
    Loads <- LivenessLoads
    Commands <- LivenessCommands
    BootBytes <- LivenessBoot
    CycleBytes = {2}
    CutOffWords <- LivenessCutOff
    CutOnWords <- LivenessCutOn
INVARIANT SwitchNeedsThreshold
PROPERTY PollEndsRight
PROPERTY OverloadTrips
PROPERTY PcycleRestores
PROPERTY LedGoesOut
PROPERTY VoltageControlSettles
