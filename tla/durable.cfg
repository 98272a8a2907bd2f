SPECIFICATION HSpec
CONSTANTS
    PORT_CNT = 2
    VCTL_DELAY = 1
    ICTL_DELAY = 1
    TIMER_MOD = 1
    PCYCLE_MAX_TIME = 30
    VMAX = 40
    MaxOutages = 1
    Volts <- DurableVolts
    Loads <- DurableLoads
    Commands <- DurableCommands
    BootBytes <- DurableBoot
    CycleBytes = {255, 2}
    CutOffWords <- DurableCutOff
    CutOnWords <- DurableCutOn
INVARIANT HTypeOK
INVARIANT SettingsDurable
INVARIANT OrdersObeyed
INVARIANT VctlAuthority
