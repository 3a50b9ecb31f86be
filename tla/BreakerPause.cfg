SPECIFICATION Spec
CONSTANTS
    Window = 2
    Cooldown = 1
    Residence = 3
    MinAttempts = 3
    PerfFailures = 2
    PerfRate = 50
    Hysteresis = 2
    SlowRate = 50
    ProbeCount = 2
    MaxAttempts = 3
PROPERTIES
    PausedPromotionIsOnWindow
