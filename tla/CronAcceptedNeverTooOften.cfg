SPECIFICATION CronSpec
CONSTANTS
    Day = 60
    FireTicks = {0, 10, 20, 30, 45, 50}
    MinInterval = 15
INVARIANT AcceptedNeverTooOften
