SPECIFICATION AgentSpec
CONSTANTS
    FailureThreshold = 2  RecoveryThreshold = 3
    MaxNotices = 2  MaxRestarts = 1
INVARIANTS NoSleepOnWork
PROPERTIES Hysteresis ReportRechecks FindsOut PromptDrain
