CONSTANT ResultCap = 2
SPECIFICATION FairSpec
INVARIANTS NoLostWakeup
PROPERTIES StopIsPrompt ResultIsPrompt
CHECK_DEADLOCK FALSE
