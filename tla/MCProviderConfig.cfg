\* Every environment up to three chain entries, the optional package missing.
CONSTANTS
    Orders <- MCOrders
    LitellmHere = FALSE
SPECIFICATION ConfigSpec
INVARIANTS FallbackCheckedAtBoot WatsonxComplete
CHECK_DEADLOCK FALSE
