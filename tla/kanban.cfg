CONSTANTS
    leak = leak
    stale = stale
    e1 = e1
    e2 = e2
    e3 = e3
    timer = timer
    hand = hand
    Cards = {leak, stale}
    Emits = {e1, e2}
    CardOf <- MCCardOf
    Dismissed = {}
    Garbled = {e2}
    Drains = {timer, hand}
    Timers = {timer}
    SearchFails = TRUE
SPECIFICATION FairSpec
PROPERTY ImplementsContract DrainsDry
CHECK_DEADLOCK FALSE
