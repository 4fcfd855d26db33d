SPECIFICATION ZoneSpec
CONSTANTS
    ZoneSize = 15
    Align = 4
    Sizes = {1, 3, 4, 6}
INVARIANTS BlocksAreApart
