\* Three ticks under each of the settings.
CONSTANTS
    b1 = b1  a1 = a1  a2 = a2  a3 = a3  p1 = p1  p2 = p2
    None = None
    Keys = {b1, a1, a2, a3}
    Platforms = {p1, p2}
    PlatformOf <- Platform
    Position <- Order
    Second = 3
    Mult = 2
    BackoffMax = 16
    Settings <- EverySetting
    MaxTicks = 3
SPECIFICATION Spec
INVARIANTS
    EveryKeyEveryTick
    NoKeyMissesTwice
    PlatformFailsOncePerTick
