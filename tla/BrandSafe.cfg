\* A day whose video is generated up to three times, ffmpeg failing at any point.
SPECIFICATION BSpec
CONSTANTS
    d1 = d1
    d2 = d2
    Dates <- OneDay
    MaxVersions = 3
    MaxMishaps = 3
CHECK_DEADLOCK FALSE
INVARIANTS BrandedIsWhole
PROPERTIES ImplementsBranding
