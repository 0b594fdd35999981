\* One client alone with its file: a recovery, a rotation and a save.
SPECIFICATION Spec
CONSTANTS
    worker = worker
    cron = cron
    ts = ts
    mine = mine
    yours = yours
    Clients <- OneClient
    Lasting <- NoClient
    Keys <- OneKey
    Accounts = {mine, yours}
    MaxIssued = 2
    MaxSaves <- OneSave
    Nobody = Nobody
PROPERTIES NewestIsWritten
CHECK_DEADLOCK FALSE
