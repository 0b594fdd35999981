\* Two clients, one cookie, a login or account change at any point; the worker may open
\* again what it closed, the cron job ends with its client.
SPECIFICATION Spec
CONSTANTS
    worker = worker
    cron = cron
    ts = ts
    mine = mine
    yours = yours
    Clients <- TwoClients
    Lasting <- OneClient
    Keys <- OneKey
    Accounts = {mine, yours}
    MaxIssued = 2
    MaxSaves <- MoreOfTheWorker
    Nobody = Nobody
SYMMETRY Alike
INVARIANTS StoreInv BaselineWasWritten
PROPERTIES NeverOlder
CHECK_DEADLOCK FALSE
