SPECIFICATION FairSpec
CONSTANTS
    Firmwares = {"bulkloop"}
    MaxSent = 1
    Requests = 2
    Bursts = {1}

PROPERTIES SetupAnswered
