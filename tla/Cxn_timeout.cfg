\* What cxn_set_timeout says of a silent server, and cxn_recv does not do.
SPECIFICATION FairSpec
CONSTANTS
    Host = {h1}
    None = None
    MaxQueue = 1
PROPERTY
    TimeoutDisconnects
