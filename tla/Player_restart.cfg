\* A gtk_main_quit that comes before gtk_main is lost.
SPECIFICATION FairSpec
CONSTANTS
    Setting = {s1}
    Count = {1}
    MaxIndex = 0
    None = None
    Empty = Empty
PROPERTY
    RestartReturns
