\* Three clients, seven requests, one string.
SPECIFICATION LiveSpec
CONSTANTS
    Clients = {c1, c2, c3}
    Strings = {1}
    vi = vi
    en = en
    ja = ja
    None = None
    Languages = {vi, en, ja}
    Requests <- SomeRequests
    Initial <- OneProject
INVARIANTS
    LanguagesSound
    ImportsKeepClear
PROPERTIES
    RequestsEnd
CHECK_DEADLOCK FALSE
