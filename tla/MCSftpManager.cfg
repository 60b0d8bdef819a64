\* Three callers, three connections alive at a time.
SPECIFICATION FairSpec
CONSTANTS
    Callers = {p1, p2, p3}
    Conns = {c1, c2, c3}
    None = None
INVARIANTS TypeOK OneOpen OpenIsWatched NoLinkLeaks
PROPERTIES LinksRecover MonitorsEnd CallsReturn
