SPECIFICATION ApiSpec
CONSTANTS
    Emails = {e1}
    Repos = {r1}
    MaxTag = 0
    Handlers = {h1, h2}
    HttpHandlers = {h1}
    MaxId = 1
    Faults <- NoFaults
INVARIANTS MailedLinkConfirms
