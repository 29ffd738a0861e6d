SPECIFICATION FairSpec
CONSTANTS
    MaxStarts = 3
    Providers = {"cloudflared", "ngrok", "tailscale", "off"}
    Scopes <- MCScopes
    MaxPicks = 1
INVARIANTS
    TunnelsAreOwned
PROPERTIES
    NoUrlIsRetried
    PresenceCatchesUp
\* The process ends on a signal.
CHECK_DEADLOCK FALSE
