\* With TLS, which adds refused certificates to what a plain connection
\* meets; two sockets at a time, two requests.
SPECIFICATION Spec
CONSTANTS
    Sockets = {s1, s2}
    NoSocket = NoSocket
    Requests = {r1, r2}
    Nobody = Nobody
    Tls = TRUE
    HandshakesEnd = TRUE
INVARIANTS GreetingsHold
PROPERTIES NothingWaitsForever
CHECK_DEADLOCK FALSE
