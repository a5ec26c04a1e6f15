---------------------------- MODULE MCHttpFront ----------------------------
(***************************************************************************)
(* Model values for HttpFront: two concurrent requests, each on either     *)
(* server, to the root, to /healthcheck or to another path, with or        *)
(* without a client-sent X-Forwarded-Proto claiming https, as HTTP/1.0,    *)
(* HTTP/1.1 or HTTP/1.2 (net/http serves any HTTP/1.x minor).             *)
(***************************************************************************)
EXTENDS HttpFront

CONSTANTS q1, q2

MCReqs == {q1, q2}

MCPaths == {"/", "/healthcheck", "/healthcheck/"}

MCRequests ==
    [server : {"https", "http"}, path : MCPaths, xfp : {"", "https"},
     protoMinor : {0, 1, 2}]

=============================================================================
