----------------------------- MODULE HttpFront -----------------------------
(***************************************************************************)
(* The request path of check.tls.support.go in front of the classifier:    *)
(* both servers wrap their ServeMux in protoHandler{logHandler{m}}; the    *)
(* HTTPS mux sends /healthcheck to healthcheck and everything else to      *)
(* apiHandler, which hijacks the connection and writes the report itself;  *)
(* the plaintext mux sends everything but /healthcheck to commonRedirect.  *)
(*                                                                         *)
(* Several requests are served concurrently; they share only the expvar   *)
(* counters, whose Add is atomic, so each handler step is one action.      *)
(* A response is abstracted to its status, what its body is and whether   *)
(* it carries Strict-Transport-Security.                                   *)
(*                                                                         *)
(* The error branches of hijackHandle that cannot be taken on this server  *)
(* are left out: w is always an http.Hijacker for HTTP/1.x, Hijack is     *)
(* called once per request and its Peek of a byte already buffered cannot *)
(* fail, the listener only yields *conn, and MarshalIndent of a clientInfo *)
(* and DumpResponse of an in-memory body do not fail.                      *)
(***************************************************************************)
EXTENDS Naturals, FiniteSets, TLC

CONSTANTS
    Reqs,           \* concurrent requests
    Requests        \* [server, path, xfp, protoMinor] records a client may send

VARIABLES
    req,            \* the request each connection sent
    pc,             \* where its handler is, see Pcs
    hdr,            \* r.Header.Get("X-Forwarded-Proto")
    renderer,       \* the render function apiHandler chose
    resp,           \* what the client received, or NoResponse
    apiRequests,    \* expvar apiRequests
    commonRedirects,\* expvar common_redirects
    status2xx       \* apiStatuses.status2xx

vars == <<req, pc, hdr, renderer, resp, apiRequests, commonRedirects, status2xx>>

NoResponse == [status |-> 0]

Pcs == {"new", "mux", "healthcheck", "redirect", "api", "hijack",
        "hijacked", "done"}

\* tlsMux and plaintextMux: the patterns and the handler each is bound to.
Muxes ==
    [https |-> ("/" :> "api") @@ ("/healthcheck" :> "healthcheck"),
     http  |-> ("/healthcheck" :> "healthcheck") @@ ("/" :> "redirect")]

\* ServeMux.Handler: a pattern without a trailing slash matches its path
\* only; "/" matches every other path.
MuxHandler(server, path) ==
    IF path \in DOMAIN Muxes[server] THEN Muxes[server][path]
    ELSE Muxes[server]["/"]

\* Fault model: protoHandler keeps a header the client already sent.
ForwardedProtoKeepClient(server, sent) == IF sent = "" THEN server ELSE sent

\* protoHandler: r.Header.Set(xForwardedProto, h.proto).
ForwardedProto(server, sent) == server

\* A response: its status, what its body is, and whether it carries
\* Strict-Transport-Security.
Response(status, body, hsts) == [status |-> status, body |-> body, hsts |-> hsts]

\* defaultResponseHeaders: Connection: close only when r.ProtoMajor == 1
\* && r.ProtoMinor == 1 (net/http accepts any HTTP/1.x minor).
ConnectionClose(protoMinor) == protoMinor = 1

\* The response hijackHandle writes itself: ProtoMinor echoes the request's,
\* and the headers of defaultResponseHeaders.
HijackedResponse(status, body, protoMinor) ==
    [status |-> status, body |-> body, hsts |-> TRUE,
     protoMinor |-> protoMinor, connClose |-> ConnectionClose(protoMinor)]

\* allowedRenderJSON and disallowedRenderJSON: status and body.
Render == [allowed    |-> [status |-> 200, body |-> "report"],
           disallowed |-> [status |-> 400, body |-> "disallowed"]]

-----------------------------------------------------------------------------

Init ==
    /\ req \in [Reqs -> Requests]
    /\ pc = [r \in Reqs |-> "new"]
    /\ hdr = [r \in Reqs |-> req[r].xfp]
    /\ renderer = [r \in Reqs |-> "none"]
    /\ resp = [r \in Reqs |-> NoResponse]
    /\ apiRequests = 0 /\ commonRedirects = 0 /\ status2xx = 0

Goto(r, from, to) ==
    /\ pc[r] = from
    /\ pc' = [pc EXCEPT ![r] = to]

Answer(r, a) == resp' = [resp EXCEPT ![r] = a]

\* protoHandler.ServeHTTP: set X-Forwarded-Proto, strip the port from Host.
ServeProto(r) ==
    /\ Goto(r, "new", "mux")
    /\ hdr' = [hdr EXCEPT ![r] = ForwardedProto(req[r].server, req[r].xfp)]
    /\ UNCHANGED <<req, renderer, resp, apiRequests, commonRedirects, status2xx>>

\* logHandler.ServeHTTP prints the request, then the mux dispatches.
ServeMux(r) ==
    /\ Goto(r, "mux", MuxHandler(req[r].server, req[r].path))
    /\ UNCHANGED <<req, hdr, renderer, resp, apiRequests, commonRedirects, status2xx>>

\* healthcheck: WriteHeader(200), "ok".
Healthcheck(r) ==
    /\ Goto(r, "healthcheck", "done")
    /\ Answer(r, Response(200, "ok", FALSE))
    /\ UNCHANGED <<req, hdr, renderer, apiRequests, commonRedirects, status2xx>>

\* commonRedirect: count, HSTS when X-Forwarded-Proto is https, 301 to
\* https://tls.support with the request's path and query.
CommonRedirect(r) ==
    /\ Goto(r, "redirect", "done")
    /\ commonRedirects' = commonRedirects + 1
    /\ Answer(r, Response(301, "redirect", hdr[r] = "https"))
    /\ UNCHANGED <<req, hdr, renderer, apiRequests, status2xx>>

\* apiHandler.ServeHTTP: count, ask the origin allower, then ok = true
\* overrides its answer, so the allowed renderer is always chosen.
ApiServe(r) ==
    /\ Goto(r, "api", "hijack")
    /\ apiRequests' = apiRequests + 1
    /\ \E allowed \in BOOLEAN :
          LET ok == TRUE
          IN  renderer' = [renderer EXCEPT ![r] = IF ok THEN "allowed" ELSE "disallowed"]
    /\ UNCHANGED <<req, hdr, resp, commonRedirects, status2xx>>

\* c, brw, err := hj.Hijack() succeeds: incrementHijack, defers.
Hijack(r) ==
    /\ Goto(r, "hijack", "hijacked")
    /\ UNCHANGED <<req, hdr, renderer, resp, apiRequests, commonRedirects, status2xx>>

\* pullClientInfo, render, defaultResponseHeaders (which always sets
\* Strict-Transport-Security), DumpResponse, status2xx.Add(1), brw.Write and Flush (whose errors are
\* ignored: the peer may be gone), then c.Close().
Respond(r) ==
    LET out == Render[renderer[r]]
    IN  /\ Goto(r, "hijacked", "done")
        /\ status2xx' = status2xx + 1
        /\ \E written \in BOOLEAN :
              Answer(r, IF written
                        THEN HijackedResponse(out.status, out.body, req[r].protoMinor)
                        ELSE NoResponse)
        /\ UNCHANGED <<req, hdr, renderer, apiRequests, commonRedirects>>

Request(r) ==
    \/ ServeProto(r) \/ ServeMux(r) \/ Healthcheck(r) \/ CommonRedirect(r)
    \/ ApiServe(r) \/ Hijack(r) \/ Respond(r)

Next == \E r \in Reqs : Request(r)

Spec == Init /\ [][Next]_vars

-----------------------------------------------------------------------------

TypeOK ==
    /\ pc \in [Reqs -> Pcs]
    /\ renderer \in [Reqs -> {"none", "allowed", "disallowed"}]
    /\ apiRequests \in 0 .. Cardinality(Reqs)
    /\ status2xx <= apiRequests

\* RFC 6797 7.2 forbids Strict-Transport-Security over plain HTTP.
\* commonRedirect sends it when X-Forwarded-Proto says https, a header the
\* client controls; protoHandler overwrites it before the mux runs, so no
\* plaintext request can get the header, whatever it claims.
NoHstsOverPlaintext ==
    \A r \in Reqs : req[r].server = "http" /\ resp[r] # NoResponse => ~resp[r].hsts

\* hijackHandle closes the connection after every answer.  RFC 7230 6.3
\* makes a connection persistent by default from HTTP/1.1 on, and 6.6 has
\* a server that closes send Connection: close; the code's own 500 answer
\* (resp500Format) sends it for every minor version.  So a hijacked answer
\* to a request of HTTP/1.1 or later announces the close.
ClosedConnectionAnnounced ==
    \A r \in Reqs :
        MuxHandler(req[r].server, req[r].path) = "api" /\ resp[r] # NoResponse
            /\ req[r].protoMinor >= 1
            => resp[r].connClose

=============================================================================
