# TLA+ models of check.tls.support

These TLA+ modules model the server in `src/`, check them with TLC, and
record what the checks show. The server is an HTTPS endpoint that reports
how good a client's TLS is. It runs on a forked, instrumented Go 1.10
`crypto/tls` (the patch in `src/unnamed/part_002`). Its handlers hijack the
connection, read the recorded handshake facts and return a classification
(`pullClientInfo` in `src/client_info.go`).

## The system and how its parts interact

| Part | Source | State and operations |
|---|---|---|
| Suite and version catalogue | `insecure_suites.go`, `client_info.go` 11-84 | Read-only tables: suite names, policy tags, reasons and version names. |
| TLS engine instrumentation | `unnamed/part_002` | Per-connection fields: `clientHello`, `ableToDetectNMinusOneSplitting`, `readOneAppDataRecord` and `nMinusOneRecordSplittingDetected`. Operations: the resumption guard, the BEAST pin loop, server-preference selection, storing the hello, the probe in `readRecord`, and `ConnectionState`. |
| Classifier | `client_info.go` 86-190 | A pure function from a `ConnectionState` to a `clientInfo`. Inside it there is a loop whose state is the report and a pending list of 3DES suites. |
| Hijack handler and shutdown | `check.tls.support.go` 185-226, 330-380, 569-592 | `liveHijackCount` is updated by CAS loops from concurrent handlers. main moves through signal, `Shutdown`, `wg.Wait`, then waits on the counter until it is zero or the deadline passes. |
| HTTP front | `check.tls.support.go` 61-72, 228-244, 257-288, 313-423, 509-548 | Both servers wrap a `ServeMux` in `protoHandler{logHandler{m}}`. On HTTPS, `/healthcheck` goes to `healthcheck` and everything else to `apiHandler`, which hijacks. On HTTP, everything else goes to `commonRedirect`. The only shared state is the expvar counters. |

A connection works like this:

1. The client sends a ClientHello.
2. The patched `processClientHello` picks a suite. At TLS 1.0 and below it first tries to pin an RSA-CBC suite, which arms the probe.
3. The handshake completes.
4. The first application-data record is measured by the probe.
5. Once the request has been read, `hijackHandle` takes the connection away from `http.Server`, counts it, classifies it from `ConnectionState()`, writes the answer, closes the connection and uncounts it.

On SIGTERM, main shuts the server down. Hijacked connections are then invisible to `http.Server`, and main relies on the counter to wait for them.

## Modules

Modules are listed in dependency order.

| Module | Models | Kind |
|---|---|---|
| `SuiteCatalogue` | The tables: a representative code for each combination of policy tags, the `makeTLSConfig` suite list, and version codes and names. | constants |
| `SupportedVersions` | The supported_versions case of `clientHelloMsg.unmarshal`, written as operators. `DecodeVersions` is RECURSIVE. `MCSupportedVersions` checks the parser against a reference definition of the format in spec 4.C. | algorithm |
| `ClientInfoSpec` | What the classifier promises. The report is defined in one step from the whole suite list, following spec P1-P8. | abstract spec |
| `ClientInfo` | `pullClientInfo` step by step. It has one action per branch of the loop body (`ScanKnownSuite`, `ScanWeirdSuite`, `ScanUnknownSuite`) and `Report` for everything after the loop. Its variables are `st` (the snapshot), `i`, `d` (the report) and `sweet32Seen`. The per-suite bodies are operators, and `PullClientInfo` folds them over a suite list. It refines `ClientInfoSpec` through `INSTANCE ... WITH`: reason lists are compared as counts per (name, reason), and the report is pending until `pc = "done"`. | detailed spec |
| `TlsConn` | One connection through the patched engine. It composes the classifier: `ServeRequest` calls `ClientInfo`'s `PullClientInfo` on `ConnectionState`. The hello carries its raw supported_versions extension bodies, and `SupportedVersions` parses them. The actions are `RejectClientHello` (malformed supported_versions), `ProcessClientHello` (resumption, or pin and preference selection), `CompleteHandshake`/`AbortHandshake`, `ReadRecord` (with the probe) and `ServeRequest`. The client is the environment and fixes its hello and request records at the start. | composition |
| `HijackShutdown` | Handlers on several connections, plus main. Each handler's `pc` runs idle → handshaking → active → hijacked → counted → closed → done. In handshaking, the connection is StateNew and its first `Read` runs `handshake()`. From there the handshake may fail, or `Shutdown` may close the connection. Shutdown calls Close while the handshake runs, the fork's `Conn.Close` waits on `handshakeMutex` until the handshake ends, and only then is the connection closed (closing → cutoff). `Age` records that the connection has been StateNew for more than 5 s. The CAS loops are a load step and a CAS step. `Signal`, `ShutdownPoll`, `Deadline` and `Exit` are the steps of main. `ShutdownPoll` is one pass of Go 1.16's `closeIdleConns`, under its lock. It calls Close on aged StateNew connections and is stuck until their handshakes end. It returns once nothing is new, closing or active, or once the context has expired. A failed `Hijack` cannot happen on this server and is left out. | concurrency |
| `ShutdownRegistry` | What the counter stands for (spec 9): a set of connections being answered, which is drained after the stop signal. Exit happens once the set is empty or the deadline has passed. `HijackShutdown` refines it: `live` is the set of handlers whose increment has landed and whose decrement has not, and main's states map to serving, draining and exited. | abstract spec |
| `HttpFront` | Concurrent requests on both servers. Each request's `pc` runs through `ServeProto` (protoHandler overwrites X-Forwarded-Proto), `ServeMux` (logHandler and the mux), then `Healthcheck`, `CommonRedirect`, or `ApiServe` → `Hijack` → `Respond`. A response is abstracted to its status, its body kind and whether it carries HSTS. A hijacked response also carries its HTTP/1.x minor version and whether it has `Connection: close`. The branches of `hijackHandle` that cannot be taken on this server are left out: the writer is always a Hijacker, and `Hijack` is called once and cannot fail. The conn is always `*conn`, and neither MarshalIndent nor DumpResponse can fail. In Go 1.16 a failed `Hijack` would leave nothing written anyway. | request path |
| `MC*` | Model values for the above. | TLC instantiation |

## Runs

| Run | cfg | Expect | What it shows |
|---|---|---|---|
| supported_versions_parser | `MCSupportedVersions.cfg` | pass | The parser agrees with the reference on every body of up to 5 bytes over {0,1,2,3,4,0x7F}, with up to one byte of the next extension behind it (65k inputs). |
| clientinfo_refinement | `MCClientInfo.cfg` | pass | The loop, with its pending 3DES list and its running version maximum, produces the declarative report. This covers every list of up to 3 codes drawn from 8 (known, 3DES, CBC, GCM, SCSV, TLS 1.3, NSS FIPS, GREASE-like unknown), 2 compression lists, 13 supported_versions lists, SSL 3.0 to TLS 1.2, and every probe outcome the engine can produce. About 640k states. |
| clientinfo_rating | `MCClientInfoRating.cfg` | violation | A TLS 1.1 connection whose ClientHello lists 0x0304 is rated "not bad" and reported as TLS 1.3. The rating reads the version after the supported_versions loop has raised it. |
| tlsconn_probe | `MCTlsConn.cfg` | pass | The probe is armed only on a pinned RSA-CBC suite that really was negotiated, below TLS 1.1, on a full handshake. When armed, the report's BEAST verdict is what the client did with its first data record. Conversely, below TLS 1.1 a hello that offers a pin suite `setCipherSuite` accepts is always armed, resumable or not (`ArmedWheneverPinnable`). This shows the patch's resumption guard at work. |
| tlsconn_beast | `MCTlsConnBeast.cfg` | violation | Spec P5 fails. An SSL 3.0 or TLS 1.0 client that offers only 0xC013 (ECDHE-RSA-AES128-CBC) and splits 1/n-1 is still reported BEAST-vulnerable, because only 0x002F, 0x0035 and 0x003C arm the probe. |
| tlsconn_alert | `MCTlsConnAlert.cfg` | violation | A warning alert before the request is taken by the probe as the first data record. |
| shutdown_counter | `MCHijackShutdown.cfg` | pass | With 3 handlers interleaving their CAS loops, the counter always equals the number of handlers counted and not yet uncounted. The counter and the wait loop implement `ShutdownRegistry`, including its fairness: after the signal, main returns without needing the deadline. |
| front_hsts | `MCHttpFront.cfg` | pass | Two concurrent requests on either server, with or without a client-sent `X-Forwarded-Proto: https`. The plaintext server never sends HSTS, because protoHandler overwrites the header before commonRedirect reads it. |
| shutdown_cutoff | `MCHijackShutdownCutOff.cfg` | violation | A handler that has hijacked its connection but not yet incremented the counter is invisible to shutdown. main returns before the deadline and cuts off its response. |
| front_close | `MCHttpFrontClose.cfg` | violation | An HTTP/1.2 API request gets a hijacked answer without `Connection: close`, although the handler closes the connection. RFC 7230 6.6 asks a closing server to send `Connection: close`, and the code's own 500 answer sends it for every minor version. |

The findings in `PROJECT.json` describe each violation. Every property of a passing run has a mutant in `PROJECT.json`: a plausible bug in the mapped code that TLC then finds. Examples are a CAS replaced by a plain store, the probe without its once-only latch, and a CAS without its retry loop.

## Bounds and why they are enough

- **Classifier.** Each code in `MCOffered` stands for one class of suite. Lists of length 3 allow 3DES → SCSV/TLS 1.3 → follower and 3DES → 3DES → follower, which are the cases that decide the sweet32 flush. Two supported_versions entries allow both "raise" and "ignore" (an unknown code and an older version).
- **Connection.** Hellos have at most two suites from the three pin suites, a non-pinned CBC suite, a TLS 1.2-only suite, RC4 and an unconfigured suite. They use every client version from SSL 3.0 to TLS 1.2 and every value of the flags (ECDHE usable, resumable), and a supported_versions extension that is absent, lists 0x0304, has an odd length byte, or appears twice (TLS 1.0, then TLS 1.3). The fork does not reject a duplicate extension; it appends the second list. Requests are a single record, a 1/n-1 split or a 0/n split. That is enough for pin-before-preference, pin rejected at the version, and resumption.
- **HTTP front.** 2 concurrent requests, each drawn from 36: either server; HTTP/1.0, 1.1 or 1.2; the paths `/`, `/healthcheck` and `/healthcheck/` (the mux matches `/healthcheck` exactly); with or without a client-sent `X-Forwarded-Proto: https`. Requests share only atomic counters, so two are enough to interleave every step.
- **Shutdown.** 3 handlers. This allows one handler in the hijack window, or in an aged handshake, while two others contend on the CAS. About 150k states. `CounterModulus` is 2^16 instead of 2^64, so that a wrap below zero is still a wrap.

## Fairness

`HijackShutdown` assumes weak fairness for each handler's steps after `Accept`, and for main's `ShutdownPoll` and `Exit`. These are goroutines, and the Go runtime keeps running a goroutine that can run. The handshake ends, one way or the other, because `ReadTimeout` (10 s) bounds it, and so does a Close that waits for it. No fairness is assumed for `Accept`, `Age`, `Signal` or `Deadline`. Those steps belong to the environment and a timer, and the registry's fairness is meant to hold without the deadline. `ShutdownRegistry` promises weak fairness for unregistering and for exit, and no fairness for the signal or the deadline. `ClientInfo`, `TlsConn` and `HttpFront` check safety only.

`CHECK_DEADLOCK FALSE` is used only where the code stops: the classifier returns, a connection ends reported or failed, and the process exits at the end of main.

## Not modelled

- main's startup (lines 84-184): flag checks, expvar registration, the listeners, acmeURL validation, the allow maps and the template load. Each step either succeeds or ends the process with `log.Fatal` or `os.Exit`, before any connection is served. There is no concurrency and no state that a later step reads, apart from what the modules above take as given: the muxes, the TLS config and the listener.

- The connection adapter in `src/unnamed/part_001`. It is not what the program compiles: it imports another TLS fork (`jmhodges/howsmyssl/tls`, not `tls110`), and it has no `newListener(l, ns)`, which main calls at line 115. Within a connection, its handshake lock is taken only once, by net/http's serve goroutine on the first `Read`. Its only other user, `TLSData`, is called nowhere. `HijackShutdown` relies only on what any wrapper of a `*tls.Conn` does under net/http: the handshake runs inside the first `Read`, while the connection is StateNew.

- The client-side meta-suite whitelist, which only the test client uses.
- The keypair reload.
- Templates (`renderHTML`, `handleWeb`, `sentence`, `ratingSpan`), static files and `acmeRedirect`. `tlsMux` has these routes commented out, so no request reaches them. `acmeRedirect` has no `return` after its 404 when the URL is empty, but it is never registered.
- Allow lists. `apiHandler` overrides `oa.Allow`'s answer with `ok = true`, so the disallowed renderer is dead. `originAllower` and its loader are not in `src/`.
- The admin server, which is net/http's default mux (pprof, expvar). Also ServeMux's redirect for unclean paths, and the Host port strip in protoHandler: no host-specific patterns are registered, so the strip changes no routing.
- `go.mod` and the Dockerfile.

## Plan for later work

- Add `tls_version_float`'s ordering as a property. SSL 3.0 gets 3.0, above TLS 1.2's 1.2, which the spec allows but API users who compare with 1.2 do not expect.
- Add `net/http`'s background read, which starts after the request is read and races the handler's `Hijack`. This needs a model of `abortPendingRead`, which lives outside `src/`.
