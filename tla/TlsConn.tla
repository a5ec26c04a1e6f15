------------------------------- MODULE TlsConn -------------------------------
(***************************************************************************)
(* One connection through the instrumented server of the tls110 fork       *)
(* (src/unnamed/part_002, a patch against Go 1.10 crypto/tls) and the      *)
(* handler that classifies it (hijackHandle -> pullClientInfo).            *)
(*                                                                         *)
(*   ProcessClientHello  the patched cipher selection of                   *)
(*                       handshake_server.go: no resumption at TLS 1.0 and *)
(*                       below, the RSA-CBC suites pinned to arm the       *)
(*                       BEAST probe, then the usual server preference.    *)
(*   CompleteHandshake   the rest of serverHandshake, which stores the     *)
(*                       ClientHello before marking the handshake complete *)
(*   ReadRecord          readRecord(recordTypeApplicationData) with the    *)
(*                       1/n-1 splitting probe of conn.go                  *)
(*   ServeRequest        hijackHandle once the request is read: the        *)
(*                       ConnectionState snapshot and pullClientInfo       *)
(*                                                                         *)
(* The client is the environment: it picks its ClientHello and the         *)
(* records carrying its request once, at the start.                        *)
(***************************************************************************)
EXTENDS SuiteCatalogue, SupportedVersions, Integers, Sequences, SequencesExt

CONSTANTS
    Clients         \* [hello, records] pairs the client may send

VARIABLES
    client,         \* the chosen ClientHello and request records
    state,          \* "start" | "negotiated" | "established" | "reported" | "failed"
    cvers,          \* c.vers
    suite,          \* hs.suite; 0 for nil
    resumed,        \* checkForResumption succeeded
    able,           \* c.ableToDetectNMinusOneSplitting
    readOne,        \* c.readOneAppDataRecord
    split,          \* c.nMinusOneRecordSplittingDetected
    rcvd,           \* records read so far
    report          \* the clientInfo written back to the client

vars == <<client, state, cvers, suite, resumed, able, readOne, split, rcvd, report>>

NoSuite == 0

\* Only the operators of ClientInfo are used: its state is not part of this
\* model.
Classifier == INSTANCE ClientInfo
                WITH Snapshots <- {}, st <- <<>>, i <- 0, d <- <<>>,
                     sweet32Seen <- <<>>, pc <- "done"

\* The suites the patch pins to arm the probe.
BeastPinSuites == {\h002F, \h0035, \h003C}


\* config.mutualVersion: clients below SSL 3.0 are not among the inputs.
MutualVersion(v) == IF v > ServerMaxVersion THEN ServerMaxVersion ELSE v

\* setCipherSuite(id, supportedList, version): the suite is in the list,
\* implemented, usable with the client's curves and the RSA certificate,
\* and not a TLS 1.2-only suite below TLS 1.2.
SetCipherSuiteOK(id, supported, version, hello) ==
    /\ Contains(supported, id)
    /\ id \in DOMAIN AllCipherSuites
    /\ id \in ECDHESuites => hello.ecdheOk
    /\ version < VersionTLS12 => id \notin TLS12OnlySuites

\* Fault model: resumption at every version, the patch's guard lost.
ResumptionAllowedAnyVersion(h) == h.resumable

\* hs.clientHello.vers > VersionTLS10 && hs.checkForResumption(): a session
\* is resumed only above TLS 1.0, so the pin loop runs on every hello
\* below TLS 1.1.
ResumptionAllowed(h) == h.vers > VersionTLS10 /\ h.resumable

\* Fault model: the probe armed on the first pin suite offered, whether or
\* not setCipherSuite accepts it.
PinnedSuiteAnyPin(hello, version) ==
    LET pins == SelectSeq(hello.suites, LAMBDA cs : cs \in BeastPinSuites)
    IN  IF pins = <<>> THEN NoSuite ELSE pins[1]

\* The loop over clientHello.cipherSuites in client order: the first pin
\* suite setCipherSuite accepts, or nil.
PinnedSuite(hello, version) ==
    LET ok == SelectSeq(hello.suites,
                LAMBDA cs : cs \in BeastPinSuites
                              /\ SetCipherSuiteOK(cs, ConfigCipherSuites, version, hello))
    IN  IF ok = <<>> THEN NoSuite ELSE ok[1]

\* Fault model: the client's list taken as both preference and support list.
PreferredSuiteClientList(hello, version) ==
    LET ok == SelectSeq(hello.suites,
                LAMBDA id : SetCipherSuiteOK(id, hello.suites, version, hello))
    IN  IF ok = <<>> THEN NoSuite ELSE ok[1]

\* PreferServerCipherSuites: the first configured suite the client offered.
PreferredSuite(hello, version) ==
    LET ok == SelectSeq(ConfigCipherSuites,
                LAMBDA id : SetCipherSuiteOK(id, hello.suites, version, hello))
    IN  IF ok = <<>> THEN NoSuite ELSE ok[1]

\* The supported_versions extensions of the hello (none, or its body) run
\* through clientHelloMsg.unmarshal; each occurrence appends.
ParseSupportedVersions(exts) ==
    FoldLeft(LAMBDA acc, body :
                LET r == UnmarshalSupportedVersions(body, Len(body))
                IN  [ok |-> acc.ok /\ r.ok, versions |-> acc.versions \o r.versions],
             [ok |-> TRUE, versions |-> <<>>], exts)

\* The 1/n-1 probe: the first record read while application data is wanted.
ProbeSplit(rec) == rec.type = "data" /\ rec.len \in {0, 1}

\* c.ConnectionState() after the handshake.
ConnectionState ==
    [version           |-> cvers,
     suites            |-> client.hello.suites,
     compression       |-> client.hello.compression,
     tickets           |-> client.hello.ticketSupported,
     supportedVersions |-> ParseSupportedVersions(client.hello.extSupportedVersions).versions,
     ableToDetect      |-> able,
     split             |-> split]

-----------------------------------------------------------------------------

Init ==
    /\ client \in Clients
    /\ state = "start"
    /\ cvers = 0
    /\ suite = NoSuite
    /\ resumed = FALSE
    /\ able = FALSE
    /\ readOne = FALSE
    /\ split = FALSE
    /\ rcvd = 0
    /\ report = <<>>

\* clientHelloMsg.unmarshal fails on a malformed supported_versions body.
RejectClientHello ==
    /\ state = "start"
    /\ ~ParseSupportedVersions(client.hello.extSupportedVersions).ok
    /\ state' = "failed"
    /\ UNCHANGED <<client, cvers, suite, resumed, able, readOne, split, rcvd, report>>

\* processClientHello, from the version check to the cipher selection.
ProcessClientHello ==
    LET h    == client.hello
        v    == MutualVersion(h.vers)
        pin  == IF h.vers <= VersionTLS10 THEN PinnedSuite(h, v) ELSE NoSuite
        pick == IF pin # NoSuite THEN pin ELSE PreferredSuite(h, v)
    IN  /\ state = "start"
        /\ ParseSupportedVersions(h.extSupportedVersions).ok
        /\ cvers' = v
        /\ \/ /\ ResumptionAllowed(h)
              /\ resumed' = TRUE
              /\ state' = "negotiated"
              /\ UNCHANGED <<suite, able>>
           \/ /\ ~ResumptionAllowed(h)
              /\ suite' = pick
              /\ able' = (pin # NoSuite)
              /\ state' = IF pick = NoSuite THEN "failed" ELSE "negotiated"
              /\ UNCHANGED resumed
        /\ UNCHANGED <<client, readOne, split, rcvd, report>>

\* The remaining flights: c.clientHello = hs.clientHello, handshakeComplete.
CompleteHandshake ==
    /\ state = "negotiated"
    /\ state' = "established"
    /\ UNCHANGED <<client, cvers, suite, resumed, able, readOne, split, rcvd, report>>

\* The client gives up, or a Finished or MAC check fails: fatal alert.
AbortHandshake ==
    /\ state = "negotiated"
    /\ state' = "failed"
    /\ UNCHANGED <<client, cvers, suite, resumed, able, readOne, split, rcvd, report>>

\* Fault model: the probe without its fired-once latch.
ProbeGuardNoLatch(latched, armed) == armed

\* !c.readOneAppDataRecord && c.ableToDetectNMinusOneSplitting (want is
\* always recordTypeApplicationData once the handshake is done).
ProbeGuard(latched, armed) == ~latched /\ armed

ReadRecord ==
    LET rec == client.records[rcvd + 1]
        arm == ProbeGuard(readOne, able)
    IN  /\ state = "established"
        /\ rcvd < Len(client.records)
        /\ readOne' = (readOne \/ arm)
        /\ split' = IF arm THEN ProbeSplit(rec) ELSE split
        /\ rcvd' = rcvd + 1
        /\ UNCHANGED <<client, state, cvers, suite, resumed, able, report>>

\* The request is complete: the handler hijacks and classifies.
ServeRequest ==
    /\ state = "established"
    /\ rcvd = Len(client.records)
    /\ report' = Classifier!PullClientInfo(ConnectionState)
    /\ state' = "reported"
    /\ UNCHANGED <<client, cvers, suite, resumed, able, readOne, split, rcvd>>

Next ==
    \/ RejectClientHello
    \/ ProcessClientHello
    \/ CompleteHandshake
    \/ AbortHandshake
    \/ ReadRecord
    \/ ServeRequest

Spec == Init /\ [][Next]_vars

-----------------------------------------------------------------------------

States == {"start", "negotiated", "established", "reported", "failed"}

TypeOK ==
    /\ state \in States
    /\ suite \in {NoSuite} \cup Range(ConfigCipherSuites)
    /\ able \in BOOLEAN /\ readOne \in BOOLEAN /\ split \in BOOLEAN
    /\ resumed \in BOOLEAN
    /\ rcvd \in 0 .. Len(client.records)
    /\ split => readOne

\* Did the client split its first application-data record?
ClientSplit ==
    LET data == SelectSeq(client.records, LAMBDA r : r.type = "data")
    IN  data # <<>> /\ data[1].len \in {0, 1}

\* Whenever the probe was armed, the report's BEAST verdict is what the
\* client actually did with its first application-data record: the probe
\* fired once, on that record, before the handler read the connection
\* state, and the classifier took the verdict from it.
ArmedReportIsObserved ==
    state = "reported" /\ able =>
        /\ report.ableToDetect
        /\ report.beast = ~ClientSplit

\* The probe is armed only when the pin loop really negotiated one of the
\* pinned RSA-CBC suites on a full handshake below TLS 1.1: a suite both
\* sides list, usable at the negotiated version, so that the records it
\* measures are CBC records of a version without explicit IVs.
ArmedOnlyOnPinnedSuite ==
    able => /\ suite \in BeastPinSuites
            /\ Contains(client.hello.suites, suite)
            /\ Contains(ConfigCipherSuites, suite)
            /\ suite \notin TLS12OnlySuites
            /\ cvers <= VersionTLS10
            /\ ~resumed

\* The patch refuses resumption at TLS 1.0 and below so that the pin loop
\* always runs there: a connection below TLS 1.1 whose hello offers a pin
\* suite setCipherSuite accepts, whether or not the client could resume,
\* is negotiated on that suite with the probe armed.
ArmedWheneverPinnable ==
    state \in {"negotiated", "established", "reported"}
    /\ cvers <= VersionTLS10 /\ PinnedSuite(client.hello, cvers) # NoSuite
        => able

\* Spec P5: below TLS 1.1 and with any CBC suite offered, beast_vuln is
\* false exactly when the client split its first record.
BeastMatchesSplitting ==
    (/\ state = "reported"
     /\ cvers <= VersionTLS10
     /\ \E k \in DOMAIN client.hello.suites : client.hello.suites[k] \in CbcSuites)
      => report.beast = ~ClientSplit

\* conn.go: the probe "detects BEAST mitigation when the first app data
\* record is of length 1 or 0".
ProbeReflectsFirstRecord ==
    readOne => (split <=> ClientSplit)
=============================================================================
