---------------------------- MODULE MCClientInfo ----------------------------
(***************************************************************************)
(* Model-checking instance of ClientInfo: every connection state the TLS   *)
(* engine can hand over for up to three offered suites drawn from one code *)
(* per interesting tag combination.                                        *)
(***************************************************************************)
EXTENDS ClientInfo

\* One code per behaviour of the loop body: 3DES (pends), RSA-CBC (pin
\* suite of the BEAST probe), ECDHE-CBC, a TLS 1.2 AEAD suite (follower),
\* the SCSV meta suite, a TLS 1.3-only suite, an NSS FIPS code and a code
\* the catalogue does not know.
MCOffered == {\h000A, \h002F, \hC013, \hC02F, \h00FF, \h1301, \hFEFF, \hFAFA}
MCMaxSuites == 3

\* supported_versions entries: TLS 1.3, draft 23 (numerically above 1.3)
\* and a GREASE value that is not recognised.
MCSupportedVersions == {VersionTLS13, \h7F17, \h1A1A}

Negotiated == {VersionSSL30, VersionTLS10, VersionTLS11, VersionTLS12}

\* A handshake finishes only if a configured suite usable at v is offered.
Negotiable(v, s) ==
    \E k \in DOMAIN s :
        /\ \E j \in DOMAIN ConfigCipherSuites : ConfigCipherSuites[j] = s[k]
        /\ s[k] \in TLS12OnlySuites => v >= VersionTLS12

\* The BEAST probe is armed only below TLS 1.1 and when a pin suite usable
\* below TLS 1.2 was offered; it can only observe splitting once armed.
ProbeReachable(v, s, able, split) ==
    /\ able => v <= VersionTLS10 /\ \E k \in DOMAIN s : s[k] \in {\h002F, \h0035}
    /\ split => able

MCSnapshots ==
    {snap \in [version : Negotiated,
               suites : BoundedSeq(MCOffered, MCMaxSuites),
               compression : {<<0>>, <<1, 0>>},
               tickets : BOOLEAN,
               supportedVersions : BoundedSeq(MCSupportedVersions, 2),
               ableToDetect : BOOLEAN,
               split : BOOLEAN] :
        /\ Negotiable(snap.version, snap.suites)
        /\ ProbeReachable(snap.version, snap.suites, snap.ableToDetect, snap.split)}
=============================================================================
