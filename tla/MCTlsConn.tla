------------------------------ MODULE MCTlsConn ------------------------------
(***************************************************************************)
(* Model values for TlsConn: the ClientHellos a client may send and the    *)
(* records that carry its request.                                         *)
(***************************************************************************)
EXTENDS TlsConn, FiniteSets

\* Codes offered: the three pin suites, a non-pinned ECDHE CBC suite, a
\* TLS 1.2-only AEAD suite, RC4 and single DES, which the server
\* does not configure; at most two per hello.
MCOffered == {\h002F, \h003C, \hC013, \hC02F, \h0005, \h0009}
MCMaxSuites == 2

\* Client versions from SSL 3.0 to TLS 1.2.
MCHelloVersions == {VersionSSL30, VersionTLS10, VersionTLS11, VersionTLS12}

\* The request in one record, or split 1/n-1 or 0/n.
DataRecord(n) == [type |-> "data", len |-> n]
WarningAlert  == [type |-> "alert", len |-> 2]
Requests == {<<DataRecord(3)>>, <<DataRecord(1), DataRecord(2)>>,
             <<DataRecord(0), DataRecord(3)>>}

\* No supported_versions extension, one listing 0x0304, one whose length
\* byte is odd, and the extension twice (the fork does not reject a
\* duplicate: the second list is appended to the first).
MCExtSupportedVersions == {<<>>, <<<<2, 3, 4>>>>, <<<<3, 3, 4, 0>>>>,
                           <<<<2, 3, 1>>, <<2, 3, 4>>>>}

MCHellos ==
    [vers : MCHelloVersions,
     suites : BoundedSeq(MCOffered, MCMaxSuites) \ {<<>>},
     compression : {<<0>>},
     ticketSupported : BOOLEAN,
     extSupportedVersions : MCExtSupportedVersions,
     ecdheOk : BOOLEAN,
     resumable : BOOLEAN]

\* Clients whose request records are data records only.
MCClients == [hello : MCHellos, records : Requests]

\* Clients that may also send a warning alert before the request.
MCClientsWithAlerts ==
    MCClients \cup [hello : MCHellos, records : {<<WarningAlert>> \o r : r \in Requests}]
=============================================================================
