--------------------------- MODULE SuiteCatalogue ---------------------------
(***************************************************************************)
(* The read-only tables the classifier and the TLS engine consult: cipher  *)
(* suite codes and their IANA names, the policy tables of                  *)
(* insecure_suites.go, the version names of client_info.go and the cipher *)
(* suite list of the server configuration (makeTLSConfig).                 *)
(*                                                                         *)
(* Every table is cut down to a representative code for each combination  *)
(* of policy tags; a name in a tag table below is listed in the source     *)
(* table of the same name.  The substring tests of pullClientInfo          *)
(* (strings.Contains on "DHE_", "_CBC", "TLS_RSA_WITH") are evaluated on   *)
(* these names and written down as the sets of names that pass them.      *)
(***************************************************************************)
EXTENDS Integers, TLC

\* Protocol versions (tls110 constants and the versionTLS13* constants).
VersionSSL30 == \h0300
VersionTLS10 == \h0301
VersionTLS11 == \h0302
VersionTLS12 == \h0303
VersionTLS13 == \h0304
TLS13Drafts  == {\h7F00 + k : k \in {18} \cup 21..33}

\* actualSupportedVersions: version code -> display name.
ActualSupportedVersions ==
    [v \in {VersionSSL30, VersionTLS10, VersionTLS11, VersionTLS12,
            VersionTLS13} \cup TLS13Drafts |->
        CASE v = VersionSSL30 -> "SSL 3.0"
          [] v = VersionTLS10 -> "TLS 1.0"
          [] v = VersionTLS11 -> "TLS 1.1"
          [] v = VersionTLS12 -> "TLS 1.2"
          [] OTHER            -> "TLS 1.3"]

\* strconv.ParseFloat(name[4:]) on each display name, in tenths.
ParsedVersionFloat ==
    ("SSL 3.0" :> 30) @@ ("TLS 1.0" :> 10) @@ ("TLS 1.1" :> 11)
        @@ ("TLS 1.2" :> 12) @@ ("TLS 1.3" :> 13)

\* allCipherSuites (all_suites.go of the fork, not part of src/).
AllCipherSuites ==
       (\h0002 :> "TLS_RSA_WITH_NULL_SHA")
    @@ (\h0005 :> "TLS_RSA_WITH_RC4_128_SHA")
    @@ (\h0009 :> "TLS_RSA_WITH_DES_CBC_SHA")
    @@ (\h000A :> "TLS_RSA_WITH_3DES_EDE_CBC_SHA")
    @@ (\h0018 :> "TLS_DH_anon_WITH_RC4_128_MD5")
    @@ (\h002F :> "TLS_RSA_WITH_AES_128_CBC_SHA")
    @@ (\h0035 :> "TLS_RSA_WITH_AES_256_CBC_SHA")
    @@ (\h003C :> "TLS_RSA_WITH_AES_128_CBC_SHA256")
    @@ (\h00FF :> "TLS_EMPTY_RENEGOTIATION_INFO_SCSV")
    @@ (\h1301 :> "TLS_AES_128_GCM_SHA256")
    @@ (\hC012 :> "TLS_ECDHE_RSA_WITH_3DES_EDE_CBC_SHA")
    @@ (\hC013 :> "TLS_ECDHE_RSA_WITH_AES_128_CBC_SHA")
    @@ (\hC02F :> "TLS_ECDHE_RSA_WITH_AES_128_GCM_SHA256")

\* weirdNSSSuites: the two NSS FIPS codes that are not in allCipherSuites.
WeirdNSSSuites ==
    (\hFEFE :> "SSL_RSA_FIPS_WITH_DES_CBC_SHA")
        @@ (\hFEFF :> "SSL_RSA_FIPS_WITH_3DES_EDE_CBC_SHA")

\* fmt.Sprintf("An unknown cipher suite: %#04x", ci): one distinct name per code.
UnknownSuiteName(ci) == <<"An unknown cipher suite", ci>>

KnownNames == {AllCipherSuites[c] : c \in DOMAIN AllCipherSuites}
WeirdNames == {WeirdNSSSuites[c] : c \in DOMAIN WeirdNSSSuites}

\* The policy tables of insecure_suites.go, keyed by name.
FewBitCipherSuites   == {"TLS_RSA_WITH_DES_CBC_SHA"}
NullCipherSuites     == {"TLS_RSA_WITH_NULL_SHA"}
NullAuthCipherSuites == {"TLS_DH_anon_WITH_RC4_128_MD5"}
Rc4CipherSuites      == {"TLS_RSA_WITH_RC4_128_SHA", "TLS_DH_anon_WITH_RC4_128_MD5"}
Sweet32CipherSuites  == {"TLS_RSA_WITH_3DES_EDE_CBC_SHA",
                         "TLS_ECDHE_RSA_WITH_3DES_EDE_CBC_SHA"}

\* The names passing the substring tests of pullClientInfo.
ContainsDHE == {"TLS_ECDHE_RSA_WITH_3DES_EDE_CBC_SHA",
                "TLS_ECDHE_RSA_WITH_AES_128_CBC_SHA",
                "TLS_ECDHE_RSA_WITH_AES_128_GCM_SHA256"}
ContainsCBC == {"TLS_RSA_WITH_DES_CBC_SHA", "TLS_RSA_WITH_3DES_EDE_CBC_SHA",
                "TLS_RSA_WITH_AES_128_CBC_SHA", "TLS_RSA_WITH_AES_256_CBC_SHA",
                "TLS_RSA_WITH_AES_128_CBC_SHA256",
                "TLS_ECDHE_RSA_WITH_3DES_EDE_CBC_SHA",
                "TLS_ECDHE_RSA_WITH_AES_128_CBC_SHA"}
ContainsRSAWith == {"TLS_RSA_WITH_NULL_SHA", "TLS_RSA_WITH_RC4_128_SHA",
                    "TLS_RSA_WITH_DES_CBC_SHA", "TLS_RSA_WITH_3DES_EDE_CBC_SHA",
                    "TLS_RSA_WITH_AES_128_CBC_SHA",
                    "TLS_RSA_WITH_AES_256_CBC_SHA",
                    "TLS_RSA_WITH_AES_128_CBC_SHA256"}

\* Code-keyed tables of the fork (not part of src/).
CbcSuites         == {c \in DOMAIN AllCipherSuites : AllCipherSuites[c] \in ContainsCBC}
MetaCipherSuites  == {\h00FF}
Tls13Suites       == {\h1301}

\* The reasons; the English sentences are replaced by their variable names.
fewBitReason      == "fewBit"
nullReason        == "null"
nullAuthReason    == "nullAuth"
rc4Reason         == "rc4"
sweet32Reason     == "sweet32"
cbcReason         == "cbc"
noEphemeralReason == "noEphemeral"
Reasons == {fewBitReason, nullReason, nullAuthReason, rc4Reason,
            sweet32Reason, cbcReason, noEphemeralReason}

\* Server configuration of makeTLSConfig: CipherSuites in server preference
\* order (PreferServerCipherSuites is true), cut to the codes above.
ConfigCipherSuites ==
    <<\hC02F, \hC013, \h0005, \h002F, \h003C, \h0035, \hC012, \h000A>>
ServerMinVersion == VersionSSL30
ServerMaxVersion == VersionTLS12

\* Flags of the fork's cipherSuites table (cipher_suites.go, not in src/).
TLS12OnlySuites == {\hC02F, \h003C}
ECDHESuites     == {\hC012, \hC013, \hC02F}
=============================================================================
