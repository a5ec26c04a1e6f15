--------------------------- MODULE ClientInfoSpec ---------------------------
(***************************************************************************)
(* What the classifier promises, stated declaratively and in one step:     *)
(* given a connection snapshot, the report it returns.  No loop, no        *)
(* pending list and no running maximum: every field is defined from the    *)
(* whole suite list at once, the way the spec's properties P1-P8 describe  *)
(* it.  ClientInfo (the step-wise translation of pullClientInfo) is shown  *)
(* to implement this module.                                               *)
(*                                                                         *)
(* Reason lists are compared as counts per (suite name, reason): the JSON  *)
(* order of the reasons inside one list is layout.                         *)
(***************************************************************************)
EXTENDS SuiteCatalogue, Integers, Sequences, FiniteSets, FiniteSetsExt

CONSTANT Snapshots

VARIABLES snapshot, report

NoReport == [pending |-> TRUE]   \* no report returned yet

ReasonedNames == KnownNames \cup WeirdNames

IsKnown(c) == c \in DOMAIN AllCipherSuites
IsWeird(c) == c \in DOMAIN WeirdNSSSuites

DisplayName(c) ==
    IF IsKnown(c) THEN AllCipherSuites[c]
    ELSE IF IsWeird(c) THEN WeirdNSSSuites[c]
    ELSE UnknownSuiteName(c)

\* Reason -> the names that earn it on their own.
WeakTable   == (cbcReason :> ContainsCBC) @@ (noEphemeralReason :> ContainsRSAWith)
BrokenTable == (fewBitReason :> FewBitCipherSuites) @@ (nullReason :> NullCipherSuites)
                  @@ (nullAuthReason :> NullAuthCipherSuites)
                  @@ (rc4Reason :> Rc4CipherSuites)

\* A suite that shows a willingness to negotiate something other than 3DES.
Follower(c) ==
    /\ IsKnown(c)
    /\ AllCipherSuites[c] \notin Sweet32CipherSuites
    /\ c \notin MetaCipherSuites \cup Tls13Suites

\* P4: the 3DES suite at position k is broken iff a follower comes later.
Sweet32Broken(s, k) ==
    /\ IsKnown(s[k]) /\ AllCipherSuites[s[k]] \in Sweet32CipherSuites
    /\ \E j \in k + 1 .. Len(s) : Follower(s[j])

WeakOf(s, k) ==
    IF IsKnown(s[k])
    THEN {r \in DOMAIN WeakTable : AllCipherSuites[s[k]] \in WeakTable[r]}
    ELSE {}

BrokenOf(s, k) ==
    IF IsKnown(s[k])
    THEN {r \in DOMAIN BrokenTable : AllCipherSuites[s[k]] \in BrokenTable[r]}
           \cup (IF Sweet32Broken(s, k) THEN {sweet32Reason} ELSE {})
    ELSE IF IsWeird(s[k]) THEN {fewBitReason} ELSE {}

\* How often reason r is listed under name n, for the names listed at all.
Counts(s, Of(_, _)) ==
    LET cnt(n, r) == Cardinality({k \in 1 .. Len(s) : r \in Of(s, k) /\ DisplayName(s[k]) = n})
        offered   == {DisplayName(s[k]) : k \in {k \in DOMAIN s : IsKnown(s[k]) \/ IsWeird(s[k])}}
    IN  [n \in {m \in offered : \E r \in Reasons : cnt(m, r) > 0} |->
            [r \in Reasons |-> cnt(n, r)]]

\* P6: the highest recognised version of the negotiated one and the
\* supported_versions extension.
ReportedVersion(snap) ==
    Max({snap.version} \cup {v \in {snap.supportedVersions[k] :
                                      k \in DOMAIN snap.supportedVersions} :
                               v \in DOMAIN ActualSupportedVersions})

BeastCase(snap) ==
    snap.version <= VersionTLS10 /\ \E k \in DOMAIN snap.suites : snap.suites[k] \in CbcSuites

Expected(snap) ==
    LET s       == snap.suites
        vers    == ReportedVersion(snap)
        known   == vers \in DOMAIN ActualSupportedVersions
        weak    == Counts(s, WeakOf)
        broken  == Counts(s, BrokenOf)
        eph     == \E k \in DOMAIN s : IsKnown(s[k]) /\ AllCipherSuites[s[k]] \in ContainsDHE
        unknown == \E k \in DOMAIN s : ~IsKnown(s[k]) /\ ~IsWeird(s[k])
        comp    == \E k \in DOMAIN snap.compression : snap.compression[k] # 0
        beast   == BeastCase(snap) /\ ~snap.split
        isBad   == comp \/ unknown \/ beast \/ vers <= VersionTLS11
                     \/ DOMAIN broken # {}
        isMid   == ~eph \/ vers = VersionTLS12 \/ ~snap.tickets
    IN [supported    |-> [k \in DOMAIN s |-> DisplayName(s[k])],
        weak         |-> weak,
        broken       |-> broken,
        ephemeral    |-> eph,
        tickets      |-> snap.tickets,
        compression  |-> comp,
        unknown      |-> unknown,
        beast        |-> beast,
        ableToDetect |-> BeastCase(snap) /\ snap.ableToDetect,
        version      |-> IF known THEN ActualSupportedVersions[vers]
                         ELSE "an unknown version of SSL/TLS",
        versionFloat |-> IF known THEN ParsedVersionFloat[ActualSupportedVersions[vers]]
                         ELSE 0,
        rating       |-> IF isBad THEN "bad" ELSE IF isMid THEN "not bad" ELSE "excellent",
        score        |-> IF isBad THEN 0 ELSE IF isMid THEN 5 ELSE 10]

Init == snapshot \in Snapshots /\ report = NoReport

Classify ==
    /\ report = NoReport
    /\ report' # NoReport
    /\ report' = Expected(snapshot)
    /\ UNCHANGED snapshot

Spec == Init /\ [][Classify]_<<snapshot, report>>
=============================================================================
