----------------------------- MODULE ClientInfo -----------------------------
(***************************************************************************)
(* pullClientInfo (client_info.go): the classifier that turns the          *)
(* ConnectionState of a finished handshake into the clientInfo report.     *)
(*                                                                         *)
(* One step per iteration of the loop over ClientCipherSuites, with one    *)
(* action per branch of its body (known suite, NSS FIPS suite, unknown     *)
(* suite), then one step for everything after the loop.  The state that    *)
(* crosses iterations is the report d and the sweet32Seen list.            *)
(*                                                                         *)
(* The per-suite bodies are operators, so that the same code can also be   *)
(* folded over a whole suite list (PullClientInfo), which is how the TLS   *)
(* connection model calls the classifier.                                  *)
(***************************************************************************)
EXTENDS SuiteCatalogue, Integers, Sequences, SequencesExt, FiniteSets

CONSTANT Snapshots      \* ConnectionState values a finished handshake yields

VARIABLES
    st,             \* c.ConnectionState()
    i,              \* loop index into st.suites
    d,              \* the *clientInfo being filled in
    sweet32Seen,    \* 3DES suites not yet followed by a usable suite
    pc

vars == <<st, i, d, sweet32Seen, pc>>

ReasonedNames == KnownNames \cup WeirdNames

\* A Go map[string][]string: a name is a key once something was appended.
NoReasons == [n \in {} |-> <<>>]
AppendTo(m, n, rs) ==
    IF rs = <<>> THEN m
    ELSE IF n \in DOMAIN m THEN [m EXCEPT ![n] = @ \o rs]
    ELSE m @@ (n :> rs)

\* &clientInfo{BrokenCipherSuites: make(...), WeakCipherSuites: make(...)}
NewClientInfo ==
    [supported |-> <<>>, weak |-> NoReasons, broken |-> NoReasons,
     ephemeral |-> FALSE, tickets |-> FALSE, compression |-> FALSE,
     unknown |-> FALSE, beast |-> FALSE, ableToDetect |-> FALSE,
     version |-> "", versionFloat |-> 0, rating |-> "", score |-> 0]

\* The per-name reason tests of the known-suite branch, in the order the
\* reasons are appended.
WeakTests   == << <<ContainsCBC, cbcReason>>, <<ContainsRSAWith, noEphemeralReason>> >>
BrokenTests == << <<FewBitCipherSuites, fewBitReason>>, <<NullCipherSuites, nullReason>>,
                  <<NullAuthCipherSuites, nullAuthReason>>, <<Rc4CipherSuites, rc4Reason>> >>

ReasonsFor(tests, s) ==
    LET hit == SelectSeq(tests, LAMBDA t : s \in t[1])
    IN  [k \in DOMAIN hit |-> hit[k][2]]

\* Fault model: the 3DES test keyed on the CBC name test.
PendsSweet32Cbc(s) == s \in ContainsCBC

\* sweet32CipherSuites[s]: the suite is held back until a follower appears.
PendsSweet32(s) == s \in Sweet32CipherSuites

\* Fault model: the TLS 1.3-only suites are not exempted.
FlushesSweet32NoTls13(seen, ci) == seen # <<>> /\ ci \notin MetaCipherSuites

\* len(sweet32Seen) != 0 && !metaCipherSuites[ci] && !tls13Suites[ci]
FlushesSweet32(seen, ci) ==
    seen # <<>> /\ ci \notin MetaCipherSuites /\ ci \notin Tls13Suites

\* for _, seen := range sweet32Seen { append sweet32Reason }
AddSweet32(broken, seen) ==
    FoldLeft(LAMBDA m, n : AppendTo(m, n, <<sweet32Reason>>), broken, seen)

\* Loop body for a code found in allCipherSuites; ls = [info, seen].
ScanKnown(ls, snap, ci) ==
    LET s      == AllCipherSuites[ci]
        beast  == ci \in CbcSuites /\ snap.version <= VersionTLS10
        pend   == PendsSweet32(s)
        flush  == ~pend /\ FlushesSweet32(ls.seen, ci)
        broken == AppendTo(ls.info.broken, s, ReasonsFor(BrokenTests, s))
    IN [info |-> [ls.info EXCEPT
                    !.ephemeral    = @ \/ s \in ContainsDHE,
                    !.weak         = AppendTo(@, s, ReasonsFor(WeakTests, s)),
                    !.beast        = IF beast THEN ~snap.split ELSE @,
                    !.ableToDetect = IF beast THEN snap.ableToDetect ELSE @,
                    !.broken       = IF flush THEN AddSweet32(broken, ls.seen) ELSE broken,
                    !.supported    = Append(@, s)],
        seen |-> IF pend THEN Append(ls.seen, s)
                 ELSE IF flush THEN <<>> ELSE ls.seen]

\* Loop body for a weirdNSSSuites code.
ScanWeird(ls, ci) ==
    LET s == WeirdNSSSuites[ci]
    IN [info |-> [ls.info EXCEPT !.broken    = AppendTo(@, s, <<fewBitReason>>),
                                 !.supported = Append(@, s)],
        seen |-> ls.seen]

\* Loop body for any other code.
ScanUnknown(ls, ci) ==
    [info |-> [ls.info EXCEPT !.unknown   = TRUE,
                              !.supported = Append(@, UnknownSuiteName(ci))],
     seen |-> ls.seen]

Scan(ls, snap, ci) ==
    IF ci \in DOMAIN AllCipherSuites THEN ScanKnown(ls, snap, ci)
    ELSE IF ci \in DOMAIN WeirdNSSSuites THEN ScanWeird(ls, ci)
    ELSE ScanUnknown(ls, ci)

\* vers := st.Version, raised by every recognised supported_versions entry
\* that is numerically greater.
ReportedVersion(snap) ==
    FoldLeft(LAMBDA vers, v :
                IF v \in DOMAIN ActualSupportedVersions /\ v > vers THEN v ELSE vers,
             snap.version, snap.supportedVersions)

\* len(d.BrokenCipherSuites) != 0
HasBroken(e) == DOMAIN e.broken # {}

\* The rating constants and their scores: <<rating, rating_score>>.
Ratings == [good       |-> <<"excellent", 10>>,
            improvable |-> <<"not bad", 5>>,
            bad        |-> <<"bad", 0>>]

\* The rating block: default excellent, then "not bad", then "bad".
RatingOf(e, vers) ==
    IF e.compression \/ e.unknown \/ e.beast \/ HasBroken(e) \/ vers <= VersionTLS11
    THEN Ratings.bad
    ELSE IF ~e.ephemeral \/ vers = VersionTLS12 \/ ~e.tickets
    THEN Ratings.improvable
    ELSE Ratings.good

\* Everything after the loop: tickets, compression, version, rating.
Finish(e, snap) ==
    LET vers == ReportedVersion(snap)
        name == IF vers \in DOMAIN ActualSupportedVersions
                THEN ActualSupportedVersions[vers] ELSE ""
        f    == [e EXCEPT
                   !.tickets      = snap.tickets,
                   !.compression  = \E k \in DOMAIN snap.compression :
                                       snap.compression[k] # 0,
                   !.version      = IF name = "" THEN "an unknown version of SSL/TLS"
                                    ELSE name,
                   !.versionFloat = IF name = "" THEN 0 ELSE ParsedVersionFloat[name]]
        r    == RatingOf(f, vers)
    IN [f EXCEPT !.rating = r[1], !.score = r[2]]

\* The whole of pullClientInfo as a function of the connection state.
PullClientInfo(snap) ==
    Finish(FoldLeft(LAMBDA ls, ci : Scan(ls, snap, ci),
                    [info |-> NewClientInfo, seen |-> <<>>], snap.suites).info,
           snap)

-----------------------------------------------------------------------------

Init ==
    /\ st \in Snapshots
    /\ i = 1
    /\ d = NewClientInfo
    /\ sweet32Seen = <<>>
    /\ pc = "loop"

LoopState == [info |-> d, seen |-> sweet32Seen]

TakeStep(ls) ==
    /\ d' = ls.info
    /\ sweet32Seen' = ls.seen
    /\ i' = i + 1
    /\ UNCHANGED <<st, pc>>

InLoop == pc = "loop" /\ i <= Len(st.suites)

ScanKnownSuite ==
    /\ InLoop
    /\ st.suites[i] \in DOMAIN AllCipherSuites
    /\ TakeStep(ScanKnown(LoopState, st, st.suites[i]))

ScanWeirdSuite ==
    /\ InLoop
    /\ st.suites[i] \notin DOMAIN AllCipherSuites
    /\ st.suites[i] \in DOMAIN WeirdNSSSuites
    /\ TakeStep(ScanWeird(LoopState, st.suites[i]))

ScanUnknownSuite ==
    /\ InLoop
    /\ st.suites[i] \notin DOMAIN AllCipherSuites \cup DOMAIN WeirdNSSSuites
    /\ TakeStep(ScanUnknown(LoopState, st.suites[i]))

Report ==
    /\ pc = "loop"
    /\ i > Len(st.suites)
    /\ d' = Finish(d, st)
    /\ pc' = "done"
    /\ UNCHANGED <<st, i, sweet32Seen>>

Next == ScanKnownSuite \/ ScanWeirdSuite \/ ScanUnknownSuite \/ Report

Spec == Init /\ [][Next]_vars

-----------------------------------------------------------------------------

IsSuiteName(x) == x \in ReasonedNames \/ \E c \in Range(st.suites) : x = UnknownSuiteName(c)

TypeOK ==
    /\ i \in 1 .. Len(st.suites) + 1
    /\ pc \in {"loop", "done"}
    /\ sweet32Seen \in Seq(Sweet32CipherSuites)
    /\ \A k \in DOMAIN d.supported : IsSuiteName(d.supported[k])
    /\ DOMAIN d.weak \subseteq ReasonedNames
    /\ DOMAIN d.broken \subseteq ReasonedNames
    /\ \A n \in DOMAIN d.weak : d.weak[n] \in Seq({cbcReason, noEphemeralReason})
    /\ \A n \in DOMAIN d.broken : d.broken[n] \in Seq(Reasons \ {cbcReason, noEphemeralReason})
    /\ d.rating \in {"", "excellent", "not bad", "bad"}
    /\ d.score \in {0, 5, 10}

\* The reason lists of the report as counts per (name, reason).
CountOf(seq, r) == Cardinality({k \in DOMAIN seq : seq[k] = r})
ReasonCounts(m) == [n \in DOMAIN m |-> [r \in Reasons |-> CountOf(m[n], r)]]
Summary(e)      == [e EXCEPT !.weak = ReasonCounts(@), !.broken = ReasonCounts(@)]

Abstract == INSTANCE ClientInfoSpec
              WITH snapshot <- st,
                   report   <- IF pc = "done" THEN Summary(d) ELSE [pending |-> TRUE]

\* The loop of pullClientInfo, with its pending 3DES list and its running
\* version maximum, produces the report ClientInfoSpec defines from the
\* whole suite list (P1-P4, P6, P8 of the spec).
ImplementsClientInfoSpec == Abstract!Spec

\* Spec 4.E, Rating: a negotiated version of TLS 1.1 or lower makes the
\* rating "bad".  pullClientInfo rates the version after raising it to the
\* highest entry of the supported_versions extension.
RatingBadBelowTLS12 ==
    pc = "done" /\ st.version <= VersionTLS11 => d.rating = "bad"
=============================================================================
