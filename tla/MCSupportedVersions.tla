------------------------ MODULE MCSupportedVersions ------------------------
(***************************************************************************)
(* Checks UnmarshalSupportedVersions against the format of spec 4.C: a     *)
(* one-byte length, then that many bytes of big-endian 16-bit versions,    *)
(* an odd length or a length other than the body's rejected.  Every        *)
(* extension body of up to MaxBody bytes over a small byte alphabet,       *)
(* followed by up to one byte of the next extension, is one initial state. *)
(***************************************************************************)
EXTENDS SupportedVersions, Integers, SequencesExt

\* Length bytes 0-4 (even, odd, zero) and version bytes, a body of up to
\* five bytes: lists of zero, one and two versions.
Bytes   == {0, 1, 2, 3, 4, \h7F}
MaxBody == 5

VARIABLES body, rest

\* The body as the spec reads it.
WellFormed(b) == Len(b) >= 1 /\ b[1] % 2 = 0 /\ Len(b) = b[1] + 1

Reference(b) ==
    IF ~WellFormed(b) THEN Malformed
    ELSE [ok |-> TRUE,
          versions |-> [k \in 1 .. b[1] \div 2 |-> 256 * b[2 * k] + b[2 * k + 1]]]

Init ==
    /\ body \in BoundedSeq(Bytes, MaxBody)
    /\ rest \in BoundedSeq(Bytes, 1)

Next == UNCHANGED <<body, rest>>

Spec == Init /\ [][Next]_<<body, rest>>

\* Decoding the body in place, with the next extension's bytes behind it,
\* gives the spec's accept/reject verdict and its version list.
ParserMatchesReference ==
    UnmarshalSupportedVersions(body \o rest, Len(body)) = Reference(body)
=============================================================================
