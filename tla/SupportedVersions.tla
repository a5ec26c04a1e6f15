------------------------- MODULE SupportedVersions -------------------------
(***************************************************************************)
(* The supported_versions case added to clientHelloMsg.unmarshal          *)
(* (src/unnamed/part_002, handshake_messages.go): data is the rest of the  *)
(* extensions block, starting with this extension's body, and length is    *)
(* the body length the extension header gave (at most Len(data)).         *)
(* Bytes are naturals below 256, a sequence index is Go's index + 1.       *)
(***************************************************************************)
EXTENDS Naturals, Sequences

\* A failed unmarshal: the ClientHello is rejected.
Malformed == [ok |-> FALSE, versions |-> <<>>]

\* Fault model: the two bytes of a version in the wrong order.
DecodeLittleEndian(d, n) ==
    [k \in 1 .. n |-> d[2 * k] * 256 + d[2 * k - 1]]

\* for i := 0; i < n; i++ { v := uint16(d[0])<<8 + uint16(d[1]); append; d = d[2:] }
RECURSIVE DecodeVersions(_, _)
DecodeVersions(d, n) ==
    IF n = 0 THEN <<>>
    ELSE <<d[1] * 256 + d[2]>> \o DecodeVersions(SubSeq(d, 3, Len(d)), n - 1)

\* The case extensionSupportedVersions: body.
UnmarshalSupportedVersions(data, length) ==
    IF length < 1 THEN Malformed
    ELSE LET l == data[1]
         IN  IF l % 2 = 1 \/ length # l + 1 THEN Malformed
             ELSE [ok |-> TRUE,
                   versions |-> DecodeVersions(SubSeq(data, 2, Len(data)), l \div 2)]
=============================================================================
