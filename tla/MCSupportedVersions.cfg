\* Every body of up to five bytes over lengths 0-4 and version bytes.
SPECIFICATION Spec
INVARIANT ParserMatchesReference
