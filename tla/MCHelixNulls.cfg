\* A typed reply with a null the field list documents.
SPECIFICATION Spec
CONSTANTS
    Readers = {"typed"}
    Collections <- OnePage
INVARIANTS
    DocumentedNullIsParsed
CHECK_DEADLOCK FALSE
