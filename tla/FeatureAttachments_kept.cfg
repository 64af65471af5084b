\* Three ids, two of them also sent with spaces around them or around the Feature's, two
\* contents, a limit of two.
SPECIFICATION Spec
CONSTANTS
    Names = {a, b, c}
    Respelled = {a, b}
    Contents = {x, y}
    MaxFeatureAttachments = 2
INVARIANTS
    AttachmentInvariant
    ListAndTableAgree
PROPERTIES
    ConfirmedContentStays
\* After the confirmation every request is refused or answered without a change.
CHECK_DEADLOCK FALSE
