------------------------- MODULE FeatureAttachments -------------------------
(***************************************************************************)
(* The attachments of one Feature, kept in two places: their metadata in   *)
(* the Feature, inside the product's document (product_attachment.go), and *)
(* their content in a table of its own (store.go).  Uploads and removals   *)
(* carry no client id and keep no receipt; every write is one transaction  *)
(* at the product's current revision, so a request that is refused, late   *)
(* or out of date is a stuttering step.                                    *)
(*                                                                         *)
(* The table is keyed by the Feature's id and the attachment's id as the   *)
(* request spells them.  The Feature is found, and lists its attachments,  *)
(* by these ids without the spaces around them.                            *)
(***************************************************************************)
EXTENDS Naturals, Sequences, SequencesExt

CONSTANTS
    Names,                   \* attachment ids without surrounding spaces
    Respelled,               \* those that requests also send with spaces around them or
                             \* around the id of the Feature
    Contents,                \* contents, told apart by their SHA-256
    MaxFeatureAttachments

ASSUME AttachmentAssumption ==
    /\ Respelled \subseteq Names
    /\ MaxFeatureAttachments \in Nat

VARIABLES
    status,        \* Feature.Status; what follows the confirmation is no different here
    attachments,   \* Feature.Attachments
    frozen,        \* Attachments of the confirmed FeatureRevision
    stored         \* delivery_feature_attachments: a set of rows

vars == <<status, attachments, frozen, stored>>

\* The two ids in the path of a request: the attachment's, and whether there are spaces
\* around it and around the Feature's.
RequestIds ==
    [name : Names, padded : {FALSE}, featurePadded : {FALSE}]
        \cup [name : Respelled, padded : BOOLEAN, featurePadded : BOOLEAN]

\* However the Feature's id is spelled, the Feature is the one that is found.
TrimSpace(id) == id.name

Metadata == [id : Names, sha256 : Contents]
Row == [key : RequestIds, content : Contents, metadata : Metadata]

RowsOf(id) == {row \in stored : row.key = id}

\* What is fetched under the ids as the Product shows them.
GetFeatureAttachment(name) ==
    RowsOf([name |-> name, padded |-> FALSE, featurePadded |-> FALSE])

Listed(id) == \E i \in DOMAIN attachments : attachments[i].id = id

TypeOK ==
    /\ status \in {"draft", "confirmed"}
    /\ attachments \in Seq(Metadata)
    /\ frozen \in Seq(Metadata)
    /\ stored \subseteq Row

Init ==
    /\ status = "draft"
    /\ attachments = <<>>
    /\ frozen = <<>>
    /\ stored = {}

----------------------------------------------------------------------------

Insert(id, content, metadata) ==
    stored' = stored \cup {[key |-> id, content |-> content, metadata |-> metadata]}

\* Mutant: content is added to a confirmed Feature, beside its list.
MutStoreFeatureAttachment(id, content) ==
    /\ RowsOf(id) = {}
    /\ Insert(id, content, [id |-> TrimSpace(id), sha256 |-> content])
    /\ attachments' = IF status = "draft"
                      THEN Append(attachments, [id |-> TrimSpace(id), sha256 |-> content])
                      ELSE attachments
    /\ UNCHANGED <<status, frozen>>

AddFeatureAttachment(metadata) ==
    /\ status = "draft"
    /\ \/ /\ metadata \in Range(attachments)
          /\ UNCHANGED attachments
       \/ /\ ~Listed(metadata.id)
          /\ Len(attachments) < MaxFeatureAttachments
          /\ attachments' = Append(attachments, metadata)
    /\ UNCHANGED <<status, frozen>>

\* With a row under this key the upload is answered from it, or refused.
StoreFeatureAttachment(id, content) ==
    LET metadata == [id |-> TrimSpace(id), sha256 |-> content] IN
    /\ RowsOf(id) = {}
    /\ AddFeatureAttachment(metadata)
    /\ Insert(id, content, metadata)

\* Mutant: the content is removed although the Feature does not list it, or no longer may change.
MutDeleteFeatureAttachment(id) ==
    /\ RowsOf(id) # {}
    /\ attachments' = SelectSeq(attachments, LAMBDA a : a.id # TrimSpace(id))
    /\ stored' = stored \ RowsOf(id)
    /\ UNCHANGED <<status, frozen>>

RemoveFeatureAttachment(name) ==
    /\ status = "draft"
    /\ \E i \in DOMAIN attachments :
        /\ attachments[i].id = name
        /\ attachments' = RemoveAt(attachments, i)
    /\ UNCHANGED <<status, frozen>>

\* The transaction is given up when there is no row to delete.
DeleteFeatureAttachment(id) ==
    /\ RemoveFeatureAttachment(TrimSpace(id))
    /\ RowsOf(id) # {}
    /\ stored' = stored \ RowsOf(id)

ConfirmFeature ==
    /\ status = "draft"
    /\ status' = "confirmed"
    /\ frozen' = attachments
    /\ UNCHANGED <<attachments, stored>>

Next ==
    \/ \E id \in RequestIds :
        \/ \E content \in Contents : StoreFeatureAttachment(id, content)
        \/ DeleteFeatureAttachment(id)
    \/ ConfirmFeature

Spec == Init /\ [][Next]_vars

----------------------------------------------------------------------------
\* Properties

Holds(row, a) == row.metadata = a /\ row.content = a.sha256

\* Nothing listed in the Feature or frozen in its confirmed revision ever lacks its
\* content, however ids are spelled and uploads and removals follow each other.
ContentKept ==
    \A a \in Range(attachments) \cup Range(frozen) : \E row \in stored : Holds(row, a)

\* The type of the state, and with it that nothing listed lacks its content.
AttachmentInvariant == TypeOK /\ ContentKept

\* As long as neither an attachment's id nor, with it, the Feature's is sent with spaces
\* around it, list and table say the same of that attachment, whatever is done with the
\* others: it is fetched under the id it is listed by, nothing is stored that is not
\* listed, and so the limit on the list is one on the table (product_attachment.go:46).
ListAndTableAgree ==
    /\ \A a \in Range(attachments) : a.id \notin Respelled =>
           \E row \in GetFeatureAttachment(a.id) : Holds(row, a)
    /\ \A row \in stored : row.metadata.id \notin Respelled =>
           /\ row.metadata \in Range(attachments)
           /\ \A other \in stored : row.metadata.id = other.metadata.id => row = other

\* From its confirmation on, a revision's attachments and their rows stay as they are.
ConfirmedContentStays ==
    [][status = "confirmed" => status' = status /\ frozen' = frozen /\ stored' = stored]_vars
=============================================================================
