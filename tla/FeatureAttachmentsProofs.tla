----------------------- MODULE FeatureAttachmentsProofs -----------------------
(***************************************************************************)
(* The two places of a Feature's attachments, for any ids and contents and *)
(* any limit: the list in the Feature never lacks its content, and of an   *)
(* attachment that is never sent with spaces around its id or around the   *)
(* Feature's, the list and the table say the same.                         *)
(***************************************************************************)
EXTENDS FeatureAttachments, TLAPS

\* What uploads and removals rely on: the list names each id once, a row is stored
\* under the spelling of the id it lists, once, and before the confirmation nothing
\* is frozen.
Tidy ==
    /\ \A i, j \in DOMAIN attachments : attachments[i].id = attachments[j].id => i = j
    /\ \A row \in stored :
          row.metadata.id = row.key.name /\ row.content = row.metadata.sha256
    /\ \A row, other \in stored : row.key = other.key => row = other
    /\ status = "draft" => frozen = <<>>

IInv == AttachmentInvariant /\ Tidy /\ ListAndTableAgree

-----------------------------------------------------------------------------
(* Lists.                                                                  *)

\* Adding an entry to the end of a list.
LEMMA Added ==
    ASSUME NEW S, NEW s \in Seq(S), NEW e \in S
    PROVE  /\ Append(s, e) \in Seq(S)
           /\ DOMAIN Append(s, e) = DOMAIN s \cup {Len(s) + 1}
           /\ Len(s) + 1 \notin DOMAIN s
           /\ Append(s, e)[Len(s) + 1] = e
           /\ \A i \in DOMAIN s : Append(s, e)[i] = s[i]
           /\ Range(Append(s, e)) = Range(s) \cup {e}
<1>1. /\ Append(s, e) \in Seq(S)
      /\ DOMAIN Append(s, e) = DOMAIN s \cup {Len(s) + 1}
      /\ Len(s) + 1 \notin DOMAIN s
      /\ Append(s, e)[Len(s) + 1] = e
      /\ \A i \in DOMAIN s : Append(s, e)[i] = s[i]
  OBVIOUS
<1>2. Range(Append(s, e)) = Range(s) \cup {e}
  BY <1>1 DEF Range
<1> QED BY <1>1, <1>2

\* Taking the entry at place i out of a list: the others keep their order.
LEMMA Removed ==
    ASSUME NEW S, NEW s \in Seq(S), NEW i \in DOMAIN s
    PROVE  /\ RemoveAt(s, i) \in Seq(S)
           /\ DOMAIN RemoveAt(s, i) = 1..(Len(s) - 1)
           /\ \A j \in 1..(Len(s) - 1) : RemoveAt(s, i)[j] = s[IF j < i THEN j ELSE j + 1]
           /\ Range(RemoveAt(s, i)) = {s[j] : j \in DOMAIN s \ {i}}
<1> DEFINE t == RemoveAt(s, i)
           before == SubSeq(s, 1, i - 1)
           after == SubSeq(s, i + 1, Len(s))
<1>1. before \in Seq(S) /\ after \in Seq(S)
  OBVIOUS
<1>2. /\ Len(before) = i - 1 /\ \A j \in 1..(i - 1) : before[j] = s[j]
      /\ Len(after) = Len(s) - i /\ \A j \in 1..(Len(s) - i) : after[j] = s[i + j]
  OBVIOUS
<1>3. t = before \o after
  BY DEF RemoveAt
<1>0. i \in Nat /\ Len(s) \in Nat
  OBVIOUS
<1> HIDE DEF before, after, t
<1>4. t \in Seq(S) /\ Len(t) = Len(s) - 1 /\ DOMAIN t = 1..(Len(s) - 1)
  BY <1>0, <1>1, <1>2, <1>3
<1>5. \A j \in 1..(Len(s) - 1) : t[j] = s[IF j < i THEN j ELSE j + 1]
  <2> SUFFICES ASSUME NEW j \in 1..(Len(s) - 1)
               PROVE  t[j] = s[IF j < i THEN j ELSE j + 1]
    OBVIOUS
  <2>1. CASE j < i
    BY <1>0, <1>1, <1>2, <1>3, <2>1
  <2>2. CASE ~(j < i)
    <3>1. t[j] = after[j - (i - 1)] /\ j - (i - 1) \in 1..(Len(s) - i)
      BY <1>0, <1>1, <1>2, <1>3, <2>2
    <3>2. after[j - (i - 1)] = s[i + (j - (i - 1))]
      BY <1>2, <3>1, Zenon
    <3>3. i + (j - (i - 1)) = j + 1
      BY <1>0
    <3> QED BY <2>2, <3>1, <3>2, <3>3
  <2> QED BY <2>1, <2>2
<1>6. Range(t) = {s[j] : j \in DOMAIN s \ {i}}
  <2>1. ASSUME NEW j \in DOMAIN t PROVE \E k \in DOMAIN s \ {i} : t[j] = s[k]
    <3>1. (IF j < i THEN j ELSE j + 1) \in DOMAIN s \ {i}
      BY <1>4
    <3> QED BY <1>4, <1>5, <3>1
  <2>2. ASSUME NEW k \in DOMAIN s \ {i} PROVE \E j \in DOMAIN t : t[j] = s[k]
    <3>1. CASE k < i
      BY <1>4, <1>5, <3>1
    <3>2. CASE k > i
      <4>1. k - 1 \in DOMAIN t /\ ~(k - 1 < i)
        BY <1>4, <3>2
      <4> QED BY <1>4, <1>5, <4>1
    <3> QED BY <3>1, <3>2
  <2> QED BY <2>1, <2>2 DEF Range
<1> QED BY <1>4, <1>5, <1>6 DEF t

-----------------------------------------------------------------------------
(* What the two requests do.                                               *)

\* An upload adds one row, and lists its metadata if the list has not got it.
LEMMA StoreDoes ==
    ASSUME TypeOK, Tidy, NEW id \in RequestIds, NEW content \in Contents,
           NEW row, row = [key |-> id, content |-> content,
                           metadata |-> [id |-> TrimSpace(id), sha256 |-> content]],
           StoreFeatureAttachment(id, content)
    PROVE  /\ status = "draft" /\ UNCHANGED <<status, frozen>>
           /\ \A other \in stored : other.key # id
           /\ row \in Row /\ stored' = stored \cup {row}
           /\ attachments' \in Seq(Metadata)
           /\ Range(attachments') = Range(attachments) \cup {row.metadata}
           /\ \A i, j \in DOMAIN attachments' :
                 attachments'[i].id = attachments'[j].id => i = j
<1> DEFINE m == [id |-> TrimSpace(id), sha256 |-> content]
<1>1. TrimSpace(id) \in Names
  BY AttachmentAssumption DEF RequestIds, TrimSpace
<1>2. m \in Metadata /\ m.id = TrimSpace(id)
  BY <1>1 DEF Metadata
<1>3. /\ status = "draft" /\ UNCHANGED <<status, frozen>>
      /\ \A other \in stored : other.key # id
      /\ stored' = stored \cup {row}
  BY DEF StoreFeatureAttachment, AddFeatureAttachment, RowsOf, Insert
<1>4. row \in Row /\ row.metadata = m
  BY <1>2 DEF Row
<1>5. \/ m \in Range(attachments) /\ attachments' = attachments
      \/ ~Listed(TrimSpace(id)) /\ attachments' = Append(attachments, m)
  BY <1>2 DEF StoreFeatureAttachment, AddFeatureAttachment
<1>6. attachments \in Seq(Metadata)
  BY DEF TypeOK
<1> HIDE DEF m
<1>7. CASE m \in Range(attachments) /\ attachments' = attachments
  <2>1. Range(attachments') = Range(attachments) \cup {row.metadata}
    BY <1>4, <1>7
  <2> QED BY <1>3, <1>4, <1>6, <1>7, <2>1 DEF Tidy
<1>8. CASE ~Listed(TrimSpace(id)) /\ attachments' = Append(attachments, m)
  <2>1. /\ attachments' \in Seq(Metadata)
        /\ DOMAIN attachments' = DOMAIN attachments \cup {Len(attachments) + 1}
        /\ Len(attachments) + 1 \notin DOMAIN attachments
        /\ attachments'[Len(attachments) + 1] = m
        /\ \A i \in DOMAIN attachments : attachments'[i] = attachments[i]
        /\ Range(attachments') = Range(attachments) \cup {m}
    BY <1>2, <1>6, <1>8, Added
  <2>2. \A i \in DOMAIN attachments : attachments[i].id # m.id
    BY <1>2, <1>8 DEF Listed
  <2>3. \A i, j \in DOMAIN attachments' :
           attachments'[i].id = attachments'[j].id => i = j
    BY <2>1, <2>2 DEF Tidy
  <2> QED BY <1>3, <1>4, <2>1, <2>3
<1> QED BY <1>5, <1>7, <1>8

\* A removal takes the id off the list and the row under the requested spelling with it.
LEMMA DeleteDoes ==
    ASSUME TypeOK, Tidy, NEW id \in RequestIds, DeleteFeatureAttachment(id)
    PROVE  /\ status = "draft" /\ UNCHANGED <<status, frozen>>
           /\ stored' = {row \in stored : row.key # id}
           /\ attachments' \in Seq(Metadata)
           /\ Range(attachments') = {a \in Range(attachments) : a.id # TrimSpace(id)}
           /\ \A i, j \in DOMAIN attachments' :
                 attachments'[i].id = attachments'[j].id => i = j
<1>1. /\ status = "draft" /\ UNCHANGED <<status, frozen>>
      /\ stored' = {row \in stored : row.key # id}
  BY DEF DeleteFeatureAttachment, RemoveFeatureAttachment, RowsOf
<1>2. PICK i \in DOMAIN attachments :
         attachments[i].id = TrimSpace(id) /\ attachments' = RemoveAt(attachments, i)
  BY DEF DeleteFeatureAttachment, RemoveFeatureAttachment
<1>3. attachments \in Seq(Metadata)
  BY DEF TypeOK
<1>4. /\ attachments' \in Seq(Metadata)
      /\ DOMAIN attachments' = 1..(Len(attachments) - 1)
      /\ \A j \in 1..(Len(attachments) - 1) :
            attachments'[j] = attachments[IF j < i THEN j ELSE j + 1]
      /\ Range(attachments') = {attachments[j] : j \in DOMAIN attachments \ {i}}
  BY <1>2, <1>3, Removed
<1>5. \A j \in DOMAIN attachments : j # i <=> attachments[j].id # TrimSpace(id)
  BY <1>2 DEF Tidy
<1>6. Range(attachments') = {a \in Range(attachments) : a.id # TrimSpace(id)}
  BY <1>4, <1>5 DEF Range
<1>7. ASSUME NEW j \in DOMAIN attachments', NEW k \in DOMAIN attachments',
             attachments'[j].id = attachments'[k].id
      PROVE  j = k
  <2> DEFINE from(x) == IF x < i THEN x ELSE x + 1
  <2>1. /\ from(j) \in DOMAIN attachments /\ from(k) \in DOMAIN attachments
        /\ i \in Nat /\ j \in Nat /\ k \in Nat
    BY <1>3, <1>4
  <2>2. attachments[from(j)].id = attachments[from(k)].id
    BY <1>4, <1>7
  <2>3. from(j) = from(k)
    BY <2>1, <2>2 DEF Tidy
  <2> QED BY <2>1, <2>3
<1> QED BY <1>1, <1>4, <1>6, <1>7

-----------------------------------------------------------------------------
(* The theorems.                                                           *)

Plain(name) == [name |-> name, padded |-> FALSE, featurePadded |-> FALSE]

\* An attachment that is spelled one way has one key, the one it is fetched under.
LEMMA OneSpelling ==
    ASSUME NEW k \in RequestIds, k.name \notin Respelled
    PROVE  k = Plain(k.name)
<1>1. k \in [name : Names, padded : {FALSE}, featurePadded : {FALSE}]
  BY DEF RequestIds
<1> QED BY <1>1 DEF Plain

\* An upload keeps the invariant.
LEMMA StoreKeeps ==
    ASSUME IInv, NEW id \in RequestIds, NEW content \in Contents,
           StoreFeatureAttachment(id, content)
    PROVE  IInv'
<1> USE DEF IInv, AttachmentInvariant
<1> DEFINE row == [key |-> id, content |-> content,
                   metadata |-> [id |-> TrimSpace(id), sha256 |-> content]]
<1>1. /\ status = "draft" /\ UNCHANGED <<status, frozen>>
      /\ \A other \in stored : other.key # id
      /\ row \in Row /\ stored' = stored \cup {row}
      /\ attachments' \in Seq(Metadata)
      /\ Range(attachments') = Range(attachments) \cup {row.metadata}
      /\ \A i, j \in DOMAIN attachments' :
            attachments'[i].id = attachments'[j].id => i = j
  BY StoreDoes
<1>2. /\ row.key = id /\ row.metadata.id = row.key.name
      /\ Holds(row, row.metadata)
  BY DEF TrimSpace, Holds
<1> HIDE DEF row
<1>3. TypeOK'
  BY <1>1 DEF TypeOK
<1>4. ContentKept'
  BY <1>1, <1>2 DEF ContentKept
<1>5. Tidy'
  BY <1>1, <1>2 DEF Tidy, Holds
<1>6. ASSUME NEW a \in Range(attachments'), a.id \notin Respelled
      PROVE  \E other \in stored' : other.key = Plain(a.id) /\ Holds(other, a)
  <2>1. CASE a \in Range(attachments)
    BY <1>1, <1>6, <2>1 DEF ListAndTableAgree, GetFeatureAttachment, RowsOf, Plain
  <2>2. CASE a = row.metadata
    <3>1. row.key = Plain(a.id)
      BY <1>2, <1>6, <2>2, OneSpelling
    <3> QED BY <1>1, <1>2, <2>2, <3>1
  <2> QED BY <1>1, <2>1, <2>2
<1>7. ASSUME NEW other \in stored', other.metadata.id \notin Respelled
      PROVE  /\ other.metadata \in Range(attachments')
             /\ \A third \in stored' : other.metadata.id = third.metadata.id => other = third
  <2>1. \A r \in stored' : r.key \in RequestIds /\ r.metadata.id = r.key.name
    BY <1>3, <1>5 DEF TypeOK, Tidy, Row
  <2>2. other.metadata \in Range(attachments')
    BY <1>1, <1>7 DEF ListAndTableAgree
  <2>3. ASSUME NEW third \in stored', other.metadata.id = third.metadata.id
        PROVE  other = third
    <3>1. other.key = third.key
      BY <1>7, <2>1, <2>3, OneSpelling
    <3> QED BY <1>5, <3>1 DEF Tidy
  <2> QED BY <2>2, <2>3
<1>8. ListAndTableAgree'
  BY <1>6, <1>7 DEF ListAndTableAgree, GetFeatureAttachment, RowsOf, Plain, Holds
<1> QED BY <1>3, <1>4, <1>5, <1>8

\* A removal keeps the invariant: the row it takes lists the id it takes off the list.
LEMMA DeleteKeeps ==
    ASSUME IInv, NEW id \in RequestIds, DeleteFeatureAttachment(id)
    PROVE  IInv'
<1> USE DEF IInv, AttachmentInvariant
<1>1. /\ status = "draft" /\ UNCHANGED <<status, frozen>>
      /\ stored' = {row \in stored : row.key # id}
      /\ attachments' \in Seq(Metadata)
      /\ Range(attachments') = {a \in Range(attachments) : a.id # TrimSpace(id)}
      /\ \A i, j \in DOMAIN attachments' :
            attachments'[i].id = attachments'[j].id => i = j
  BY DeleteDoes
<1>2. TypeOK'
  BY <1>1 DEF TypeOK
<1>3. frozen' = <<>>
  BY <1>1 DEF Tidy
<1>4. ContentKept'
  <2>1. Range(frozen') = {}
    BY <1>3 DEF Range
  <2>2. ASSUME NEW a \in Range(attachments') PROVE \E row \in stored' : Holds(row, a)
    <3>1. PICK row \in stored : Holds(row, a)
      BY <1>1 DEF ContentKept
    <3>2. row.key # id
      BY <1>1, <3>1 DEF Tidy, Holds, TrimSpace
    <3> QED BY <1>1, <3>1, <3>2
  <2> QED BY <2>1, <2>2 DEF ContentKept, Holds
<1>5. Tidy'
  BY <1>1, <1>3 DEF Tidy
<1>6. ASSUME NEW a \in Range(attachments'), a.id \notin Respelled
      PROVE  \E row \in stored' : row.key = Plain(a.id) /\ Holds(row, a)
  <2>1. PICK row \in stored : row.key = Plain(a.id) /\ Holds(row, a)
    BY <1>1, <1>6 DEF ListAndTableAgree, GetFeatureAttachment, RowsOf, Plain
  <2>2. row.key # id
    BY <1>1, <2>1 DEF TrimSpace, Plain
  <2> QED BY <1>1, <2>1, <2>2
<1>7. ASSUME NEW row \in stored', row.metadata.id \notin Respelled
      PROVE  /\ row.metadata \in Range(attachments')
             /\ \A other \in stored' : row.metadata.id = other.metadata.id => row = other
  <2>1. row \in stored /\ row.key # id /\ row.key \in RequestIds
    BY <1>1, <1>7 DEF TypeOK, Row
  <2>2. row.metadata \in Range(attachments) /\ row.metadata.id = row.key.name
    BY <1>7, <2>1 DEF ListAndTableAgree, Tidy
  <2>3. row.key.name # TrimSpace(id)
    BY <1>7, <2>1, <2>2, OneSpelling DEF TrimSpace
  <2>4. \A other \in stored : row.metadata.id = other.metadata.id => row = other
    BY <1>7, <2>1 DEF ListAndTableAgree
  <2> QED BY <1>1, <2>2, <2>3, <2>4
<1>8. ListAndTableAgree'
  BY <1>6, <1>7 DEF ListAndTableAgree, GetFeatureAttachment, RowsOf, Plain, Holds
<1> QED BY <1>2, <1>4, <1>5, <1>8

\* Every step keeps the invariant.
LEMMA AttachmentsInductive == IInv /\ [Next]_vars => IInv'
<1> SUFFICES ASSUME IInv, [Next]_vars PROVE IInv'
  OBVIOUS
<1>1. CASE ConfirmFeature
  BY <1>1 DEF ConfirmFeature, IInv, AttachmentInvariant, TypeOK, ContentKept, Tidy,
              ListAndTableAgree, GetFeatureAttachment, RowsOf, Holds
<1>2. CASE UNCHANGED vars
  BY <1>2 DEF vars, IInv, AttachmentInvariant, TypeOK, ContentKept, Tidy,
              ListAndTableAgree, GetFeatureAttachment, RowsOf, Holds
<1> QED BY <1>1, <1>2, StoreKeeps, DeleteKeeps DEF Next

\* The invariant holds in every state.
LEMMA AttachmentsHold == Spec => []IInv
<1>1. Init => IInv
  <2> SUFFICES ASSUME Init PROVE IInv
    OBVIOUS
  <2>1. Range(attachments) = {} /\ Range(frozen) = {}
    BY DEF Init, Range
  <2>2. TypeOK /\ Tidy
    BY DEF Init, TypeOK, Tidy
  <2> QED BY <2>1, <2>2 DEF Init, IInv, AttachmentInvariant, ContentKept, ListAndTableAgree
<1> QED BY <1>1, AttachmentsInductive, PTL DEF Spec

\* Nothing listed in the Feature, or frozen in its confirmed revision, ever lacks its
\* content, whatever ids are uploaded and removed, under whichever spelling.
THEOREM ContentStaysKept == Spec => []AttachmentInvariant
<1>1. IInv => AttachmentInvariant
  BY DEF IInv
<1> QED BY <1>1, AttachmentsHold, PTL

\* Of an attachment that no request sends with spaces around its id or the Feature's, list
\* and table say the same, whatever is done with the others: it is listed exactly when its
\* one row can be fetched (StoreFeatureAttachment and DeleteFeatureAttachment).
THEOREM ListAndTableStayTogether == Spec => []ListAndTableAgree
<1>1. IInv => ListAndTableAgree
  BY DEF IInv
<1> QED BY <1>1, AttachmentsHold, PTL

\* After the confirmation no request moves the revision's attachments or their rows.
THEOREM ConfirmedContentKept == Spec => ConfirmedContentStays
<1>1. [Next]_vars => (status = "confirmed" => status' = status /\ frozen' = frozen /\ stored' = stored)
  BY DEF Next, StoreFeatureAttachment, AddFeatureAttachment, DeleteFeatureAttachment,
         RemoveFeatureAttachment, ConfirmFeature, vars
<1> QED BY <1>1, PTL DEF Spec, ConfirmedContentStays
=============================================================================
