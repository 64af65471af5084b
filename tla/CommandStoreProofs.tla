------------------------- MODULE CommandStoreProofs -------------------------
(***************************************************************************)
(* Proofs about CommandStore: every command is applied at most once, on    *)
(* the document its sender read, and answered as it was the first time.    *)
(***************************************************************************)
EXTENDS CommandStore, SequenceTheorems, TLAPS

-----------------------------------------------------------------------------
(* Documents and their prefixes.                                           *)

\* A prefix agrees with the longer sequence at each of its places.
LEMMA PrefixIsPointwise ==
  ASSUME NEW S, NEW s \in Seq(S), NEW t \in Seq(S)
  PROVE  IsPrefix(s, t) <=> Len(s) <= Len(t) /\ \A i \in 1 .. Len(s) : s[i] = t[i]
<1>1. SubSeq(s, 1, Len(s)) = s
  BY SubSeqFull
<1>2. ASSUME Len(s) <= Len(t)
      PROVE  /\ SubSeq(t, 1, Len(s)) \in Seq(S)
             /\ Len(SubSeq(t, 1, Len(s))) = Len(s)
             /\ \A i \in 1 .. Len(s) : SubSeq(t, 1, Len(s))[i] = t[i]
  <2>1. \A i \in 1 .. Len(s) : t[i] \in S
    BY <1>2, LenProperties, ElementOfSeq
  <2> QED BY <1>2, <2>1, SubSeqProperties, LenProperties
<1>3. ASSUME IsPrefix(s, t)
      PROVE  Len(s) <= Len(t) /\ \A i \in 1 .. Len(s) : s[i] = t[i]
  BY <1>1, <1>2, <1>3 DEF IsPrefix
<1>4. ASSUME Len(s) <= Len(t), \A i \in 1 .. Len(s) : s[i] = t[i]
      PROVE  IsPrefix(s, t)
  <2>1. s = SubSeq(t, 1, Len(s))
    BY <1>2, <1>4, SeqEqual
  <2> QED BY <1>1, <1>4, <2>1 DEF IsPrefix
<1> QED BY <1>3, <1>4

\* A document that grows by one entry keeps its prefixes, and itself as one.
LEMMA PrefixOfAppend ==
  ASSUME NEW S, NEW s \in Seq(S), NEW t \in Seq(S), NEW e \in S, IsPrefix(s, t)
  PROVE  IsPrefix(s, Append(t, e))
<1>1. Len(s) <= Len(t) /\ \A i \in 1 .. Len(s) : s[i] = t[i]
  BY PrefixIsPointwise
<1>2. Append(t, e) \in Seq(S) /\ Len(Append(t, e)) = Len(t) + 1
      /\ \A i \in 1 .. Len(t) : Append(t, e)[i] = t[i]
  BY AppendProperties
<1>3. Len(s) <= Len(Append(t, e)) /\ \A i \in 1 .. Len(s) : s[i] = Append(t, e)[i]
  BY <1>1, <1>2, LenProperties
<1> QED BY <1>2, <1>3, PrefixIsPointwise

\* A document is a prefix of itself.
LEMMA PrefixOfItself == ASSUME NEW S, NEW s \in Seq(S) PROVE IsPrefix(s, s)
  BY PrefixIsPointwise, LenProperties

-----------------------------------------------------------------------------
(* One document with its receipts.                                         *)

\* What an answer says stays true while its document grows.
LEMMA OriginalStays ==
  ASSUME NEW S, NEW log \in Seq(S), NEW answered \in Seq(S), NEW e \in S,
         NEW client, NEW command, Original(log, answered, client, command)
  PROVE  Original(Append(log, e), answered, client, command)
BY PrefixOfAppend DEF Original

\* The answer to the command that was just appended.
LEMMA OriginalOfAppend ==
  ASSUME NEW S, NEW log \in Seq(S), NEW e \in S
  PROVE  Original(Append(log, e), Append(log, e), e.client, e.command)
<1>1. /\ Append(log, e) \in Seq(S)
      /\ Append(log, e) # <<>>
      /\ Append(log, e)[Len(Append(log, e))] = e
  BY AppendProperties
<1> QED BY <1>1, PrefixOfItself DEF Original, Last

\* A command without a receipt may enter the document with one.
LEMMA SentEntryKeeps ==
  ASSUME NEW S, NEW R, NEW log \in Seq(S), NEW receipts \in [ClientIDs -> R],
         \A x \in ClientIDs : receipts[x].response \in Seq(S),
         Faithful(log, receipts),
         NEW e \in S, e.client \in ClientIDs, e.base = Len(log),
         \A x \in S : x.client \in ClientIDs \cup {NoClient},
         NEW hash, hash = e.command,
         ~Saved(receipts[e.client])
  PROVE  Faithful(Append(log, e),
                  [receipts EXCEPT ![e.client] = [hash |-> hash, response |-> Append(log, e)]])
<1> DEFINE after == Append(log, e)
           kept == [receipts EXCEPT ![e.client] = [hash |-> hash, response |-> after]]
<1>1. /\ after \in Seq(S) /\ after # <<>> /\ Len(after) = Len(log) + 1 /\ Len(log) \in Nat
      /\ \A i \in 1 .. Len(log) : after[i] = log[i]
      /\ after[Len(log) + 1] = e
      /\ DOMAIN log = 1 .. Len(log) /\ DOMAIN after = 1 .. Len(log) + 1
  BY AppendProperties, LenProperties
<1>2. \A i \in 1 .. Len(log) : log[i].client # e.client
  <2>1. ASSUME NEW i \in 1 .. Len(log), log[i].client = e.client, e.client # NoClient PROVE FALSE
    BY <1>1, <2>1 DEF Faithful
  <2>2. CASE e.client = NoClient
    <3>1. ASSUME NEW i \in 1 .. Len(log), log[i].client = e.client PROVE FALSE
      BY StoreAssumption, <2>2 DEF StoreAssumption
    <3> QED BY <3>1
  <2> QED BY <2>1, <2>2
<1>3. Once(after)
  <2>1. \A i, j \in 1 .. Len(log) :
            log[i].client = log[j].client /\ log[i].client # NoClient => i = j
    BY <1>1 DEF Faithful, Once
  <2> QED BY <1>1, <1>2, <2>1 DEF Once
<1>4. Fenced(after)
  <2>1. \A i \in 1 .. Len(log) : log[i].command # "installed" => log[i].base = i - 1
    BY <1>1 DEF Faithful, Fenced
  <2> QED BY <1>1, <2>1 DEF Fenced
<1>5. ASSUME NEW i \in DOMAIN after, after[i].client # NoClient
      PROVE  Saved(kept[after[i].client])
  <2>1. CASE after[i].client = e.client
    BY <1>1, <2>1 DEF Saved
  <2>2. CASE after[i].client # e.client
    <3>1. i \in 1 .. Len(log) /\ after[i] = log[i]
      BY <1>1, <2>2
    <3>2. log[i] \in S
      BY <3>1, ElementOfSeq
    <3>3. kept[after[i].client] = receipts[log[i].client]
      BY <1>5, <2>2, <3>1, <3>2
    <3> QED BY <1>1, <1>5, <3>1, <3>3 DEF Faithful
  <2> QED BY <2>1, <2>2
<1>6. ASSUME NEW c \in ClientIDs, Saved(kept[c])
      PROVE  Original(after, kept[c].response, c, kept[c].hash)
  <2>1. CASE c = e.client
    BY <2>1, OriginalOfAppend
  <2>2. CASE c # e.client
    <3>1. kept[c] = receipts[c]
      BY <2>2
    <3>2. Original(log, receipts[c].response, c, receipts[c].hash)
      BY <1>6, <3>1 DEF Faithful
    <3> QED BY <3>1, <3>2, OriginalStays
  <2> QED BY <2>1, <2>2
<1> QED BY <1>3, <1>4, <1>5, <1>6 DEF Faithful

\* An entry nobody sent leaves the receipts true.
LEMMA UnsentEntryKeeps ==
  ASSUME NEW S, NEW R, NEW log \in Seq(S), NEW receipts \in [ClientIDs -> R],
         \A x \in ClientIDs : receipts[x].response \in Seq(S),
         Faithful(log, receipts), NEW e \in S, e.client = NoClient,
         e.command = "installed" \/ e.base = Len(log)
  PROVE  Faithful(Append(log, e), receipts)
<1> DEFINE after == Append(log, e)
<1>1. /\ after \in Seq(S) /\ Len(log) \in Nat
      /\ \A i \in 1 .. Len(log) : after[i] = log[i]
      /\ after[Len(log) + 1] = e
      /\ DOMAIN log = 1 .. Len(log) /\ DOMAIN after = 1 .. Len(log) + 1
  BY AppendProperties, LenProperties
<1>2. Once(after)
  <2>1. \A i, j \in 1 .. Len(log) :
            log[i].client = log[j].client /\ log[i].client # NoClient => i = j
    BY <1>1 DEF Faithful, Once
  <2> QED BY <1>1, <2>1 DEF Once
<1>3. Fenced(after)
  <2>1. \A i \in 1 .. Len(log) : log[i].command # "installed" => log[i].base = i - 1
    BY <1>1 DEF Faithful, Fenced
  <2> QED BY <1>1, <2>1 DEF Fenced
<1>4. \A i \in DOMAIN after : after[i].client # NoClient => Saved(receipts[after[i].client])
  <2>1. \A i \in 1 .. Len(log) : log[i].client # NoClient => Saved(receipts[log[i].client])
    BY <1>1 DEF Faithful
  <2> QED BY <1>1, <2>1
<1>5. ASSUME NEW c \in ClientIDs, Saved(receipts[c])
      PROVE  Original(after, receipts[c].response, c, receipts[c].hash)
  BY <1>5, OriginalStays DEF Faithful
<1> QED BY <1>2, <1>3, <1>4, <1>5 DEF Faithful

\* A document without entries, and one nobody's command began, needs no receipt.
LEMMA EmptyIsFaithful ==
  ASSUME NEW receipts, \A c \in ClientIDs : receipts[c] = NoReceipt
  PROVE  Faithful(<<>>, receipts)
BY DEF Faithful, Once, Fenced, Saved, NoReceipt

-----------------------------------------------------------------------------
(* The tables.                                                             *)

SomeProductCommand == Codes \cup ProductCommands \cup StartCommands
ProductReceipt == Receipt(SomeProductCommand, ProductEntry)
RunReceipt == Receipt(RunCommands, RunEntry)

\* The rows of the product tables, and what each says of the other.
ProductTables ==
    /\ products \in [ProductIDs -> Seq(ProductEntry)]
    /\ productReceipts \in [ProductIDs -> [ClientIDs -> ProductReceipt]]
    /\ \A p \in ProductIDs : Faithful(products[p], productReceipts[p])

\* Likewise the run tables.
RunTables ==
    /\ runs \in [RunIDs -> Seq(RunEntry)]
    /\ runReceipts \in [RunIDs -> [ClientIDs -> RunReceipt]]
    /\ \A r \in RunIDs : Faithful(runs[r], runReceipts[r])

\* The last answer.
AnswerHolds ==
    /\ reply.product \in Seq(ProductEntry)
    /\ reply.run \in Seq(RunEntry)
    /\ AnswerIsOriginal

\* The inductive invariant, by tables.
LEMMA InvariantByTables == StoreInvariant <=> ProductTables /\ RunTables /\ AnswerHolds
BY DEF StoreInvariant, ProductTables, RunTables, AnswerHolds, TypeOK, ProductReceipt,
       RunReceipt, SomeProductCommand

\* The same after a step.
LEMMA InvariantByTablesNext == StoreInvariant' <=> ProductTables' /\ RunTables' /\ AnswerHolds'
BY DEF StoreInvariant, ProductTables, RunTables, AnswerHolds, TypeOK, ProductReceipt,
       RunReceipt, SomeProductCommand

\* A product command that is written with its receipt keeps the product tables.
LEMMA WriteProductKeeps ==
  ASSUME StoreAssumption, ProductTables, NEW p \in ProductIDs, NEW c \in ClientIDs,
         NEW command \in SomeProductCommand, NEW entry \in ProductEntry,
         entry.client = c, entry.command = command, entry.base = Len(products[p]),
         ~Saved(productReceipts[p][c]), WriteProduct(p, c, command, entry)
  PROVE  /\ ProductTables'
         /\ products'[p] = Append(products[p], entry)
         /\ Original(products'[p], products'[p], c, command)
         /\ products'[p] \in Seq(ProductEntry)
<1> DEFINE log == products[p]
           receipts == productReceipts[p]
           row == [hash |-> command, response |-> Append(log, entry)]
<1>1. /\ log \in Seq(ProductEntry) /\ receipts \in [ClientIDs -> ProductReceipt]
      /\ Faithful(log, receipts)
  BY DEF ProductTables
<1>2. /\ products' = [products EXCEPT ![p] = Append(log, entry)]
      /\ products'[p] = Append(log, entry)
  BY DEF WriteProduct, ProductTables
<1>3. /\ productReceipts' = [productReceipts EXCEPT ![p] = [receipts EXCEPT ![c] = row]]
  BY <1>2 DEF WriteProduct
<1>4. Append(log, entry) \in Seq(ProductEntry) /\ row \in ProductReceipt
  BY <1>1, AppendProperties DEF ProductReceipt, Receipt
<1>5. Faithful(Append(log, entry), [receipts EXCEPT ![c] = row])
  <2>1. \A x \in ClientIDs : receipts[x].response \in Seq(ProductEntry)
    BY <1>1 DEF ProductReceipt, Receipt
  <2>2. \A x \in ProductEntry : x.client \in ClientIDs \cup {NoClient}
    BY DEF ProductEntry
  <2> QED BY <1>1, <2>1, <2>2, SentEntryKeeps
<1>6. \A q \in ProductIDs : Faithful(products'[q], productReceipts'[q])
  <2> TAKE q \in ProductIDs
  <2>1. CASE q = p
    <3>1. products'[q] = Append(log, entry) /\ productReceipts'[q] = [receipts EXCEPT ![c] = row]
      BY <1>2, <1>3, <2>1 DEF ProductTables
    <3> QED BY <1>5, <3>1
  <2>2. CASE q # p
    <3>1. products'[q] = products[q] /\ productReceipts'[q] = productReceipts[q]
      BY <1>2, <1>3, <2>2 DEF ProductTables
    <3> QED BY <3>1 DEF ProductTables
  <2> QED BY <2>1, <2>2
<1>7. products' \in [ProductIDs -> Seq(ProductEntry)]
  BY <1>2, <1>4 DEF ProductTables
<1>8. productReceipts' \in [ProductIDs -> [ClientIDs -> ProductReceipt]]
  BY <1>1, <1>3, <1>4 DEF ProductTables
<1>9. ProductTables'
  BY <1>6, <1>7, <1>8 DEF ProductTables
<1>10. Original(Append(log, entry), Append(log, entry), c, command)
  BY <1>1, OriginalOfAppend
<1> QED BY <1>2, <1>4, <1>9, <1>10

\* A product written without a receipt, by a seed or an installation, keeps them too.
LEMMA UnsentProductKeeps ==
  ASSUME ProductTables, NEW p \in ProductIDs, NEW entry \in ProductEntry,
         entry.client = NoClient, entry.command = "installed" \/ entry.base = Len(products[p]),
         products' = [products EXCEPT ![p] = Append(@, entry)],
         UNCHANGED productReceipts
  PROVE  ProductTables'
<1>1. /\ products[p] \in Seq(ProductEntry) /\ Append(products[p], entry) \in Seq(ProductEntry)
      /\ productReceipts[p] \in [ClientIDs -> ProductReceipt]
      /\ Faithful(products[p], productReceipts[p])
  BY AppendProperties DEF ProductTables
<1>2. \A x \in ClientIDs : productReceipts[p][x].response \in Seq(ProductEntry)
  BY <1>1 DEF ProductReceipt, Receipt
<1>3. Faithful(Append(products[p], entry), productReceipts[p])
  BY <1>1, <1>2, UnsentEntryKeeps
<1>4. \A q \in ProductIDs : Faithful(products'[q], productReceipts[q])
  <2> TAKE q \in ProductIDs
  <2>1. CASE q = p
    <3>1. products'[q] = Append(products[p], entry)
      BY <2>1 DEF ProductTables
    <3> QED BY <1>3, <2>1, <3>1
  <2>2. CASE q # p
    <3>1. products'[q] = products[q]
      BY <2>2 DEF ProductTables
    <3> QED BY <3>1 DEF ProductTables
  <2> QED BY <2>1, <2>2
<1> QED BY <1>1, <1>4 DEF ProductTables

\* A run command written with its receipt keeps the run tables.
LEMMA WriteRunKeeps ==
  ASSUME StoreAssumption, RunTables, NEW r \in RunIDs, NEW c \in ClientIDs,
         NEW command \in RunCommands, NEW entry \in RunEntry,
         entry.client = c, entry.command = command, entry.base = Len(runs[r]),
         ~Saved(runReceipts[r][c]),
         runs' = [runs EXCEPT ![r] = Append(@, entry)],
         runReceipts' = [runReceipts EXCEPT ![r][c] = [hash |-> command, response |-> runs'[r]]]
  PROVE  /\ RunTables'
         /\ Original(runs'[r], runs'[r], c, command)
         /\ runs'[r] \in Seq(RunEntry)
<1> DEFINE log == runs[r]
           receipts == runReceipts[r]
           row == [hash |-> command, response |-> Append(log, entry)]
<1>1. /\ log \in Seq(RunEntry) /\ receipts \in [ClientIDs -> RunReceipt]
      /\ Faithful(log, receipts)
  BY DEF RunTables
<1>2. runs'[r] = Append(log, entry)
  BY DEF RunTables
<1>3. runReceipts' = [runReceipts EXCEPT ![r] = [receipts EXCEPT ![c] = row]]
  BY <1>2
<1>4. Append(log, entry) \in Seq(RunEntry) /\ row \in RunReceipt
  BY <1>1, AppendProperties DEF RunReceipt, Receipt
<1>5. Faithful(Append(log, entry), [receipts EXCEPT ![c] = row])
  <2>1. \A x \in ClientIDs : receipts[x].response \in Seq(RunEntry)
    BY <1>1 DEF RunReceipt, Receipt
  <2>2. \A x \in RunEntry : x.client \in ClientIDs \cup {NoClient}
    BY DEF RunEntry
  <2> QED BY <1>1, <2>1, <2>2, SentEntryKeeps
<1>6. \A q \in RunIDs : Faithful(runs'[q], runReceipts'[q])
  <2> TAKE q \in RunIDs
  <2>1. CASE q = r
    <3>1. runs'[q] = Append(log, entry) /\ runReceipts'[q] = [receipts EXCEPT ![c] = row]
      BY <1>2, <1>3, <2>1 DEF RunTables
    <3> QED BY <1>5, <3>1
  <2>2. CASE q # r
    <3>1. runs'[q] = runs[q] /\ runReceipts'[q] = runReceipts[q]
      BY <1>3, <2>2 DEF RunTables
    <3> QED BY <3>1 DEF RunTables
  <2> QED BY <2>1, <2>2
<1>7. runs' \in [RunIDs -> Seq(RunEntry)] /\ runReceipts' \in [RunIDs -> [ClientIDs -> RunReceipt]]
  BY <1>1, <1>3, <1>4 DEF RunTables
<1>8. RunTables'
  BY <1>6, <1>7 DEF RunTables
<1>9. Original(Append(log, entry), Append(log, entry), c, command)
  BY <1>1, OriginalOfAppend
<1> QED BY <1>2, <1>4, <1>8, <1>9

\* A run that a delivery start creates keeps them too.
LEMMA CreatedRunKeeps ==
  ASSUME RunTables, NEW r \in RunIDs, NEW entry \in RunEntry, entry.client = NoClient,
         entry.base = 0, runs[r] = <<>>, runs' = [runs EXCEPT ![r] = <<entry>>], UNCHANGED runReceipts
  PROVE  RunTables'
<1>1. /\ <<entry>> = Append(<<>>, entry) /\ <<>> \in Seq(RunEntry) /\ <<entry>> \in Seq(RunEntry)
      /\ runReceipts[r] \in [ClientIDs -> RunReceipt] /\ Faithful(<<>>, runReceipts[r])
  BY DEF RunTables
<1>2. \A x \in ClientIDs : runReceipts[r][x].response \in Seq(RunEntry)
  BY <1>1 DEF RunReceipt, Receipt
<1>3. Faithful(<<entry>>, runReceipts[r])
  BY <1>1, <1>2, UnsentEntryKeeps
<1>4. \A q \in RunIDs : Faithful(runs'[q], runReceipts[q])
  <2> TAKE q \in RunIDs
  <2>1. CASE q = r
    <3>1. runs'[q] = <<entry>>
      BY <2>1 DEF RunTables
    <3> QED BY <1>3, <2>1, <3>1
  <2>2. CASE q # r
    <3>1. runs'[q] = runs[q]
      BY <2>2 DEF RunTables
    <3> QED BY <3>1 DEF RunTables
  <2> QED BY <2>1, <2>2
<1> QED BY <1>1, <1>4 DEF RunTables

-----------------------------------------------------------------------------
(* Answers.                                                                *)

\* An answer about a product.
LEMMA ProductAnswered ==
  ASSUME StoreAssumption, NEW p \in ProductIDs, NEW c \in ClientIDs, NEW command,
         NEW log \in Seq(ProductEntry), Original(products'[p], log, c, command),
         ProductReply(p, c, command, log)
  PROVE  AnswerHolds'
<1>1. /\ reply'.on = p /\ reply'.client = c /\ reply'.command = command
      /\ reply'.product = log /\ reply'.run = <<>>
  BY DEF ProductReply, NoReply
<1>2. p \notin RunIDs
  BY DEF StoreAssumption
<1> QED BY <1>1, <1>2 DEF AnswerHolds, AnswerIsOriginal

\* An answer about a product and a run.
LEMMA StartAnswered ==
  ASSUME StoreAssumption, NEW p \in ProductIDs, NEW r \in RunIDs, NEW c \in ClientIDs,
         NEW command, NEW log \in Seq(ProductEntry), NEW runLog \in Seq(RunEntry),
         Original(products'[p], log, c, command), StartReply(p, r, c, command, log, runLog)
  PROVE  AnswerHolds'
<1>1. /\ reply'.on = p /\ reply'.client = c /\ reply'.command = command
      /\ reply'.product = log /\ reply'.run = runLog
  BY DEF StartReply, NoReply
<1>2. p \notin RunIDs
  BY DEF StoreAssumption
<1> QED BY <1>1, <1>2 DEF AnswerHolds, AnswerIsOriginal

\* An answer about a run.
LEMMA RunAnswered ==
  ASSUME StoreAssumption, NEW r \in RunIDs, NEW c \in ClientIDs, NEW command,
         NEW log \in Seq(RunEntry), Original(runs'[r], log, c, command),
         RunReply(r, c, command, log)
  PROVE  AnswerHolds'
<1>1. /\ reply'.on = r /\ reply'.client = c /\ reply'.command = command
      /\ reply'.run = log /\ reply'.product = <<>>
  BY DEF RunReply, NoReply
<1>2. r \notin ProductIDs
  BY DEF StoreAssumption
<1> QED BY <1>1, <1>2 DEF AnswerHolds, AnswerIsOriginal

-----------------------------------------------------------------------------
(* Every operation keeps the invariant.                                    *)

\* The empty database.
LEMMA InitHolds == ASSUME StoreAssumption, Init PROVE StoreInvariant
<1>1. ProductTables
  <2>1. NoReceipt \in ProductReceipt
    BY DEF NoReceipt, ProductReceipt, Receipt
  <2>2. \A p \in ProductIDs : Faithful(products[p], productReceipts[p])
    BY EmptyIsFaithful DEF Init
  <2> QED BY <2>1, <2>2 DEF Init, ProductTables
<1>2. RunTables
  <2>1. NoReceipt \in RunReceipt
    BY DEF NoReceipt, RunReceipt, Receipt
  <2>2. \A r \in RunIDs : Faithful(runs[r], runReceipts[r])
    BY EmptyIsFaithful DEF Init
  <2> QED BY <2>1, <2>2 DEF Init, RunTables
<1>3. AnswerHolds
  <2>1. NoClient \notin ProductIDs \cup RunIDs
    BY DEF StoreAssumption
  <2> QED BY <2>1 DEF Init, NoReply, AnswerHolds, AnswerIsOriginal
<1> QED BY <1>1, <1>2, <1>3, InvariantByTables

\* A receipt answers, and nothing is written.
LEMMA RepeatProductKeeps ==
  ASSUME StoreAssumption, StoreInvariant, NEW p \in ProductIDs, NEW c \in ClientIDs,
         NEW command, RepeatProduct(p, c, command)
  PROVE  StoreInvariant'
<1> USE InvariantByTables
<1>1. ProductTables' /\ RunTables'
  BY DEF RepeatProduct, ProductTables, RunTables
<1>2. /\ productReceipts[p][c].response \in Seq(ProductEntry)
      /\ Original(products'[p], productReceipts[p][c].response, c, command)
  BY DEF RepeatProduct, SavedFor, ProductTables, Faithful, ProductReceipt, Receipt
<1>3. AnswerHolds'
  BY <1>2, ProductAnswered DEF RepeatProduct
<1> QED BY <1>1, <1>3, InvariantByTablesNext

\* A product is created.
LEMMA CreateProductKeeps ==
  ASSUME StoreAssumption, StoreInvariant, NEW p \in ProductIDs, NEW c \in ClientIDs,
         NEW code \in Codes, NEW expected, CreateProduct(p, c, code, expected)
  PROVE  StoreInvariant'
<1> USE InvariantByTables
<1> DEFINE entry == [client |-> c, command |-> code, base |-> expected, run |-> NoRun]
<1>1. entry \in ProductEntry /\ code \in SomeProductCommand
  BY DEF ProductEntry, CreateProduct, SomeProductCommand
<1>2. entry.base = Len(products[p])
  BY DEF CreateProduct
<1>3. /\ ProductTables' /\ products'[p] \in Seq(ProductEntry)
      /\ Original(products'[p], products'[p], c, code)
  BY <1>1, <1>2, WriteProductKeeps DEF CreateProduct
<1>4. AnswerHolds'
  BY <1>3, ProductAnswered DEF CreateProduct
<1>5. RunTables'
  BY DEF CreateProduct, RunTables
<1> QED BY <1>3, <1>4, <1>5, InvariantByTablesNext

\* A product takes a command.
LEMMA TransactProductKeeps ==
  ASSUME StoreAssumption, StoreInvariant, NEW p \in ProductIDs, NEW c \in ClientIDs,
         NEW command \in ProductCommands, NEW expected \in Revisions(products[p]),
         TransactProduct(p, c, command, expected)
  PROVE  StoreInvariant'
<1> USE InvariantByTables
<1> DEFINE entry == [client |-> c, command |-> command, base |-> expected, run |-> NoRun]
<1>1. entry \in ProductEntry /\ command \in SomeProductCommand
  BY DEF ProductEntry, Revisions, SomeProductCommand
<1>2. entry.base = Len(products[p])
  BY DEF TransactProduct, AtRevision
<1>3. /\ ProductTables' /\ products'[p] \in Seq(ProductEntry)
      /\ Original(products'[p], products'[p], c, command)
  BY <1>1, <1>2, WriteProductKeeps DEF TransactProduct
<1>4. AnswerHolds'
  BY <1>3, ProductAnswered DEF TransactProduct
<1>5. RunTables'
  BY DEF TransactProduct, RunTables
<1> QED BY <1>3, <1>4, <1>5, InvariantByTablesNext

\* The receipt of a start answers with a run.
LEMMA RepeatStartKeeps ==
  ASSUME StoreAssumption, StoreInvariant, NEW p \in ProductIDs, NEW r \in RunIDs,
         NEW c \in ClientIDs, NEW command, RepeatStart(p, r, c, command)
  PROVE  StoreInvariant'
<1> USE InvariantByTables
<1>1. ProductTables' /\ RunTables'
  BY DEF RepeatStart, ProductTables, RunTables
<1>2. /\ productReceipts[p][c].response \in Seq(ProductEntry) /\ runs[r] \in Seq(RunEntry)
      /\ Original(products'[p], productReceipts[p][c].response, c, command)
  BY DEF RepeatStart, SavedFor, ProductTables, RunTables, Faithful, ProductReceipt, Receipt
<1>3. AnswerHolds'
  BY <1>2, StartAnswered DEF RepeatStart
<1> QED BY <1>1, <1>3, InvariantByTablesNext

\* A delivery start writes the product with its receipt, and the new run.
LEMMA StartDeliveryKeeps ==
  ASSUME StoreAssumption, StoreInvariant, NEW p \in ProductIDs, NEW r \in RunIDs,
         NEW c \in ClientIDs, NEW command \in StartCommands,
         NEW expected \in Revisions(products[p]), StartDelivery(p, r, c, command, expected)
  PROVE  StoreInvariant'
<1> USE InvariantByTables
<1> DEFINE entry == [client |-> c, command |-> command, base |-> expected, run |-> r]
           first == [client |-> NoClient, command |-> "created", base |-> 0,
                     product |-> p, stage |-> "open"]
<1>1. entry \in ProductEntry /\ command \in SomeProductCommand
  BY DEF ProductEntry, Revisions, SomeProductCommand
<1>2. entry.base = Len(products[p])
  BY DEF StartDelivery, AtRevision
<1>3. /\ ProductTables' /\ products'[p] \in Seq(ProductEntry)
      /\ Original(products'[p], products'[p], c, command)
  BY <1>1, <1>2, WriteProductKeeps DEF StartDelivery
<1>4. first \in RunEntry
  BY DEF RunEntry, Unsent
<1>5. RunTables'
  BY <1>4, CreatedRunKeeps DEF StartDelivery
<1>6. runs'[r] \in Seq(RunEntry)
  BY <1>5 DEF RunTables
<1>7. AnswerHolds'
  BY <1>3, <1>6, StartAnswered DEF StartDelivery
<1> QED BY <1>3, <1>5, <1>7, InvariantByTablesNext

\* The receipt of a run command answers.
LEMMA RepeatTransactKeeps ==
  ASSUME StoreAssumption, StoreInvariant, NEW r \in RunIDs, NEW c \in ClientIDs,
         NEW command, RepeatTransact(r, c, command)
  PROVE  StoreInvariant'
<1> USE InvariantByTables
<1>1. ProductTables' /\ RunTables'
  BY DEF RepeatTransact, ProductTables, RunTables
<1>2. /\ runReceipts[r][c].response \in Seq(RunEntry)
      /\ Original(runs'[r], runReceipts[r][c].response, c, command)
  BY DEF RepeatTransact, SavedFor, RunTables, Faithful, RunReceipt, Receipt
<1>3. AnswerHolds'
  BY <1>2, RunAnswered DEF RepeatTransact
<1> QED BY <1>1, <1>3, InvariantByTablesNext

\* A run takes a command, and its product the installation when it goes live.
LEMMA TransactKeeps ==
  ASSUME StoreAssumption, StoreInvariant, NEW r \in RunIDs, NEW c \in ClientIDs,
         NEW command \in RunCommands, NEW expected \in Revisions(runs[r]),
         NEW stage \in {"open", "live"}, Transact(r, c, command, expected, stage)
  PROVE  StoreInvariant'
<1> USE InvariantByTables
<1> DEFINE p == Last(runs[r]).product
           entry == [client |-> c, command |-> command, base |-> expected,
                     product |-> p, stage |-> stage]
           installed == [client |-> NoClient, command |-> "installed", base |-> 0, run |-> r]
<1>1. p \in ProductIDs
  <2>1. runs[r] \in Seq(RunEntry) /\ runs[r] # <<>>
    BY DEF RunTables, Transact, AtRevision
  <2>2. Last(runs[r]) \in RunEntry
    BY <2>1, EmptySeq, ElementOfSeq DEF Last
  <2> QED BY <2>2 DEF RunEntry
<1>2. entry \in RunEntry
  BY <1>1 DEF RunEntry, Revisions
<1>3. entry.base = Len(runs[r])
  BY DEF Transact, AtRevision
<1>4. RunTables' /\ Original(runs'[r], runs'[r], c, command) /\ runs'[r] \in Seq(RunEntry)
  BY <1>2, <1>3, WriteRunKeeps DEF Transact
<1>5. ProductTables'
  <2>1. CASE stage = "live"
    <3>1. installed \in ProductEntry
      BY DEF ProductEntry, Unsent
    <3>2. products' = [products EXCEPT ![p] = Append(@, installed)] /\ UNCHANGED productReceipts
      BY <2>1 DEF Transact, Install
    <3> QED BY <1>1, <3>1, <3>2, UnsentProductKeeps
  <2>2. CASE stage # "live"
    BY <2>2 DEF Transact, ProductTables
  <2> QED BY <2>1, <2>2
<1>6. AnswerHolds'
  BY <1>4, RunAnswered DEF Transact
<1> QED BY <1>4, <1>5, <1>6, InvariantByTablesNext

\* What is added to a product without a client id keeps the tables and the last answer.
LEMMA UnsentKeeps ==
  ASSUME StoreAssumption, StoreInvariant, NEW p \in ProductIDs, NEW entry \in ProductEntry,
         entry.client = NoClient, entry.base = Len(products[p]),
         products' = [products EXCEPT ![p] = Append(@, entry)],
         UNCHANGED <<runs, productReceipts, runReceipts, reply>>
  PROVE  StoreInvariant'
<1> USE InvariantByTables
<1>1. ProductTables'
  BY UnsentProductKeeps
<1>2. RunTables'
  BY DEF RunTables
<1>3. AnswerHolds'
  <2>1. reply' = reply /\ reply.product \in Seq(ProductEntry) /\ reply.run \in Seq(RunEntry)
    BY DEF AnswerHolds
  <2>2. ASSUME reply.on \in ProductIDs
        PROVE  Original(products'[reply.on], reply.product, reply.client, reply.command)
    <3>1. Original(products[reply.on], reply.product, reply.client, reply.command)
      BY <2>2 DEF AnswerHolds, AnswerIsOriginal
    <3>2. CASE reply.on = p
      <4>1. products'[p] = Append(products[p], entry) /\ products[p] \in Seq(ProductEntry)
        BY DEF ProductTables
      <4>2. Original(Append(products[p], entry), reply.product, reply.client, reply.command)
        BY <2>1, <3>1, <3>2, <4>1, OriginalStays
      <4> QED BY <3>2, <4>1, <4>2
    <3>3. CASE reply.on # p
      <4>1. products'[reply.on] = products[reply.on]
        BY <2>2, <3>3 DEF ProductTables
      <4> QED BY <3>1, <4>1
    <3> QED BY <3>2, <3>3
  <2>3. reply.on \in RunIDs =>
            Original(runs'[reply.on], reply.run, reply.client, reply.command)
    BY DEF AnswerHolds, AnswerIsOriginal
  <2> QED BY <2>1, <2>2, <2>3 DEF AnswerHolds, AnswerIsOriginal
<1> QED BY <1>1, <1>2, <1>3, InvariantByTablesNext

\* An attachment adds to its product what no receipt speaks of.
LEMMA WriteAttachmentsKeeps ==
  ASSUME StoreAssumption, StoreInvariant, NEW p \in ProductIDs,
         NEW expected \in Revisions(products[p]), WriteAttachments(p, expected)
  PROVE  StoreInvariant'
<1> DEFINE entry == [client |-> NoClient, command |-> "attachment", base |-> expected, run |-> NoRun]
<1>1. entry \in ProductEntry /\ entry.base = Len(products[p])
  BY DEF ProductEntry, Unsent, Revisions, WriteAttachments, AtRevision
<1> QED BY <1>1, UnsentKeeps DEF WriteAttachments

\* A seed finds no row, or leaves the row alone.
LEMMA EnsureProductKeeps ==
  ASSUME StoreAssumption, StoreInvariant, EnsureProduct
  PROVE  StoreInvariant'
<1> DEFINE entry == [client |-> NoClient, command |-> DemoCode, base |-> 0, run |-> NoRun]
<1>1. /\ entry \in ProductEntry /\ DemoProduct \in ProductIDs
      /\ entry.base = Len(products[DemoProduct])
  BY DEF ProductEntry, StoreAssumption, EnsureProduct
<1>2. products' = [products EXCEPT ![DemoProduct] = Append(@, entry)]
  BY DEF EnsureProduct
<1> QED BY <1>1, <1>2, UnsentKeeps DEF EnsureProduct

\* Every step of the store.
LEMMA NextKeeps == ASSUME StoreAssumption, StoreInvariant, [Next]_vars PROVE StoreInvariant'
<1>1. ASSUME NEW p \in ProductIDs, NEW c \in ClientIDs, ProductRequest(p, c)
      PROVE  StoreInvariant'
  BY <1>1, RepeatProductKeeps, CreateProductKeeps, TransactProductKeeps DEF ProductRequest
<1>2. ASSUME NEW p \in ProductIDs, NEW r \in RunIDs, NEW c \in ClientIDs, StartRequest(p, r, c)
      PROVE  StoreInvariant'
  BY <1>2, RepeatStartKeeps, StartDeliveryKeeps DEF StartRequest
<1>3. ASSUME NEW r \in RunIDs, NEW c \in ClientIDs, RunRequest(r, c)
      PROVE  StoreInvariant'
  BY <1>3, RepeatTransactKeeps, TransactKeeps DEF RunRequest
<1>4. CASE EnsureProduct
  BY <1>4, EnsureProductKeeps
<1>5. ASSUME NEW p \in ProductIDs, NEW expected \in Revisions(products[p]),
             WriteAttachments(p, expected)
      PROVE  StoreInvariant'
  BY <1>5, WriteAttachmentsKeeps
<1>6. CASE UNCHANGED vars
  BY <1>6 DEF vars, StoreInvariant, TypeOK, AnswerIsOriginal
<1> QED BY <1>1, <1>2, <1>3, <1>4, <1>5, <1>6 DEF Next

\* No receipt is ever missing, wrong or overtaken by its document, whatever requests
\* arrive in whatever order (store.go:243, :568).
THEOREM StoreHolds == Spec => []StoreInvariant
<1>1. Init => StoreInvariant
  BY StoreAssumption, InitHolds
<1>2. StoreInvariant /\ [Next]_vars => StoreInvariant'
  BY StoreAssumption, NextKeeps
<1> QED BY <1>1, <1>2, PTL DEF Spec

\* Documents, receipts and answers keep the types of their rows.
THEOREM StoreTypeCorrect == Spec => []TypeOK
<1>1. StoreInvariant => TypeOK
  BY DEF StoreInvariant
<1> QED BY <1>1, StoreHolds, PTL

\* A command that is sent any number of times enters its document at most once.
THEOREM CommandsApplyOnce == Spec => []AppliedOnce
<1>1. StoreInvariant => AppliedOnce
  BY DEF StoreInvariant, Faithful, AppliedOnce
<1> QED BY <1>1, StoreHolds, PTL

\* Every command in a document was sent by a reader of the document before it.
THEOREM NoUpdateIsLost == Spec => []NoLostUpdate
<1>1. StoreInvariant => NoLostUpdate
  BY DEF StoreInvariant, Faithful, NoLostUpdate
<1> QED BY <1>1, StoreHolds, PTL

\* Every answer, the first and the repeated ones, is the document up to its command.
THEOREM AnswersAreOriginal == Spec => []AnswerIsOriginal
<1>1. StoreInvariant => AnswerIsOriginal
  BY DEF StoreInvariant
<1> QED BY <1>1, StoreHolds, PTL

\* A table whose rows grow by at most one entry keeps the history of each row.
LEMMA TableGrows ==
  ASSUME NEW IDs, NEW S, NEW table \in [IDs -> Seq(S)], NEW x \in IDs, NEW e \in S
  PROVE  \A y \in IDs : IsPrefix(table[y], [table EXCEPT ![x] = Append(@, e)][y])
<1> TAKE y \in IDs
<1>1. IsPrefix(table[y], table[y])
  BY PrefixOfItself
<1>2. IsPrefix(table[y], Append(table[y], e))
  BY <1>1, PrefixOfAppend
<1>3. CASE y = x
  BY <1>2, <1>3
<1>4. CASE y # x
  BY <1>1, <1>4
<1> QED BY <1>3, <1>4

\* Each table grows in this sense, or is left alone.
Grows(before, after) == \A x \in DOMAIN before : IsPrefix(before[x], after[x])

\* A table that is left alone.
LEMMA UnchangedGrows == ASSUME NEW IDs, NEW S, NEW table \in [IDs -> Seq(S)] PROVE Grows(table, table)
BY PrefixOfItself DEF Grows

\* A table one row of which takes an entry.
LEMMA AppendGrows ==
  ASSUME NEW IDs, NEW S, NEW table \in [IDs -> Seq(S)], NEW x \in IDs, NEW e \in S
  PROVE  Grows(table, [table EXCEPT ![x] = Append(@, e)])
BY TableGrows DEF Grows

\* No step of the store takes back or reorders what is written.
LEMMA NextGrows ==
  ASSUME StoreAssumption, TypeOK, [Next]_vars
  PROVE  Grows(products, products') /\ Grows(runs, runs')
<1>1. products \in [ProductIDs -> Seq(ProductEntry)] /\ runs \in [RunIDs -> Seq(RunEntry)]
  BY DEF TypeOK
<1>2. Grows(products, products) /\ Grows(runs, runs)
  BY <1>1, UnchangedGrows
<1>3. ASSUME NEW p \in ProductIDs, NEW c \in ClientIDs, ProductRequest(p, c)
      PROVE  Grows(products, products') /\ Grows(runs, runs')
  <2>1. ASSUME NEW command, RepeatProduct(p, c, command)
        PROVE  UNCHANGED <<products, runs>>
    BY <2>1 DEF RepeatProduct
  <2>2. ASSUME NEW code \in Codes, NEW expected \in Revisions(products[p]),
               CreateProduct(p, c, code, expected)
        PROVE  Grows(products, products') /\ UNCHANGED runs
    <3> DEFINE entry == [client |-> c, command |-> code, base |-> expected, run |-> NoRun]
    <3>1. entry \in ProductEntry
      BY DEF ProductEntry, Revisions
    <3>2. products' = [products EXCEPT ![p] = Append(@, entry)] /\ UNCHANGED runs
      BY <2>2 DEF CreateProduct, WriteProduct
    <3> QED BY <1>1, <3>1, <3>2, AppendGrows
  <2>3. ASSUME NEW command \in ProductCommands, NEW expected \in Revisions(products[p]),
               TransactProduct(p, c, command, expected)
        PROVE  Grows(products, products') /\ UNCHANGED runs
    <3> DEFINE entry == [client |-> c, command |-> command, base |-> expected, run |-> NoRun]
    <3>1. entry \in ProductEntry
      BY DEF ProductEntry, Revisions
    <3>2. products' = [products EXCEPT ![p] = Append(@, entry)] /\ UNCHANGED runs
      BY <2>3 DEF TransactProduct, WriteProduct
    <3> QED BY <1>1, <3>1, <3>2, AppendGrows
  <2> QED BY <1>2, <1>3, <2>1, <2>2, <2>3 DEF ProductRequest
<1>4. ASSUME NEW p \in ProductIDs, NEW r \in RunIDs, NEW c \in ClientIDs, StartRequest(p, r, c)
      PROVE  Grows(products, products') /\ Grows(runs, runs')
  <2>1. ASSUME NEW command, RepeatStart(p, r, c, command)
        PROVE  UNCHANGED <<products, runs>>
    BY <2>1 DEF RepeatStart
  <2>2. ASSUME NEW command \in StartCommands, NEW expected \in Revisions(products[p]),
               StartDelivery(p, r, c, command, expected)
        PROVE  Grows(products, products') /\ Grows(runs, runs')
    <3> DEFINE entry == [client |-> c, command |-> command, base |-> expected, run |-> r]
               first == [client |-> NoClient, command |-> "created", base |-> 0,
                         product |-> p, stage |-> "open"]
    <3>1. entry \in ProductEntry /\ first \in RunEntry
      BY DEF ProductEntry, Revisions, RunEntry, Unsent
    <3>2. products' = [products EXCEPT ![p] = Append(@, entry)]
      BY <2>2 DEF StartDelivery, WriteProduct
    <3>3. runs[r] = <<>> /\ runs' = [runs EXCEPT ![r] = <<first>>]
      BY <2>2 DEF StartDelivery
    <3>4. Append(<<>>, first) = <<first>>
      OBVIOUS
    <3>5. runs' = [runs EXCEPT ![r] = Append(@, first)]
      BY <3>3, <3>4
    <3> QED BY <1>1, <3>1, <3>2, <3>5, AppendGrows
  <2> QED BY <1>2, <1>4, <2>1, <2>2 DEF StartRequest
<1>5. ASSUME NEW r \in RunIDs, NEW c \in ClientIDs, RunRequest(r, c)
      PROVE  Grows(products, products') /\ Grows(runs, runs')
  <2>1. ASSUME NEW command, RepeatTransact(r, c, command)
        PROVE  UNCHANGED <<products, runs>>
    BY <2>1 DEF RepeatTransact
  <2>2. ASSUME NEW command \in RunCommands, NEW expected \in Revisions(runs[r]),
               NEW stage \in {"open", "live"}, Transact(r, c, command, expected, stage)
        PROVE  Grows(products, products') /\ Grows(runs, runs')
    <3> DEFINE p == Last(runs[r]).product
               entry == [client |-> c, command |-> command, base |-> expected,
                         product |-> p, stage |-> stage]
               installed == [client |-> NoClient, command |-> "installed", base |-> 0, run |-> r]
    <3>1. p \in ProductIDs
      <4>1. runs[r] \in Seq(RunEntry) /\ runs[r] # <<>>
        BY <1>1, <2>2 DEF Transact, AtRevision
      <4>2. Last(runs[r]) \in RunEntry
        BY <4>1, EmptySeq, ElementOfSeq DEF Last
      <4> QED BY <4>2 DEF RunEntry
    <3>2. entry \in RunEntry /\ installed \in ProductEntry
      BY <3>1 DEF RunEntry, ProductEntry, Unsent, Revisions
    <3>3. runs' = [runs EXCEPT ![r] = Append(@, entry)]
      BY <2>2 DEF Transact
    <3>4. products' = products \/ products' = [products EXCEPT ![p] = Append(@, installed)]
      BY <2>2 DEF Transact, Install
    <3>5. Grows(runs, runs')
      BY <1>1, <3>2, <3>3, AppendGrows
    <3>6. CASE products' = products
      BY <1>2, <3>5, <3>6
    <3>7. CASE products' = [products EXCEPT ![p] = Append(@, installed)]
      <4> HIDE DEF p, installed
      <4>1. Grows(products, [products EXCEPT ![p] = Append(@, installed)])
        BY <1>1, <3>1, <3>2, AppendGrows
      <4> QED BY <3>5, <3>7, <4>1
    <3> QED BY <3>4, <3>6, <3>7
  <2> QED BY <1>2, <1>5, <2>1, <2>2 DEF RunRequest
<1>6. CASE EnsureProduct
  <2> DEFINE entry == [client |-> NoClient, command |-> DemoCode, base |-> 0, run |-> NoRun]
  <2>1. entry \in ProductEntry /\ DemoProduct \in ProductIDs
    BY DEF ProductEntry, StoreAssumption
  <2>2. products' = [products EXCEPT ![DemoProduct] = Append(@, entry)] /\ UNCHANGED runs
    BY <1>6 DEF EnsureProduct
  <2> QED BY <1>1, <1>2, <2>1, <2>2, AppendGrows
<1>7. ASSUME NEW p \in ProductIDs, NEW expected \in Revisions(products[p]),
             WriteAttachments(p, expected)
      PROVE  Grows(products, products') /\ Grows(runs, runs')
  <2> DEFINE entry == [client |-> NoClient, command |-> "attachment", base |-> expected, run |-> NoRun]
  <2>1. entry \in ProductEntry
    BY DEF ProductEntry, Unsent, Revisions
  <2>2. products' = [products EXCEPT ![p] = Append(@, entry)] /\ UNCHANGED runs
    BY <1>7 DEF WriteAttachments
  <2> QED BY <1>1, <1>2, <2>1, <2>2, AppendGrows
<1>8. CASE UNCHANGED vars
  BY <1>2, <1>8 DEF vars
<1> QED BY <1>3, <1>4, <1>5, <1>6, <1>7, <1>8 DEF Next

\* What is written stays: documents only ever grow at their end, seeds and
\* installations included.
THEOREM HistoryStands == Spec => HistoryOnlyGrows
<1>1. TypeOK /\ [Next]_vars =>
          [/\ \A p \in ProductIDs : IsPrefix(products[p], products'[p])
           /\ \A r \in RunIDs : IsPrefix(runs[r], runs'[r])]_vars
  BY StoreAssumption, NextGrows DEF Grows, TypeOK
<1> QED BY <1>1, StoreTypeCorrect, PTL DEF Spec, HistoryOnlyGrows

-----------------------------------------------------------------------------
(* Runs and the books of their products.                                   *)

\* What RunsAreBooked says of one run and one product: book and log are their documents.
Places(book, r, commands) ==
  {i \in DOMAIN book : book[i].run = r /\ book[i].command \in commands}
Started(book, r) == Places(book, r, StartCommands)
Installed(book, r) == Places(book, r, {"installed"})
Own(p, log) == log # <<>> /\ Last(log).product = p
Books(p, book, r, log) ==
  /\ IF Own(p, log) THEN ExactlyOne(Started(book, r)) ELSE Started(book, r) = {}
  /\ IF Own(p, log) /\ Live(log) THEN ExactlyOne(Installed(book, r)) ELSE Installed(book, r) = {}
  /\ \A i \in Started(book, r), j \in Installed(book, r) : i < j

\* The property is what it says of each of them, before and after a step.
LEMMA BooksOfAll ==
  /\ RunsAreBooked <=> \A r \in RunIDs, p \in ProductIDs : Books(p, products[p], r, runs[r])
  /\ RunsAreBooked' <=> \A r \in RunIDs, p \in ProductIDs : Books(p, products'[p], r, runs'[r])
BY DEF RunsAreBooked, Books, Own, Started, Installed, Booked, Places

\* An entry in the book of a product is one more for the run and the command it is of.
LEMMA PlacesOfAppend ==
  ASSUME NEW book \in Seq(ProductEntry), NEW entry \in ProductEntry, NEW r
  PROVE  /\ Started(Append(book, entry), r) =
               IF entry.run = r /\ entry.command \in StartCommands
               THEN Started(book, r) \cup {Len(book) + 1} ELSE Started(book, r)
         /\ Installed(Append(book, entry), r) =
               IF entry.run = r /\ entry.command = "installed"
               THEN Installed(book, r) \cup {Len(book) + 1} ELSE Installed(book, r)
<1>1. /\ \A i \in 1 .. Len(book) : Append(book, entry)[i] = book[i]
      /\ Append(book, entry)[Len(book) + 1] = entry
      /\ DOMAIN book = 1 .. Len(book) /\ Len(book) \in Nat
      /\ DOMAIN Append(book, entry) = 1 .. Len(book) + 1
  BY AppendProperties, LenProperties
<1> QED BY <1>1 DEF Places, Started, Installed

\* The write of one entry to the book of product x.
Entered(x, entry) ==
  /\ products'[x] = Append(products[x], entry)
  /\ \A p \in ProductIDs \ {x} : products'[p] = products[p]

\* So it is in the books of all products, and only one of them takes the entry.
LEMMA BookedOfAppend ==
  ASSUME TypeOK, NEW p \in ProductIDs, NEW x \in ProductIDs, NEW entry \in ProductEntry,
         Entered(x, entry), NEW r
  PROVE  /\ Started(products'[p], r) =
               IF p = x /\ entry.run = r /\ entry.command \in StartCommands
               THEN Started(products[p], r) \cup {Len(products[p]) + 1}
               ELSE Started(products[p], r)
         /\ Installed(products'[p], r) =
               IF p = x /\ entry.run = r /\ entry.command = "installed"
               THEN Installed(products[p], r) \cup {Len(products[p]) + 1}
               ELSE Installed(products[p], r)
<1>1. /\ products[p] \in Seq(ProductEntry)
      /\ products'[p] = IF p = x THEN Append(products[p], entry) ELSE products[p]
  BY DEF TypeOK, Entered
<1>2. /\ Started(Append(products[p], entry), r) =
            IF entry.run = r /\ entry.command \in StartCommands
            THEN Started(products[p], r) \cup {Len(products[p]) + 1} ELSE Started(products[p], r)
      /\ Installed(Append(products[p], entry), r) =
            IF entry.run = r /\ entry.command = "installed"
            THEN Installed(products[p], r) \cup {Len(products[p]) + 1} ELSE Installed(products[p], r)
  BY <1>1, PlacesOfAppend, Zenon
<1>3. CASE p = x
  <2>1. products'[p] = Append(products[p], entry)
    BY <1>1, <1>3
  <2> QED BY <1>2, <1>3, <2>1
<1>4. CASE p # x
  <2>1. products'[p] = products[p]
    BY <1>1, <1>4
  <2> QED BY <1>4, <2>1
<1> QED BY <1>3, <1>4

\* What is booked is a place in the book.
LEMMA BookedIsBefore ==
  ASSUME TypeOK, NEW p \in ProductIDs, NEW r \in RunIDs, NEW commands,
         NEW i \in Places(products[p], r, commands)
  PROVE  i \in Nat /\ i < Len(products[p]) + 1 /\ Len(products[p]) \in Nat
<1>1. products[p] \in Seq(ProductEntry)
  BY DEF TypeOK
<1> QED BY <1>1, LenProperties DEF Places

\* An entry that names no run leaves the books of all runs as they are.
LEMMA OtherEntryKeepsBooks ==
  ASSUME StoreAssumption, TypeOK, RunsAreBooked, NEW x \in ProductIDs,
         NEW entry \in ProductEntry, entry.run = NoRun,
         Entered(x, entry), UNCHANGED runs
  PROVE  RunsAreBooked'
<1> SUFFICES ASSUME NEW r \in RunIDs, NEW p \in ProductIDs PROVE Books(p, products'[p], r, runs'[r])
  BY BooksOfAll
<1>1. entry.run # r
  BY DEF StoreAssumption
<1>2. Started(products'[p], r) = Started(products[p], r) /\ Installed(products'[p], r) = Installed(products[p], r)
  BY <1>1, BookedOfAppend
<1>3. Own(p, runs'[r]) = Own(p, runs[r]) /\ Live(runs'[r]) = Live(runs[r])
  BY DEF Own, Live
<1> QED BY <1>2, <1>3, BooksOfAll DEF Books, ExactlyOne

\* The start of a delivery.
LEMMA StartKeepsBooks ==
  ASSUME StoreAssumption, TypeOK, RunsAreBooked, NEW x \in ProductIDs, NEW s \in RunIDs,
         NEW c \in ClientIDs, NEW command \in StartCommands,
         NEW expected \in Revisions(products[x]), StartDelivery(x, s, c, command, expected)
  PROVE  RunsAreBooked'
<1> DEFINE entry == [client |-> c, command |-> command, base |-> expected, run |-> s]
           first == [client |-> NoClient, command |-> "created", base |-> 0,
                     product |-> x, stage |-> "open"]
<1>1. entry \in ProductEntry /\ entry.run = s /\ entry.command = command
  BY DEF ProductEntry, Revisions
<1>2. Entered(x, entry)
  BY DEF StartDelivery, WriteProduct, TypeOK, Entered
<1>3. runs[s] = <<>> /\ runs' = [runs EXCEPT ![s] = <<first>>] /\ s \in DOMAIN runs
  BY DEF StartDelivery, TypeOK
<1> SUFFICES ASSUME NEW r \in RunIDs, NEW p \in ProductIDs PROVE Books(p, products'[p], r, runs'[r])
  BY BooksOfAll
<1>4. Books(p, products[p], r, runs[r])
  BY BooksOfAll
<1> HIDE DEF entry
<1>5. Installed(products'[p], r) = Installed(products[p], r)
  <2>1. command # "installed"
    BY DEF StoreAssumption
  <2> QED BY <1>1, <1>2, <2>1, BookedOfAppend
<1>6. Started(products'[p], r) = IF p = x /\ r = s THEN Started(products[p], r) \cup {Len(products[p]) + 1}
          ELSE Started(products[p], r)
  BY <1>1, <1>2, BookedOfAppend
<1>7. CASE r # s
  <2>1. runs'[r] = runs[r]
    BY <1>3, <1>7 DEF TypeOK
  <2>2. Own(p, runs'[r]) = Own(p, runs[r]) /\ Live(runs'[r]) = Live(runs[r])
    BY <2>1 DEF Own, Live
  <2> QED BY <1>4, <1>5, <1>6, <1>7, <2>2 DEF Books, ExactlyOne
<1>8. CASE r = s
  <2>1. ~Own(p, runs[r]) /\ Started(products[p], r) = {} /\ Installed(products[p], r) = {}
    BY <1>3, <1>4, <1>8 DEF Own, Books
  <2>2. runs'[r] = <<first>>
    BY <1>3, <1>8 DEF TypeOK
  <2>3. Own(p, runs'[r]) <=> p = x
    BY <2>2 DEF Own, Last
  <2>4. ~Live(runs'[r])
    BY <2>2 DEF Live, Last
  <2> QED BY <1>5, <1>6, <1>8, <2>1, <2>3, <2>4 DEF Books, ExactlyOne
<1> QED BY <1>7, <1>8

\* A command to a run, and the installation of one that goes live.
LEMMA TransactKeepsBooks ==
  ASSUME StoreAssumption, TypeOK, RunsAreBooked, NEW s \in RunIDs, NEW c \in ClientIDs,
         NEW command \in RunCommands, NEW expected \in Revisions(runs[s]),
         NEW stage \in {"open", "live"}, Transact(s, c, command, expected, stage)
  PROVE  RunsAreBooked'
<1> DEFINE x == Last(runs[s]).product
           entry == [client |-> c, command |-> command, base |-> expected,
                     product |-> x, stage |-> stage]
           installation == [client |-> NoClient, command |-> "installed", base |-> 0, run |-> s]
<1>1. runs[s] \in Seq(RunEntry) /\ runs[s] # <<>>
  BY DEF TypeOK, Transact, AtRevision
<1>2. x \in ProductIDs
  <2>1. Last(runs[s]) \in RunEntry
    BY <1>1, EmptySeq, ElementOfSeq DEF Last
  <2> QED BY <2>1 DEF RunEntry
<1>3. installation \in ProductEntry /\ installation.run = s /\ installation.command = "installed"
  BY DEF ProductEntry, Unsent
<1>4. runs'[s] = Append(runs[s], entry) /\ \A r \in RunIDs \ {s} : runs'[r] = runs[r]
  BY DEF Transact, TypeOK
<1>5. runs'[s] # <<>> /\ Last(runs'[s]) = entry
  <2>1. entry \in RunEntry
    BY <1>2 DEF RunEntry, Revisions
  <2> QED BY <1>1, <1>4, <2>1, AppendProperties DEF Last
<1>6. ~Live(runs[s]) /\ (Live(runs'[s]) <=> stage = "live")
  BY <1>5 DEF Transact, Live
<1>7. \A p \in ProductIDs : (Own(p, runs[s]) <=> p = x) /\ (Own(p, runs'[s]) <=> p = x)
  BY <1>1, <1>5 DEF Own
<1>8. IF stage = "live" THEN Entered(x, installation) ELSE products' = products
  BY <1>2 DEF Transact, Install, TypeOK, Entered
<1> HIDE DEF x, entry, installation
<1> SUFFICES ASSUME NEW r \in RunIDs, NEW p \in ProductIDs PROVE Books(p, products'[p], r, runs'[r])
  BY BooksOfAll
<1>9. Books(p, products[p], r, runs[r])
  BY BooksOfAll
<1>10. CASE stage # "live"
  <2>1. Started(products'[p], r) = Started(products[p], r) /\ Installed(products'[p], r) = Installed(products[p], r)
    BY <1>8, <1>10 DEF Started, Installed
  <2>2. CASE r = s
    BY <1>6, <1>7, <1>9, <1>10, <2>1, <2>2 DEF Books, ExactlyOne
  <2>3. CASE r # s
    <3>1. Own(p, runs'[r]) = Own(p, runs[r]) /\ Live(runs'[r]) = Live(runs[r])
      BY <1>4, <2>3 DEF Own, Live
    <3> QED BY <1>9, <2>1, <3>1 DEF Books, ExactlyOne
  <2> QED BY <2>2, <2>3
<1>11. CASE stage = "live"
  <2>1. Started(products'[p], r) = Started(products[p], r)
    <3>1. "installed" \notin StartCommands
      BY DEF StoreAssumption
    <3> QED BY <1>2, <1>3, <1>8, <1>11, <3>1, BookedOfAppend
  <2>2. Installed(products'[p], r) =
          IF p = x /\ r = s THEN Installed(products[p], r) \cup {Len(products[p]) + 1}
          ELSE Installed(products[p], r)
    <3>1. Installed(products'[p], r) =
            IF p = x /\ installation.run = r /\ installation.command = "installed"
            THEN Installed(products[p], r) \cup {Len(products[p]) + 1}
            ELSE Installed(products[p], r)
      <4>1. Entered(x, installation)
        BY <1>8, <1>11
      <4>2. installation \in ProductEntry
        BY <1>3
      <4> QED BY <1>2, <4>1, <4>2, BookedOfAppend, ZenonT(30)
    <3> QED BY <1>3, <3>1
  <2>3. CASE r # s
    <3>1. Own(p, runs'[r]) = Own(p, runs[r]) /\ Live(runs'[r]) = Live(runs[r])
      BY <1>4, <2>3 DEF Own, Live
    <3> QED BY <1>9, <2>1, <2>2, <2>3, <3>1 DEF Books, ExactlyOne
  <2>4. CASE r = s /\ p # x
    BY <1>7, <1>9, <2>1, <2>2, <2>4 DEF Books
  <2>5. CASE r = s /\ p = x
    <3>1. Installed(products[p], r) = {} /\ ExactlyOne(Started(products[p], r))
      BY <1>6, <1>7, <1>9, <2>5 DEF Books
    <3>2. Installed(products'[p], r) = {Len(products[p]) + 1}
      BY <2>2, <2>5, <3>1
    <3>3. \A i \in Started(products[p], r) : i < Len(products[p]) + 1
      BY BookedIsBefore DEF Started
    <3>4. Own(p, runs'[r]) /\ Live(runs'[r])
      BY <1>6, <1>7, <1>11, <2>5
    <3>5. ExactlyOne(Started(products'[p], r)) /\ ExactlyOne(Installed(products'[p], r))
      BY <2>1, <3>1, <3>2 DEF ExactlyOne
    <3> QED BY <2>1, <3>2, <3>3, <3>4, <3>5 DEF Books, ExactlyOne
  <2> QED BY <2>3, <2>4, <2>5
<1> QED BY <1>10, <1>11

\* Every step of the store keeps the books.
LEMMA NextKeepsBooks ==
  ASSUME StoreAssumption, TypeOK, RunsAreBooked, [Next]_vars
  PROVE  RunsAreBooked'
<1>1. ASSUME UNCHANGED <<products, runs>> PROVE RunsAreBooked'
  <2>1. products' = products /\ runs' = runs
    BY <1>1
  <2> QED BY <2>1, BooksOfAll
<1>2. ASSUME NEW p \in ProductIDs, NEW c \in ClientIDs, ProductRequest(p, c)
      PROVE  RunsAreBooked'
  <2>1. ASSUME NEW command, RepeatProduct(p, c, command) PROVE RunsAreBooked'
    BY <1>1, <2>1 DEF RepeatProduct
  <2>2. ASSUME NEW code \in Codes, NEW expected \in Revisions(products[p]),
               CreateProduct(p, c, code, expected)
        PROVE  RunsAreBooked'
    <3> DEFINE entry == [client |-> c, command |-> code, base |-> expected, run |-> NoRun]
    <3>1. entry \in ProductEntry /\ entry.run = NoRun
      BY DEF ProductEntry, Revisions
    <3>2. Entered(p, entry) /\ UNCHANGED runs
      BY <2>2 DEF CreateProduct, WriteProduct, TypeOK, Entered
    <3> QED BY <3>1, <3>2, OtherEntryKeepsBooks
  <2>3. ASSUME NEW command \in ProductCommands, NEW expected \in Revisions(products[p]),
               TransactProduct(p, c, command, expected)
        PROVE  RunsAreBooked'
    <3> DEFINE entry == [client |-> c, command |-> command, base |-> expected, run |-> NoRun]
    <3>1. entry \in ProductEntry /\ entry.run = NoRun
      BY DEF ProductEntry, Revisions
    <3>2. Entered(p, entry) /\ UNCHANGED runs
      BY <2>3 DEF TransactProduct, WriteProduct, TypeOK, Entered
    <3> QED BY <3>1, <3>2, OtherEntryKeepsBooks
  <2> QED BY <1>2, <2>1, <2>2, <2>3 DEF ProductRequest
<1>3. ASSUME NEW p \in ProductIDs, NEW r \in RunIDs, NEW c \in ClientIDs, StartRequest(p, r, c)
      PROVE  RunsAreBooked'
  <2>1. ASSUME NEW command, RepeatStart(p, r, c, command) PROVE RunsAreBooked'
    BY <1>1, <2>1 DEF RepeatStart
  <2> QED BY <1>3, <2>1, StartKeepsBooks DEF StartRequest
<1>4. ASSUME NEW r \in RunIDs, NEW c \in ClientIDs, RunRequest(r, c) PROVE RunsAreBooked'
  <2>1. ASSUME NEW command, RepeatTransact(r, c, command) PROVE RunsAreBooked'
    BY <1>1, <2>1 DEF RepeatTransact
  <2> QED BY <1>4, <2>1, TransactKeepsBooks DEF RunRequest
<1>5. CASE EnsureProduct
  <2> DEFINE entry == [client |-> NoClient, command |-> DemoCode, base |-> 0, run |-> NoRun]
  <2>1. entry \in ProductEntry /\ DemoProduct \in ProductIDs /\ entry.run = NoRun
    BY DEF ProductEntry, StoreAssumption
  <2>2. Entered(DemoProduct, entry) /\ UNCHANGED runs
    BY <1>5, <2>1 DEF EnsureProduct, TypeOK, Entered
  <2> QED BY <2>1, <2>2, OtherEntryKeepsBooks
<1>6. ASSUME NEW p \in ProductIDs, NEW expected \in Revisions(products[p]),
             WriteAttachments(p, expected)
      PROVE  RunsAreBooked'
  <2> DEFINE entry == [client |-> NoClient, command |-> "attachment", base |-> expected, run |-> NoRun]
  <2>1. entry \in ProductEntry /\ entry.run = NoRun
    BY DEF ProductEntry, Unsent, Revisions
  <2>2. Entered(p, entry) /\ UNCHANGED runs
    BY <1>6 DEF WriteAttachments, TypeOK, Entered
  <2> QED BY <2>1, <2>2, OtherEntryKeepsBooks
<1>7. CASE UNCHANGED vars
  BY <1>1, <1>7 DEF vars
<1> QED BY <1>2, <1>3, <1>4, <1>5, <1>6, <1>7 DEF Next

\* A run and its product never disagree about its start and its installation, whatever
\* fails, is repeated or comes too late in between: both are one transaction each.
THEOREM BooksAgree == Spec => []RunsAreBooked
<1>1. Init => RunsAreBooked
  BY DEF Init, RunsAreBooked, Booked, Live
<1>2. TypeOK /\ RunsAreBooked /\ [Next]_vars => RunsAreBooked'
  BY StoreAssumption, NextKeepsBooks
<1> QED BY <1>1, <1>2, StoreTypeCorrect, PTL DEF Spec

-----------------------------------------------------------------------------
(* The store implements CommandLedger: seen as lists of commands and answers,  *)
(* every step of it accepts a command, with its consequence in a second        *)
(* document, tells an answer again, plants an entry nobody sent, or does       *)
(* nothing.                                                                    *)

-----------------------------------------------------------------------------
(* Documents as lists of commands.                                         *)

SentEntry(e) == [sender |-> e.client, command |-> e.command]
SentEntries(S) == {SentEntry(e) : e \in S}

\* A document, seen as a list of commands, is a list of the same length.
LEMMA SentIsASeq ==
  ASSUME NEW S, NEW log \in Seq(S)
  PROVE  /\ Sent(log) \in Seq(SentEntries(S))
         /\ Len(Sent(log)) = Len(log)
         /\ \A i \in 1 .. Len(log) : Sent(log)[i] = SentEntry(log[i])
<1>1. DOMAIN log = 1 .. Len(log) /\ Len(log) \in Nat /\ \A i \in 1 .. Len(log) : log[i] \in S
  BY LenProperties, ElementOfSeq
<1>2. Sent(log) = [i \in 1 .. Len(log) |-> SentEntry(log[i])]
  BY <1>1 DEF Sent, SentEntry
<1>3. \A i \in 1 .. Len(log) : SentEntry(log[i]) \in SentEntries(S)
  BY <1>1 DEF SentEntries
<1>4. Sent(log) \in [1 .. Len(log) -> SentEntries(S)]
  BY <1>2, <1>3
<1>5. Sent(log) \in Seq(SentEntries(S))
  BY <1>1, <1>4, SeqDef
<1>6. Len(Sent(log)) = Len(log)
  BY <1>1, <1>4, <1>5, LenProperties
<1> QED BY <1>2, <1>5, <1>6

\* A command that enters a document enters its list.
LEMMA SentOfAppend ==
  ASSUME NEW S, NEW log \in Seq(S), NEW e \in S
  PROVE  Sent(Append(log, e)) = Append(Sent(log), SentEntry(e))
<1> DEFINE after == Append(log, e)
           list == Sent(log)
           entries == SentEntries(S)
<1>1. /\ after \in Seq(S) /\ Len(after) = Len(log) + 1
      /\ \A i \in 1 .. Len(log) : after[i] = log[i]
      /\ after[Len(log) + 1] = e /\ Len(log) \in Nat
  BY AppendProperties, LenProperties
<1>2. list \in Seq(entries) /\ Len(list) = Len(log)
      /\ \A i \in 1 .. Len(log) : list[i] = SentEntry(log[i])
  BY SentIsASeq
<1>3. SentEntry(e) \in entries
  BY DEF SentEntries
<1>4. Sent(after) \in Seq(entries) /\ Len(Sent(after)) = Len(log) + 1
      /\ \A i \in 1 .. Len(log) + 1 : Sent(after)[i] = SentEntry(after[i])
  BY <1>1, SentIsASeq
<1> HIDE DEF after, list, entries
<1>5. /\ Append(list, SentEntry(e)) \in Seq(entries)
      /\ Len(Append(list, SentEntry(e))) = Len(log) + 1
      /\ \A i \in 1 .. Len(log) : Append(list, SentEntry(e))[i] = list[i]
      /\ Append(list, SentEntry(e))[Len(log) + 1] = SentEntry(e)
  BY <1>2, <1>3, AppendProperties
<1>6. \A i \in 1 .. Len(log) + 1 : Sent(after)[i] = Append(list, SentEntry(e))[i]
  BY <1>1, <1>2, <1>4, <1>5
<1>7. Sent(after) = Append(list, SentEntry(e))
  BY <1>4, <1>5, <1>6, SeqEqual
<1> QED BY <1>7 DEF after, list

\* An answer up to the command it answers is the list up to that command.
LEMMA SentOfOriginal ==
  ASSUME NEW S, NEW log \in Seq(S), NEW answered \in Seq(S), NEW client, NEW command,
         Original(log, answered, client, command)
  PROVE  \E i \in DOMAIN Sent(log) :
            /\ Sent(log)[i] = [sender |-> client, command |-> command]
            /\ Sent(answered) = SubSeq(Sent(log), 1, i)
<1> DEFINE n == Len(answered)
           list == Sent(log)
           entries == SentEntries(S)
<1>1. /\ n \in Nat /\ Len(log) \in Nat /\ n <= Len(log)
      /\ \A i \in 1 .. n : answered[i] = log[i]
  BY PrefixIsPointwise, LenProperties DEF Original
<1>2. n # 0 /\ answered[n].client = client /\ answered[n].command = command
  BY EmptySeq DEF Original, Last
<1>3. list \in Seq(entries) /\ Len(list) = Len(log) /\ DOMAIN list = 1 .. Len(log)
      /\ \A i \in 1 .. Len(log) : list[i] = SentEntry(log[i])
  BY SentIsASeq, LenProperties
<1>4. Sent(answered) \in Seq(entries) /\ Len(Sent(answered)) = n
      /\ \A i \in 1 .. n : Sent(answered)[i] = SentEntry(answered[i])
  BY SentIsASeq
<1> HIDE DEF n, list, entries
<1>5. \A i \in 1 .. n : list[i] \in entries
  BY <1>1, <1>3, ElementOfSeq
<1>6. /\ SubSeq(list, 1, n) \in Seq(entries) /\ Len(SubSeq(list, 1, n)) = n
      /\ \A i \in 1 .. n : SubSeq(list, 1, n)[i] = list[i]
  BY <1>1, <1>2, <1>5, SubSeqProperties
<1>7. Sent(answered) = SubSeq(list, 1, n)
  BY <1>1, <1>3, <1>4, <1>6, SeqEqual
<1>8. n \in DOMAIN list /\ list[n] = [sender |-> client, command |-> command]
  BY <1>1, <1>2, <1>3 DEF SentEntry
<1> QED BY <1>7, <1>8 DEF list

-----------------------------------------------------------------------------
(* The rows as lists.                                                      *)

\* The list of a product is its document, and that of a run likewise.
LEMMA ListsOfRows ==
  ASSUME StoreAssumption
  PROVE  /\ RowsAsLists = [x \in Documents |-> RowsAsLists[x]]
         /\ \A p \in ProductIDs : p \in Documents /\ RowsAsLists[p] = Sent(products[p])
         /\ \A r \in RunIDs : r \in Documents /\ RowsAsLists[r] = Sent(runs[r])
BY DEF RowsAsLists, Documents, StoreAssumption

\* The same after a step.
LEMMA ListsOfRowsNext ==
  ASSUME StoreAssumption
  PROVE  /\ RowsAsLists' = [x \in Documents |-> RowsAsLists'[x]]
         /\ \A p \in ProductIDs : RowsAsLists'[p] = Sent(products'[p])
         /\ \A r \in RunIDs : RowsAsLists'[r] = Sent(runs'[r])
BY DEF RowsAsLists, Documents, StoreAssumption

\* A document without entries is the empty list.
LEMMA SentOfEmpty == Sent(<<>>) = <<>>
<1>1. <<>> \in Seq({}) /\ Len(<<>>) = 0
  BY EmptySeq
<1>2. Sent(<<>>) \in Seq(SentEntries({})) /\ Len(Sent(<<>>)) = 0
  BY <1>1, SentIsASeq
<1> QED BY <1>2, EmptySeq

\* The client ids of a list are those of its document.
LEMMA AcceptedIsSent ==
  ASSUME NEW S, NEW log \in Seq(S), NEW x \in Documents, RowsAsLists[x] = Sent(log),
         NEW c, Ledger!Accepted(x, c)
  PROVE  \E i \in DOMAIN log : log[i].client = c
<1> DEFINE list == RowsAsLists[x]
<1>1. PICK i \in DOMAIN list : list[i].sender = c
  BY DEF Ledger!Accepted
<1>2. /\ Len(list) = Len(log) /\ list \in Seq(SentEntries(S))
      /\ \A j \in 1 .. Len(log) : list[j] = SentEntry(log[j])
  BY SentIsASeq
<1>3. DOMAIN list = 1 .. Len(log) /\ DOMAIN log = 1 .. Len(log)
  BY <1>2, LenProperties
<1> QED BY <1>1, <1>2, <1>3 DEF SentEntry

-----------------------------------------------------------------------------
(* The steps of CommandLedger.                                             *)

\* A command enters its list, and its sender is told so.
LEMMA StepAccepts ==
  ASSUME StoreAssumption, NEW x \in Documents, NEW c \in ClientIDs, NEW command \in CommandNames,
         ~Ledger!Accepted(x, c),
         RowsAsLists'[x] = Append(RowsAsLists[x], [sender |-> c, command |-> command]),
         \A y \in Documents \ {x} : RowsAsLists'[y] = RowsAsLists[y],
         ReplyAsAnswer' = [on |-> x, sender |-> c, command |-> command, list |-> RowsAsLists'[x]]
  PROVE  Ledger!Next
<1> DEFINE list == Append(RowsAsLists[x], [sender |-> c, command |-> command])
<1>1. RowsAsLists' = [RowsAsLists EXCEPT ![x] = list]
  BY ListsOfRows, ListsOfRowsNext
<1>2. Ledger!Accept(x, c, command)
  BY <1>1 DEF Ledger!Accept, Ledger!Answer
<1> QED BY <1>2 DEF Ledger!Next

\* A command enters its list and has its consequence in another one.
LEMMA StepAcceptsTwo ==
  ASSUME StoreAssumption, NEW x \in Documents, NEW c \in ClientIDs, NEW command \in CommandNames,
         NEW y \in Documents \ {x}, NEW consequence \in CommandNames,
         ~Ledger!Accepted(x, c),
         RowsAsLists'[x] = Append(RowsAsLists[x], [sender |-> c, command |-> command]),
         RowsAsLists'[y] = Append(RowsAsLists[y], [sender |-> NoClient, command |-> consequence]),
         \A z \in Documents \ {x, y} : RowsAsLists'[z] = RowsAsLists[z],
         ReplyAsAnswer' = [on |-> x, sender |-> c, command |-> command, list |-> RowsAsLists'[x]]
  PROVE  Ledger!Next
<1> DEFINE list == Append(RowsAsLists[x], [sender |-> c, command |-> command])
           other == Append(RowsAsLists[y], [sender |-> NoClient, command |-> consequence])
<1>1. RowsAsLists' = [RowsAsLists EXCEPT ![x] = list, ![y] = other]
  BY ListsOfRows, ListsOfRowsNext
<1>2. [RowsAsLists EXCEPT ![x] = list, ![y] = Append(@, Ledger!Consequence(consequence))]
          = [RowsAsLists EXCEPT ![x] = list, ![y] = other]
  BY DEF Ledger!Consequence
<1> HIDE DEF list, other
<1>3. \E z \in Documents \ {x}, name \in CommandNames :
          RowsAsLists' = [RowsAsLists EXCEPT ![x] = list, ![z] = Append(@, Ledger!Consequence(name))]
  BY <1>1, <1>2
<1>4. Ledger!Accept(x, c, command)
  BY <1>3 DEF Ledger!Accept, Ledger!Answer, list
<1> QED BY <1>4 DEF Ledger!Next

\* An entry nobody sent.
LEMMA StepPlants ==
  ASSUME StoreAssumption, NEW x \in Documents, NEW command \in CommandNames,
         RowsAsLists'[x] = Append(RowsAsLists[x], [sender |-> NoClient, command |-> command]),
         \A y \in Documents \ {x} : RowsAsLists'[y] = RowsAsLists[y],
         ReplyAsAnswer' = ReplyAsAnswer
  PROVE  Ledger!Next
<1>1. RowsAsLists' = [RowsAsLists EXCEPT ![x] =
                         Append(RowsAsLists[x], [sender |-> NoClient, command |-> command])]
  BY ListsOfRows, ListsOfRowsNext
<1>2. Ledger!Plant(x, command)
  BY <1>1 DEF Ledger!Plant, Ledger!Consequence
<1> QED BY <1>2 DEF Ledger!Next

\* An answer told again.
LEMMA StepTellsAgain ==
  ASSUME NEW S, NEW log \in Seq(S), NEW answered \in Seq(S), NEW x \in Documents,
         NEW c \in ClientIDs, NEW command \in CommandNames, RowsAsLists[x] = Sent(log),
         Original(log, answered, c, command),
         RowsAsLists' = RowsAsLists,
         ReplyAsAnswer' = [on |-> x, sender |-> c, command |-> command, list |-> Sent(answered)]
  PROVE  Ledger!Next
<1>1. \E i \in DOMAIN RowsAsLists[x] :
          /\ RowsAsLists[x][i] = [sender |-> c, command |-> command]
          /\ Sent(answered) = SubSeq(RowsAsLists[x], 1, i)
  BY SentOfOriginal
<1>2. Ledger!TellAgain(x, c, command)
  BY <1>1 DEF Ledger!TellAgain, Ledger!Answer
<1> QED BY <1>2 DEF Ledger!Next

-----------------------------------------------------------------------------
(* Every operation of the store.                                           *)

\* A product of the store: its document and its receipts.
LEMMA RowOfProduct ==
  ASSUME StoreInvariant, NEW p \in ProductIDs
  PROVE  /\ products \in [ProductIDs -> Seq(ProductEntry)] /\ products[p] \in Seq(ProductEntry)
         /\ Faithful(products[p], productReceipts[p])
         /\ \A c \in ClientIDs : productReceipts[p][c].response \in Seq(ProductEntry)
BY InvariantByTables DEF ProductTables, ProductReceipt, Receipt

\* A run of the store, likewise.
LEMMA RowOfRun ==
  ASSUME StoreInvariant, NEW r \in RunIDs
  PROVE  /\ runs \in [RunIDs -> Seq(RunEntry)] /\ runs[r] \in Seq(RunEntry)
         /\ Faithful(runs[r], runReceipts[r])
         /\ \A c \in ClientIDs : runReceipts[r][c].response \in Seq(RunEntry)
BY InvariantByTables DEF RunTables, RunReceipt, Receipt

\* A client without a receipt has sent nothing to the document.
LEMMA NotAccepted ==
  ASSUME StoreAssumption, NEW S, NEW log \in Seq(S), NEW receipts, Faithful(log, receipts),
         NEW x \in Documents, RowsAsLists[x] = Sent(log), NEW c \in ClientIDs, ~Saved(receipts[c])
  PROVE  ~Ledger!Accepted(x, c)
<1>1. c # NoClient
  BY DEF StoreAssumption
<1> QED BY <1>1, AcceptedIsSent DEF Faithful

\* The answers of the store as CommandLedger tells them.
LEMMA ToldOfProduct ==
  ASSUME StoreAssumption, NEW p \in ProductIDs, NEW c, NEW command, NEW log,
         ProductReply(p, c, command, log)
  PROVE  ReplyAsAnswer' = [on |-> p, sender |-> c, command |-> command, list |-> Sent(log)]
BY DEF ReplyAsAnswer, NoReply, ProductReply, StoreAssumption

\* Likewise the answer to a start.
LEMMA ToldOfStart ==
  ASSUME StoreAssumption, NEW p \in ProductIDs, NEW c, NEW command, NEW log, NEW runLog, NEW r,
         StartReply(p, r, c, command, log, runLog)
  PROVE  ReplyAsAnswer' = [on |-> p, sender |-> c, command |-> command, list |-> Sent(log)]
BY DEF ReplyAsAnswer, NoReply, StartReply, StoreAssumption

\* And the answer of a run.
LEMMA ToldOfRun ==
  ASSUME StoreAssumption, NEW r \in RunIDs, NEW c, NEW command, NEW log, RunReply(r, c, command, log)
  PROVE  ReplyAsAnswer' = [on |-> r, sender |-> c, command |-> command, list |-> Sent(log)]
BY DEF ReplyAsAnswer, NoReply, RunReply, StoreAssumption

\* The receipt of a product command answers.
LEMMA RepeatProductTells ==
  ASSUME StoreAssumption, StoreInvariant, NEW p \in ProductIDs, NEW c \in ClientIDs,
         NEW command \in CommandNames, RepeatProduct(p, c, command)
  PROVE  Ledger!Next
<1> DEFINE answered == productReceipts[p][c].response
<1>1. p \in Documents /\ RowsAsLists[p] = Sent(products[p])
  BY ListsOfRows
<1>2. Original(products[p], answered, c, command)
  BY RowOfProduct DEF RepeatProduct, SavedFor, Faithful
<1>3. RowsAsLists' = RowsAsLists
  BY DEF RepeatProduct, RowsAsLists
<1>4. ReplyAsAnswer' = [on |-> p, sender |-> c, command |-> command, list |-> Sent(answered)]
  BY ToldOfProduct DEF RepeatProduct
<1>5. products[p] \in Seq(ProductEntry) /\ answered \in Seq(ProductEntry)
  BY RowOfProduct
<1> QED BY <1>1, <1>2, <1>3, <1>4, <1>5, StepTellsAgain

\* The receipt of a start answers.
LEMMA RepeatStartTells ==
  ASSUME StoreAssumption, StoreInvariant, NEW p \in ProductIDs, NEW r \in RunIDs,
         NEW c \in ClientIDs, NEW command \in CommandNames, RepeatStart(p, r, c, command)
  PROVE  Ledger!Next
<1> DEFINE answered == productReceipts[p][c].response
<1>1. p \in Documents /\ RowsAsLists[p] = Sent(products[p])
  BY ListsOfRows
<1>2. Original(products[p], answered, c, command)
  BY RowOfProduct DEF RepeatStart, SavedFor, Faithful
<1>3. RowsAsLists' = RowsAsLists
  BY DEF RepeatStart, RowsAsLists
<1>4. ReplyAsAnswer' = [on |-> p, sender |-> c, command |-> command, list |-> Sent(answered)]
  BY ToldOfStart DEF RepeatStart
<1>5. products[p] \in Seq(ProductEntry) /\ answered \in Seq(ProductEntry)
  BY RowOfProduct
<1> QED BY <1>1, <1>2, <1>3, <1>4, <1>5, StepTellsAgain

\* The receipt of a run command answers.
LEMMA RepeatTransactTells ==
  ASSUME StoreAssumption, StoreInvariant, NEW r \in RunIDs, NEW c \in ClientIDs,
         NEW command \in CommandNames, RepeatTransact(r, c, command)
  PROVE  Ledger!Next
<1> DEFINE answered == runReceipts[r][c].response
<1>1. r \in Documents /\ RowsAsLists[r] = Sent(runs[r])
  BY ListsOfRows
<1>2. Original(runs[r], answered, c, command)
  BY RowOfRun DEF RepeatTransact, SavedFor, Faithful
<1>3. RowsAsLists' = RowsAsLists
  BY DEF RepeatTransact, RowsAsLists
<1>4. ReplyAsAnswer' = [on |-> r, sender |-> c, command |-> command, list |-> Sent(answered)]
  BY ToldOfRun DEF RepeatTransact
<1>5. runs[r] \in Seq(RunEntry) /\ answered \in Seq(RunEntry)
  BY RowOfRun
<1> QED BY <1>1, <1>2, <1>3, <1>4, <1>5, StepTellsAgain

\* An entry that enters a product enters its list, and leaves the lists of the others.
LEMMA ProductListGrows ==
  ASSUME StoreAssumption, StoreInvariant, NEW p \in ProductIDs, NEW entry \in ProductEntry,
         products' = [products EXCEPT ![p] = Append(products[p], entry)]
  PROVE  /\ RowsAsLists'[p] = Append(RowsAsLists[p], SentEntry(entry))
         /\ RowsAsLists'[p] = Sent(products'[p])
         /\ \A q \in ProductIDs \ {p} : RowsAsLists'[q] = RowsAsLists[q]
<1>1. /\ products'[p] = Append(products[p], entry)
      /\ \A q \in ProductIDs \ {p} : products'[q] = products[q]
      /\ products[p] \in Seq(ProductEntry)
  BY RowOfProduct
<1>2. Sent(Append(products[p], entry)) = Append(Sent(products[p]), SentEntry(entry))
  BY <1>1, SentOfAppend
<1>3. RowsAsLists'[p] = Sent(products'[p]) /\ RowsAsLists[p] = Sent(products[p])
  BY ListsOfRows, ListsOfRowsNext
<1>4. \A q \in ProductIDs \ {p} : RowsAsLists'[q] = RowsAsLists[q]
  BY <1>1, ListsOfRows, ListsOfRowsNext
<1> QED BY <1>1, <1>2, <1>3, <1>4

\* Likewise a run.
LEMMA RunListGrows ==
  ASSUME StoreAssumption, StoreInvariant, NEW r \in RunIDs, NEW entry \in RunEntry,
         runs' = [runs EXCEPT ![r] = Append(runs[r], entry)]
  PROVE  /\ RowsAsLists'[r] = Append(RowsAsLists[r], SentEntry(entry))
         /\ RowsAsLists'[r] = Sent(runs'[r])
         /\ \A q \in RunIDs \ {r} : RowsAsLists'[q] = RowsAsLists[q]
<1>1. /\ runs'[r] = Append(runs[r], entry)
      /\ \A q \in RunIDs \ {r} : runs'[q] = runs[q]
      /\ runs[r] \in Seq(RunEntry)
  BY RowOfRun
<1>2. Sent(Append(runs[r], entry)) = Append(Sent(runs[r]), SentEntry(entry))
  BY <1>1, SentOfAppend
<1>3. RowsAsLists'[r] = Sent(runs'[r]) /\ RowsAsLists[r] = Sent(runs[r])
  BY ListsOfRows, ListsOfRowsNext
<1>4. \A q \in RunIDs \ {r} : RowsAsLists'[q] = RowsAsLists[q]
  BY <1>1, ListsOfRows, ListsOfRowsNext
<1> QED BY <1>1, <1>2, <1>3, <1>4

\* A table that stays leaves its lists.
LEMMA ListsStay ==
  ASSUME StoreAssumption
  PROVE  /\ UNCHANGED products => \A p \in ProductIDs : RowsAsLists'[p] = RowsAsLists[p]
         /\ UNCHANGED runs => \A r \in RunIDs : RowsAsLists'[r] = RowsAsLists[r]
BY ListsOfRows, ListsOfRowsNext

\* A command that is written to a product with its receipt, and to nothing else.
LEMMA WriteProductAccepts ==
  ASSUME StoreAssumption, StoreInvariant, NEW p \in ProductIDs, NEW c \in ClientIDs,
         NEW command \in CommandNames, NEW entry \in ProductEntry,
         entry.client = c, entry.command = command, ~Saved(productReceipts[p][c]),
         products' = [products EXCEPT ![p] = Append(products[p], entry)], UNCHANGED runs,
         ProductReply(p, c, command, products'[p])
  PROVE  Ledger!Next
<1>1. p \in Documents /\ RowsAsLists[p] = Sent(products[p])
  BY ListsOfRows
<1>2. ~Ledger!Accepted(p, c)
  BY <1>1, RowOfProduct, NotAccepted
<1>3. /\ RowsAsLists'[p] = Append(RowsAsLists[p], [sender |-> c, command |-> command])
      /\ RowsAsLists'[p] = Sent(products'[p])
      /\ \A q \in ProductIDs \ {p} : RowsAsLists'[q] = RowsAsLists[q]
  BY ProductListGrows DEF SentEntry
<1>4. \A y \in Documents \ {p} : RowsAsLists'[y] = RowsAsLists[y]
  BY <1>3, ListsStay DEF Documents
<1>5. ReplyAsAnswer' = [on |-> p, sender |-> c, command |-> command, list |-> RowsAsLists'[p]]
  BY <1>3, ToldOfProduct
<1> QED BY <1>1, <1>2, <1>3, <1>4, <1>5, StepAccepts

\* A product is created.
LEMMA CreateProductAccepts ==
  ASSUME StoreAssumption, StoreInvariant, NEW p \in ProductIDs, NEW c \in ClientIDs,
         NEW code \in Codes, NEW expected, CreateProduct(p, c, code, expected)
  PROVE  Ledger!Next
<1> DEFINE entry == [client |-> c, command |-> code, base |-> expected, run |-> NoRun]
<1>1. entry \in ProductEntry /\ code \in CommandNames
  BY DEF ProductEntry, CreateProduct, CommandNames
<1>2. products' = [products EXCEPT ![p] = Append(products[p], entry)]
  BY DEF CreateProduct, WriteProduct
<1> QED BY <1>1, <1>2, WriteProductAccepts DEF CreateProduct

\* A product takes a command.
LEMMA TransactProductAccepts ==
  ASSUME StoreAssumption, StoreInvariant, NEW p \in ProductIDs, NEW c \in ClientIDs,
         NEW command \in ProductCommands, NEW expected \in Revisions(products[p]),
         TransactProduct(p, c, command, expected)
  PROVE  Ledger!Next
<1> DEFINE entry == [client |-> c, command |-> command, base |-> expected, run |-> NoRun]
<1>1. entry \in ProductEntry /\ command \in CommandNames
  BY DEF ProductEntry, Revisions, CommandNames
<1>2. products' = [products EXCEPT ![p] = Append(products[p], entry)]
  BY DEF TransactProduct, WriteProduct
<1> QED BY <1>1, <1>2, WriteProductAccepts DEF TransactProduct

\* A start enters its product and begins the list of its run.
LEMMA StartDeliveryAccepts ==
  ASSUME StoreAssumption, StoreInvariant, NEW p \in ProductIDs, NEW r \in RunIDs,
         NEW c \in ClientIDs, NEW command \in StartCommands,
         NEW expected \in Revisions(products[p]), StartDelivery(p, r, c, command, expected)
  PROVE  Ledger!Next
<1> DEFINE entry == [client |-> c, command |-> command, base |-> expected, run |-> r]
           first == [client |-> NoClient, command |-> "created", base |-> 0,
                     product |-> p, stage |-> "open"]
<1>1. entry \in ProductEntry /\ command \in CommandNames
  BY DEF ProductEntry, Revisions, CommandNames
<1>2. first \in RunEntry /\ "created" \in CommandNames
  BY DEF RunEntry, CommandNames, Unsent
<1>3. /\ p \in Documents /\ r \in Documents \ {p} /\ RowsAsLists[p] = Sent(products[p])
  BY ListsOfRows DEF StoreAssumption
<1>4. ~Ledger!Accepted(p, c)
  BY <1>3, RowOfProduct, NotAccepted DEF StartDelivery
<1>5. products' = [products EXCEPT ![p] = Append(products[p], entry)]
  BY DEF StartDelivery, WriteProduct
<1>6. /\ RowsAsLists'[p] = Append(RowsAsLists[p], [sender |-> c, command |-> command])
      /\ RowsAsLists'[p] = Sent(products'[p])
      /\ \A q \in ProductIDs \ {p} : RowsAsLists'[q] = RowsAsLists[q]
  BY <1>1, <1>5, ProductListGrows DEF SentEntry
<1>7. runs' = [runs EXCEPT ![r] = Append(runs[r], first)]
  BY DEF StartDelivery
<1>8. /\ RowsAsLists'[r] = Append(RowsAsLists[r], [sender |-> NoClient, command |-> "created"])
      /\ \A q \in RunIDs \ {r} : RowsAsLists'[q] = RowsAsLists[q]
  BY <1>2, <1>7, RunListGrows DEF SentEntry
<1>9. \A z \in Documents \ {p, r} : RowsAsLists'[z] = RowsAsLists[z]
  BY <1>6, <1>8 DEF Documents
<1>10. ReplyAsAnswer' = [on |-> p, sender |-> c, command |-> command, list |-> RowsAsLists'[p]]
  BY <1>6, ToldOfStart DEF StartDelivery
<1> HIDE DEF entry, first
<1> QED BY <1>1, <1>2, <1>3, <1>4, <1>6, <1>8, <1>9, <1>10, StepAcceptsTwo, ZenonT(60)

\* A run takes a command, and its product the installation when it goes live.
LEMMA TransactAccepts ==
  ASSUME StoreAssumption, StoreInvariant, NEW r \in RunIDs, NEW c \in ClientIDs,
         NEW command \in RunCommands, NEW expected \in Revisions(runs[r]),
         NEW stage \in {"open", "live"}, Transact(r, c, command, expected, stage)
  PROVE  Ledger!Next
<1>1. PICK p \in ProductIDs : p = Last(runs[r]).product
  <2>1. runs[r] \in Seq(RunEntry) /\ runs[r] # <<>>
    BY RowOfRun DEF Transact, AtRevision
  <2>2. Last(runs[r]) \in RunEntry
    BY <2>1, EmptySeq, ElementOfSeq DEF Last
  <2> QED BY <2>2 DEF RunEntry
<1> DEFINE entry == [client |-> c, command |-> command, base |-> expected,
                     product |-> p, stage |-> stage]
           installed == [client |-> NoClient, command |-> "installed", base |-> 0, run |-> r]
<1>2. entry \in RunEntry /\ command \in CommandNames
  BY DEF RunEntry, Revisions, CommandNames
<1>3. installed \in ProductEntry /\ "installed" \in CommandNames
  BY DEF ProductEntry, CommandNames, Unsent
<1>4. r \in Documents /\ p \in Documents \ {r} /\ RowsAsLists[r] = Sent(runs[r])
  BY ListsOfRows DEF StoreAssumption
<1>5. ~Ledger!Accepted(r, c)
  BY <1>4, RowOfRun, NotAccepted DEF Transact
<1>6. runs' = [runs EXCEPT ![r] = Append(runs[r], entry)]
  BY <1>1 DEF Transact
<1>7. /\ RowsAsLists'[r] = Append(RowsAsLists[r], [sender |-> c, command |-> command])
      /\ RowsAsLists'[r] = Sent(runs'[r])
      /\ \A q \in RunIDs \ {r} : RowsAsLists'[q] = RowsAsLists[q]
  BY <1>2, <1>6, RunListGrows DEF SentEntry
<1>8. ReplyAsAnswer' = [on |-> r, sender |-> c, command |-> command, list |-> RowsAsLists'[r]]
  BY <1>7, ToldOfRun DEF Transact
<1>9. CASE stage = "live"
  <2>1. products' = [products EXCEPT ![p] = Append(products[p], installed)]
    BY <1>1, <1>9 DEF Transact, Install
  <2>2. /\ RowsAsLists'[p] = Append(RowsAsLists[p], [sender |-> NoClient, command |-> "installed"])
        /\ \A q \in ProductIDs \ {p} : RowsAsLists'[q] = RowsAsLists[q]
    BY <1>3, <2>1, ProductListGrows DEF SentEntry
  <2>3. \A z \in Documents \ {r, p} : RowsAsLists'[z] = RowsAsLists[z]
    BY <1>7, <2>2 DEF Documents
  <2> HIDE DEF entry, installed
  <2>4. /\ RowsAsLists'[r] = Append(RowsAsLists[r], [sender |-> c, command |-> command])
        /\ RowsAsLists'[p] = Append(RowsAsLists[p], [sender |-> NoClient, command |-> "installed"])
    BY <1>7, <2>2
  <2>5. command \in CommandNames /\ "installed" \in CommandNames /\ r \in Documents
        /\ p \in Documents \ {r}
    BY <1>2, <1>3, <1>4
  <2> QED BY <1>5, <1>8, <2>3, <2>4, <2>5, StepAcceptsTwo, ZenonT(60)
<1>10. CASE stage # "live"
  <2>1. UNCHANGED products
    BY <1>10 DEF Transact
  <2>2. \A z \in Documents \ {r} : RowsAsLists'[z] = RowsAsLists[z]
    BY <1>7, <2>1, ListsStay DEF Documents
  <2> HIDE DEF entry, installed
  <2> QED BY <1>2, <1>4, <1>5, <1>7, <1>8, <2>2, StepAccepts
<1> QED BY <1>9, <1>10

\* What is added to a product without a client id.
LEMMA UnsentPlants ==
  ASSUME StoreAssumption, StoreInvariant, NEW p \in ProductIDs, NEW entry \in ProductEntry,
         entry.client = NoClient, entry.command \in CommandNames,
         products' = [products EXCEPT ![p] = Append(products[p], entry)],
         UNCHANGED <<runs, reply>>
  PROVE  Ledger!Next
<1>1. /\ RowsAsLists'[p] = Append(RowsAsLists[p], [sender |-> NoClient, command |-> entry.command])
      /\ \A q \in ProductIDs \ {p} : RowsAsLists'[q] = RowsAsLists[q]
  BY ProductListGrows DEF SentEntry
<1>2. \A z \in Documents \ {p} : RowsAsLists'[z] = RowsAsLists[z]
  BY <1>1, ListsStay DEF Documents
<1>3. p \in Documents /\ ReplyAsAnswer' = ReplyAsAnswer
  BY DEF Documents, ReplyAsAnswer
<1> QED BY <1>1, <1>2, <1>3, StepPlants

\* An attachment.
LEMMA WriteAttachmentsPlants ==
  ASSUME StoreAssumption, StoreInvariant, NEW p \in ProductIDs,
         NEW expected \in Revisions(products[p]), WriteAttachments(p, expected)
  PROVE  Ledger!Next
<1> DEFINE entry == [client |-> NoClient, command |-> "attachment", base |-> expected, run |-> NoRun]
<1>1. entry \in ProductEntry /\ entry.command \in CommandNames
  BY DEF ProductEntry, Unsent, Revisions, CommandNames
<1>2. products' = [products EXCEPT ![p] = Append(products[p], entry)] /\ UNCHANGED <<runs, reply>>
  BY DEF WriteAttachments
<1> QED BY <1>1, <1>2, UnsentPlants

\* A seed.
LEMMA EnsureProductPlants ==
  ASSUME StoreAssumption, StoreInvariant, EnsureProduct
  PROVE  Ledger!Next
<1> DEFINE entry == [client |-> NoClient, command |-> DemoCode, base |-> 0, run |-> NoRun]
<1>1. entry \in ProductEntry /\ entry.command \in CommandNames /\ DemoProduct \in ProductIDs
  BY DEF ProductEntry, StoreAssumption, CommandNames
<1>2. /\ products' = [products EXCEPT ![DemoProduct] = Append(products[DemoProduct], entry)]
      /\ UNCHANGED <<runs, reply>>
  BY DEF EnsureProduct
<1> QED BY <1>1, <1>2, UnsentPlants

\* The empty database is the empty ledger.
LEMMA InitIsEmpty == ASSUME StoreAssumption, Init PROVE Ledger!Init
<1>1. \A x \in Documents : (IF x \in ProductIDs THEN products[x] ELSE runs[x]) = <<>>
  BY DEF Init, Documents
<1>2. RowsAsLists = [x \in Documents |-> <<>>]
  BY <1>1, SentOfEmpty DEF RowsAsLists
<1>3. (IF reply.on \in RunIDs THEN reply.run ELSE reply.product) = <<>>
  BY DEF Init, NoReply
<1>4. ReplyAsAnswer = [on |-> NoClient, sender |-> NoClient, command |-> NoClient, list |-> <<>>]
  BY <1>3, SentOfEmpty DEF ReplyAsAnswer, Init, NoReply
<1> QED BY <1>2, <1>4 DEF Ledger!Init, Ledger!Answer

\* Every step of the store is one of the ledger, or none.
LEMMA NextIsOfLedger ==
  ASSUME StoreAssumption, StoreInvariant, [Next]_vars
  PROVE  Ledger!Next \/ UNCHANGED Ledger!vars
<1>1. ASSUME NEW p \in ProductIDs, NEW c \in ClientIDs, ProductRequest(p, c)
      PROVE  Ledger!Next
  <2>1. Codes \cup ProductCommands \subseteq CommandNames
    BY DEF CommandNames
  <2> QED BY <1>1, <2>1, RepeatProductTells, CreateProductAccepts, TransactProductAccepts
          DEF ProductRequest
<1>2. ASSUME NEW p \in ProductIDs, NEW r \in RunIDs, NEW c \in ClientIDs, StartRequest(p, r, c)
      PROVE  Ledger!Next
  <2>1. Codes \cup ProductCommands \cup StartCommands \subseteq CommandNames
    BY DEF CommandNames
  <2> QED BY <1>2, <2>1, RepeatStartTells, StartDeliveryAccepts DEF StartRequest
<1>3. ASSUME NEW r \in RunIDs, NEW c \in ClientIDs, RunRequest(r, c)
      PROVE  Ledger!Next
  <2>1. RunCommands \subseteq CommandNames
    BY DEF CommandNames
  <2> QED BY <1>3, <2>1, RepeatTransactTells, TransactAccepts DEF RunRequest
<1>4. ASSUME NEW p \in ProductIDs, NEW expected \in Revisions(products[p]),
             WriteAttachments(p, expected)
      PROVE  Ledger!Next
  BY <1>4, WriteAttachmentsPlants
<1>5. CASE EnsureProduct
  BY <1>5, EnsureProductPlants
<1>6. CASE UNCHANGED vars
  BY <1>6 DEF vars, Ledger!vars, RowsAsLists, ReplyAsAnswer
<1> QED BY <1>1, <1>2, <1>3, <1>4, <1>5, <1>6 DEF Next

\* The store keeps the promise of CommandLedger, whatever requests arrive in whatever
\* order: each command enters its list once, with its consequence in a second document in
\* the same transaction, and every repetition is told the list as it was then
\* (store.go:243, :568).
THEOREM StoreImplementsLedger == Spec => ImplementsCommandLedger
<1>1. ASSUME Init PROVE Ledger!Init
  BY <1>1, InitIsEmpty, StoreAssumption
<1>2. ASSUME StoreInvariant, [Next]_vars PROVE [Ledger!Next]_Ledger!vars
  BY <1>2, NextIsOfLedger, StoreAssumption
<1> QED BY <1>1, <1>2, StoreHolds, PTL DEF Spec, ImplementsCommandLedger, Ledger!Spec
=============================================================================
