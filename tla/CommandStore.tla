---------------------------- MODULE CommandStore ----------------------------
(***************************************************************************)
(* The write side of internal/infrastructure/sqlite/store.go as the        *)
(* application service calls it: several clients send commands to Products *)
(* and DeliveryRuns and read, lose, repeat and delay freely.               *)
(*                                                                         *)
(* A document is the log of what was applied to it, and its revision is    *)
(* the length of the log: a row is created at revision 1 and every write   *)
(* adds 1.  What the domain makes of a command is not looked at: it may    *)
(* refuse, and then nothing is written; so a refusal is a stuttering step. *)
(*                                                                         *)
(* A transaction is one action: the database serialises them and a crash   *)
(* rolls an open one back.  There is no network variable: a request names  *)
(* the revision its sender last read, so the requests that may arrive now, *)
(* late, first or again, are those naming a revision reached so far.       *)
(***************************************************************************)
EXTENDS Naturals, Sequences, SequencesExt

CONSTANTS
    ProductIDs, RunIDs,
    ClientIDs,          \* Command.ClientID, the idempotency keys
    Codes,              \* product.create commands, told apart by Product.Code
    ProductCommands,    \* other commands to a Product; a command is actor, type and payload
    StartCommands,      \* feature.delivery.start commands
    RunCommands,        \* commands to a DeliveryRun
    DemoProduct, DemoCode,        \* the Product a development server seeds
    NoClient, NoRun,
    MaxRevision         \* bound: revision of a document

ASSUME StoreAssumption ==
    /\ DemoProduct \in ProductIDs
    /\ DemoCode \in Codes
    /\ NoClient \notin ClientIDs
    /\ NoRun \notin RunIDs
    /\ "installed" \notin StartCommands
    /\ ProductIDs \cap RunIDs = {}
    /\ NoClient \notin ProductIDs \cup RunIDs
    /\ MaxRevision \in Nat

VARIABLES
    products,          \* delivery_products: the document of each id, <<>> without a row
    runs,              \* delivery_runs, likewise
    productReceipts,   \* delivery_product_command_receipts
    runReceipts,       \* delivery_command_receipts
    reply              \* the last command answered without an error, and its answer

vars == <<products, runs, productReceipts, runReceipts, reply>>

\* What is written without an idempotency key.
Unsent == {"created", "installed", "attachment"}

ProductEntry ==
    [client : ClientIDs \cup {NoClient},
     command : Codes \cup ProductCommands \cup StartCommands \cup Unsent,
     base : Nat, run : RunIDs \cup {NoRun}]

RunEntry ==
    [client : ClientIDs \cup {NoClient}, command : RunCommands \cup Unsent,
     base : Nat, product : ProductIDs, stage : {"open", "live"}]

\* A receipt without a response is a row that is not there.
NoReceipt == [hash |-> NoClient, response |-> <<>>]
NoReply ==
    [on |-> NoClient, client |-> NoClient, command |-> NoClient,
     product |-> <<>>, run |-> <<>>, named |-> NoRun]

Init ==
    /\ products = [p \in ProductIDs |-> <<>>]
    /\ runs = [r \in RunIDs |-> <<>>]
    /\ productReceipts = [p \in ProductIDs |-> [c \in ClientIDs |-> NoReceipt]]
    /\ runReceipts = [r \in RunIDs |-> [c \in ClientIDs |-> NoReceipt]]
    /\ reply = NoReply

Live(log) == log # <<>> /\ Last(log).stage = "live"
CodeInUse(code) == \E p \in ProductIDs : products[p] # <<>> /\ products[p][1].command = code

\* Mutant: the last writer wins.
MutAtRevision(log, expected) == log # <<>> /\ expected <= Len(log)

\* The fence: the row exists at the revision the request names.
AtRevision(log, expected) == log # <<>> /\ Len(log) = expected

Saved(receipt) == receipt.response # <<>>

\* Mutant: the client id alone finds the receipt.
MutSavedFor(receipt, command) == Saved(receipt)

SavedFor(receipt, command) == Saved(receipt) /\ receipt.hash = command

----------------------------------------------------------------------------
\* Answers

ProductReply(p, c, command, log) ==
    reply' = [NoReply EXCEPT !.on = p, !.client = c, !.command = command, !.product = log]

RunReply(r, c, command, log) ==
    reply' = [NoReply EXCEPT !.on = r, !.client = c, !.command = command, !.run = log]

StartReply(p, r, c, command, productLog, runLog) ==
    reply' = [NoReply EXCEPT !.on = p, !.client = c, !.command = command,
                             !.product = productLog, !.run = runLog, !.named = r]

\* Mutant: the receipt is forgotten.
MutWriteProduct(p, c, command, entry) ==
    /\ products' = [products EXCEPT ![p] = Append(@, entry)]
    /\ UNCHANGED productReceipts

\* updateProduct and insertProductReceipt: the row and the receipt hold the same bytes.
WriteProduct(p, c, command, entry) ==
    /\ products' = [products EXCEPT ![p] = Append(@, entry)]
    /\ productReceipts' = [productReceipts EXCEPT ![p][c] =
                              [hash |-> command, response |-> products'[p]]]

----------------------------------------------------------------------------
\* Operations

\* A receipt answers product.create and every product command but a delivery start.
RepeatProduct(p, c, command) ==
    /\ SavedFor(productReceipts[p][c], command)
    /\ ProductReply(p, c, command, productReceipts[p][c].response)
    /\ UNCHANGED <<products, runs, productReceipts, runReceipts>>

CreateProduct(p, c, code, expected) ==
    /\ ~Saved(productReceipts[p][c])
    /\ products[p] = <<>>
    /\ expected = 0
    /\ ~CodeInUse(code)
    /\ WriteProduct(p, c, code, [client |-> c, command |-> code, base |-> expected, run |-> NoRun])
    /\ ProductReply(p, c, code, products'[p])
    /\ UNCHANGED <<runs, runReceipts>>

TransactProduct(p, c, command, expected) ==
    /\ ~Saved(productReceipts[p][c])
    /\ AtRevision(products[p], expected)
    /\ Len(products[p]) < MaxRevision
    /\ WriteProduct(p, c, command, [client |-> c, command |-> command, base |-> expected, run |-> NoRun])
    /\ ProductReply(p, c, command, products'[p])
    /\ UNCHANGED <<runs, runReceipts>>

\* Mutant: a repeated start answers with the product as it is now.
MutRepeatStart(p, r, c, command) ==
    /\ SavedFor(productReceipts[p][c], command)
    /\ runs[r] # <<>>
    /\ StartReply(p, r, c, command, products[p], runs[r])
    /\ UNCHANGED <<products, runs, productReceipts, runReceipts>>

\* The receipt knows the product; the run is loaded by the id in the request.
RepeatStart(p, r, c, command) ==
    /\ SavedFor(productReceipts[p][c], command)
    /\ runs[r] # <<>>
    /\ StartReply(p, r, c, command, productReceipts[p][c].response, runs[r])
    /\ UNCHANGED <<products, runs, productReceipts, runReceipts>>

StartDelivery(p, r, c, command, expected) ==
    /\ ~Saved(productReceipts[p][c])
    /\ AtRevision(products[p], expected)
    /\ Len(products[p]) < MaxRevision
    /\ runs[r] = <<>>
    /\ runs' = [runs EXCEPT ![r] =
           <<[client |-> NoClient, command |-> "created", base |-> 0, product |-> p, stage |-> "open"]>>]
    /\ WriteProduct(p, c, command, [client |-> c, command |-> command, base |-> expected, run |-> r])
    /\ StartReply(p, r, c, command, products'[p], runs'[r])
    /\ UNCHANGED runReceipts

RepeatTransact(r, c, command) ==
    /\ SavedFor(runReceipts[r][c], command)
    /\ RunReply(r, c, command, runReceipts[r][c].response)
    /\ UNCHANGED <<products, runs, productReceipts, runReceipts>>

\* Mutant: a run goes live in a transaction of its own.
MutInstall(p, r) == UNCHANGED products

\* The install callback writes the product of the run, at whatever revision it is.
Install(p, r) ==
    /\ products[p] # <<>>
    /\ Len(products[p]) < MaxRevision
    /\ products' = [products EXCEPT ![p] =
           Append(@, [client |-> NoClient, command |-> "installed", base |-> 0, run |-> r])]

\* Apply refuses every command of a live run; stage is what it leaves behind.
Transact(r, c, command, expected, stage) ==
    /\ ~Saved(runReceipts[r][c])
    /\ AtRevision(runs[r], expected)
    /\ Len(runs[r]) < MaxRevision
    /\ ~Live(runs[r])
    /\ LET p == Last(runs[r]).product IN
        /\ IF stage = "live" THEN Install(p, r) ELSE UNCHANGED products
        /\ runs' = [runs EXCEPT ![r] =
               Append(@, [client |-> c, command |-> command, base |-> expected,
                          product |-> p, stage |-> stage])]
    /\ runReceipts' = [runReceipts EXCEPT ![r][c] = [hash |-> command, response |-> runs'[r]]]
    /\ RunReply(r, c, command, runs'[r])
    /\ UNCHANGED productReceipts

\* Mutant: the seed replaces the row.
MutEnsureProduct ==
    /\ products' = [products EXCEPT ![DemoProduct] =
           <<[client |-> NoClient, command |-> DemoCode, base |-> 0, run |-> NoRun]>>]
    /\ UNCHANGED <<runs, productReceipts, runReceipts, reply>>

\* An upload or a removal of an attachment: fenced, but without a client id and a receipt.
WriteAttachments(p, expected) ==
    /\ AtRevision(products[p], expected)
    /\ Len(products[p]) < MaxRevision
    /\ products' = [products EXCEPT ![p] =
           Append(@, [client |-> NoClient, command |-> "attachment", base |-> expected, run |-> NoRun])]
    /\ UNCHANGED <<runs, productReceipts, runReceipts, reply>>

\* A development server seeds its Product at every start; a row that is there stays.
EnsureProduct ==
    /\ products[DemoProduct] = <<>>
    /\ ~CodeInUse(DemoCode)
    /\ products' = [products EXCEPT ![DemoProduct] =
           <<[client |-> NoClient, command |-> DemoCode, base |-> 0, run |-> NoRun]>>]
    /\ UNCHANGED <<runs, productReceipts, runReceipts, reply>>

\* The revisions a client may have read.
Revisions(log) == 0 .. Len(log)

ProductRequest(p, c) ==
    \/ \E command \in Codes \cup ProductCommands : RepeatProduct(p, c, command)
    \/ \E code \in Codes, expected \in Revisions(products[p]) : CreateProduct(p, c, code, expected)
    \/ \E command \in ProductCommands, expected \in Revisions(products[p]) :
           TransactProduct(p, c, command, expected)

\* The receipt is looked for before the type of the command is looked at.
StartRequest(p, r, c) ==
    \/ \E command \in Codes \cup ProductCommands \cup StartCommands : RepeatStart(p, r, c, command)
    \/ \E command \in StartCommands, expected \in Revisions(products[p]) :
           StartDelivery(p, r, c, command, expected)

RunRequest(r, c) ==
    \E command \in RunCommands :
        \/ RepeatTransact(r, c, command)
        \/ \E expected \in Revisions(runs[r]), stage \in {"open", "live"} :
               Transact(r, c, command, expected, stage)

Next ==
    \/ \E c \in ClientIDs :
        \/ \E p \in ProductIDs : ProductRequest(p, c)
        \/ \E p \in ProductIDs, r \in RunIDs : StartRequest(p, r, c)
        \/ \E r \in RunIDs : RunRequest(r, c)
    \/ \E p \in ProductIDs : \E expected \in Revisions(products[p]) : WriteAttachments(p, expected)
    \/ EnsureProduct

Spec == Init /\ [][Next]_vars
----------------------------------------------------------------------------
\* Properties

Receipt(commands, entries) ==
    [hash : commands \cup {NoClient}, response : Seq(entries)]

\* Documents, receipts and answers are of the types the rows declare.
TypeOK ==
    /\ products \in [ProductIDs -> Seq(ProductEntry)]
    /\ runs \in [RunIDs -> Seq(RunEntry)]
    /\ productReceipts \in
        [ProductIDs -> [ClientIDs -> Receipt(Codes \cup ProductCommands \cup StartCommands, ProductEntry)]]
    /\ runReceipts \in [RunIDs -> [ClientIDs -> Receipt(RunCommands, RunEntry)]]
    /\ reply.product \in Seq(ProductEntry)
    /\ reply.run \in Seq(RunEntry)

Once(log) ==
    \A i, j \in DOMAIN log : log[i].client = log[j].client /\ log[i].client # NoClient => i = j

\* A command that is sent again, also much later, also after other writes or after a
\* conflict with a new expected revision, is applied at most once (store.go:243, :568).
AppliedOnce ==
    /\ \A p \in ProductIDs : Once(products[p])
    /\ \A r \in RunIDs : Once(runs[r])

Fenced(log) == \A i \in DOMAIN log : log[i].command # "installed" => log[i].base = i - 1

\* No update is lost: whoever wrote revision n had read revision n - 1, installations
\* aside, and those leave the senders that had not read them in conflict (store.go:273).
NoLostUpdate ==
    /\ \A p \in ProductIDs : Fenced(products[p])
    /\ \A r \in RunIDs : Fenced(runs[r])

\* The answered document is the current one up to the command it answers.
Original(log, answered, client, command) ==
    /\ IsPrefix(answered, log)
    /\ answered # <<>>
    /\ Last(answered).client = client
    /\ Last(answered).command = command

\* Retrying a command returns its original answer, however far its document has moved
\* on, and a client id reused for another command returns none (docs/api.md:86).
AnswerIsOriginal ==
    /\ reply.on \in ProductIDs =>
           Original(products[reply.on], reply.product, reply.client, reply.command)
    /\ reply.on \in RunIDs => Original(runs[reply.on], reply.run, reply.client, reply.command)

\* A document and its receipts: every command in the document has its receipt, and every
\* receipt the document up to its command.
Faithful(log, receipts) ==
    /\ Once(log)
    /\ Fenced(log)
    /\ \A i \in DOMAIN log : log[i].client # NoClient => Saved(receipts[log[i].client])
    /\ \A c \in ClientIDs : Saved(receipts[c]) =>
           Original(log, receipts[c].response, c, receipts[c].hash)

\* The inductive invariant: no receipt is missing, wrong or overtaken by its document, so
\* a command that was applied is recognised for ever.
StoreInvariant ==
    /\ TypeOK
    /\ \A p \in ProductIDs : Faithful(products[p], productReceipts[p])
    /\ \A r \in RunIDs : Faithful(runs[r], runReceipts[r])
    /\ AnswerIsOriginal

\* The entries of a product that start or install run r.
Booked(p, r, commands) ==
    {i \in DOMAIN products[p] : products[p][i].run = r /\ products[p][i].command \in commands}

ExactlyOne(S) == \E x \in S : S = {x}

\* A run and its product never disagree: a run exists exactly when one entry of its
\* product starts it, it is live exactly when one later entry installs it, and no other
\* product knows it (store_test.go:145, the start and the installation are atomic).
RunsAreBooked ==
    \A r \in RunIDs, p \in ProductIDs :
        LET started == Booked(p, r, StartCommands)
            installed == Booked(p, r, {"installed"})
            own == runs[r] # <<>> /\ Last(runs[r]).product = p
        IN
        /\ IF own THEN ExactlyOne(started) ELSE started = {}
        /\ IF own /\ Live(runs[r]) THEN ExactlyOne(installed) ELSE installed = {}
        /\ \A i \in started, j \in installed : i < j

\* What is written stays: no command, retry or restart takes back an applied command or
\* puts one before it, the seeding of a development server included (store.go:418).
HistoryOnlyGrows ==
    [][/\ \A p \in ProductIDs : IsPrefix(products[p], products'[p])
       /\ \A r \in RunIDs : IsPrefix(runs[r], runs'[r])]_vars

\* An answered start is a start of the run the request names: "Reusing that ID for a
\* different command fails" (docs/api.md:86).
StartAnswerNamesItsRun ==
    reply.named \in RunIDs /\ reply.command \in StartCommands =>
        Last(reply.product).run = reply.named

Sent(log) == [i \in DOMAIN log |-> [sender |-> log[i].client, command |-> log[i].command]]

\* The rows, each as its list of commands, and the last answer as CommandLedger tells it.
Documents == ProductIDs \cup RunIDs
RowsAsLists == [x \in Documents |-> Sent(IF x \in ProductIDs THEN products[x] ELSE runs[x])]
ReplyAsAnswer ==
    [on |-> reply.on, sender |-> reply.client, command |-> reply.command,
     list |-> Sent(IF reply.on \in RunIDs THEN reply.run ELSE reply.product)]
CommandNames == Codes \cup ProductCommands \cup StartCommands \cup RunCommands \cup Unsent

Ledger == INSTANCE CommandLedger WITH
    Lists <- Documents,
    Senders <- ClientIDs,
    Commands <- CommandNames,
    NoSender <- NoClient,
    ledger <- RowsAsLists,
    told <- ReplyAsAnswer

\* The store keeps the promise of CommandLedger: every accepted command enters its list
\* once, with its consequences, and every answer is the list up to that command.
ImplementsCommandLedger == Ledger!Spec
=============================================================================
