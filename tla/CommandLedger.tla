--------------------------- MODULE CommandLedger ---------------------------
(***************************************************************************)
(* What the store promises to the senders of commands, without revisions,  *)
(* receipts or rows.  Every product and every run is the list of the       *)
(* commands that made it.  A command enters a list once, and whoever sends *)
(* it again is told the list as it was when the command entered it.  What  *)
(* one command does to a second list happens in the same step.             *)
(***************************************************************************)
EXTENDS Sequences, Naturals

CONSTANTS Lists, Senders, Commands, NoSender

VARIABLES
    ledger,   \* the commands of each list, in the order they were accepted
    told      \* the last answer: who asked what of which list, and the list told

vars == <<ledger, told>>

Accepted(x, sender) == \E i \in DOMAIN ledger[x] : ledger[x][i].sender = sender

Answer(x, sender, command, list) ==
    [on |-> x, sender |-> sender, command |-> command, list |-> list]

Init ==
    /\ ledger = [x \in Lists |-> <<>>]
    /\ told = Answer(NoSender, NoSender, NoSender, <<>>)

\* An entry without a sender: a run created, a run installed, a seed, an attachment.
Consequence(command) == [sender |-> NoSender, command |-> command]

\* A command enters its list; it may have one consequence, in another list.
Accept(x, sender, command) ==
    LET list == Append(ledger[x], [sender |-> sender, command |-> command]) IN
    /\ ~Accepted(x, sender)
    /\ told' = Answer(x, sender, command, list)
    /\ \/ ledger' = [ledger EXCEPT ![x] = list]
       \/ \E y \in Lists \ {x}, consequence \in Commands :
              ledger' = [ledger EXCEPT ![x] = list, ![y] = Append(@, Consequence(consequence))]

TellAgain(x, sender, command) ==
    \E i \in DOMAIN ledger[x] :
        /\ ledger[x][i] = [sender |-> sender, command |-> command]
        /\ told' = Answer(x, sender, command, SubSeq(ledger[x], 1, i))
        /\ UNCHANGED ledger

Plant(x, command) ==
    /\ ledger' = [ledger EXCEPT ![x] = Append(@, Consequence(command))]
    /\ UNCHANGED told

Next ==
    \E x \in Lists, command \in Commands :
        \/ \E sender \in Senders : Accept(x, sender, command) \/ TellAgain(x, sender, command)
        \/ Plant(x, command)

Spec == Init /\ [][Next]_vars
=============================================================================
