--------------------------- MODULE DepositLedger ---------------------------
(***************************************************************************)
(* What the deposit, redeem and rebalance flows promise, without clients,  *)
(* local stores or submissions: a note is emitted once out of its user's   *)
(* wallet and consumed at most once by the controller, atomically with its *)
(* script.  DepositNetwork is shown to implement this module.              *)
(***************************************************************************)
EXTENDS NoteScripts

VARIABLES note,      \* how far each note got
          vault,     \* the lots in each account
          position   \* the controller's user_positions map (slot 10)

ledgerVars == <<note, vault, position>>

NoteStatus == {"unissued", "committed", "consumed"}

LedgerTypeOK ==
  /\ note \in [Notes -> NoteStatus]
  /\ vault \in [Accounts -> SUBSET Lots]
  /\ position \in [Users -> Nat]

Init ==
  /\ note = [n \in Notes |-> "unissued"]
  /\ vault = [a \in Accounts |-> IF a = Controller THEN {} ELSE Funds[a]]
  /\ position = [u \in Users |-> 0]

\* A transaction of the user's wallet takes the note's lots out of its vault.
Emit(n) ==
  /\ note[n] = "unissued"
  /\ Note[n].lots \subseteq vault[Note[n].user]
  /\ note' = [note EXCEPT ![n] = "committed"]
  /\ vault' = [vault EXCEPT ![Note[n].user] = @ \ Note[n].lots]
  /\ UNCHANGED position

\* A transaction of the controller runs the script of one committed note.
Consume(n) ==
  /\ note[n] = "committed"
  /\ Executable(Note[n])
  /\ note' = [note EXCEPT ![n] = "consumed"]
  /\ vault' = [vault EXCEPT ![Controller] = @ \cup Note[n].lots]
  /\ position' = IF Credits(Note[n])
                 THEN [position EXCEPT ![Note[n].user] = Quotient(Note[n])]
                 ELSE position

Next == \E n \in Notes : Emit(n) \/ Consume(n)

Spec == Init /\ [][Next]_ledgerVars

---------------------------------------------------------------------------
InNote(n, l) == note[n] = "committed" /\ l \in Note[n].lots

SomeHolder(l) ==
  (\E a \in Accounts : l \in vault[a]) \/ (\E n \in Notes : InNote(n, l))

OneHolder(l) ==
  /\ \A a, b \in Accounts : l \in vault[a] /\ l \in vault[b] => a = b
  /\ \A m, n \in Notes : InNote(m, l) /\ InNote(n, l) => m = n
  /\ \A a \in Accounts, n \in Notes : ~ (l \in vault[a] /\ InNote(n, l))

\* No lot is created, destroyed or held twice: it is in exactly one vault or
\* exactly one committed note, through every emission and consumption.
Conserved == \A l \in Lots : SomeHolder(l) /\ OneHolder(l)

\* A slot-10 entry is empty or the quotient of one consumed note of that user:
\* no position comes from a note that never reached the controller.
PositionsBacked ==
  \A u \in Users : \/ position[u] = 0
                   \/ \E n \in Notes : /\ note[n] = "consumed"
                                       /\ Note[n].user = u
                                       /\ Credits(Note[n])
                                       /\ position[u] = Quotient(Note[n])

Credited(u) ==
  {n \in Notes : note[n] = "consumed" /\ Note[n].user = u /\ Credits(Note[n])}

\* What the scripts do to the map: the first crediting deposit of a user that is
\* consumed leaves its quotient, and the entry stays that until a second one is.
\* No trigger and no other user's deposit touches it, no deposit is consumed
\* without it, and no redemption takes anything off it, although the controller's
\* text has the notes debit it.
SoleCredit ==
  \A u \in Users, n \in Notes : Credited(u) = {n} => position[u] = Quotient(Note[n])

\* What the controller consumed it keeps: no script, the redeem script
\* included, sends anything out of its vault.
Arrived ==
  \A n \in Notes : note[n] = "consumed" => Note[n].lots \subseteq vault[Controller]
===========================================================================
