----------------------- MODULE DepositLedger_proofs -----------------------
(***************************************************************************)
(* Proofs about DepositLedger, for any set of users, lots and notes: no   *)
(* lot is lost or doubled, what was deposited stays in the controller, and *)
(* every slot-10 entry is backed by a consumed note.                       *)
(***************************************************************************)
EXTENDS DepositLedger, TLAPS

\* A note that executes divides by a positive felt, so v2 and v3 store a
\* natural number (math.masm's felt_div).
LEMMA QuotientNat ==
  ASSUME NEW n \in Notes, Executable(Note[n]), Credits(Note[n])
  PROVE  Quotient(Note[n]) \in Nat
<1>1. Note[n] \in NoteRecord
  BY NotesAssumption
<1>2. /\ \A i \in 1..3 : Note[n].storage[i] \in 0..(Prime - 1)
      /\ Note[n].script # "rebalance"
  BY <1>1 DEF NoteRecord, FeltSet, Credits
<1>3. \A a, b \in 0..(Prime - 1) : (a * b) % Prime \in Nat
  BY PrimeAssumption
<1>4. Dividend(Note[n]) \in Nat
  BY <1>2, <1>3 DEF Dividend, FeltMul
<1>5. Divisor(Note[n]) \in Nat /\ Divisor(Note[n]) > 0
  BY <1>2, PrimeAssumption DEF Divisor, Executable
<1>6. \A a, b \in Nat : b > 0 => a \div b \in Nat
  OBVIOUS
<1> QED
  BY <1>4, <1>5, <1>6 DEF Quotient, felt_div

\* The variables keep their types.
LEMMA LedgerTypeStep ==
  LedgerTypeOK /\ [Next]_ledgerVars => LedgerTypeOK'
<1> SUFFICES ASSUME LedgerTypeOK, [Next]_ledgerVars
             PROVE  LedgerTypeOK'
  OBVIOUS
<1> USE DEF LedgerTypeOK
<1>1. CASE UNCHANGED ledgerVars
  BY <1>1 DEF ledgerVars
<1>2. ASSUME NEW n \in Notes, Emit(n)
      PROVE  LedgerTypeOK'
  <2>1. Note[n].user \in Accounts
    BY NotesAssumption DEF NoteRecord, Accounts
  <2> QED
    BY <1>2, <2>1 DEF Emit, NoteStatus
<1>3. ASSUME NEW n \in Notes, Consume(n)
      PROVE  LedgerTypeOK'
  <2>1. Note[n].user \in Users /\ Note[n].lots \subseteq Lots
    BY NotesAssumption DEF NoteRecord
  <2>2. note' \in [Notes -> NoteStatus]
    BY <1>3 DEF Consume, NoteStatus
  <2>3. vault' \in [Accounts -> SUBSET Lots]
    BY <1>3, <2>1 DEF Consume
  <2>4. position' \in [Users -> Nat]
    BY <1>3, <2>1, QuotientNat DEF Consume
  <2> QED
    BY <2>2, <2>3, <2>4
<1> QED
  BY <1>1, <1>2, <1>3 DEF Next

\* Emitting and consuming move lots between one vault and one note.
LEMMA ConservedStep ==
  LedgerTypeOK /\ Conserved /\ [Next]_ledgerVars => Conserved'
<1> SUFFICES ASSUME LedgerTypeOK, Conserved, [Next]_ledgerVars,
                    NEW l \in Lots
             PROVE  SomeHolder(l)' /\ OneHolder(l)'
  BY DEF Conserved
<1>0. SomeHolder(l) /\ OneHolder(l)
  BY DEF Conserved
<1>1. CASE UNCHANGED ledgerVars
  BY <1>0, <1>1 DEF ledgerVars, SomeHolder, OneHolder, InNote
<1>2. ASSUME NEW k \in Notes, Emit(k)
      PROVE  SomeHolder(l)' /\ OneHolder(l)'
  <2> DEFINE u == Note[k].user
  <2>1. u \in Accounts
    BY NotesAssumption DEF NoteRecord, Accounts
  <2>2. \A a \in Accounts : l \in vault'[a] <=> l \in vault[a] /\ ~ (a = u /\ l \in Note[k].lots)
    BY <1>2, <2>1 DEF Emit, LedgerTypeOK
  <2>3. \A n \in Notes : InNote(n, l)' <=> InNote(n, l) \/ (n = k /\ l \in Note[k].lots)
    BY <1>2 DEF Emit, LedgerTypeOK, InNote, NoteStatus
  <2>4. l \in Note[k].lots => l \in vault[u]
    BY <1>2 DEF Emit
  <2>5. SomeHolder(l)'
    BY <1>0, <2>1, <2>2, <2>3 DEF SomeHolder
  <2>6. OneHolder(l)'
    BY <1>0, <2>1, <2>2, <2>3, <2>4 DEF OneHolder
  <2> QED
    BY <2>5, <2>6
<1>3. ASSUME NEW k \in Notes, Consume(k)
      PROVE  SomeHolder(l)' /\ OneHolder(l)'
  <2>1. Controller \in Accounts
    BY DEF Accounts
  <2>2. \A a \in Accounts : l \in vault'[a] <=> l \in vault[a] \/ (a = Controller /\ l \in Note[k].lots)
    BY <1>3, <2>1 DEF Consume, LedgerTypeOK
  <2>3. \A n \in Notes : InNote(n, l)' <=> InNote(n, l) /\ n # k
    BY <1>3 DEF Consume, LedgerTypeOK, InNote, NoteStatus
  <2>4. l \in Note[k].lots => InNote(k, l)
    BY <1>3 DEF Consume, InNote
  <2>5. SomeHolder(l)'
    BY <1>0, <2>1, <2>2, <2>3 DEF SomeHolder, InNote
  <2>6. OneHolder(l)'
    BY <1>0, <2>1, <2>2, <2>3, <2>4 DEF OneHolder
  <2> QED
    BY <2>5, <2>6
<1> QED
  BY <1>1, <1>2, <1>3 DEF Next

\* A consumed note stays consumed and only its own consumption writes slot 10.
LEMMA BackedStep ==
  LedgerTypeOK /\ PositionsBacked /\ [Next]_ledgerVars => PositionsBacked'
<1> SUFFICES ASSUME LedgerTypeOK, PositionsBacked, [Next]_ledgerVars
             PROVE  PositionsBacked'
  OBVIOUS
<1>1. CASE UNCHANGED ledgerVars
  BY <1>1 DEF ledgerVars, PositionsBacked
<1>2. ASSUME NEW k \in Notes, Emit(k)
      PROVE  PositionsBacked'
  BY <1>2 DEF Emit, PositionsBacked, LedgerTypeOK
<1>3. ASSUME NEW k \in Notes, Consume(k)
      PROVE  PositionsBacked'
  <2> SUFFICES ASSUME NEW u \in Users, position'[u] # 0
               PROVE  \E n \in Notes : /\ note'[n] = "consumed"
                                       /\ Note[n].user = u
                                       /\ Credits(Note[n])
                                       /\ position'[u] = Quotient(Note[n])
    BY DEF PositionsBacked
  <2>1. CASE Credits(Note[k]) /\ Note[k].user = u
    BY <1>3, <2>1 DEF Consume, LedgerTypeOK
  <2>2. CASE ~ (Credits(Note[k]) /\ Note[k].user = u)
    <3>1. position'[u] = position[u]
      BY <1>3, <2>2 DEF Consume, LedgerTypeOK
    <3>2. \A n \in Notes : note[n] = "consumed" => note'[n] = "consumed"
      BY <1>3 DEF Consume, LedgerTypeOK
    <3> QED
      BY <3>1, <3>2 DEF PositionsBacked
  <2> QED
    BY <2>1, <2>2
<1> QED
  BY <1>1, <1>2, <1>3 DEF Next

\* A consumption credits one user; where two deposits of a user were consumed
\* nothing is claimed any more.
LEMMA SoleCreditStep ==
  LedgerTypeOK /\ SoleCredit /\ [Next]_ledgerVars => SoleCredit'
<1> SUFFICES ASSUME LedgerTypeOK, SoleCredit, [Next]_ledgerVars,
                    NEW u \in Users, NEW n \in Notes, Credited(u)' = {n}
             PROVE  position'[u] = Quotient(Note[n])
  BY DEF SoleCredit
<1>1. CASE UNCHANGED ledgerVars
  BY <1>1 DEF ledgerVars, SoleCredit, Credited
<1>2. ASSUME NEW k \in Notes, Emit(k)
      PROVE  position'[u] = Quotient(Note[n])
  <2>1. \A m \in Notes : note'[m] = "consumed" <=> note[m] = "consumed"
    BY <1>2 DEF Emit, LedgerTypeOK
  <2>2. Credited(u)' = Credited(u)
    BY <2>1 DEF Credited
  <2> QED
    BY <1>2, <2>2 DEF Emit, SoleCredit
<1>3. ASSUME NEW k \in Notes, Consume(k)
      PROVE  position'[u] = Quotient(Note[n])
  <2>1. \A m \in Notes : note'[m] = "consumed" <=> note[m] = "consumed" \/ m = k
    BY <1>3 DEF Consume, LedgerTypeOK
  <2>2. CASE Credits(Note[k]) /\ Note[k].user = u
    <3>1. k \in Credited(u)'
      BY <2>1, <2>2 DEF Credited
    <3> QED
      BY <1>3, <2>2, <3>1 DEF Consume, LedgerTypeOK
  <2>3. CASE ~ (Credits(Note[k]) /\ Note[k].user = u)
    <3>1. Credited(u)' = Credited(u)
      BY <2>1, <2>3 DEF Credited
    <3>2. position'[u] = position[u]
      BY <1>3, <2>3 DEF Consume, LedgerTypeOK
    <3> QED
      BY <3>1, <3>2 DEF SoleCredit
  <2> QED
    BY <2>2, <2>3
<1> QED
  BY <1>1, <1>2, <1>3 DEF Next

\* The controller emits nothing, so its vault only grows.
LEMMA ArrivedStep ==
  LedgerTypeOK /\ Arrived /\ [Next]_ledgerVars => Arrived'
<1> SUFFICES ASSUME LedgerTypeOK, Arrived, [Next]_ledgerVars
             PROVE  Arrived'
  OBVIOUS
<1>1. CASE UNCHANGED ledgerVars
  BY <1>1 DEF ledgerVars, Arrived
<1>2. ASSUME NEW k \in Notes, Emit(k)
      PROVE  Arrived'
  <2>1. Note[k].user # Controller /\ Controller \in Accounts
    BY NotesAssumption DEF NoteRecord, Accounts
  <2> QED
    BY <1>2, <2>1 DEF Emit, Arrived, LedgerTypeOK
<1>3. ASSUME NEW k \in Notes, Consume(k)
      PROVE  Arrived'
  <2>1. Controller \in Accounts
    BY DEF Accounts
  <2> QED
    BY <1>3, <2>1 DEF Consume, Arrived, LedgerTypeOK
<1> QED
  BY <1>1, <1>2, <1>3 DEF Next

\* One inductive invariant for the four properties.
LedgerInv == LedgerTypeOK /\ Conserved /\ PositionsBacked /\ SoleCredit /\ Arrived

\* The wallets start with disjoint funds and nothing is emitted yet.
LEMMA LedgerInit == Init => LedgerInv
<1> SUFFICES ASSUME Init
             PROVE  LedgerInv
  OBVIOUS
<1>1. LedgerTypeOK
  BY NotesAssumption DEF Init, LedgerTypeOK, NoteStatus, Accounts
<1>2. Conserved
  BY NotesAssumption, FundsAssumption
     DEF Init, Conserved, SomeHolder, OneHolder, InNote, Accounts
<1>3. PositionsBacked
  BY DEF Init, PositionsBacked
<1>4. Arrived
  BY DEF Init, Arrived
<1>5. SoleCredit
  BY DEF Init, SoleCredit, Credited
<1> QED
  BY <1>1, <1>2, <1>3, <1>4, <1>5 DEF LedgerInv

\* The ledger's steps preserve the invariant.
LEMMA LedgerStep == LedgerInv /\ [Next]_ledgerVars => LedgerInv'
BY LedgerTypeStep, ConservedStep, BackedStep, SoleCreditStep, ArrivedStep DEF LedgerInv

\* In every behaviour of the ledger each lot has exactly one holder, what was
\* consumed is in the controller's vault, every position is backed and a sole
\* deposit is credited.
THEOREM LedgerCorrect == Spec => [](Conserved /\ PositionsBacked /\ SoleCredit /\ Arrived)
<1>1. LedgerInv => Conserved /\ PositionsBacked /\ SoleCredit /\ Arrived
  BY DEF LedgerInv
<1> QED
  BY <1>1, LedgerInit, LedgerStep, PTL DEF Spec
===========================================================================
