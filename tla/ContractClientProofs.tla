-------------------------- MODULE ContractClientProofs --------------------------
(***************************************************************************)
(* What the contract client keeps for any number of threads, retries and   *)
(* faults: no nonce that its shared counter jumped over, and, as long as   *)
(* nothing raises, no write made twice.                                    *)
(***************************************************************************)
EXTENDS ContractClient, TLAPS

USE ClientAssumption DEF Absent

\* Transactions belong to the attempts that made them, which sent or at least numbered them.
Past(t) == t[2] < attempt[t[1]]
Now(t, stages) == t[2] = attempt[t[1]] /\ stage[t[1]] \in stages
After == {"waiting", "reporting", "ok", "reverted", "failed"}

AttemptsOrdered ==
  /\ \A t \in Tx : tx[t] # "none" =>
       nonce[t] \in Nat /\ (Past(t) \/ Now(t, After))
  /\ \A t \in Tx : nonce[t] \in Nat => Past(t) \/ Now(t, After \cup {"prepare"})
  /\ \A o \in Writer : stage[o] = "prepare" => nonce[Current(o)] \in Nat

\* The four ways in which a nonce is accounted for: a refused attempt burns none, for the
\* nonce it was refused is mined or held.
PendingAt(n) == n \in earlier \/ \E t \in Tx : tx[t] = "pending" /\ nonce[t] = n
InHandAt(n) == \E o \in Writer : stage[o] = "prepare" /\ nonce[Current(o)] = n
BurnedAt(n) ==
  /\ faults > 0
  /\ \E t \in Tx : tx[t] = "none" /\ nonce[t] = n /\ (Past(t) \/ Now(t, {"failed"}))
Covered(n) == n < mined \/ PendingAt(n) \/ InHandAt(n) \/ BurnedAt(n)

\* Whatever lies below a number some thread holds is accounted for.
Cover ==
  /\ \A n \in Nat : n < cache => Covered(n)
  /\ \A o \in Writer : stage[o] = "counted" => \A n \in Nat : n < counted[o] => Covered(n)
  /\ \A t \in Tx, n \in Nat : n < nonce[t] => Covered(n)

-----------------------------------------------------------------------------
(* Transactions and attempts *)

LEMMA TxParts ==
  ASSUME NEW t \in Tx
  PROVE  t[1] \in Writer /\ t[2] \in 1 .. MaxRetries /\ t = <<t[1], t[2]>>
BY DEF Tx

LEMMA CurrentTx ==
  ASSUME TypeOK, NEW o \in Writer
  PROVE  /\ Current(o) \in Tx /\ o \in Thread /\ attempt[o] \in 1 .. MaxRetries
         /\ Current(o)[1] = o /\ Current(o)[2] = attempt[o]
         /\ \A t \in Tx : t[1] = o /\ t[2] = attempt[o] => t = Current(o)
<1>1. o \in Thread /\ attempt[o] \in 1 .. MaxRetries  BY DEF TypeOK, Thread
<1>2. \A t \in Tx : t = <<t[1], t[2]>>  BY TxParts
<1> QED  BY <1>1, <1>2 DEF Current, Tx

LEMMA InitType == Init => TypeOK
BY DEF Init, TypeOK, Stage, Ended

\* What the ends of the retry loop do to the breaker and to the thread.
LEMMA FailAttemptType ==
  ASSUME TypeOK, NEW o \in Thread, FailAttempt(o)
  PROVE  /\ circuit' \in [state: {"closed", "open", "half_open"},
                          failures: 0 .. FailureThreshold, cooled: BOOLEAN]
         /\ circuit'.state = "closed" => circuit'.failures < FailureThreshold
         /\ stage' \in [Thread -> Stage] /\ attempt' \in [Thread -> 1 .. MaxRetries]
         /\ \/ /\ stage' = [stage EXCEPT ![o] = "gate"]
               /\ attempt' = [attempt EXCEPT ![o] = attempt[o] + 1]
            \/ stage' = [stage EXCEPT ![o] = "failed"] /\ attempt' = attempt
<1>1. RecordFailure  BY DEF FailAttempt
<1>2. circuit'.state = "closed" => circuit'.failures < FailureThreshold
  BY <1>1 DEF TypeOK, RecordFailure, RecordFailureAt
<1>3. circuit' \in [state: {"closed", "open", "half_open"}, failures: 0 .. FailureThreshold,
                    cooled: BOOLEAN]
  BY <1>1 DEF TypeOK, RecordFailure, RecordFailureAt
<1>4. attempt[o] \in 1 .. MaxRetries  BY DEF TypeOK
<1> QED  BY <1>2, <1>3, <1>4 DEF FailAttempt, TypeOK, MoveTo, Stage, Ended

LEMMA FaultType ==
  ASSUME TypeOK, Fault \/ UNCHANGED faults
  PROVE  faults' \in 0 .. MaxFaults
BY DEF TypeOK, Fault

LEMMA CircuitType ==
  ASSUME TypeOK, RecordFailure \/ RecordSuccess \/ UNCHANGED circuit
  PROVE  /\ circuit' \in [state: {"closed", "open", "half_open"},
                          failures: 0 .. FailureThreshold, cooled: BOOLEAN]
         /\ circuit'.state = "closed" => circuit'.failures < FailureThreshold
<1>1. CASE RecordFailure  BY <1>1 DEF TypeOK, RecordFailure, RecordFailureAt
<1>2. CASE RecordSuccess  BY <1>2 DEF TypeOK, RecordSuccess
<1>3. CASE UNCHANGED circuit  BY <1>3 DEF TypeOK
<1> QED  BY <1>1, <1>2, <1>3

-----------------------------------------------------------------------------
(* Types *)

LEMMA ProceedType ==
  ASSUME TypeOK, NEW o \in Thread, Proceed(o)
  PROVE  TypeOK'
<1> USE FailAttemptType, FaultType, CircuitType
<1>1. CASE Gate(o)
  <2>1. UNCHANGED <<attempt, nonces, chain, faults>>  BY <1>1 DEF Gate
  <2>2. stage' \in [Thread -> Stage]  BY <1>1 DEF Gate, TypeOK, MoveTo, Stage, Ended
  <2>3. CASE UNCHANGED circuit
    BY <2>1, <2>2, <2>3 DEF TypeOK, nonces, chain
  <2>4. CASE circuit' = [circuit EXCEPT !.state = "half_open", !.cooled = FALSE]
    <3>1. circuit' = [state |-> "half_open", failures |-> circuit.failures, cooled |-> FALSE]
      BY <2>4, Zenon DEF TypeOK
    <3> QED  BY <2>1, <2>2, <3>1 DEF TypeOK, nonces, chain
  <2> QED  BY <1>1, <2>3, <2>4 DEF Gate
<1>2. CASE Provide(o) \/ Report(o)
  BY <1>2 DEF Provide, Report, TypeOK, MoveTo, Stage, Ended, nonces, chain
<1>3. CASE o \in Reader /\ Read(o)
  BY <1>3 DEF Read, TypeOK, MoveTo, Stage, Ended, nonces, chain
<1>4. CASE o \in Writer /\ (Ask(o) \/ Count(o))
  <2>1. PendingCount \subseteq Nat
    BY DEF PendingCount, TypeOK
  <2>2. CASE Ask(o)
    BY <2>2 DEF Ask, TypeOK, MoveTo, Stage, Ended, nonces, chain
  <2>3. CASE Count(o)
    BY <1>4, <2>1, <2>3 DEF Count, TypeOK, MoveTo, Stage, Ended, chain
  <2> QED  BY <1>4, <2>2, <2>3
<1>5. CASE o \in Writer /\ TakeNonce(o)
  <2>1. Current(o) \in Tx  BY <1>5, CurrentTx
  <2> QED  BY <1>5, <2>1 DEF TakeNonce, Taken, TypeOK, MoveTo, Stage, Ended, chain
<1>6. CASE o \in Writer /\ (PrepareFails(o) \/ Refused(o))
  BY <1>6 DEF PrepareFails, Refused, TypeOK, nonces, chain
<1>7. CASE o \in Writer /\ (Submit(o) \/ AnswerLost(o))
  <2>1. Current(o) \in Tx  BY <1>7, CurrentTx
  <2>2. tx' \in [Tx -> {"none", "pending", "replaced", "mined", "reverted"}]
    BY <1>7 DEF Submit, AnswerLost, Sent, TypeOK
  <2>3. UNCHANGED <<nonces, mined>> /\ earlier' \subseteq earlier
    BY <1>7 DEF Submit, AnswerLost, Sent
  <2>4. CASE Submit(o)
    BY <2>1, <2>2, <2>3, <2>4 DEF Submit, TypeOK, MoveTo, Stage, Ended, nonces
  <2>5. CASE AnswerLost(o)
    BY <2>1, <2>2, <2>3, <2>5 DEF AnswerLost, TypeOK, nonces
  <2> QED  BY <1>7, <2>4, <2>5
<1>8. CASE o \in Writer /\ Confirm(o)
  BY <1>8 DEF Confirm, TypeOK, MoveTo, Stage, Ended, nonces, chain
<1>9. CASE o \in Writer /\ WaitFails(o)
  <2>1. Current(o) \in Tx  BY <1>9, CurrentTx
  <2> QED  BY <1>9, <2>1 DEF WaitFails, TypeOK, nonces, chain
<1> QED
  BY <1>1, <1>2, <1>3, <1>4, <1>5, <1>6, <1>7, <1>8, <1>9 DEF Proceed, Write

LEMMA TypeStep ==
  ASSUME TypeOK, [Next]_vars
  PROVE  TypeOK'
<1>1. CASE \E o \in Thread : Proceed(o)  BY <1>1, ProceedType
<1>2. CASE (\E t \in Tx : Mine(t)) \/ MineEarlier
  <2>1. CASE \E t \in Tx : Mine(t)  BY <2>1 DEF Mine, TypeOK, nonces
  <2>2. CASE MineEarlier  BY <2>2 DEF MineEarlier, TypeOK, nonces
  <2> QED  BY <1>2, <2>1, <2>2
<1>3. CASE Cool  BY <1>3 DEF Cool, TypeOK, nonces, chain
<1>4. CASE UNCHANGED vars  BY <1>4 DEF vars, TypeOK
<1> QED  BY <1>1, <1>2, <1>3, <1>4 DEF Next

-----------------------------------------------------------------------------
(* Attempts number and send their transactions in order *)

\* One thread moves: it stays in its attempt, or begins the next, or gives up.
Moves(o) ==
  /\ \A p \in Thread \ {o} : stage'[p] = stage[p] /\ attempt'[p] = attempt[p]
  /\ \/ attempt'[o] = attempt[o]
     \/ attempt'[o] = attempt[o] + 1 /\ stage'[o] = "gate"

LEMMA ProceedMoves ==
  ASSUME TypeOK, NEW o \in Thread, Proceed(o)
  PROVE  Moves(o)
<1>1. \A p \in Thread \ {o} : stage'[p] = stage[p] /\ attempt'[p] = attempt[p]
  BY DEF Proceed, Write, Gate, Provide, Report, Read, Ask, Count, TakeNonce, PrepareFails, Refused,
     Submit, AnswerLost, Confirm, WaitFails, FailAttempt, MoveTo, TypeOK
<1>2. CASE FailAttempt(o)
  BY <1>1, <1>2, FailAttemptType DEF TypeOK, Moves
<1>3. CASE ~FailAttempt(o)
  <2>1. attempt' = attempt
    BY <1>3 DEF Proceed, Write, Gate, Provide, Report, Read, Ask, Count, TakeNonce, PrepareFails, Refused,
       Submit, AnswerLost, Confirm, WaitFails
  <2> QED  BY <1>1, <2>1 DEF Moves
<1> QED  BY <1>2, <1>3

\* Where a thread that moves comes from and where it goes.
LEMMA StageSteps ==
  ASSUME TypeOK, NEW o \in Thread, Proceed(o)
  PROVE  /\ stage[o] \notin Ended
         /\ stage[o] = "waiting" =>
              attempt'[o] = attempt[o] + 1 \/ stage'[o] \in {"reporting", "reverted", "failed"}
         /\ stage[o] = "reporting" =>
              attempt'[o] = attempt[o] + 1 \/ stage'[o] \in {"ok", "failed"}
         /\ stage[o] = "prepare" =>
              attempt'[o] = attempt[o] + 1 \/ stage'[o] \in {"waiting", "failed"}
         /\ stage'[o] = "prepare" => o \in Writer /\ TakeNonce(o)
         /\ stage'[o] = "counted" => o \in Writer /\ Count(o)
<1> USE DEF Ended, MoveTo, TypeOK, Stage
<1>1. CASE Gate(o) \/ Provide(o) \/ Report(o)
  BY <1>1, FailAttemptType DEF Gate, Provide, Report
<1>2. CASE o \in Reader /\ Read(o)  BY <1>2, FailAttemptType DEF Read
<1>3. CASE o \in Writer /\ (Ask(o) \/ Count(o) \/ TakeNonce(o))
  BY <1>3, FailAttemptType DEF Ask, Count, TakeNonce
<1>4. CASE o \in Writer /\ (PrepareFails(o) \/ Refused(o) \/ Submit(o) \/ AnswerLost(o))
  BY <1>4, FailAttemptType DEF PrepareFails, Refused, Submit, AnswerLost, Sent
<1>5. CASE o \in Writer /\ (Confirm(o) \/ WaitFails(o))
  BY <1>5, FailAttemptType DEF Confirm, WaitFails
<1> QED  BY <1>1, <1>2, <1>3, <1>4, <1>5 DEF Proceed, Write

\* What a thread does to the nonces and transactions, its own and the others'.
LEMMA TxSteps ==
  ASSUME TypeOK, NEW o \in Thread, Proceed(o), NEW t \in Tx
  PROVE  /\ mined' = mined /\ faults' >= faults
         /\ \/ earlier' = earlier
            \/ /\ o \in Writer /\ stage[o] = "prepare" /\ tx'[Current(o)] = "pending"
               /\ earlier' = earlier \ {nonce[Current(o)]} /\ nonce' = nonce
         /\ nonce'[t] = nonce[t] \/ (o \in Writer /\ TakeNonce(o) /\ t = Current(o))
         /\ \/ tx'[t] = tx[t]
            \/ /\ o \in Writer /\ stage[o] = "prepare"
               /\ tx'[Current(o)] = "pending"
               /\ \/ t = Current(o)
                  \/ /\ tx[t] = "pending" /\ tx'[t] = "replaced"
                     /\ nonce[t] = nonce[Current(o)] /\ nonce' = nonce
<1>0. faults' >= faults
  BY DEF Proceed, Write, Gate, Provide, Report, Read, Ask, Count, TakeNonce, PrepareFails,
     Refused, Submit, AnswerLost, Confirm, WaitFails, Fault, TypeOK
<1>1. CASE o \in Writer /\ TakeNonce(o)
  BY <1>0, <1>1, CurrentTx DEF TakeNonce, Taken, TypeOK, chain
<1>2. CASE o \in Writer /\ (Submit(o) \/ AnswerLost(o))
  <2>1. Current(o) \in Tx /\ Sent(o)  BY <1>2, CurrentTx DEF Submit, AnswerLost
  <2> QED  BY <1>0, <1>2, <2>1 DEF Submit, AnswerLost, Sent, Pending, nonces
<1>3. CASE UNCHANGED <<tx, nonce, earlier, mined>>  BY <1>0, <1>3
<1> QED
  BY <1>1, <1>2, <1>3 DEF Proceed, Write, Gate, Provide, Report, Read, Ask, Count, PrepareFails, Refused,
     Confirm, WaitFails, nonces, chain

LEMMA OrderedStep ==
  ASSUME TypeOK, AttemptsOrdered, [Next]_vars
  PROVE  AttemptsOrdered'
<1>1. ASSUME NEW o \in Thread, Proceed(o)
      PROVE  AttemptsOrdered'
  <2>1. Moves(o) /\ TypeOK'  BY <1>1, ProceedMoves, ProceedType
  <2>2. ASSUME NEW t \in Tx, Past(t) \/ Now(t, After)
        PROVE  (Past(t) \/ Now(t, After))'
    BY <1>1, <2>1, <2>2, TxParts, StageSteps DEF Moves, Past, Now, After, TypeOK, Thread, Ended
  <2>3. ASSUME NEW t \in Tx, Now(t, {"prepare"})
        PROVE  (Past(t) \/ Now(t, {"prepare", "waiting", "failed"}))'
    BY <1>1, <2>1, <2>3, TxParts, StageSteps DEF Moves, Past, Now, TypeOK, Thread, Ended
  <2>4. ASSUME NEW t \in Tx, tx'[t] # "none"
        PROVE  nonce'[t] \in Nat /\ (Past(t) \/ Now(t, After))'
    <3>1. CASE tx[t] # "none"
      <4>1. nonce[t] \in Nat /\ (Past(t) \/ Now(t, After))
        BY <3>1 DEF AttemptsOrdered
      <4>2. nonce'[t] = nonce[t]
        <5>1. ASSUME o \in Writer, TakeNonce(o), t = Current(o)  PROVE FALSE
          BY <4>1, <5>1, CurrentTx DEF Past, Now, After, TakeNonce, TypeOK
        <5> QED  BY <1>1, <5>1, TxSteps
      <4> QED  BY <2>2, <4>1, <4>2
    <3>2. CASE tx[t] = "none"
      <4>1. o \in Writer /\ stage[o] = "prepare" /\ t = Current(o) /\ tx'[t] = "pending"
        BY <1>1, <2>4, <3>2, TxSteps
      <4>2. Submit(o) \/ AnswerLost(o)
        BY <1>1, <4>1, <3>2 DEF Proceed, Write, Gate, Provide, Report, Read, Ask, Count, TakeNonce,
           PrepareFails, Refused, Confirm, WaitFails, chain
      <4>3. nonce' = nonce  BY <4>2 DEF Submit, AnswerLost, Sent, nonces
      <4>4. nonce[t] \in Nat  BY <4>1 DEF AttemptsOrdered
      <4>5. Now(t, {"prepare"})  BY <4>1, CurrentTx DEF Now
      <4>6. stage'[o] # "prepare"  BY <4>1, <4>2, <1>1, StageSteps DEF TakeNonce
      <4>7. (Past(t) \/ Now(t, {"prepare", "waiting", "failed"}))'  BY <2>3, <4>5
      <4>8. t[1] = o  BY <4>1, CurrentTx
      <4> QED  BY <4>3, <4>4, <4>6, <4>7, <4>8 DEF Now, After
    <3> QED  BY <3>1, <3>2
  <2>5. ASSUME NEW t \in Tx, nonce'[t] \in Nat
        PROVE  (Past(t) \/ Now(t, After \cup {"prepare"}))'
    <3>1. CASE o \in Writer /\ TakeNonce(o) /\ t = Current(o)
      BY <3>1, CurrentTx DEF TakeNonce, MoveTo, Now, TypeOK
    <3>2. CASE nonce'[t] = nonce[t]
      <4>1. Past(t) \/ Now(t, After \cup {"prepare"})
        BY <2>5, <3>2 DEF AttemptsOrdered
      <4>2. CASE Now(t, {"prepare"})  BY <2>3, <4>2 DEF Now, After
      <4>3. CASE ~Now(t, {"prepare"})
        <5>1. Past(t) \/ Now(t, After)
          BY <4>1, <4>3 DEF Now, After
        <5> QED  BY <2>2, <5>1 DEF Now, After
      <4> QED  BY <4>2, <4>3
    <3> QED  BY <1>1, <3>1, <3>2, TxSteps
  <2>6. ASSUME NEW p \in Writer, stage'[p] = "prepare"
        PROVE  nonce'[Current(p)'] \in Nat
    <3>1. CASE p = o
      <4>1. TakeNonce(o)  BY <1>1, <2>6, <3>1, StageSteps
      <4>2. Current(o)' = Current(o) /\ Current(o) \in Tx
        BY <2>6, <3>1, <4>1, CurrentTx DEF TakeNonce, Current
      <4>3. \E m \in Nat : nonce' = [nonce EXCEPT ![Current(o)] = m]
        BY <2>6, <3>1, <4>1 DEF TakeNonce, Taken, TypeOK
      <4> QED  BY <3>1, <4>2, <4>3 DEF TypeOK
    <3>2. CASE p # o
      <4>1. p \in Thread  BY DEF Thread
      <4>2. stage[p] = "prepare" /\ Current(p)' = Current(p)
        BY <2>1, <2>6, <3>2, <4>1 DEF Moves, Current
      <4>3. nonce[Current(p)] \in Nat /\ Current(p) \in Tx
        BY <4>2, CurrentTx DEF AttemptsOrdered
      <4>4. Current(p) # Current(o)  BY <3>2 DEF Current
      <4>5. nonce'[Current(p)] = nonce[Current(p)]  BY <1>1, <4>3, <4>4, TxSteps
      <4> QED  BY <4>2, <4>3, <4>5
    <3> QED  BY <3>1, <3>2
  <2> QED  BY <2>4, <2>5, <2>6 DEF AttemptsOrdered
<1>2. CASE (\E u \in Tx : Mine(u)) \/ MineEarlier
  BY <1>2 DEF Mine, MineEarlier, AttemptsOrdered, TypeOK, Current, Past, Now, nonces
<1>3. CASE Cool
  BY <1>3 DEF Cool, AttemptsOrdered, Current, Past, Now, nonces, chain
<1>4. CASE UNCHANGED vars
  BY <1>4 DEF vars, AttemptsOrdered, Current, Past, Now
<1> QED  BY <1>1, <1>2, <1>3, <1>4 DEF Next

-----------------------------------------------------------------------------
(* The shared counter jumps over no nonce *)

\* A nonce that is accounted for stays so when a thread moves.
LEMMA CoveredOnProceed ==
  ASSUME TypeOK, AttemptsOrdered, NEW o \in Thread, Proceed(o), NEW n \in Nat, Covered(n)
  PROVE  Covered(n)'
<1>0. Moves(o) /\ TypeOK' /\ mined' = mined /\ faults' >= faults /\ faults \in Nat
  <2>1. mined' = mined
    BY DEF Proceed, Write, Gate, Provide, Report, Read, Ask, Count, TakeNonce, PrepareFails,
       Refused, Submit, AnswerLost, Sent, Confirm, WaitFails, nonces, chain
  <2>2. faults' >= faults /\ faults \in Nat
    BY DEF Proceed, Write, Gate, Provide, Report, Read, Ask, Count, TakeNonce, PrepareFails,
       Refused, Submit, AnswerLost, Confirm, WaitFails, Fault, TypeOK
  <2> QED  BY <2>1, <2>2, ProceedMoves, ProceedType
<1>1. CASE n < mined  BY <1>0, <1>1 DEF Covered
<1>2. CASE n \in earlier
  <2>1. CASE n \in earlier'  BY <2>1 DEF Covered, PendingAt
  <2>2. CASE n \notin earlier'
    <3>1. PICK t \in Tx : TRUE
      <4>1. o \in Writer
        BY <1>2, <2>2 DEF Proceed, Gate, Provide, Report, Read, chain
      <4> QED  BY <4>1, CurrentTx
    <3>2. /\ o \in Writer /\ tx'[Current(o)] = "pending"
          /\ n = nonce[Current(o)] /\ nonce' = nonce
      BY <1>2, <2>2, <3>1, TxSteps
    <3>3. Current(o) \in Tx  BY <3>2, CurrentTx
    <3> QED  BY <3>2, <3>3 DEF Covered, PendingAt
  <2> QED  BY <2>1, <2>2
<1>5. CASE PendingAt(n) /\ n \notin earlier
  <2>1. PICK t \in Tx : tx[t] = "pending" /\ nonce[t] = n  BY <1>5 DEF PendingAt
  <2>2. nonce'[t] = n
    <3>1. ASSUME o \in Writer, TakeNonce(o), t = Current(o)  PROVE FALSE
      BY <2>1, <3>1, CurrentTx DEF AttemptsOrdered, Past, Now, After, TakeNonce, TypeOK
    <3> QED  BY <2>1, <3>1, TxSteps
  <2>3. CASE tx'[t] = "pending"  BY <2>2, <2>3 DEF Covered, PendingAt
  <2>4. CASE tx'[t] # "pending"
    <3>1. /\ o \in Writer /\ stage[o] = "prepare" /\ tx'[Current(o)] = "pending"
          /\ nonce[t] = nonce[Current(o)] /\ nonce' = nonce
      BY <2>1, <2>4, TxSteps
    <3>2. Current(o) \in Tx  BY <3>1, CurrentTx
    <3> QED  BY <2>1, <3>1, <3>2 DEF Covered, PendingAt
  <2> QED  BY <2>3, <2>4
<1>3. CASE InHandAt(n)
  <2>1. PICK p \in Writer : stage[p] = "prepare" /\ nonce[Current(p)] = n  BY <1>3 DEF InHandAt
  <2>2. Current(p) \in Tx /\ p \in Thread  BY CurrentTx
  <2>3. CASE p # o
    <3>1. stage'[p] = "prepare" /\ Current(p)' = Current(p)
      BY <1>0, <2>1, <2>2, <2>3 DEF Moves, Current
    <3>2. Current(p) # Current(o)  BY <2>3 DEF Current
    <3>3. nonce'[Current(p)] = n  BY <2>1, <2>2, <3>2, TxSteps
    <3> QED  BY <3>1, <3>3 DEF Covered, InHandAt
  <2>4. CASE p = o
    <3>1. nonce'[Current(o)] = n
      BY <2>1, <2>2, <2>4, TxSteps DEF TakeNonce
    <3>2. CASE tx'[Current(o)] = "pending"
      BY <2>2, <2>4, <3>1, <3>2 DEF Covered, PendingAt
    <3>3. CASE tx'[Current(o)] # "pending"
      <4>1. tx[Current(o)] = "none"
        BY <2>1, <2>2, <2>4, CurrentTx DEF AttemptsOrdered, Past, Now, After
      <4>2. tx'[Current(o)] = "none"  BY <2>2, <2>4, <3>3, <4>1, TxSteps
      <4>3. stage'[o] # "waiting"
        <5>1. ASSUME Submit(o)  PROVE FALSE
          BY <2>2, <2>4, <3>3, <5>1 DEF Submit, Sent
        <5> QED
          BY <2>1, <2>4, <5>1, FailAttemptType DEF Proceed, Write, Gate, Provide, Report, Read, Ask, Count,
             TakeNonce, PrepareFails, Refused, AnswerLost, Confirm, WaitFails, TypeOK
      <4>4. attempt'[o] = attempt[o] + 1 \/ (attempt'[o] = attempt[o] /\ stage'[o] = "failed")
        BY <1>0, <2>1, <2>4, <4>3, StageSteps DEF Moves
      <4>5. CASE Refused(o)
        <5>1. n < mined \/ Held(n)  BY <2>1, <2>4, <4>5 DEF Refused, NonceGone
        <5>2. UNCHANGED <<earlier, tx, nonce, mined>>  BY <4>5 DEF Refused, nonces, chain
        <5> QED  BY <5>1, <5>2 DEF Held, Pending, Covered, PendingAt
      <4>6. CASE ~Refused(o)
        <5>1. ~Submit(o) /\ ~AnswerLost(o)
          BY <2>2, <2>4, <3>3 DEF Submit, AnswerLost, Sent
        <5>2. PrepareFails(o)
          BY <2>1, <2>4, <4>6, <5>1 DEF Proceed, Write, Gate, Provide, Report, Read, Ask, Count,
             TakeNonce, Confirm, WaitFails
        <5>3. faults' > 0  BY <1>0, <5>2 DEF PrepareFails, Fault
        <5>4. ASSUME NEW t \in Tx, t = Current(o)
              PROVE  (Past(t) \/ Now(t, {"failed"}))'
          BY <2>4, <4>4, <5>4, CurrentTx DEF Past, Now
        <5> QED  BY <2>2, <2>4, <3>1, <4>2, <5>3, <5>4 DEF Covered, BurnedAt
      <4> QED  BY <4>5, <4>6
    <3> QED  BY <3>2, <3>3
  <2> QED  BY <2>3, <2>4
<1>4. CASE BurnedAt(n)
  <2>1. PICK t \in Tx : tx[t] = "none" /\ nonce[t] = n /\ (Past(t) \/ Now(t, {"failed"}))
    BY <1>4 DEF BurnedAt
  <2>0. faults' > 0  BY <1>0, <1>4 DEF BurnedAt, TypeOK
  <2>2. t[1] \in Writer /\ t[2] \in Nat /\ t[1] \in Thread  BY TxParts DEF Thread
  <2>3. o \in Writer => t # Current(o)
    BY <2>1, CurrentTx, StageSteps DEF Past, Now, Ended, TypeOK
  <2>4. nonce'[t] = n /\ tx'[t] = "none"  BY <2>1, <2>3, TxSteps
  <2>5. (Past(t) \/ Now(t, {"failed"}))'
    BY <1>0, <2>1, <2>2, StageSteps DEF Moves, Past, Now, TypeOK, Ended
  <2> QED  BY <2>0, <2>4, <2>5 DEF Covered, BurnedAt
<1> QED  BY <1>1, <1>2, <1>3, <1>4, <1>5 DEF Covered

\* Mining accounts for the nonce it uses and touches no other.
LEMMA CoveredOnMine ==
  ASSUME TypeOK, NEW u \in Tx, Mine(u), NEW n \in Nat, Covered(n)
  PROVE  Covered(n)'
<1>1. mined \in Nat /\ mined' = mined + 1 /\ nonce[u] = mined /\ tx[u] = "pending"
  BY DEF Mine, TypeOK
<1>2. UNCHANGED <<nonce, stage, attempt, earlier, faults>>  BY DEF Mine, nonces
<1>3. \A t \in Tx : t # u => tx'[t] = tx[t]  BY DEF Mine, TypeOK
<1>4. CASE n < mined  BY <1>1, <1>4 DEF Covered
<1>5. CASE n = mined  BY <1>1, <1>5 DEF Covered
<1>6. CASE n > mined /\ PendingAt(n)
  BY <1>1, <1>2, <1>3, <1>6 DEF Covered, PendingAt
<1>7. CASE InHandAt(n)  BY <1>2, <1>7 DEF Covered, InHandAt, Current
<1>8. CASE BurnedAt(n)  BY <1>1, <1>2, <1>3, <1>8 DEF Covered, BurnedAt, Past, Now
<1> QED  BY <1>1, <1>4, <1>5, <1>6, <1>7, <1>8 DEF Covered

LEMMA CoveredOnMineEarlier ==
  ASSUME TypeOK, MineEarlier, NEW n \in Nat, Covered(n)
  PROVE  Covered(n)'
<1>1. mined \in Nat /\ mined' = mined + 1 /\ earlier' = earlier \ {mined}
  BY DEF MineEarlier, TypeOK
<1>2. UNCHANGED <<nonce, stage, attempt, tx, faults>>  BY DEF MineEarlier, nonces
<1>3. CASE n <= mined  BY <1>1, <1>3 DEF Covered
<1>4. CASE n > mined /\ (PendingAt(n) \/ InHandAt(n) \/ BurnedAt(n))
  BY <1>1, <1>2, <1>4 DEF Covered, PendingAt, InHandAt, BurnedAt, Current, Past, Now
<1> QED  BY <1>1, <1>3, <1>4 DEF Covered

LEMMA CoverStep ==
  ASSUME TypeOK, AttemptsOrdered, Cover, [Next]_vars
  PROVE  Cover'
<1>1. ASSUME NEW o \in Thread, Proceed(o)
      PROVE  Cover'
  <2>1. \A n \in Nat : Covered(n) => Covered(n)'  BY <1>1, CoveredOnProceed
  <2>2. CASE o \in Writer /\ TakeNonce(o)
    <3>1. PICK m \in Nat : /\ m = cache \/ (stage[o] = "counted" /\ m = counted[o])
                           /\ cache' = m + 1 /\ nonce' = [nonce EXCEPT ![Current(o)] = m]
      BY <2>2 DEF TakeNonce, Taken, TypeOK
    <3>2. \A n \in Nat : n < m => Covered(n)'  BY <2>1, <2>2, <3>1, Zenon DEF Cover
    <3>3. Current(o) \in Tx /\ Current(o)' = Current(o) /\ stage'[o] = "prepare"
      BY <2>2, CurrentTx DEF TakeNonce, MoveTo, Current, TypeOK
    <3>4. Covered(m)'
      <4>1. nonce'[Current(o)'] = m  BY <3>1, <3>3 DEF TypeOK
      <4> QED  BY <2>2, <3>3, <4>1 DEF Covered, InHandAt
    <3>5. \A n \in Nat : n < cache' => Covered(n)'
      <4>1. \A n \in Nat : n < m + 1 => n < m \/ n = m  OBVIOUS
      <4> QED  BY <3>1, <3>2, <3>4, <4>1, Zenon
    <3>6. \A p \in Writer : stage'[p] = "counted" => \A n \in Nat : n < counted'[p] => Covered(n)'
      <4>1. \A p \in Writer : stage'[p] = "counted" => stage[p] = "counted"
        BY <2>2, <3>3 DEF TakeNonce, MoveTo, TypeOK, Thread
      <4>2. \A p \in Writer : stage'[p] = "counted" => counted'[p] = counted[p]
        BY <2>2, <3>3 DEF TakeNonce, TypeOK, Thread
      <4> QED  BY <2>1, <4>1, <4>2, Zenon DEF Cover
    <3>7. ASSUME NEW t \in Tx, NEW n \in Nat, n < nonce'[t]  PROVE Covered(n)'
      <4>1. nonce'[t] = nonce[t] \/ nonce'[t] = m  BY <3>1, <3>3 DEF TypeOK
      <4>2. CASE nonce'[t] = nonce[t]
        <5>1. n < nonce[t]  BY <3>7, <4>2
        <5> QED  BY <2>1, <5>1, Zenon DEF Cover
      <4>3. CASE nonce'[t] = m
        <5>1. n < m  BY <3>7, <4>3
        <5> QED  BY <3>2, <5>1, Zenon
      <4> QED  BY <4>1, <4>2, <4>3
    <3> QED  BY <3>5, <3>6, <3>7, Zenon DEF Cover
  <2>3. CASE o \in Writer /\ Count(o)
    <3>1. UNCHANGED <<cache, nonce>>  BY <2>3 DEF Count
    <3>2. \A n \in Nat : n < cache' => Covered(n)'  BY <2>1, <3>1, Zenon DEF Cover
    <3>3. \A t \in Tx, n \in Nat : n < nonce'[t] => Covered(n)'
      BY <2>1, <3>1, Zenon DEF Cover
    <3>4. ASSUME NEW p \in Writer, stage'[p] = "counted", NEW n \in Nat, n < counted'[p]
          PROVE  Covered(n)'
      <4>1. CASE p # o
        <5>1. p \in Thread /\ stage[p] = "counted" /\ counted'[p] = counted[p]
          BY <1>1, <2>3, <3>4, <4>1, ProceedMoves DEF Moves, Count, TypeOK, Thread
        <5>2. n < counted[p]  BY <3>4, <5>1
        <5> QED  BY <2>1, <5>1, <5>2, Zenon DEF Cover
      <4>2. CASE p = o
        <5>1. ~FailAttempt(o)
          BY <2>3, <3>4, <4>2, FailAttemptType DEF TypeOK
        <5>2. PICK c \in PendingCount : counted' = [counted EXCEPT ![o] = c]
          BY <2>3, <5>1 DEF Count
        <5>3. n < c  BY <2>3, <3>4, <4>2, <5>2 DEF TypeOK
        <5>4. c >= mined /\ \A i \in mined .. c - 1 : Held(i)
          BY <5>2 DEF PendingCount
        <5>5. mined \in Nat /\ c \in Nat
          BY <5>2 DEF PendingCount, TypeOK
        <5>6. n < mined \/ Held(n)  BY <5>3, <5>4, <5>5
        <5>7. Covered(n)  BY <5>6 DEF Held, Pending, Covered, PendingAt
        <5> QED  BY <2>1, <5>7
      <4> QED  BY <4>1, <4>2
    <3> QED  BY <3>2, <3>3, <3>4, Zenon DEF Cover
  <2>4. CASE ~(o \in Writer /\ (TakeNonce(o) \/ Count(o)))
    <3>1. UNCHANGED <<cache, counted, nonce>>
      BY <1>1, <2>4 DEF Proceed, Write, Gate, Provide, Report, Read, Ask, PrepareFails, Refused, Submit,
         AnswerLost, Sent, Confirm, WaitFails, nonces
    <3>2. \A p \in Writer : stage'[p] = "counted" => stage[p] = "counted"
      BY <1>1, <2>4, ProceedMoves, StageSteps DEF Moves, Thread
    <3>3. \A n \in Nat : n < cache' => Covered(n)'  BY <2>1, <3>1, Zenon DEF Cover
    <3>4. \A t \in Tx, n \in Nat : n < nonce'[t] => Covered(n)'
      BY <2>1, <3>1, Zenon DEF Cover
    <3>5. \A p \in Writer : stage'[p] = "counted" => \A n \in Nat : n < counted'[p] => Covered(n)'
      BY <2>1, <3>1, <3>2, Zenon DEF Cover
    <3> QED  BY <3>3, <3>4, <3>5, Zenon DEF Cover
  <2> QED  BY <2>2, <2>3, <2>4
<1>2. CASE (\E u \in Tx : Mine(u)) \/ MineEarlier
  <2>1. \A n \in Nat : Covered(n) => Covered(n)'
    BY <1>2, CoveredOnMine, CoveredOnMineEarlier
  <2>2. UNCHANGED <<cache, counted, nonce, stage>>  BY <1>2 DEF Mine, MineEarlier, nonces
  <2> QED  BY <2>1, <2>2, Zenon DEF Cover
<1>3. CASE Cool \/ UNCHANGED vars
  <2>1. UNCHANGED <<cache, counted, nonce, stage, attempt, tx, earlier, mined, faults>>
    BY <1>3 DEF Cool, nonces, chain, vars
  <2>2. \A n \in Nat : Covered(n) => Covered(n)'
    BY <2>1 DEF Covered, PendingAt, InHandAt, BurnedAt, Current, Past, Now
  <2> QED  BY <2>1, <2>2, Zenon DEF Cover
<1> QED  BY <1>1, <1>2, <1>3 DEF Next

-----------------------------------------------------------------------------
(* Without a fault a nonce is never burned, so nothing waits behind one in vain *)

LEMMA RacesStep ==
  ASSUME TypeOK, AttemptsOrdered, Cover, RacesRepeatNothing, [Next]_vars
  PROVE  RacesRepeatNothing'
<1> DEFINE Kept(t) == t = Current(t[1]) /\ stage[t[1]] \in {"waiting", "reporting", "ok"}
<1> SUFFICES ASSUME faults' = 0, NEW t \in Tx, tx'[t] \in {"pending", "mined"}
             PROVE  Kept(t)'
  BY DEF RacesRepeatNothing
<1>0. t[1] \in Writer /\ t[1] \in Thread  BY TxParts DEF Thread
<1>1. ASSUME NEW o \in Thread, Proceed(o)
      PROVE  Kept(t)'
  <2>1. faults = 0 /\ Moves(o)
    BY <1>1, ProceedMoves, TxSteps DEF TypeOK
  <2>2. CASE tx[t] \notin {"pending", "mined"}
    <3>1. o \in Writer /\ stage[o] = "prepare" /\ t = Current(o) /\ tx'[t] # tx[t]
      BY <1>1, <2>2, TxSteps
    <3>2. ~Fault  BY <2>1 DEF Fault
    <3>3. Submit(o)
      BY <1>1, <3>1, <3>2 DEF Proceed, Write, Gate, Provide, Report, Read, Ask, Count, TakeNonce,
         PrepareFails, Refused, AnswerLost, Confirm, WaitFails, chain
    <3>4. t[1] = o /\ stage'[o] = "waiting" /\ attempt' = attempt
      BY <3>1, <3>3, CurrentTx DEF Submit, MoveTo, TypeOK
    <3> QED  BY <3>1, <3>4 DEF Current
  <2>3. CASE tx[t] \in {"pending", "mined"} /\ o # t[1]
    <3>1. Kept(t)  BY <2>1, <2>3 DEF RacesRepeatNothing
    <3> QED  BY <1>0, <2>1, <2>3, <3>1 DEF Moves, Current
  <2>4. CASE tx[t] \in {"pending", "mined"} /\ o = t[1]
    <3>1. Kept(t) /\ o \in Writer  BY <1>0, <2>1, <2>4 DEF RacesRepeatNothing
    <3>2. ~Fault  BY <2>1 DEF Fault
    <3>3. ~Stuck(t)
      <4>1. nonce[t] \in Nat /\ mined \in Nat  BY <2>4 DEF AttemptsOrdered, TypeOK
      <4>2. ASSUME NEW n \in mined .. nonce[t] - 1
            PROVE  Held(n) \/ n \in InHand
        <5>1. n \in Nat /\ n >= mined /\ n < nonce[t]  BY <4>1
        <5>2. Covered(n)  BY <5>1, Zenon DEF Cover
        <5>3. PendingAt(n) \/ InHandAt(n)  BY <2>1, <4>1, <5>1, <5>2 DEF Covered, BurnedAt
        <5> QED  BY <5>3 DEF PendingAt, InHandAt, Held, Pending, InHand
      <4> QED  BY <2>4, <4>2 DEF Stuck
    <3>4. Confirm(o) \/ Report(o)
      BY <1>1, <2>4, <3>1, <3>2, <3>3, ClientAssumption DEF Proceed, Write, Gate, Provide, Read,
         Ask, Count, TakeNonce, PrepareFails, Refused, Submit, AnswerLost, Sent, WaitFails
    <3>5. attempt' = attempt /\ stage'[o] \in {"reporting", "ok"}
      BY <2>4, <3>1, <3>2, <3>4, TypeOK DEF Confirm, Report, MoveTo, TypeOK
    <3> QED  BY <2>4, <3>1, <3>5 DEF Current
  <2> QED  BY <2>2, <2>3, <2>4
<1>2. CASE (\E u \in Tx : Mine(u)) \/ MineEarlier
  <2>1. tx[t] \in {"pending", "mined"} /\ UNCHANGED <<stage, attempt, faults>>
    BY <1>2 DEF Mine, MineEarlier, TypeOK
  <2> QED  BY <2>1 DEF RacesRepeatNothing, Current
<1>3. CASE Cool \/ UNCHANGED vars
  BY <1>3 DEF Cool, vars, chain, RacesRepeatNothing, Current
<1> QED  BY <1>1, <1>2, <1>3 DEF Next

-----------------------------------------------------------------------------

Inv == TypeOK /\ AttemptsOrdered /\ Cover /\ RacesRepeatNothing

LEMMA InvAlways == Spec => []Inv
<1>1. Init => Inv
  <2> SUFFICES ASSUME Init  PROVE Inv
    OBVIOUS
  <2>1. RacesRepeatNothing /\ AttemptsOrdered
    BY TxParts, CurrentTx, InitType
       DEF Init, RacesRepeatNothing, AttemptsOrdered, Thread
  <2>2. Cover  BY TxParts DEF Init, Cover, Thread
  <2> QED  BY <2>1, <2>2, InitType DEF Inv
<1>2. Inv /\ [Next]_vars => Inv'
  BY TypeStep, OrderedStep, CoverStep, RacesStep, Zenon DEF Inv
<1> QED  BY <1>1, <1>2, PTL DEF Spec

(* The client's and the chain's variables keep their types, and a closed breaker counts *)
(* fewer failures than its threshold.                                                   *)
THEOREM ClientTypeOK == Spec => []TypeOK
<1>1. Inv => TypeOK  BY DEF Inv
<1> QED  BY InvAlways, <1>1, PTL

(* While nothing raises and no wait times out, whatever the threads' races for the      *)
(* counter, their refusals and their replacements lead to, what a write has on the chain*)
(* or on its way there is the one transaction it waits for or was told of.              *)
THEOREM ClientRepeatsNothing == Spec => []RacesRepeatNothing
<1>1. Inv => RacesRepeatNothing  BY DEF Inv
<1> QED  BY InvAlways, <1>1, PTL

(* However threads interleave in the nonce counter, fail and retry, every nonce between *)
(* the chain's count and a waiting transaction is sent, in hand or burned.              *)
THEOREM ClientSkipsNoNonce == Spec => []NoNonceSkipped
<1>1. Inv => NoNonceSkipped
  <2> SUFFICES ASSUME Inv, NEW t \in Tx, tx[t] = "pending", NEW n \in mined .. nonce[t]
               PROVE  Held(n) \/ n \in InHand \cup Burned
    BY DEF NoNonceSkipped
  <2>1. nonce[t] \in Nat /\ mined \in Nat /\ n \in Nat /\ n >= mined /\ n <= nonce[t]
    BY DEF Inv, AttemptsOrdered, TypeOK
  <2>2. CASE n = nonce[t]  BY <2>2 DEF Held, Pending
  <2>3. CASE n < nonce[t]
    <3>1. Covered(n)  BY <2>1, <2>3, Zenon DEF Inv, Cover
    <3>2. CASE PendingAt(n)  BY <3>2 DEF PendingAt, Held, Pending
    <3>3. CASE InHandAt(n)  BY <3>3 DEF InHandAt, InHand
    <3>4. CASE BurnedAt(n)
      <4>1. PICK u \in Tx : tx[u] = "none" /\ nonce[u] = n /\ (Past(u) \/ Now(u, {"failed"}))
        BY <3>4 DEF BurnedAt
      <4>2. u[1] \in Writer /\ u[2] \in Nat  BY TxParts
      <4>3. u = Current(u[1]) => stage[u[1]] = "failed"
        BY <4>1, <4>2, CurrentTx DEF Inv, Past, Now, TypeOK
      <4> QED  BY <4>1, <4>3 DEF Burned
    <3> QED  BY <2>1, <3>1, <3>2, <3>3, <3>4 DEF Covered
  <2> QED  BY <2>1, <2>2, <2>3
<1> QED  BY InvAlways, <1>1, PTL

-----------------------------------------------------------------------------
(* How long a call can take *)

\* Steps left to an attempt, and to a call with the attempts it has.
StageLeft(s) ==
  CASE s = "gate"      -> 7
    [] s = "provider"  -> 6
    [] s = "asking"    -> 5
    [] s = "counted"   -> 4
    [] s = "prepare"   -> 3
    [] s \in {"waiting", "calling"} -> 2
    [] s = "reporting" -> 1

StepsLeft(o) ==
  IF stage[o] \in Ended THEN 0 ELSE 7 * (MaxRetries - attempt[o]) + StageLeft(stage[o])

StepsInRange ==
  \A o \in Thread : /\ StepsLeft(o) \in 0 .. 7 * MaxRetries
                    /\ StepsLeft(o) = 0 <=> stage[o] \in Ended

\* Transactions whose fate is known to the chain.
Settled == {t \in Tx : tx[t] \in {"replaced", "mined", "reverted"}}

OneThreadMoves ==
  \E o \in Thread : /\ StepsLeft(o)' < StepsLeft(o)
                    /\ \A p \in Thread \ {o} : StepsLeft(p)' = StepsLeft(p)

NoThreadMoves == \A o \in Thread : StepsLeft(o)' = StepsLeft(o)

UsesUp ==
  /\ Settled \subseteq Settled' /\ earlier' \subseteq earlier
  /\ \/ OneThreadMoves
     \/ NoThreadMoves /\ (Settled' # Settled \/ earlier' # earlier)
     \/ NoThreadMoves /\ ~circuit.cooled /\ circuit'.cooled

LEMMA StepsRange ==
  ASSUME TypeOK
  PROVE  StepsInRange
<1>1. ASSUME NEW o \in Thread
      PROVE  /\ StepsLeft(o) \in 0 .. 7 * MaxRetries
             /\ StepsLeft(o) = 0 <=> stage[o] \in Ended
  <2>1. attempt[o] \in 1 .. MaxRetries /\ stage[o] \in Stage  BY DEF TypeOK
  <2>2. stage[o] \notin Ended => StageLeft(stage[o]) \in 1 .. 7
    BY <2>1 DEF Stage, StageLeft
  <2>3. CASE stage[o] \in Ended  BY <2>3 DEF StepsLeft
  <2>4. CASE stage[o] \notin Ended  BY <2>1, <2>2, <2>4 DEF StepsLeft
  <2> QED  BY <2>3, <2>4
<1> QED  BY <1>1 DEF StepsInRange

\* A thread that goes on within its attempt comes to a stage with less left.
LEMMA StageGoesOn ==
  ASSUME TypeOK, NEW o \in Thread, Proceed(o), ~FailAttempt(o)
  PROVE  /\ attempt'[o] = attempt[o]
         /\ stage[o] \notin Ended
         /\ stage'[o] \in Ended \/ StageLeft(stage'[o]) < StageLeft(stage[o])
<1>1. attempt' = attempt
  BY DEF Proceed, Write, Gate, Provide, Report, Read, Ask, Count, TakeNonce, PrepareFails, Refused,
     Submit, AnswerLost, Confirm, WaitFails
<1>2. stage[o] \notin Ended  BY StageSteps
<1> USE DEF MoveTo, TypeOK, Ended, StageLeft
<1>3. CASE Gate(o)  BY <1>1, <1>2, <1>3 DEF Gate
<1>4. CASE Provide(o) \/ Report(o)  BY <1>1, <1>2, <1>4 DEF Provide, Report
<1>5. CASE o \in Reader /\ Read(o)  BY <1>1, <1>2, <1>5 DEF Read
<1>6. CASE o \in Writer /\ (Ask(o) \/ Count(o) \/ TakeNonce(o))
  BY <1>1, <1>2, <1>6 DEF Ask, Count, TakeNonce
<1>7. CASE o \in Writer /\ Submit(o)  BY <1>1, <1>2, <1>7 DEF Submit, Sent
<1>8. CASE o \in Writer /\ Confirm(o)  BY <1>1, <1>2, <1>8 DEF Confirm
<1>9. CASE o \in Writer /\ (PrepareFails(o) \/ Refused(o) \/ AnswerLost(o) \/ WaitFails(o))
  BY <1>9 DEF PrepareFails, Refused, AnswerLost, WaitFails
<1> QED  BY <1>3, <1>4, <1>5, <1>6, <1>7, <1>8, <1>9 DEF Proceed, Write

\* Every step of a thread takes from what is left to its call, and from nobody else's.
LEMMA ThreadUsesUp ==
  ASSUME TypeOK, TypeOK', NEW o \in Thread, Proceed(o)
  PROVE  /\ StepsLeft(o)' < StepsLeft(o)
         /\ \A p \in Thread \ {o} : StepsLeft(p)' = StepsLeft(p)
<1>1. \A p \in Thread \ {o} : StepsLeft(p)' = StepsLeft(p)
  BY ProceedMoves DEF Moves, StepsLeft
<1>2. /\ attempt[o] \in 1 .. MaxRetries /\ attempt'[o] \in 1 .. MaxRetries
      /\ stage[o] \in Stage /\ stage'[o] \in Stage /\ stage[o] \notin Ended
  BY StageSteps DEF TypeOK
<1>3. /\ StageLeft(stage[o]) \in 1 .. 7
      /\ stage'[o] \notin Ended => StageLeft(stage'[o]) \in 1 .. 7
  BY <1>2 DEF StageLeft, Stage
<1>4. CASE FailAttempt(o)
  <2>1. \/ stage'[o] = "gate" /\ attempt'[o] = attempt[o] + 1
        \/ stage'[o] = "failed"
    BY <1>4, FailAttemptType DEF TypeOK
  <2>2. StageLeft("gate") = 7 /\ "gate" \notin Ended /\ "failed" \in Ended
    BY DEF StageLeft, Ended
  <2> QED  BY <1>1, <1>2, <1>3, <2>1, <2>2 DEF StepsLeft
<1>5. CASE ~FailAttempt(o)
  BY <1>1, <1>2, <1>3, <1>5, StageGoesOn DEF StepsLeft
<1> QED  BY <1>4, <1>5

\* Mining and cooling leave the threads where they are, and use themselves up.
LEMMA OthersUseUp ==
  ASSUME TypeOK, (\E t \in Tx : Mine(t)) \/ MineEarlier \/ Cool
  PROVE  UsesUp
<1>1. NoThreadMoves  BY DEF NoThreadMoves, StepsLeft, Mine, MineEarlier, Cool
<1>2. ASSUME NEW t \in Tx, Mine(t)  PROVE UsesUp
  <2>1. \A u \in Tx : u # t => tx'[u] = tx[u]  BY <1>2 DEF Mine, TypeOK
  <2>2. t \notin Settled /\ t \in Settled'  BY <1>2 DEF Mine, Settled, TypeOK
  <2>3. earlier' = earlier  BY <1>2 DEF Mine
  <2> QED  BY <1>1, <2>1, <2>2, <2>3 DEF UsesUp, Settled
<1>4. CASE MineEarlier
  BY <1>1, <1>4 DEF MineEarlier, UsesUp, Settled
<1>3. CASE Cool
  <2>1. Settled' = Settled /\ earlier' = earlier  BY <1>3 DEF Cool, chain, Settled
  <2>2. ~circuit.cooled /\ circuit'.cooled  BY <1>3 DEF Cool, TypeOK
  <2> QED  BY <1>1, <2>1, <2>2 DEF UsesUp
<1> QED  BY <1>2, <1>3, <1>4

(* The part of EveryCallReturns that is no fairness: each attempt of a call takes seven *)
(* steps at most, and whatever the breaker, the node and the other threads do, every    *)
(* step is one of them, or settles a transaction for good, its own or an earlier run's, *)
(* or is the one passing of the recovery timeout before a thread moves again.  So, with *)
(* finitely many threads, nothing goes on forever.                                      *)
StepsRunOut == []StepsInRange /\ [][UsesUp]_vars

THEOREM CallsRunOut == Spec => StepsRunOut
<1>1. Inv => StepsInRange  BY StepsRange DEF Inv
<1>2. ASSUME Inv, TypeOK', Next  PROVE UsesUp
  <2>1. ASSUME NEW o \in Thread, Proceed(o)  PROVE UsesUp
    <3>1. OneThreadMoves  BY <1>2, <2>1, ThreadUsesUp DEF OneThreadMoves, Inv
    <3>2. ASSUME NEW t \in Tx, tx[t] \in {"replaced", "mined", "reverted"}
          PROVE  tx'[t] = tx[t]
      <4>1. tx'[t] = tx[t] \/ (o \in Writer /\ stage[o] = "prepare" /\ t = Current(o))
        BY <1>2, <2>1, <3>2, TxSteps DEF Inv
      <4>2. ASSUME o \in Writer, stage[o] = "prepare", t = Current(o)  PROVE FALSE
        <5>1. t[1] = o /\ t[2] = attempt[o]  BY <1>2, <4>2, CurrentTx DEF Inv
        <5>2. attempt[o] \in Nat  BY <1>2 DEF Inv, TypeOK
        <5> QED  BY <1>2, <3>2, <4>2, <5>1, <5>2 DEF Inv, AttemptsOrdered, Past, Now, After
      <4> QED  BY <4>1, <4>2
    <3>3. CASE o \in Writer
      <4>1. Current(o) \in Tx  BY <1>2, <3>3, CurrentTx DEF Inv
      <4>2. earlier' \subseteq earlier  BY <1>2, <2>1, <4>1, TxSteps DEF Inv
      <4> QED  BY <3>1, <3>2, <4>2 DEF UsesUp, Settled
    <3>4. CASE o \notin Writer
      <4>1. earlier' = earlier
        BY <2>1, <3>4 DEF Proceed, Gate, Provide, Report, Read, chain
      <4> QED  BY <3>1, <3>2, <4>1 DEF UsesUp, Settled
    <3> QED  BY <3>3, <3>4
  <2>2. CASE (\E t \in Tx : Mine(t)) \/ MineEarlier \/ Cool  BY <1>2, <2>2, OthersUseUp DEF Inv
  <2> QED  BY <1>2, <2>1, <2>2 DEF Next
<1>3. Inv /\ TypeOK' /\ [Next]_vars => [UsesUp]_vars  BY <1>2
<1> QED  BY <1>1, <1>3, InvAlways, ClientTypeOK, PTL DEF Spec, StepsRunOut
=============================================================================
