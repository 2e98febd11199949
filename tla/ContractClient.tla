---------------------------- MODULE ContractClient ----------------------------
(***************************************************************************)
(* The contract client of blockchain_client.py in                          *)
(* blockchain/smart_contract_integration: threads that read and write one  *)
(* contract with one key, and share a circuit breaker and a counter of     *)
(* nonces.  A step runs to the next RPC; what lies between two of them runs*)
(* without a call and so without a change of thread.  The node and the     *)
(* chain are external.  Operators commented "Slip:" are altered forms of   *)
(* the operator that follows and take no part in the specification.        *)
(***************************************************************************)
EXTENDS Integers

CONSTANTS
  Writer, Reader,     \* threads, each in one call of send or of call
  MaxRetries,         \* max_retries: 3 by default
  FailureThreshold,   \* failure_threshold: 5 by default
  Earlier,            \* the nonces an earlier run of the service left pending
  MaxFaults           \* bound: exceptions, lost answers and waits that time out

ASSUME ClientAssumption ==
  /\ Writer \cap Reader = {}
  /\ MaxRetries \in Nat \ {0} /\ FailureThreshold \in Nat \ {0} /\ MaxFaults \in Nat
  /\ Earlier \subseteq Nat

Thread == Writer \cup Reader
Tx == Writer \X (1 .. MaxRetries)   \* one transaction for each attempt at a write
Absent == -1

Ended == {"ok", "reverted", "failed", "unavailable"}
Stage == Ended \cup {"gate", "provider", "asking", "counted", "prepare", "waiting", "calling",
                     "reporting"}

VARIABLES
  circuit,    \* the breaker: its state, its count, and whether the recovery timeout is over
  stage, attempt,
  cache,      \* NonceManager._cache of the key, or Absent
  counted,    \* the transaction count each thread got from its node and has to store yet
  nonce,      \* the nonce each attempt took, or Absent
  tx,         \* what became of each transaction
  earlier,    \* nonces of pending transactions that an earlier run sent
  mined,      \* the key's transaction count on the chain
  faults

vars == <<circuit, stage, attempt, cache, counted, nonce, tx, earlier, mined, faults>>
chain == <<tx, earlier, mined>>
nonces == <<cache, counted, nonce>>

Init ==
  /\ circuit = [state |-> "closed", failures |-> 0, cooled |-> FALSE]
  /\ stage = [o \in Thread |-> "gate"] /\ attempt = [o \in Thread |-> 1]
  /\ cache = Absent
  /\ counted = [o \in Writer |-> 0]
  /\ nonce = [t \in Tx |-> Absent]
  /\ tx = [t \in Tx |-> "none"]
  /\ earlier = Earlier /\ mined = 0
  /\ faults = 0

-----------------------------------------------------------------------------
(* The breaker *)

Admits == circuit.state = "open" => circuit.cooled

RecordSuccess == circuit' = [state |-> "closed", failures |-> 0, cooled |-> FALSE]

\* The count matters up to the threshold only.
RecordFailureAt(threshold) ==
  LET n == IF circuit.failures < FailureThreshold THEN circuit.failures + 1 ELSE FailureThreshold
      opens == circuit.state = "half_open" \/ n >= threshold
  IN  circuit' = [state |-> IF opens THEN "open" ELSE circuit.state, failures |-> n,
                  cooled |-> FALSE]

\* Slip: one failure more than the threshold opens the breaker.
RecordFailureLate == RecordFailureAt(FailureThreshold + 1)

RecordFailure == RecordFailureAt(FailureThreshold)

\* The recovery timeout passes.
Cool ==
  /\ circuit.state = "open" /\ ~circuit.cooled
  /\ circuit' = [circuit EXCEPT !.cooled = TRUE]
  /\ UNCHANGED <<stage, attempt, nonces, chain, faults>>

-----------------------------------------------------------------------------
(* The retry loop, and the nodes it asks *)

MoveTo(o, s) == stage' = [stage EXCEPT ![o] = s]
Current(o) == <<o, attempt[o]>>
Fault == faults < MaxFaults /\ faults' = faults + 1

\* Any exception but a revert or an unavailable provider.
FailAttempt(o) ==
  /\ RecordFailure
  /\ IF attempt[o] < MaxRetries
     THEN MoveTo(o, "gate") /\ attempt' = [attempt EXCEPT ![o] = attempt[o] + 1]
     ELSE MoveTo(o, "failed") /\ UNCHANGED attempt

\* Slip: a caller that the breaker refuses waits for it.
GateWaits(o) ==
  /\ stage[o] = "gate" /\ Admits /\ MoveTo(o, "provider")
  /\ UNCHANGED <<circuit, attempt, nonces, chain, faults>>

Gate(o) ==
  /\ stage[o] = "gate"
  /\ IF Admits
     THEN MoveTo(o, "provider") /\
          circuit' = IF circuit.state = "open"
                     THEN [circuit EXCEPT !.state = "half_open", !.cooled = FALSE] ELSE circuit
     ELSE MoveTo(o, "unavailable") /\ UNCHANGED circuit
  /\ UNCHANGED <<attempt, nonces, chain, faults>>

\* No provider ends the call; what raises after it, the lookup of the function and the
\* encoding of its arguments, is retried like the rest.
Provide(o) ==
  /\ stage[o] = "provider"
  /\ \/ o \in Reader /\ MoveTo(o, "calling") /\ UNCHANGED <<circuit, attempt, faults>>
     \/ Fault /\ RecordFailure /\ MoveTo(o, "unavailable") /\ UNCHANGED attempt
     \/ Fault /\ FailAttempt(o)
  /\ UNCHANGED <<nonces, chain>>

\* A revert is reported at once and is no failure of the provider.
Read(o) ==
  /\ stage[o] = "calling"
  /\ \/ RecordSuccess /\ MoveTo(o, "reporting") /\ UNCHANGED <<attempt, faults>>
     \/ MoveTo(o, "reverted") /\ UNCHANGED <<circuit, attempt, faults>>
     \/ Fault /\ FailAttempt(o)
  /\ UNCHANGED <<nonces, chain>>

\* Slip: the return is missing, and the loop goes on after a success.
ReportAndGoOn(o) ==
  /\ stage[o] = "reporting"
  /\ IF attempt[o] < MaxRetries
     THEN MoveTo(o, "gate") /\ attempt' = [attempt EXCEPT ![o] = attempt[o] + 1]
     ELSE MoveTo(o, "ok") /\ UNCHANGED attempt
  /\ UNCHANGED <<circuit, nonces, chain, faults>>

\* A success is counted and logged, with the signer's address, inside the try: what raises
\* there is a failure like any other, and the call is made again.
Report(o) ==
  /\ stage[o] = "reporting"
  /\ \/ MoveTo(o, "ok") /\ UNCHANGED <<circuit, attempt, faults>>
     \/ Fault /\ FailAttempt(o)
  /\ UNCHANGED <<nonces, chain>>

-----------------------------------------------------------------------------
(* NonceManager.get_and_increment *)

Pending(n) == {t \in Tx : tx[t] = "pending" /\ nonce[t] = n}

\* The node holds a transaction with the nonce.
Held(n) == n \in earlier \/ Pending(n) # {}

\* What a node counts, the mined transactions and those it holds that follow them: one
\* number, as a set.
PendingCount ==
  {n \in {mined} \cup {nonce[t] + 1 : t \in Tx} \cup {e + 1 : e \in earlier} :
     n >= mined /\ ~Held(n) /\ \A i \in mined .. n - 1 : Held(i)}

\* The cache is found empty; the node's answer comes later, whatever others did meanwhile.
Ask(o) ==
  /\ stage[o] = "provider" /\ cache = Absent
  /\ MoveTo(o, "asking")
  /\ UNCHANGED <<circuit, attempt, nonces, chain, faults>>

Count(o) ==
  /\ stage[o] = "asking"
  /\ \/ /\ \E n \in PendingCount : counted' = [counted EXCEPT ![o] = n]
        /\ MoveTo(o, "counted") /\ UNCHANGED <<circuit, attempt, faults>>
     \/ Fault /\ FailAttempt(o) /\ UNCHANGED counted
  /\ UNCHANGED <<cache, nonce, chain>>

\* Slip: the counter moves before the nonce is read.
TakenAhead(o, n) == cache' = n + 1 /\ nonce' = [nonce EXCEPT ![Current(o)] = n + 1]

Taken(o, n) == cache' = n + 1 /\ nonce' = [nonce EXCEPT ![Current(o)] = n]

\* A count asked for while the cache was empty is stored even when it is not any more.
TakeNonce(o) ==
  /\ \/ stage[o] = "provider" /\ cache # Absent /\ Taken(o, cache)
     \/ stage[o] = "counted" /\ Taken(o, counted[o])
  /\ MoveTo(o, "prepare")
  /\ counted' = [counted EXCEPT ![o] = 0]
  /\ UNCHANGED <<circuit, attempt, chain, faults>>

-----------------------------------------------------------------------------
(* _send_once once it has its nonce, and the chain *)

\* Gas estimation, fees, building, signing, or sending the transaction raises.
PrepareFails(o) ==
  /\ stage[o] = "prepare"
  /\ Fault /\ FailAttempt(o)
  /\ UNCHANGED <<nonces, chain>>

\* The node holds another transaction with the nonce, or the chain has one.
NonceGone(o) == nonce[Current(o)] < mined \/ Held(nonce[Current(o)])

\* Nonce too low, or a replacement that pays too little.
Refused(o) ==
  /\ stage[o] = "prepare" /\ NonceGone(o)
  /\ FailAttempt(o)
  /\ UNCHANGED <<nonces, chain, faults>>

\* What replaces a transaction pays more.
Sent(o) ==
  /\ stage[o] = "prepare" /\ nonce[Current(o)] >= mined
  /\ tx' = [t \in Tx |-> IF t = Current(o) THEN "pending"
                         ELSE IF t \in Pending(nonce[Current(o)]) THEN "replaced" ELSE tx[t]]
  /\ earlier' = earlier \ {nonce[Current(o)]}
  /\ UNCHANGED <<nonces, mined>>

Submit(o) ==
  /\ Sent(o)
  /\ MoveTo(o, "waiting")
  /\ UNCHANGED <<circuit, attempt, faults>>

\* The node takes the transaction and its answer is lost.
AnswerLost(o) == Sent(o) /\ Fault /\ FailAttempt(o)

\* A transaction that reverted is not tried again.
Confirm(o) ==
  /\ stage[o] = "waiting"
  /\ \/ tx[Current(o)] = "mined" /\ RecordSuccess /\ MoveTo(o, "reporting")
     \/ tx[Current(o)] = "reverted" /\ MoveTo(o, "reverted") /\ UNCHANGED circuit
  /\ UNCHANGED <<attempt, nonces, chain, faults>>

\* Nonces that an attempt is about to use.
InHand == {nonce[Current(o)] : o \in {v \in Writer : stage[v] = "prepare"}}

\* It will not be mined: another took its nonce, or nobody is sending one before it.
Stuck(t) ==
  \/ tx[t] = "replaced"
  \/ tx[t] = "pending" /\ \E n \in mined .. nonce[t] - 1 : ~Held(n) /\ n \notin InHand

\* The wait for the receipt times out, or asking for it raises.
WaitFails(o) ==
  /\ stage[o] = "waiting"
  /\ Fault \/ (Stuck(Current(o)) /\ UNCHANGED faults)
  /\ FailAttempt(o)
  /\ UNCHANGED <<nonces, chain>>

Mine(t) ==
  /\ tx[t] = "pending" /\ nonce[t] = mined
  /\ \E fate \in {"mined", "reverted"} : tx' = [tx EXCEPT ![t] = fate]
  /\ mined' = mined + 1
  /\ UNCHANGED <<circuit, stage, attempt, nonces, earlier, faults>>

MineEarlier ==
  /\ mined \in earlier
  /\ earlier' = earlier \ {mined} /\ mined' = mined + 1
  /\ UNCHANGED <<circuit, stage, attempt, nonces, tx, faults>>

Write(o) ==
  \/ Ask(o) \/ Count(o) \/ TakeNonce(o) \/ PrepareFails(o) \/ Refused(o) \/ Submit(o)
  \/ AnswerLost(o) \/ Confirm(o) \/ WaitFails(o)

Proceed(o) ==
  \/ Gate(o) \/ Provide(o) \/ Report(o)
  \/ o \in Reader /\ Read(o)
  \/ o \in Writer /\ Write(o)

Next ==
  \/ \E o \in Thread : Proceed(o)
  \/ (\E t \in Tx : Mine(t)) \/ MineEarlier
  \/ Cool

\* Threads that run go on, every RPC answers or raises, and the chain mines what it can.
Fairness ==
  /\ \A o \in Thread : WF_vars(Proceed(o))
  /\ WF_vars((\E t \in Tx : Mine(t)) \/ MineEarlier)

Spec == Init /\ [][Next]_vars /\ Fairness

-----------------------------------------------------------------------------
(* Properties *)

TypeOK ==
  /\ circuit \in [state: {"closed", "open", "half_open"}, failures: 0 .. FailureThreshold,
                 cooled: BOOLEAN]
  /\ circuit.state = "closed" => circuit.failures < FailureThreshold
  /\ stage \in [Thread -> Stage] /\ attempt \in [Thread -> 1 .. MaxRetries]
  /\ cache \in Nat \cup {Absent} /\ counted \in [Writer -> Nat]
  /\ nonce \in [Tx -> Nat \cup {Absent}]
  /\ tx \in [Tx -> {"none", "pending", "replaced", "mined", "reverted"}]
  /\ earlier \subseteq Earlier /\ mined \in Nat
  /\ faults \in 0 .. MaxFaults

(* A transaction that is on the chain or may still get there is the one its thread      *)
(* waits for or was told of, while nothing raised and no wait timed out: the races for  *)
(* the counter, with the refusals, replacements and retries they lead to, never make a  *)
(* write execute twice or after it ended in an error.  With one fault they may.         *)
RacesRepeatNothing ==
  faults = 0 =>
    \A t \in Tx : tx[t] \in {"pending", "mined"} =>
      t = Current(t[1]) /\ stage[t[1]] \in {"waiting", "reporting", "ok"}

\* Nonces that an attempt took and gave up before anything was sent with them.
Burned ==
  {nonce[t] : t \in {u \in Tx : tx[u] = "none" /\ (u = Current(u[1]) => stage[u[1]] = "failed")}}

(* Between the chain's count and a transaction that waits, every nonce is sent, in hand *)
(* or burned: whatever the threads do to the shared counter, it skips none.             *)
NoNonceSkipped ==
  \A t \in Tx : tx[t] = "pending" =>
    \A n \in mined .. nonce[t] : Held(n) \/ n \in InHand \cup Burned

(* A transaction the node took is mined or replaced in the end, or waits behind a       *)
(* burned nonce that nobody sends any more.                                             *)
MinedOrBehindBurned ==
  \A t \in Tx : tx[t] = "pending" ~>
    tx[t] # "pending" \/ \E n \in Burned : mined <= n /\ n < nonce[t] /\ ~Held(n)

(* Every read and write returns, with the breaker, the retries and the waits it has.    *)
EveryCallReturns == \A o \in Thread : stage[o] = "gate" ~> stage[o] \in Ended
=============================================================================
