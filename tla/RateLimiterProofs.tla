------------------------- MODULE RateLimiterProofs --------------------------
(* Proofs about the rate limiter, for every number of clients and addresses,   *)
(* every window and every precision of the clock.                              *)
EXTENDS RateLimiter, FiniteSetTheorems, TLAPS

(* The code's list holds, among those too old to matter, exactly the           *)
(* admissions of the last window.                                              *)
RecentIsAdmitted == \A a \in Address : Recent(a) = admitted[a]

(* When the open promise of an address falls due, fewer admissions than the    *)
(* limit will still be in the window: the oldest of them has left it.          *)
Outlasting(a) == {i \in admitted[a] : age[a][i] + promise[a] < WindowTicks}
PromiseCovers ==
    \A a \in Address :
        promise[a] # NoPromise => Cardinality(Outlasting(a)) < MaxRequests

IInv ==
    /\ TypeOK
    /\ RecentIsAdmitted
    /\ WindowBound
    /\ PromiseCovers

-----------------------------------------------------------------------------
LEMMA WindowTicksType == WindowTicks \in Nat \ {0}
  <1>1. Window \in Nat \ {0} /\ TPS \in Nat \ {0}
    BY LimiterAssumption
  <1> QED
    BY <1>1 DEF WindowTicks

(* Truncated seconds and one more cover the ticks they were computed from.     *)
LEMMA SecondsCover ==
  ASSUME NEW x \in Nat, NEW t \in Nat \ {0}
  PROVE  (x \div t + 1) * t \in Nat /\ (x \div t + 1) * t > x
  <1>1. x \div t \in Nat /\ x = (x \div t) * t + (x % t) /\ x % t \in 0 .. t - 1
    OBVIOUS
  <1>2. (x \div t + 1) * t = (x \div t) * t + t
    BY <1>1
  <1>3. (x \div t) * t \in Nat
    BY <1>1
  <1> QED
    BY <1>1, <1>2, <1>3

(* Whoever waits for Retry-After and one second more waits until the oldest    *)
(* admission has left the window.                                              *)
LEMMA RetryCovers ==
  ASSUME NEW a \in Address, NEW i \in Slot, age[a][i] \in 0 .. WindowTicks
  PROVE  /\ (RetryAfter(a, i) + 1) * TPS \in Nat
         /\ age[a][i] + (RetryAfter(a, i) + 1) * TPS >= WindowTicks
  <1> DEFINE left == (WindowTicks - age[a][i]) \div TPS
  <1>1. TPS \in Nat \ {0}
    BY LimiterAssumption
  <1>2. WindowTicks - age[a][i] \in Nat
    BY WindowTicksType
  <1>3. left \in Nat
    BY <1>1, <1>2
  <1>4. (left + 1) * TPS \in Nat /\ (left + 1) * TPS > WindowTicks - age[a][i]
    BY <1>1, <1>2, SecondsCover
  <1>5. CASE left > 1
    <2>1. RetryAfter(a, i) = left
      BY <1>5 DEF RetryAfter
    <2> QED
      BY <2>1, <1>4, WindowTicksType
  <1>6. CASE ~(left > 1)
    <2>1. RetryAfter(a, i) = 1
      BY <1>6 DEF RetryAfter
    <2>2. left = 0 \/ left = 1
      BY <1>3, <1>6
    <2>3. (1 + 1) * TPS >= (left + 1) * TPS
      BY <2>2, <1>1
    <2>4. (1 + 1) * TPS \in Nat
      BY <1>1
    <2> HIDE DEF left
    <2> QED
      BY <2>1, <2>3, <2>4, <1>4, WindowTicksType
  <1> QED
    BY <1>5, <1>6

-----------------------------------------------------------------------------
LEMMA InitEstablishes == Init => IInv
  <1> SUFFICES ASSUME Init PROVE IInv
    OBVIOUS
  <1>1. TypeOK
    BY WindowTicksType DEF Init, TypeOK, NoPromise
  <1>2. RecentIsAdmitted
    BY DEF Init, RecentIsAdmitted, Recent
  <1>3. WindowBound
    BY FS_EmptySet, LimiterAssumption DEF Init, WindowBound
  <1>4. PromiseCovers
    BY DEF Init, PromiseCovers
  <1> QED
    BY <1>1, <1>2, <1>3, <1>4 DEF IInv

LEMMA AskPreserves ==
  ASSUME IInv, NEW c \in Client, Ask(c)
  PROVE  IInv'
  <1> USE DEF IInv
  <1>1. TypeOK'
    BY DEF Ask, TypeOK
  <1>2. RecentIsAdmitted'
    BY DEF Ask, RecentIsAdmitted, Recent
  <1>3. WindowBound'
    BY DEF Ask, WindowBound
  <1>4. PromiseCovers'
    BY DEF Ask, PromiseCovers, Outlasting
  <1> QED
    BY <1>1, <1>2, <1>3, <1>4

(* An admission joins fewer than MaxRequests others and closes the promise.    *)
LEMMA AdmitPreserves ==
  ASSUME IInv, NEW c \in Client, Admit(c)
  PROVE  IInv'
  <1> DEFINE a == AddressOf[c]
  <1>0. a \in Address
    BY LimiterAssumption
  <1>1. PICK i \in Slot \ (Recent(a) \cup admitted[a]) :
          /\ history' = [history EXCEPT ![a] = Recent(a) \cup {i}]
          /\ age' = [age EXCEPT ![a][i] = 0]
          /\ admitted' = [admitted EXCEPT ![a] = @ \cup {i}]
    BY DEF Admit
  <1>2. /\ Cardinality(Recent(a)) < MaxRequests
        /\ pc' = [pc EXCEPT ![c] = "admitted"]
        /\ promise' = [promise EXCEPT ![a] = NoPromise]
    BY DEF Admit
  <1>3. Recent(a) \subseteq Slot /\ Recent(a) = admitted[a]
    BY <1>0 DEF IInv, TypeOK, Recent, RecentIsAdmitted
  <1> HIDE DEF a
  <1>4. TypeOK'
    BY <1>0, <1>1, <1>2, <1>3, WindowTicksType DEF IInv, TypeOK, NoPromise
  <1>5. ASSUME NEW b \in Address PROVE Recent(b)' = admitted'[b]
    <2>1. CASE b = a
      <3>1. history'[a] = Recent(a) \cup {i} /\ admitted'[a] = Recent(a) \cup {i}
        BY <1>0, <1>1, <1>3 DEF IInv, TypeOK
      <3>2. age'[a][i] = 0 /\ \A j \in Recent(a) : age'[a][j] = age[a][j]
        BY <1>0, <1>1, <1>3 DEF IInv, TypeOK
      <3>3. \A j \in Recent(a) : age[a][j] < WindowTicks
        BY DEF Recent
      <3> QED
        BY <2>1, <3>1, <3>2, <3>3, WindowTicksType DEF Recent
    <2>2. CASE b # a
      BY <2>2, <1>1 DEF IInv, TypeOK, Recent, RecentIsAdmitted
    <2> QED
      BY <2>1, <2>2
  <1>6. ASSUME NEW b \in Address PROVE Cardinality(admitted'[b]) <= MaxRequests
    <2>1. CASE b = a
      <3>1. admitted'[a] = Recent(a) \cup {i} /\ i \notin Recent(a)
        BY <1>0, <1>1, <1>3 DEF IInv, TypeOK
      <3>2. IsFiniteSet(Recent(a))
        BY <1>3, LimiterAssumption, FS_Subset
      <3>3. /\ Cardinality(Recent(a) \cup {i}) = Cardinality(Recent(a)) + 1
            /\ Cardinality(Recent(a)) \in Nat
        BY <3>1, <3>2, FS_AddElement, FS_CardinalityType
      <3>4. MaxRequests \in Nat
        BY LimiterAssumption
      <3> QED
        BY <2>1, <3>1, <3>3, <3>4, <1>2
    <2>2. CASE b # a
      BY <2>2, <1>1 DEF IInv, TypeOK, WindowBound
    <2> QED
      BY <2>1, <2>2
  <1>7. ASSUME NEW b \in Address, promise'[b] # NoPromise
        PROVE  Cardinality(Outlasting(b)') < MaxRequests
    <2>1. b # a
      BY <1>0, <1>2, <1>7 DEF IInv, TypeOK
    <2>2. promise'[b] = promise[b] /\ admitted'[b] = admitted[b] /\ age'[b] = age[b]
      BY <2>1, <1>0, <1>1, <1>2 DEF IInv, TypeOK
    <2> QED
      BY <2>2, <1>7 DEF IInv, PromiseCovers, Outlasting
  <1> QED
    BY <1>4, <1>5, <1>6, <1>7 DEF IInv, RecentIsAdmitted, WindowBound, PromiseCovers

(* A refusal changes what is remembered only by dropping what is too old; a    *)
(* promise made now outlasts the oldest admission.                             *)
LEMMA RefusePreserves ==
  ASSUME IInv, NEW c \in Client, Refuse(c)
  PROVE  IInv'
  <1> DEFINE a == AddressOf[c]
  <1>0. a \in Address
    BY LimiterAssumption
  <1>1. PICK i \in Slot :
          /\ Oldest(a, i)
          /\ promise' = [promise EXCEPT ![a] =
               IF @ = NoPromise THEN (RetryAfter(a, i) + 1) * TPS ELSE @]
    BY DEF Refuse
  <1>2. /\ history' = [history EXCEPT ![a] = Recent(a)]
        /\ pc' = [pc EXCEPT ![c] = "refused"]
        /\ age' = age
        /\ admitted' = admitted
    BY DEF Refuse
  <1>3. Recent(a) \subseteq Slot /\ Recent(a) = admitted[a]
    BY <1>0 DEF IInv, TypeOK, Recent, RecentIsAdmitted
  <1>4. /\ (RetryAfter(a, i) + 1) * TPS \in Nat
        /\ age[a][i] + (RetryAfter(a, i) + 1) * TPS >= WindowTicks
    BY <1>0, RetryCovers DEF IInv, TypeOK
  <1> HIDE DEF a
  <1> DEFINE new == (RetryAfter(a, i) + 1) * TPS
  <1>5. new \in Nat /\ age[a][i] + new >= WindowTicks
    BY <1>4
  <1>6. promise' = [promise EXCEPT ![a] = IF @ = NoPromise THEN new ELSE @]
    BY <1>1
  <1> HIDE DEF new
  <1>7. TypeOK'
    BY <1>0, <1>2, <1>3, <1>5, <1>6 DEF IInv, TypeOK
  <1>8. RecentIsAdmitted'
    BY <1>0, <1>2 DEF IInv, TypeOK, RecentIsAdmitted, Recent
  <1>9. WindowBound'
    BY <1>2 DEF IInv, WindowBound
  <1>10. ASSUME NEW b \in Address, promise'[b] # NoPromise
         PROVE  Cardinality(Outlasting(b)') < MaxRequests
    <2>1. CASE promise'[b] = promise[b]
      <3>1. Outlasting(b)' = Outlasting(b)
        BY <2>1, <1>2 DEF Outlasting
      <3> QED
        BY <3>1, <2>1, <1>10 DEF IInv, PromiseCovers
    <2>2. CASE promise'[b] # promise[b]
      <3>1. b = a /\ promise'[a] = new
        BY <2>2, <1>0, <1>6 DEF IInv, TypeOK
      <3>2. i \in admitted[a] /\ i \notin Outlasting(a)'
        <4>1. i \in admitted[a]
          BY <1>1, <1>3 DEF Oldest
        <4>2. age[a][i] \in Nat
          BY <1>0 DEF IInv, TypeOK
        <4> QED
          BY <4>1, <4>2, <3>1, <1>2, <1>5, WindowTicksType DEF Outlasting
      <3>3. Outlasting(a)' \subseteq admitted[a] \ {i}
        BY <3>2, <1>2 DEF Outlasting
      <3>4. IsFiniteSet(admitted[a])
        BY <1>3, LimiterAssumption, FS_Subset
      <3>5. /\ IsFiniteSet(admitted[a] \ {i})
            /\ Cardinality(admitted[a] \ {i}) = Cardinality(admitted[a]) - 1
        BY <3>2, <3>4, FS_RemoveElement
      <3>6. Cardinality(Outlasting(a)') <= Cardinality(admitted[a] \ {i})
        BY <3>3, <3>5, FS_Subset
      <3>7. /\ Cardinality(admitted[a]) <= MaxRequests
            /\ Cardinality(admitted[a]) \in Nat
            /\ Cardinality(Outlasting(a)') \in Nat
            /\ MaxRequests \in Nat
        BY <1>0, <3>3, <3>4, <3>5, FS_Subset, FS_CardinalityType, LimiterAssumption
           DEF IInv, WindowBound
      <3> QED
        BY <3>1, <3>5, <3>6, <3>7
    <2> QED
      BY <2>1, <2>2
  <1> QED
    BY <1>7, <1>8, <1>9, <1>10 DEF IInv, PromiseCovers

(* As time passes admissions only leave the window, and an open promise and    *)
(* the ages go on together.                                                    *)
LEMMA TickPreserves ==
  ASSUME IInv, Tick
  PROVE  IInv'
  <1> USE DEF IInv
  <1>1. /\ age' = [b \in Address |-> [i \in Slot |->
              IF age[b][i] < WindowTicks THEN age[b][i] + 1 ELSE age[b][i]]]
        /\ admitted' = [b \in Address |-> {i \in admitted[b] : age'[b][i] < WindowTicks}]
        /\ promise' = [b \in Address |->
              IF promise[b] > 0 THEN promise[b] - 1 ELSE promise[b]]
        /\ history' = history
        /\ pc' = pc
    BY DEF Tick
  <1>2. TypeOK'
    <2>1. age' \in [Address -> [Slot -> 0 .. WindowTicks]]
      BY <1>1, WindowTicksType DEF TypeOK
    <2>2. admitted' \in [Address -> SUBSET Slot]
      BY <1>1 DEF TypeOK
    <2>3. promise' \in [Address -> Nat \cup {NoPromise}]
      BY <1>1 DEF TypeOK, NoPromise
    <2> QED
      BY <1>1, <2>1, <2>2, <2>3 DEF TypeOK
  <1>3. ASSUME NEW b \in Address
        PROVE  /\ admitted[b] \subseteq Slot
               /\ \A i \in Slot :
                    /\ age[b][i] \in 0 .. WindowTicks
                    /\ age'[b][i] \in 0 .. WindowTicks
                    /\ age'[b][i] < WindowTicks => age'[b][i] = age[b][i] + 1
    BY <1>1, <1>2, WindowTicksType DEF TypeOK
  <1>4. ASSUME NEW b \in Address PROVE Recent(b)' = admitted'[b]
    <2>1. Recent(b) = admitted[b]
      BY DEF RecentIsAdmitted
    <2>2. Recent(b)' = {i \in history[b] : age'[b][i] < WindowTicks}
      BY <1>1 DEF Recent
    <2>3. history[b] \subseteq Slot
      BY DEF TypeOK
    <2>4. ASSUME NEW i \in history[b], age'[b][i] < WindowTicks PROVE i \in Recent(b)
      <3>1. i \in Slot
        BY <2>3
      <3>2. age'[b][i] = age[b][i] + 1 /\ age[b][i] \in 0 .. WindowTicks
        BY <3>1, <2>4, <1>3
      <3> QED
        BY <3>2, <2>4, WindowTicksType DEF Recent
    <2>5. Recent(b) \subseteq history[b]
      BY DEF Recent
    <2>6. admitted'[b] = {i \in Recent(b) : age'[b][i] < WindowTicks}
      BY <2>1, <1>1
    <2> HIDE DEF IInv
    <2> QED
      BY <2>2, <2>4, <2>5, <2>6
  <1>5. ASSUME NEW b \in Address
        PROVE  /\ IsFiniteSet(admitted[b])
               /\ admitted'[b] \subseteq admitted[b]
               /\ Cardinality(admitted'[b]) <= Cardinality(admitted[b])
               /\ Cardinality(admitted'[b]) \in Nat
               /\ Cardinality(admitted[b]) \in Nat
    <2>1. IsFiniteSet(admitted[b])
      BY <1>3, LimiterAssumption, FS_Subset
    <2>2. admitted'[b] \subseteq admitted[b]
      BY <1>1
    <2> QED
      BY <2>1, <2>2, FS_Subset, FS_CardinalityType
  <1>6. WindowBound'
    <2>1. MaxRequests \in Nat
      BY LimiterAssumption
    <2> QED
      BY <2>1, <1>5 DEF WindowBound
  <1>7. ASSUME NEW b \in Address, promise'[b] # NoPromise
        PROVE  Cardinality(Outlasting(b)') < MaxRequests
    <2>1. promise[b] \in Nat /\ promise[b] # NoPromise
      BY <1>1, <1>7 DEF TypeOK, NoPromise
    <2>2. promise'[b] \in Nat /\ promise[b] <= promise'[b] + 1
      BY <2>1, <1>1
    <2>3. Outlasting(b)' \subseteq Outlasting(b)
      <3>1. SUFFICES ASSUME NEW i \in admitted'[b],
                            age'[b][i] + promise'[b] < WindowTicks
                     PROVE  i \in admitted[b] /\ age[b][i] + promise[b] < WindowTicks
        BY DEF Outlasting
      <3>2. i \in admitted[b] /\ i \in Slot
        BY <1>5, <1>3
      <3>3. age'[b][i] < WindowTicks
        BY <1>1, <3>2
      <3>4. age'[b][i] = age[b][i] + 1 /\ age[b][i] \in Nat
        <4>1. age[b][i] \in 0 .. WindowTicks /\ age'[b][i] = age[b][i] + 1
          BY <3>2, <3>3, <1>3
        <4> QED
          BY <4>1, WindowTicksType
      <3>5. age[b][i] + promise[b] <= age'[b][i] + promise'[b]
        BY <3>4, <2>1, <2>2
      <3>6. promise[b] \in Nat /\ promise'[b] \in Nat /\ age'[b][i] \in Nat
        BY <2>1, <2>2, <3>4
      <3> HIDE DEF IInv
      <3> QED
        BY <3>1, <3>2, <3>4, <3>5, <3>6, WindowTicksType
    <2>4. Outlasting(b) \subseteq admitted[b]
      BY DEF Outlasting
    <2>5. IsFiniteSet(Outlasting(b))
      BY <2>4, <1>5, FS_Subset
    <2>6. /\ Cardinality(Outlasting(b)') <= Cardinality(Outlasting(b))
          /\ Cardinality(Outlasting(b)') \in Nat
          /\ Cardinality(Outlasting(b)) \in Nat
      BY <2>3, <2>5, FS_Subset, FS_CardinalityType
    <2>7. MaxRequests \in Nat
      BY LimiterAssumption
    <2> QED
      BY <2>1, <2>6, <2>7 DEF PromiseCovers
  <1> QED
    BY <1>2, <1>4, <1>6, <1>7 DEF RecentIsAdmitted, PromiseCovers

LEMMA RestartPreserves ==
  ASSUME IInv, Restart
  PROVE  IInv'
  <1>1. TypeOK'
    BY WindowTicksType DEF IInv, TypeOK, Restart
  <1>2. RecentIsAdmitted'
    BY DEF Restart, RecentIsAdmitted, Recent
  <1>3. \A a \in Address : admitted'[a] = {} /\ Outlasting(a)' = {}
    BY DEF Restart, Outlasting
  <1>4. Cardinality({}) = 0 /\ MaxRequests \in Nat \ {0}
    BY FS_EmptySet, LimiterAssumption
  <1>5. WindowBound'
    BY <1>3, <1>4 DEF WindowBound
  <1>6. PromiseCovers'
    BY <1>3, <1>4 DEF PromiseCovers
  <1> QED
    BY <1>1, <1>2, <1>5, <1>6 DEF IInv

LEMMA Stutters == IInv /\ UNCHANGED vars => IInv'
  BY DEF IInv, vars, TypeOK, RecentIsAdmitted, Recent, WindowBound, PromiseCovers,
         Outlasting

THEOREM Inductive == Spec => []IInv
  <1>1. IInv /\ [Next]_vars => IInv'
    <2> SUFFICES ASSUME IInv, [Next]_vars PROVE IInv'
      OBVIOUS
    <2>1. ASSUME NEW c \in Client, Ask(c) PROVE IInv'
      BY <2>1, AskPreserves
    <2>2. ASSUME NEW c \in Client, Admit(c) PROVE IInv'
      BY <2>2, AdmitPreserves
    <2>3. ASSUME NEW c \in Client, Refuse(c) PROVE IInv'
      BY <2>3, RefusePreserves
    <2>4. CASE Tick
      BY <2>4, TickPreserves
    <2>5. CASE Restart
      BY <2>5, RestartPreserves
    <2>6. CASE UNCHANGED vars
      BY <2>6, Stutters
    <2> QED
      BY <2>1, <2>2, <2>3, <2>4, <2>5, <2>6 DEF Next
  <1> QED
    BY <1>1, InitEstablishes, PTL DEF Spec

-----------------------------------------------------------------------------
(* The limiter's variables keep their types.                                   *)
THEOREM TypeCorrect == Spec => []TypeOK
  <1>1. IInv => TypeOK
    BY DEF IInv
  <1> QED
    BY <1>1, Inductive, PTL

(* No window of Window seconds holds more than MaxRequests admissions of one   *)
(* address: rate_limit.py's pruning is exact.                                  *)
THEOREM WindowBoundHolds == Spec => []WindowBound
  <1>1. IInv => WindowBound
    BY DEF IInv
  <1> QED
    BY <1>1, Inductive, PTL

(* A 429 is always the consequence of MaxRequests admissions in the window.    *)
THEOREM RefusedForAdmissionsHolds == Spec => RefusedForAdmissions
  <1>1. ASSUME IInv, [Next]_vars
        PROVE  [\A c \in Client : Refused(c) =>
                  Cardinality(admitted[AddressOf[c]]) >= MaxRequests]_vars
    <2> SUFFICES ASSUME NEW c \in Client, Refused(c), Next
                 PROVE  Cardinality(admitted[AddressOf[c]]) >= MaxRequests
      BY <1>1
    <2>1. Refuse(c)
      BY <1>1 DEF Next, Ask, Admit, Refuse, Tick, Restart, Refused, IInv, TypeOK
    <2>2. AddressOf[c] \in Address
      BY LimiterAssumption
    <2> QED
      BY <1>1, <2>1, <2>2 DEF Refuse, IInv, RecentIsAdmitted
  <1> QED
    BY <1>1, Inductive, PTL DEF Spec, RefusedForAdmissions

(* Retry-After and one second more is always enough.                           *)
THEOREM RetryIsHonouredHolds == Spec => RetryIsHonoured
  <1>1. ASSUME IInv, [Next]_vars
        PROVE  [\A c \in Client : Refused(c) => promise[AddressOf[c]] # 0]_vars
    <2> SUFFICES ASSUME NEW c \in Client, Refused(c), Next,
                        promise[AddressOf[c]] = 0
                 PROVE  FALSE
      BY <1>1
    <2> DEFINE a == AddressOf[c]
    <2>1. Refuse(c)
      BY <1>1 DEF Next, Ask, Admit, Refuse, Tick, Restart, Refused, IInv, TypeOK
    <2>2. a \in Address
      BY LimiterAssumption
    <2>3. Cardinality(admitted[a]) >= MaxRequests
      BY <1>1, <2>1, <2>2 DEF Refuse, IInv, RecentIsAdmitted
    <2>4. Outlasting(a) = admitted[a]
      <3>1. Recent(a) = admitted[a]
        BY <1>1, <2>2 DEF IInv, RecentIsAdmitted
      <3>2. \A i \in admitted[a] : i \in Slot /\ age[a][i] < WindowTicks
        BY <1>1, <3>1, <2>2 DEF Recent, IInv, TypeOK
      <3>3. \A i \in Slot : age[a][i] \in Nat
        BY <1>1, <2>2 DEF IInv, TypeOK
      <3> QED
        BY <3>2, <3>3 DEF Outlasting
    <2>5. Cardinality(Outlasting(a)) < MaxRequests
      BY <1>1, <2>2 DEF IInv, PromiseCovers, NoPromise
    <2>6. IsFiniteSet(admitted[a]) /\ MaxRequests \in Nat
      BY <1>1, <2>2, LimiterAssumption, FS_Subset DEF IInv, TypeOK
    <2>7. Cardinality(admitted[a]) \in Nat
      BY <2>6, FS_CardinalityType
    <2> QED
      BY <2>3, <2>4, <2>5, <2>6, <2>7
  <1> QED
    BY <1>1, Inductive, PTL DEF Spec, RetryIsHonoured
=============================================================================
