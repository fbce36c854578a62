------------------------ MODULE ChallengeStoreProofs ------------------------
(* Proofs about ChallengeStore, for any number of challenges and calls, any    *)
(* TTL, with or without Redis, whatever calls and replies are lost.            *)
EXTENDS ChallengeStore, TLAPS

Saver(c) == pc[c] \in {"setex", "setex_done"}
Consumer(c) == pc[c] \in {"getdel", "getdel_done"}
Carrier(c) == pc[c] = "getdel_done" /\ hit[c]

(* A key that no call has begun to save is nowhere.                            *)
UnissuedIsNowhere ==
    \A k \in Nonce \ issued :
        /\ memory_store[k] = 0 /\ redis[k] = 0 /\ uses[k] = 0 /\ returned[k] = 0
        /\ k \notin doubled

(* A call works on an issued key, and consumes only what a client was given.   *)
CallsHaveKeys ==
    \A c \in Caller : /\ Saver(c) => key[c] \in issued
                      /\ Consumer(c) => returned[key[c]] # 0

(* While a key is being saved no client has it, and only its saver holds it.   *)
SaverAlone ==
    \A c \in Caller : Saver(c) =>
        /\ returned[key[c]] = 0 /\ memory_store[key[c]] = 0 /\ uses[key[c]] = 0
        /\ key[c] \notin doubled
        /\ pc[c] = "setex" => redis[key[c]] = 0
        /\ \A d \in Caller : Saver(d) /\ key[d] = key[c] => d = c

(* How often a key may be used.                                                *)
Bound(k) == IF k \in doubled THEN 2 ELSE 1

(* A key carried by a pipeline's reply is not in Redis and in no other reply,  *)
(* and leaves a use for itself and for the copy in memory, if there is one.    *)
CarrierAlone ==
    \A c \in Caller : Carrier(c) =>
        /\ redis[key[c]] = 0 /\ uses[key[c]] < Bound(key[c])
        /\ memory_store[key[c]] # 0 => uses[key[c]] + 1 < Bound(key[c])
        /\ \A d \in Caller : Carrier(d) /\ key[d] = key[c] => d = c

(* So does a stored key: hence one that was not doubled is in one store only.  *)
StoredIsUnused ==
    \A k \in Nonce :
        /\ redis[k] # 0 \/ memory_store[k] # 0 => uses[k] < Bound(k)
        /\ redis[k] # 0 /\ memory_store[k] # 0 => uses[k] + 1 < Bound(k)

(* No deadline lies more than TTL after the key was returned to its client, or *)
(* after now while it is being saved.                                          *)
DeadlinesBounded ==
    /\ \A k \in Nonce : IF returned[k] = 0
                          THEN redis[k] <= clock + TTL
                          ELSE /\ redis[k] <= returned[k] + TTL
                               /\ memory_store[k] <= returned[k] + TTL
    /\ \A c \in Caller : expires[c] <= clock + TTL

IInv ==
    /\ TypeOK
    /\ UnissuedIsNowhere
    /\ CallsHaveKeys
    /\ SaverAlone
    /\ CarrierAlone
    /\ StoredIsUnused
    /\ SingleUseUnlessDoubled
    /\ DeadlinesBounded

-----------------------------------------------------------------------------
(* What the tail of save_challenge leaves in memory: the new entry, and those  *)
(* of the others that have not expired.                                        *)
LEMMA MemorySaveKeeps ==
  ASSUME TypeOK, NEW k \in Nonce, NEW d \in Nat, MemorySave(k, d)
  PROVE  /\ memory_store' \in [Nonce -> Nat]
         /\ memory_store'[k] = d
         /\ \A j \in Nonce \ {k} : memory_store'[j] =
              IF memory_store[j] < clock THEN 0 ELSE memory_store[j]
         /\ returned' \in [Nonce -> Nat]
         /\ returned' = [returned EXCEPT ![k] = clock]
  BY DEF TypeOK, MemorySave, Absent

(* The variables keep their types in every step, whatever the constants.       *)
LEMMA TypePreserved == ASSUME TypeOK, [Next]_vars PROVE TypeOK'
  <1> USE StoreAssumption DEF TypeOK, Waiting, Absent
  <1>1. ASSUME NEW c \in Caller, NEW k \in Nonce, SaveBegin(c, k) PROVE TypeOK'
    <2>1. CASE redis_available
      BY <1>1, <2>1 DEF SaveBegin
    <2>2. CASE ~redis_available
      <3>1. MemorySave(k, clock + TTL)
        BY <1>1, <2>2 DEF SaveBegin
      <3>2. clock + TTL \in Nat
        OBVIOUS
      <3> QED BY <1>1, <2>2, <3>1, <3>2, MemorySaveKeeps DEF SaveBegin
    <2> QED BY <2>1, <2>2
  <1>2. ASSUME NEW c \in Caller, NEW k \in Nonce, ConsumeBegin(c, k) PROVE TypeOK'
    BY <1>2 DEF ConsumeBegin, MemoryPop, MemoryLive
  <1>3. ASSUME NEW c \in Caller, SetexApplied(c) PROVE TypeOK'
    BY <1>3 DEF SetexApplied
  <1>4. ASSUME NEW c \in Caller, SetexReply(c) PROVE TypeOK'
    BY <1>4 DEF SetexReply, Return
  <1>5. ASSUME NEW c \in Caller, SetexFails(c) PROVE TypeOK'
    <2>1. MemorySave(key[c], expires[c])
      BY <1>5 DEF SetexFails
    <2> QED BY <1>5, <2>1, MemorySaveKeeps DEF SetexFails, Return
  <1>6. ASSUME NEW c \in Caller, GetDelApplied(c) PROVE TypeOK'
    BY <1>6 DEF GetDelApplied, RedisLive
  <1>7. ASSUME NEW c \in Caller, GetDelReply(c) PROVE TypeOK'
    BY <1>7 DEF GetDelReply, Return
  <1>8. ASSUME NEW c \in Caller, GetDelFails(c) PROVE TypeOK'
    BY <1>8 DEF GetDelFails, MemoryPop, MemoryLive, Return
  <1>9. ASSUME Tick PROVE TypeOK'
    BY <1>9 DEF Tick, callVars
  <1>10. ASSUME Restart PROVE TypeOK'
    BY <1>10 DEF Restart
  <1>11. ASSUME UNCHANGED vars PROVE TypeOK'
    BY <1>11 DEF vars
  <1> QED BY <1>1, <1>2, <1>3, <1>4, <1>5, <1>6, <1>7, <1>8, <1>9, <1>10, <1>11
          DEF Next, Call

LEMMA InitType == Init => TypeOK
  <1> SUFFICES ASSUME Init PROVE TypeOK
    OBVIOUS
  <1>1. PICK k \in Nonce : key = [c \in Caller |-> k]
    BY DEF Init
  <1>2. redis_available \in BOOLEAN
    BY StoreAssumption DEF Init
  <1> QED BY <1>1, <1>2 DEF Init, TypeOK, Absent, Waiting

(* ChallengeStore's state always has its type.                                 *)
THEOREM TypeCorrect == Spec => []TypeOK
  <1>1. TypeOK /\ [Next]_vars => TypeOK'
    BY TypePreserved
  <1> QED BY InitType, <1>1, PTL DEF Spec

-----------------------------------------------------------------------------
LEMMA InitIInv == Init => IInv
  <1> SUFFICES ASSUME Init PROVE IInv
    OBVIOUS
  <1>1. TypeOK
    BY InitType
  <1>2. /\ UnissuedIsNowhere /\ CallsHaveKeys /\ SaverAlone
        /\ CarrierAlone /\ StoredIsUnused
    BY DEF Init, Absent, UnissuedIsNowhere, CallsHaveKeys, SaverAlone,
       CarrierAlone, StoredIsUnused, Saver, Consumer, Carrier
  <1>3. SingleUseUnlessDoubled
    <2> SUFFICES ASSUME NEW k \in Nonce PROVE uses[k] <= IF k \in doubled THEN 2 ELSE 1
      BY DEF SingleUseUnlessDoubled
    <2>1. uses[k] = 0
      BY DEF Init
    <2>2. 0 <= 1 /\ k \notin doubled
      BY DEF Init
    <2> QED BY <2>1, <2>2
  <1>4. DeadlinesBounded
    BY StoreAssumption DEF Init, DeadlinesBounded, Absent
  <1> QED BY <1>1, <1>2, <1>3, <1>4 DEF IInv

(* Every action preserves the invariant: one step per action, and under it one *)
(* per conjunct.                                                               *)
LEMMA IInvPreserved ==
  ASSUME IInv, [Next]_vars
  PROVE  IInv'
  <1> USE StoreAssumption DEF IInv, TypeOK, Waiting, Absent, Saver, Consumer, Carrier, Bound
  <1>0. TypeOK'
    BY TypePreserved
  <1>1. ASSUME NEW c \in Caller, NEW k \in Nonce, SaveBegin(c, k) PROVE IInv'
    <2>1. UnissuedIsNowhere'
      <3>1. CASE redis_available
        BY <1>0, <1>1, <3>1 DEF SaveBegin, UnissuedIsNowhere, CallsHaveKeys
      <3>2. CASE ~redis_available
        <4>1. MemorySave(k, clock + TTL)
          BY <1>1, <3>2 DEF SaveBegin
        <4>2. clock + TTL \in Nat
          OBVIOUS
        <4> QED BY <1>0, <1>1, <3>2, <4>1, <4>2, MemorySaveKeeps
                DEF SaveBegin, UnissuedIsNowhere, CallsHaveKeys
      <3> QED BY <3>1, <3>2
    <2>2. CallsHaveKeys'
      <3>1. CASE redis_available
        BY <1>0, <1>1, <3>1 DEF SaveBegin, CallsHaveKeys, UnissuedIsNowhere, SaverAlone
      <3>2. CASE ~redis_available
        <4>1. MemorySave(k, clock + TTL)
          BY <1>1, <3>2 DEF SaveBegin
        <4>2. clock + TTL \in Nat
          OBVIOUS
        <4> QED BY <1>0, <1>1, <3>2, <4>1, <4>2, MemorySaveKeeps
                DEF SaveBegin, CallsHaveKeys, UnissuedIsNowhere, SaverAlone
      <3> QED BY <3>1, <3>2
    <2>3. SaverAlone'
      <3>1. CASE redis_available
        BY <1>0, <1>1, <3>1 DEF SaveBegin, SaverAlone, UnissuedIsNowhere, CallsHaveKeys
      <3>2. CASE ~redis_available
        <4>1. MemorySave(k, clock + TTL)
          BY <1>1, <3>2 DEF SaveBegin
        <4>2. clock + TTL \in Nat
          OBVIOUS
        <4> QED BY <1>0, <1>1, <3>2, <4>1, <4>2, MemorySaveKeeps
                DEF SaveBegin, SaverAlone, UnissuedIsNowhere, CallsHaveKeys
      <3> QED BY <3>1, <3>2
    <2>4. CarrierAlone'
      <3>1. CASE redis_available
        BY <1>0, <1>1, <3>1
        DEF SaveBegin, CarrierAlone, CallsHaveKeys, StoredIsUnused, SaverAlone,
            UnissuedIsNowhere
      <3>2. CASE ~redis_available
        <4>1. MemorySave(k, clock + TTL)
          BY <1>1, <3>2 DEF SaveBegin
        <4>2. clock + TTL \in Nat
          OBVIOUS
        <4> QED BY <1>0, <1>1, <3>2, <4>1, <4>2, MemorySaveKeeps
                DEF SaveBegin, CarrierAlone, CallsHaveKeys, StoredIsUnused, SaverAlone,
                    UnissuedIsNowhere
      <3> QED BY <3>1, <3>2
    <2>5. StoredIsUnused'
      <3>1. CASE redis_available
        BY <1>0, <1>1, <3>1
        DEF SaveBegin, StoredIsUnused, UnissuedIsNowhere, SaverAlone, CarrierAlone,
            CallsHaveKeys
      <3>2. CASE ~redis_available
        <4>1. MemorySave(k, clock + TTL)
          BY <1>1, <3>2 DEF SaveBegin
        <4>2. clock + TTL \in Nat
          OBVIOUS
        <4> QED BY <1>0, <1>1, <3>2, <4>1, <4>2, MemorySaveKeeps
                DEF SaveBegin, StoredIsUnused, UnissuedIsNowhere, SaverAlone,
                    CarrierAlone, CallsHaveKeys
      <3> QED BY <3>1, <3>2
    <2>6. SingleUseUnlessDoubled'
      <3>1. CASE redis_available
        BY <1>0, <1>1, <3>1 DEF SaveBegin, SingleUseUnlessDoubled, StoredIsUnused, CarrierAlone
      <3>2. CASE ~redis_available
        <4>1. MemorySave(k, clock + TTL)
          BY <1>1, <3>2 DEF SaveBegin
        <4>2. clock + TTL \in Nat
          OBVIOUS
        <4> QED BY <1>0, <1>1, <3>2, <4>1, <4>2, MemorySaveKeeps
                DEF SaveBegin, SingleUseUnlessDoubled, StoredIsUnused, CarrierAlone
      <3> QED BY <3>1, <3>2
    <2>7. DeadlinesBounded'
      <3>1. CASE redis_available
        BY <1>0, <1>1, <3>1
        DEF SaveBegin, DeadlinesBounded, UnissuedIsNowhere, SaverAlone, CallsHaveKeys
      <3>2. CASE ~redis_available
        <4>1. MemorySave(k, clock + TTL)
          BY <1>1, <3>2 DEF SaveBegin
        <4>2. clock + TTL \in Nat
          OBVIOUS
        <4> QED BY <1>0, <1>1, <3>2, <4>1, <4>2, MemorySaveKeeps
                DEF SaveBegin, DeadlinesBounded, UnissuedIsNowhere, SaverAlone,
                    CallsHaveKeys
      <3> QED BY <3>1, <3>2
    <2> QED BY <1>0, <2>1, <2>2, <2>3, <2>4, <2>5, <2>6, <2>7 DEF IInv
  <1>2. ASSUME NEW c \in Caller, NEW k \in Nonce, ConsumeBegin(c, k) PROVE IInv'
    <2>1. UnissuedIsNowhere'
      BY <1>0, <1>2
      DEF ConsumeBegin, MemoryPop, MemoryLive, UnissuedIsNowhere, CallsHaveKeys
    <2>2. CallsHaveKeys'
      BY SMTT(30), <1>0, <1>2
      DEF ConsumeBegin, MemoryPop, MemoryLive, CallsHaveKeys, UnissuedIsNowhere,
          SaverAlone
    <2>3. SaverAlone'
      BY <1>0, <1>2
      DEF ConsumeBegin, MemoryPop, MemoryLive, SaverAlone, UnissuedIsNowhere,
          CallsHaveKeys
    <2>4. CarrierAlone'
      <3>1. CASE redis_available
        BY <1>0, <1>2, <3>1 DEF ConsumeBegin, CarrierAlone
      <3>2. CASE ~redis_available
        <4>1. UNCHANGED <<pc, key, hit, redis, doubled>> /\ MemoryPop(k)
          BY <1>2, <3>2 DEF ConsumeBegin
        <4>2. \A d \in Caller : Carrier(d) =>
                 /\ uses'[key[d]] < Bound(key[d])
                 /\ memory_store'[key[d]] # 0 => uses'[key[d]] + 1 < Bound(key[d])
          BY <1>0, <4>1 DEF MemoryPop, MemoryLive, CarrierAlone
        <4> QED BY <1>0, <4>1, <4>2 DEF CarrierAlone
      <3> QED BY <3>1, <3>2
    <2>5. StoredIsUnused'
      BY <1>0, <1>2
      DEF ConsumeBegin, MemoryPop, MemoryLive, StoredIsUnused, UnissuedIsNowhere,
          SaverAlone, CarrierAlone, CallsHaveKeys
    <2>6. SingleUseUnlessDoubled'
      BY <1>0, <1>2
      DEF ConsumeBegin, MemoryPop, MemoryLive, SingleUseUnlessDoubled, StoredIsUnused, CarrierAlone
    <2>7. DeadlinesBounded'
      BY <1>0, <1>2
      DEF ConsumeBegin, MemoryPop, MemoryLive, DeadlinesBounded, UnissuedIsNowhere,
          SaverAlone, CallsHaveKeys
    <2> QED BY <1>0, <2>1, <2>2, <2>3, <2>4, <2>5, <2>6, <2>7 DEF IInv
  <1>3. ASSUME NEW c \in Caller, SetexApplied(c) PROVE IInv'
    <2>1. UnissuedIsNowhere'
      BY <1>0, <1>3 DEF SetexApplied, UnissuedIsNowhere, CallsHaveKeys
    <2>2. CallsHaveKeys'
      BY <1>0, <1>3 DEF SetexApplied, CallsHaveKeys, UnissuedIsNowhere, SaverAlone
    <2>3. SaverAlone'
      BY <1>0, <1>3 DEF SetexApplied, SaverAlone, UnissuedIsNowhere, CallsHaveKeys
    <2>4. CarrierAlone'
      BY <1>0, <1>3
      DEF SetexApplied, CarrierAlone, CallsHaveKeys, StoredIsUnused, SaverAlone,
          UnissuedIsNowhere
    <2>5. StoredIsUnused'
      BY <1>0, <1>3
      DEF SetexApplied, StoredIsUnused, UnissuedIsNowhere, SaverAlone, CarrierAlone,
          CallsHaveKeys
    <2>6. SingleUseUnlessDoubled'
      BY <1>0, <1>3 DEF SetexApplied, SingleUseUnlessDoubled, StoredIsUnused, CarrierAlone
    <2>7. DeadlinesBounded'
      BY <1>0, <1>3
      DEF SetexApplied, DeadlinesBounded, UnissuedIsNowhere, SaverAlone, CallsHaveKeys
    <2> QED BY <1>0, <2>1, <2>2, <2>3, <2>4, <2>5, <2>6, <2>7 DEF IInv
  <1>4. ASSUME NEW c \in Caller, SetexReply(c) PROVE IInv'
    <2>1. UnissuedIsNowhere'
      BY <1>0, <1>4 DEF SetexReply, Return, UnissuedIsNowhere, CallsHaveKeys
    <2>2. CallsHaveKeys'
      BY <1>0, <1>4 DEF SetexReply, Return, CallsHaveKeys, UnissuedIsNowhere, SaverAlone
    <2>3. SaverAlone'
      BY <1>0, <1>4 DEF SetexReply, Return, SaverAlone, UnissuedIsNowhere, CallsHaveKeys
    <2>4. CarrierAlone'
      BY <1>0, <1>4
      DEF SetexReply, Return, CarrierAlone, CallsHaveKeys, StoredIsUnused, SaverAlone,
          UnissuedIsNowhere
    <2>5. StoredIsUnused'
      BY <1>0, <1>4
      DEF SetexReply, Return, StoredIsUnused, UnissuedIsNowhere, SaverAlone,
          CarrierAlone, CallsHaveKeys
    <2>6. SingleUseUnlessDoubled'
      BY <1>0, <1>4 DEF SetexReply, Return, SingleUseUnlessDoubled, StoredIsUnused, CarrierAlone
    <2>7. DeadlinesBounded'
      BY <1>0, <1>4
      DEF SetexReply, Return, DeadlinesBounded, UnissuedIsNowhere, SaverAlone,
          CallsHaveKeys
    <2> QED BY <1>0, <2>1, <2>2, <2>3, <2>4, <2>5, <2>6, <2>7 DEF IInv
  <1>5. ASSUME NEW c \in Caller, SetexFails(c) PROVE IInv'
    <2>1. UnissuedIsNowhere'
      <3>1. MemorySave(key[c], expires[c])
        BY <1>5 DEF SetexFails
      <3> QED BY <1>0, <1>5, <3>1, MemorySaveKeeps
              DEF SetexFails, Return, UnissuedIsNowhere, CallsHaveKeys
    <2>2. CallsHaveKeys'
      <3>1. MemorySave(key[c], expires[c])
        BY <1>5 DEF SetexFails
      <3> QED BY <1>0, <1>5, <3>1, MemorySaveKeeps
              DEF SetexFails, Return, CallsHaveKeys, UnissuedIsNowhere, SaverAlone
    <2>3. SaverAlone'
      <3>1. MemorySave(key[c], expires[c])
        BY <1>5 DEF SetexFails
      <3> QED BY <1>0, <1>5, <3>1, MemorySaveKeeps
              DEF SetexFails, Return, SaverAlone, UnissuedIsNowhere, CallsHaveKeys
    <2>4. CarrierAlone'
      <3>1. MemorySave(key[c], expires[c])
        BY <1>5 DEF SetexFails
      <3> QED BY <1>0, <1>5, <3>1, MemorySaveKeeps
              DEF SetexFails, Return, CarrierAlone, CallsHaveKeys, StoredIsUnused,
                  SaverAlone, UnissuedIsNowhere
    <2>5. StoredIsUnused'
      <3>1. MemorySave(key[c], expires[c])
        BY <1>5 DEF SetexFails
      <3> QED BY SMTT(30), <1>0, <1>5, <3>1, MemorySaveKeeps
              DEF SetexFails, Return, StoredIsUnused, UnissuedIsNowhere, SaverAlone,
                  CarrierAlone, CallsHaveKeys
    <2>6. SingleUseUnlessDoubled'
      <3>1. MemorySave(key[c], expires[c])
        BY <1>5 DEF SetexFails
      <3> QED BY <1>0, <1>5, <3>1, MemorySaveKeeps
              DEF SetexFails, Return, SingleUseUnlessDoubled, StoredIsUnused, CarrierAlone
    <2>7. DeadlinesBounded'
      <3>1. MemorySave(key[c], expires[c])
        BY <1>5 DEF SetexFails
      <3> QED BY SMTT(30), <1>0, <1>5, <3>1, MemorySaveKeeps
              DEF SetexFails, Return, DeadlinesBounded, UnissuedIsNowhere, SaverAlone,
                  CallsHaveKeys
    <2> QED BY <1>0, <2>1, <2>2, <2>3, <2>4, <2>5, <2>6, <2>7 DEF IInv
  <1>6. ASSUME NEW c \in Caller, GetDelApplied(c) PROVE IInv'
    <2>1. UnissuedIsNowhere'
      BY <1>0, <1>6 DEF GetDelApplied, RedisLive, UnissuedIsNowhere, CallsHaveKeys
    <2>2. CallsHaveKeys'
      BY <1>0, <1>6
      DEF GetDelApplied, RedisLive, CallsHaveKeys, UnissuedIsNowhere, SaverAlone
    <2>3. SaverAlone'
      BY <1>0, <1>6
      DEF GetDelApplied, RedisLive, SaverAlone, UnissuedIsNowhere, CallsHaveKeys
    <2>4. CarrierAlone'
      <3>1. /\ UNCHANGED <<uses, memory_store, key, doubled>>
            /\ redis' = [redis EXCEPT ![key[c]] = 0]
            /\ pc' = [pc EXCEPT ![c] = "getdel_done"]
            /\ hit' = [hit EXCEPT ![c] = RedisLive(key[c])]
        BY <1>6 DEF GetDelApplied
      <3>2. \A d \in Caller \ {c} : Carrier(d)' <=> Carrier(d)
        BY <1>0, <3>1
      <3>3. Carrier(c)' => /\ redis[key[c]] # 0
                           /\ \A d \in Caller : ~(Carrier(d) /\ key[d] = key[c])
        <4>1. SUFFICES ASSUME Carrier(c)'
                       PROVE  /\ redis[key[c]] # 0
                              /\ \A d \in Caller : ~(Carrier(d) /\ key[d] = key[c])
          OBVIOUS
        <4>2. hit'[c]
          BY <4>1
        <4>3. clock < redis[key[c]]
          BY <3>1, <4>2 DEF RedisLive
        <4>4. redis[key[c]] # 0
          BY <4>3
        <4> QED BY <4>4 DEF CarrierAlone
      <3> QED BY <1>0, <3>1, <3>2, <3>3 DEF CarrierAlone, StoredIsUnused
    <2>5. StoredIsUnused'
      BY <1>0, <1>6
      DEF GetDelApplied, RedisLive, StoredIsUnused, UnissuedIsNowhere, SaverAlone,
          CarrierAlone, CallsHaveKeys
    <2>6. SingleUseUnlessDoubled'
      BY <1>0, <1>6 DEF GetDelApplied, RedisLive, SingleUseUnlessDoubled, StoredIsUnused, CarrierAlone
    <2>7. DeadlinesBounded'
      BY <1>0, <1>6
      DEF GetDelApplied, RedisLive, DeadlinesBounded, UnissuedIsNowhere, SaverAlone,
          CallsHaveKeys
    <2> QED BY <1>0, <2>1, <2>2, <2>3, <2>4, <2>5, <2>6, <2>7 DEF IInv
  <1>7. ASSUME NEW c \in Caller, GetDelReply(c) PROVE IInv'
    <2>1. UnissuedIsNowhere'
      BY <1>0, <1>7 DEF GetDelReply, Return, UnissuedIsNowhere, CallsHaveKeys
    <2>2. CallsHaveKeys'
      BY <1>0, <1>7 DEF GetDelReply, Return, CallsHaveKeys, UnissuedIsNowhere, SaverAlone
    <2>3. SaverAlone'
      BY <1>0, <1>7 DEF GetDelReply, Return, SaverAlone, UnissuedIsNowhere, CallsHaveKeys
    <2>4. CarrierAlone'
      BY <1>0, <1>7
      DEF GetDelReply, Return, CarrierAlone, CallsHaveKeys, StoredIsUnused, SaverAlone,
          UnissuedIsNowhere
    <2>5. StoredIsUnused'
      BY <1>0, <1>7
      DEF GetDelReply, Return, StoredIsUnused, UnissuedIsNowhere, SaverAlone,
          CarrierAlone, CallsHaveKeys
    <2>6. SingleUseUnlessDoubled'
      BY <1>0, <1>7 DEF GetDelReply, Return, SingleUseUnlessDoubled, StoredIsUnused, CarrierAlone
    <2>7. DeadlinesBounded'
      BY <1>0, <1>7
      DEF GetDelReply, Return, DeadlinesBounded, UnissuedIsNowhere, SaverAlone,
          CallsHaveKeys
    <2> QED BY <1>0, <2>1, <2>2, <2>3, <2>4, <2>5, <2>6, <2>7 DEF IInv
  <1>8. ASSUME NEW c \in Caller, GetDelFails(c) PROVE IInv'
    <2>1. UnissuedIsNowhere'
      BY <1>0, <1>8
      DEF GetDelFails, MemoryPop, MemoryLive, Return, UnissuedIsNowhere, CallsHaveKeys
    <2>2. CallsHaveKeys'
      BY <1>0, <1>8
      DEF GetDelFails, MemoryPop, MemoryLive, Return, CallsHaveKeys, UnissuedIsNowhere,
          SaverAlone
    <2>3. SaverAlone'
      BY <1>0, <1>8
      DEF GetDelFails, MemoryPop, MemoryLive, Return, SaverAlone, UnissuedIsNowhere,
          CallsHaveKeys
    <2>4. CarrierAlone'
      BY <1>0, <1>8
      DEF GetDelFails, MemoryPop, MemoryLive, Return, CarrierAlone, CallsHaveKeys,
          StoredIsUnused, SaverAlone, UnissuedIsNowhere
    <2>5. StoredIsUnused'
      BY <1>0, <1>8
      DEF GetDelFails, MemoryPop, MemoryLive, Return, StoredIsUnused, UnissuedIsNowhere,
          SaverAlone, CarrierAlone, CallsHaveKeys
    <2>6. SingleUseUnlessDoubled'
      BY <1>0, <1>8
      DEF GetDelFails, MemoryPop, MemoryLive, Return, SingleUseUnlessDoubled, StoredIsUnused,
          CarrierAlone
    <2>7. DeadlinesBounded'
      BY <1>0, <1>8
      DEF GetDelFails, MemoryPop, MemoryLive, Return, DeadlinesBounded,
          UnissuedIsNowhere, SaverAlone, CallsHaveKeys
    <2> QED BY <1>0, <2>1, <2>2, <2>3, <2>4, <2>5, <2>6, <2>7 DEF IInv
  <1>9. ASSUME Tick PROVE IInv'
    <2>1. UnissuedIsNowhere'
      BY <1>0, <1>9 DEF Tick, callVars, UnissuedIsNowhere, CallsHaveKeys
    <2>2. CallsHaveKeys'
      BY <1>0, <1>9 DEF Tick, callVars, CallsHaveKeys, UnissuedIsNowhere, SaverAlone
    <2>3. SaverAlone'
      BY <1>0, <1>9 DEF Tick, callVars, SaverAlone, UnissuedIsNowhere, CallsHaveKeys
    <2>4. CarrierAlone'
      BY <1>0, <1>9
      DEF Tick, callVars, CarrierAlone, CallsHaveKeys, StoredIsUnused, SaverAlone,
          UnissuedIsNowhere
    <2>5. StoredIsUnused'
      BY <1>0, <1>9
      DEF Tick, callVars, StoredIsUnused, UnissuedIsNowhere, SaverAlone, CarrierAlone,
          CallsHaveKeys
    <2>6. SingleUseUnlessDoubled'
      BY <1>0, <1>9 DEF Tick, callVars, SingleUseUnlessDoubled, StoredIsUnused, CarrierAlone
    <2>7. DeadlinesBounded'
      BY <1>0, <1>9
      DEF Tick, callVars, DeadlinesBounded, UnissuedIsNowhere, SaverAlone, CallsHaveKeys
    <2> QED BY <1>0, <2>1, <2>2, <2>3, <2>4, <2>5, <2>6, <2>7 DEF IInv
  <1>10. ASSUME Restart PROVE IInv'
    <2>1. UnissuedIsNowhere'
      BY <1>0, <1>10 DEF Restart, UnissuedIsNowhere, CallsHaveKeys
    <2>2. CallsHaveKeys'
      BY <1>0, <1>10 DEF Restart, CallsHaveKeys, UnissuedIsNowhere, SaverAlone
    <2>3. SaverAlone'
      BY <1>0, <1>10 DEF Restart, SaverAlone, UnissuedIsNowhere, CallsHaveKeys
    <2>4. CarrierAlone'
      BY <1>0, <1>10
      DEF Restart, CarrierAlone, CallsHaveKeys, StoredIsUnused, SaverAlone,
          UnissuedIsNowhere
    <2>5. StoredIsUnused'
      BY <1>0, <1>10
      DEF Restart, StoredIsUnused, UnissuedIsNowhere, SaverAlone, CarrierAlone,
          CallsHaveKeys
    <2>6. SingleUseUnlessDoubled'
      BY <1>0, <1>10 DEF Restart, SingleUseUnlessDoubled, StoredIsUnused, CarrierAlone
    <2>7. DeadlinesBounded'
      BY <1>0, <1>10
      DEF Restart, DeadlinesBounded, UnissuedIsNowhere, SaverAlone, CallsHaveKeys
    <2> QED BY <1>0, <2>1, <2>2, <2>3, <2>4, <2>5, <2>6, <2>7 DEF IInv
  <1>11. ASSUME UNCHANGED vars PROVE IInv'
    BY <1>0, <1>11
    DEF vars, UnissuedIsNowhere, CallsHaveKeys, SaverAlone, CarrierAlone,
        StoredIsUnused, SingleUseUnlessDoubled, DeadlinesBounded
  <1> QED BY <1>1, <1>2, <1>3, <1>4, <1>5, <1>6, <1>7, <1>8, <1>9, <1>10, <1>11
          DEF Next, Call

THEOREM Invariance == Spec => []IInv
  <1>1. IInv /\ [Next]_vars => IInv'
    BY IInvPreserved
  <1> QED BY InitIInv, <1>1, PTL DEF Spec

(* consume_challenge returns a challenge at most once, whatever interleaving   *)
(* of calls, Redis failures, expiries and restarts, and at most twice if the   *)
(* reply of its SETEX was lost.                                                *)
THEOREM SingleUseUnlessDoubledHolds == Spec => []SingleUseUnlessDoubled
  <1>1. IInv => SingleUseUnlessDoubled
    BY DEF IInv
  <1> QED BY Invariance, <1>1, PTL

(* No store would return a challenge later than TTL after its client got it.   *)
THEOREM StrictTTLHolds == Spec => []StrictTTL
  <1>1. IInv => StrictTTL
    BY StoreAssumption
       DEF IInv, TypeOK, DeadlinesBounded, StrictTTL, RedisLive, MemoryLive
  <1> QED BY Invariance, <1>1, PTL

-----------------------------------------------------------------------------
(* Refinement: what each kind of step does to the sets Live and Uses.          *)

LEMMA InitRefines == Init => Abstract!Init
  BY DEF Init, Abstract!Init, Live, Uses, RedisLive, MemoryLive, Saving, Fetched,
         Absent

(* A step that neither begins to save nor consumes forgets at most.            *)
LEMMA ForgetStep ==
  ASSUME UNCHANGED <<issued, Uses>>, Live' \in SUBSET Live
  PROVE  \E S \in SUBSET Live : Abstract!Forget(S)
  <1> WITNESS Live \ Live' \in SUBSET Live
  <1> QED BY DEF Abstract!Forget

(* A step that takes one live key away and counts one use of it.               *)
LEMMA SpendStep ==
  ASSUME TypeOK, NEW k \in Live, UNCHANGED <<issued, doubled>>, Live' = Live \ {k},
         uses' = [uses EXCEPT ![k] = @ + 1]
  PROVE  Abstract!Spend(k)
  <1>1. k \in Nonce \ doubled
    BY DEF Live
  <1>2. Uses' = [Uses EXCEPT ![k] = @ + 1]
    BY <1>1 DEF Uses, TypeOK
  <1> QED BY <1>2 DEF Abstract!Spend

(* A use of a doubled key is none of the abstract nonce's.                     *)
LEMMA DoubledUse ==
  ASSUME TypeOK, NEW k \in doubled, UNCHANGED doubled,
         uses' = uses \/ uses' = [uses EXCEPT ![k] = @ + 1]
  PROVE  Uses' = Uses
  BY DEF Uses, TypeOK

(* A key in memory that was not doubled is held by nothing else.               *)
LEMMA MemoryHoldsAlone ==
  ASSUME IInv, NEW k \in Nonce \ doubled, MemoryLive(k)
  PROVE  /\ ~RedisLive(k)
         /\ \A c \in Caller : ~Saving(c, k) /\ ~Fetched(c, k)
  BY DEF IInv, TypeOK, StoredIsUnused, SaverAlone, CarrierAlone, Saver, Carrier,
         MemoryLive, RedisLive, Saving, Fetched, Bound

(* Nor is such a key when a reply carries it.                                  *)
LEMMA CarrierHoldsAlone ==
  ASSUME IInv, NEW c \in Caller, Carrier(c), key[c] \notin doubled
  PROVE  /\ ~RedisLive(key[c]) /\ ~MemoryLive(key[c])
         /\ \A d \in Caller : ~Saving(d, key[c]) /\ (Fetched(d, key[c]) => d = c)
  BY DEF IInv, TypeOK, CallsHaveKeys, SaverAlone, CarrierAlone, Saver, Consumer,
         Carrier, MemoryLive, RedisLive, Saving, Fetched, Bound

LEMMA StepRefines ==
  ASSUME IInv, [Next]_vars
  PROVE  [Abstract!Next]_(Abstract!vars)
  <1> USE StoreAssumption DEF TypeOK, Waiting, Absent
  <1> USE DEF Live, RedisLive, MemoryLive, Saving, Fetched
  <1>t. TypeOK /\ TypeOK'
    BY TypePreserved DEF IInv
  <1> DEFINE Goal == Abstract!Next \/ UNCHANGED Abstract!vars
             Forgets == UNCHANGED <<issued, Uses>> /\ Live' \in SUBSET Live
  <1>f. Forgets => Goal
    BY ForgetStep DEF Abstract!Next
  <1>s. ASSUME NEW k \in Live, UNCHANGED <<issued, doubled>>, Live' = Live \ {k},
               uses' = [uses EXCEPT ![k] = @ + 1]
        PROVE  Goal
    BY <1>t, <1>s, SpendStep DEF Abstract!Next
  <1>u. UNCHANGED <<uses, doubled>> => UNCHANGED Uses
    BY DEF Uses
  <1> HIDE DEF Goal
  <1>1. ASSUME NEW c \in Caller, NEW k \in Nonce, SaveBegin(c, k) PROVE Goal
    <2>0. k \notin doubled /\ UNCHANGED doubled
      BY <1>1 DEF SaveBegin, IInv, UnissuedIsNowhere
    <2>1. Live' = Live \cup {k}
      <3>1. CASE redis_available
        BY <1>t, <1>1, <2>0, <3>1 DEF SaveBegin
      <3>2. CASE ~redis_available
        <4>1. MemorySave(k, clock + TTL) /\ clock + TTL \in Nat
          BY <1>t, <1>1, <3>2 DEF SaveBegin
        <4>2. UNCHANGED <<clock, redis, pc, key, hit>>
          BY <1>1, <3>2 DEF SaveBegin
        <4> QED BY <1>t, <2>0, <4>1, <4>2, MemorySaveKeeps
      <3> QED BY <3>1, <3>2
    <2>2. Abstract!Issue(k)
      BY <1>1, <1>u, <2>1 DEF SaveBegin, Abstract!Issue
    <2> QED BY <2>2 DEF Goal, Abstract!Next
  <1>2. ASSUME NEW c \in Caller, NEW k \in Nonce, ConsumeBegin(c, k) PROVE Goal
    <2>1. CASE redis_available \/ ~MemoryLive(k)
      <3> Forgets
        BY <1>t, <1>2, <1>u, <2>1 DEF ConsumeBegin, MemoryPop
      <3> QED BY <1>f
    <2>2. CASE ~redis_available /\ MemoryLive(k) /\ k \in doubled
      <3>1. UNCHANGED <<issued, Uses>>
        BY <1>t, <1>2, <2>2, DoubledUse DEF ConsumeBegin, MemoryPop
      <3>2. Live' \in SUBSET Live
        BY <1>t, <1>2, <2>2 DEF ConsumeBegin, MemoryPop
      <3> QED BY <1>f, <3>1, <3>2
    <2>3. CASE ~redis_available /\ MemoryLive(k) /\ k \notin doubled
      <3>1. Live' = Live \ {k} /\ k \in Live
        BY <1>t, <1>2, <2>3, MemoryHoldsAlone DEF ConsumeBegin, MemoryPop
      <3>2. UNCHANGED <<issued, doubled>> /\ uses' = [uses EXCEPT ![k] = @ + 1]
        BY <1>2, <2>3 DEF ConsumeBegin, MemoryPop
      <3> QED BY <3>1, <3>2, <1>s
    <2> QED BY <2>1, <2>2, <2>3
  <1>3. ASSUME NEW c \in Caller, SetexApplied(c) PROVE Goal
    <2> Forgets
      BY <1>t, <1>3, <1>u DEF SetexApplied
    <2> QED BY <1>f
  <1>4. ASSUME NEW c \in Caller, SetexReply(c) PROVE Goal
    <2> Forgets
      BY <1>t, <1>4, <1>u DEF SetexReply, Return
    <2> QED BY <1>f
  <1>5. ASSUME NEW c \in Caller, SetexFails(c) PROVE Goal
    <2>1. MemorySave(key[c], expires[c])
      BY <1>5 DEF SetexFails
    <2>2. pc' = [pc EXCEPT ![c] = "idle"] /\ UNCHANGED <<clock, redis, key, hit, issued, uses>>
      BY <1>5 DEF SetexFails, Return
    <2>3. CASE pc[c] = "setex"
      <3>1. UNCHANGED doubled
        BY <1>5, <2>3 DEF SetexFails
      <3> Forgets
        BY <1>t, <1>u, <2>1, <2>2, <2>3, <3>1, MemorySaveKeeps
      <3> QED BY <1>f
    <2>4. CASE pc[c] = "setex_done"
      <3>1. doubled' = doubled \cup {key[c]} /\ uses[key[c]] = 0
        BY <1>5, <2>4 DEF SetexFails, IInv, SaverAlone, Saver
      <3>2. UNCHANGED Uses
        BY <2>2, <3>1 DEF Uses
      <3>3. Live' \in SUBSET Live
        BY <1>t, <2>1, <2>2, <2>4, <3>1, MemorySaveKeeps
      <3> QED BY <1>f, <2>2, <3>2, <3>3
    <2> QED BY <1>5, <2>3, <2>4 DEF SetexFails
  <1>6. ASSUME NEW c \in Caller, GetDelApplied(c) PROVE Goal
    <2>1. UNCHANGED <<issued, Uses>>
      BY <1>6, <1>u DEF GetDelApplied
    <2>2. \A k \in Nonce : /\ RedisLive(k)' => RedisLive(k)
                           /\ MemoryLive(k)' => MemoryLive(k)
      BY <1>t, <1>6 DEF GetDelApplied
    <2>3. \A k \in Nonce, d \in Caller :
             Saving(d, k)' \/ Fetched(d, k)' => Saving(d, k) \/ Fetched(d, k) \/ RedisLive(k)
      BY <1>t, <1>6 DEF GetDelApplied
    <2>4. Live' \in SUBSET Live
      BY <1>6, <2>2, <2>3 DEF GetDelApplied
    <2> QED BY <1>f, <2>1, <2>4
  <1>7. ASSUME NEW c \in Caller, GetDelReply(c) PROVE Goal
    <2>1. CASE ~hit[c]
      <3> Forgets
        BY <1>t, <1>7, <1>u, <2>1 DEF GetDelReply, Return
      <3> QED BY <1>f
    <2>2. CASE hit[c] /\ key[c] \in doubled
      <3>1. UNCHANGED <<issued, Uses>>
        BY <1>t, <1>7, <2>2, DoubledUse DEF GetDelReply
      <3>2. Live' \in SUBSET Live
        BY <1>t, <1>7, <2>2 DEF GetDelReply, Return
      <3> QED BY <1>f, <3>1, <3>2
    <2>3. CASE hit[c] /\ key[c] \notin doubled
      <3>1. Carrier(c)
        BY <1>7, <2>3 DEF GetDelReply, Carrier
      <3>2. Live' = Live \ {key[c]} /\ key[c] \in Live
        BY <1>t, <1>7, <2>3, <3>1, CarrierHoldsAlone DEF GetDelReply, Return
      <3>3. UNCHANGED <<issued, doubled>> /\ uses' = [uses EXCEPT ![key[c]] = @ + 1]
        BY <1>7, <2>3 DEF GetDelReply
      <3> QED BY <3>2, <3>3, <1>s
    <2> QED BY <1>t, <2>1, <2>2, <2>3
  <1>8. ASSUME NEW c \in Caller, GetDelFails(c) PROVE Goal
    <2>1. CASE ~MemoryLive(key[c])
      <3> Forgets
        BY <1>t, <1>8, <1>u, <2>1 DEF GetDelFails, MemoryPop, Return
      <3> QED BY <1>f
    <2>2. CASE MemoryLive(key[c]) /\ key[c] \in doubled
      <3>1. UNCHANGED <<issued, Uses>>
        BY <1>t, <1>8, <2>2, DoubledUse DEF GetDelFails, MemoryPop
      <3>2. Live' \in SUBSET Live
        BY <1>t, <1>8, <2>2 DEF GetDelFails, MemoryPop, Return
      <3> QED BY <1>f, <3>1, <3>2
    <2>3. CASE MemoryLive(key[c]) /\ key[c] \notin doubled
      <3>1. Live' = Live \ {key[c]} /\ key[c] \in Live
        BY <1>t, <1>8, <2>3, MemoryHoldsAlone DEF GetDelFails, MemoryPop, Return
      <3>2. UNCHANGED <<issued, doubled>> /\ uses' = [uses EXCEPT ![key[c]] = @ + 1]
        BY <1>8, <2>3 DEF GetDelFails, MemoryPop
      <3> QED BY <3>1, <3>2, <1>s
    <2> QED BY <2>1, <2>2, <2>3
  <1>9. ASSUME Tick PROVE Goal
    <2> Forgets
      BY <1>t, <1>9, <1>u DEF Tick, callVars
    <2> QED BY <1>f
  <1>10. ASSUME Restart PROVE Goal
    <2> Forgets
      BY <1>t, <1>10, <1>u DEF Restart
    <2> QED BY <1>f
  <1>11. ASSUME UNCHANGED vars PROVE Goal
    <2> Forgets
      BY <1>11, <1>u DEF vars
    <2> QED BY <1>f
  <1> QED
    BY <1>1, <1>2, <1>3, <1>4, <1>5, <1>6, <1>7, <1>8, <1>9, <1>10, <1>11
       DEF Next, Call, Goal

(* ChallengeStore implements OneTimeNonce, the keys whose SETEX lost its reply *)
(* being forgotten by it when they are saved to memory as well.                *)
THEOREM Refinement == Spec => ImplementsOneTimeNonce
  <1>1. IInv /\ [Next]_vars => [Abstract!Next]_(Abstract!vars)
    BY StepRefines
  <1> QED BY InitRefines, Invariance, <1>1, PTL DEF Spec, Abstract!Spec, ImplementsOneTimeNonce
=============================================================================
