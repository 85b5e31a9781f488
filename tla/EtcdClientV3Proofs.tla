------------------------ MODULE EtcdClientV3Proofs -------------------------
(***************************************************************************)
(* Proofs about EtcdClientV3, for any number of calls: the keys it asks    *)
(* for, with bytes of any even number of values, 256 in the code, and keys *)
(* of any length; and how its calls are resumed and return.                *)
(***************************************************************************)
EXTENDS EtcdClientV3, CallContextProofs

\* A request that has an end has the one computed from its key.
EndOfKey == request.range_end # <<>> =>
              request.key \in Key /\ request.range_end = RangeEnd(request.key)

\* A key is a sequence that is not empty.
LEMMA KeyIsSequence ==
  ASSUME NEW k \in Key
  PROVE  /\ k \in Seq(0 .. Byte - 1) /\ Len(k) \in Nat \ {0}
         /\ DOMAIN k = 1 .. Len(k) /\ \A i \in 1 .. Len(k) : k[i] \in 0 .. Byte - 1
  <1>1. PICK n \in 1 .. MaxLen : k \in [1 .. n -> 0 .. Byte - 1]
    BY DEF Key
  <1>2. n \in Nat \ {0}
    BY LenAssumption
  <1>3. k \in Seq(0 .. Byte - 1)
    BY <1>1, <1>2, SeqDef
  <1>4. Len(k) \in Nat /\ 1 .. Len(k) = 1 .. n
    BY <1>1, <1>3, LenProperties
  <1>5. Len(k) = n
    BY <1>2, <1>4
  <1> QED
    BY <1>1, <1>2, <1>3, <1>5

\* The bytes behind a signed char go up by one, and the last one to 0.
LEMMA NextByte ==
  ASSUME NEW b \in 0 .. Byte - 1
  PROVE  Narrow(Signed(b) + 1) = IF b = Byte - 1 THEN 0 ELSE b + 1
  <1> DEFINE h == Byte \div 2
  <1>1. Byte \in Nat /\ Byte >= 2 /\ h \in Nat /\ 1 <= h /\ h < Byte
    BY ByteAssumption
  <1> HIDE DEF h
  <1>2. \A x \in 0 .. Byte - 1 : x % Byte = x
    BY <1>1
  <1>3. \A x \in 0 .. Byte - 1 : (x - Byte) % Byte = x
    BY <1>1
  <1>4. Signed(b) = IF b < h THEN b ELSE b - Byte
    BY DEF Signed, h
  <1>5. CASE b < h
    <2>1. b + 1 \in 0 .. Byte - 1 /\ b # Byte - 1 /\ Signed(b) + 1 = b + 1
      BY <1>1, <1>4, <1>5
    <2> QED
      BY <2>1, <1>2 DEF Narrow
  <1>6. CASE ~(b < h) /\ b # Byte - 1
    <2>1. b + 1 \in 0 .. Byte - 1 /\ Signed(b) + 1 = (b + 1) - Byte
      BY <1>1, <1>4, <1>6
    <2> QED
      BY <2>1, <1>3, <1>6 DEF Narrow
  <1>7. CASE ~(b < h) /\ b = Byte - 1
    <2>1. Signed(b) + 1 = 0 /\ 0 \in 0 .. Byte - 1
      BY <1>1, <1>4, <1>7
    <2> QED
      BY <2>1, <1>2, <1>7 DEF Narrow
  <1> QED
    BY <1>5, <1>6, <1>7

\* The end of a range is as long as the key and differs from it in the last byte.
LEMMA EndDiffersInLast ==
  ASSUME NEW p \in Key
  PROVE  /\ RangeEnd(p) \in Seq(0 .. Byte - 1) /\ Len(RangeEnd(p)) = Len(p)
         /\ \A i \in 1 .. Len(p) - 1 : RangeEnd(p)[i] = p[i]
         /\ RangeEnd(p)[Len(p)] = IF p[Len(p)] = Byte - 1 THEN 0 ELSE p[Len(p)] + 1
  <1> DEFINE n == Len(p)
             v == Narrow(Signed(p[n]) + 1)
  <1>1. p \in Seq(0 .. Byte - 1) /\ n \in Nat \ {0} /\ DOMAIN p = 1 .. n /\ p[n] \in 0 .. Byte - 1
    BY KeyIsSequence
  <1>2. v = IF p[n] = Byte - 1 THEN 0 ELSE p[n] + 1
    BY <1>1, NextByte
  <1>3. RangeEnd(p) = [p EXCEPT ![n] = v]
    BY DEF RangeEnd
  <1> HIDE DEF v
  <1>4. v \in 0 .. Byte - 1 /\ n \in 1 .. Len(p)
    BY <1>1, <1>2, ByteAssumption
  <1>5. /\ RangeEnd(p) \in Seq(0 .. Byte - 1) /\ Len(RangeEnd(p)) = Len(p)
        /\ \A j \in 1 .. Len(p) : RangeEnd(p)[j] = IF j = n THEN v ELSE p[j]
    BY <1>1, <1>3, <1>4, ExceptSeq
  <1>6. \A i \in 1 .. Len(p) - 1 : RangeEnd(p)[i] = p[i]
    <2>1. n \in Nat
      BY <1>1
    <2> HIDE DEF n
    <2>2. \A i \in 1 .. n - 1 : i \in 1 .. n /\ i # n
      BY <2>1
    <2>3. \A i \in 1 .. n - 1 : i \in 1 .. Len(p) /\ i # n
      BY <2>2 DEF n
    <2>4. \A i \in 1 .. n - 1 : RangeEnd(p)[i] = p[i]
      BY <2>3, <1>5
    <2> QED
      BY <2>4 DEF n
  <1>7. RangeEnd(p)[Len(p)] = v
    BY <1>4, <1>5
  <1> QED
    BY <1>2, <1>5, <1>6, <1>7

\* A prefix, position by position.
LEMMA PrefixPointwise ==
  ASSUME NEW S, NEW s \in Seq(S), NEW t \in Seq(S)
  PROVE  IsPrefix(s, t) <=> Len(s) <= Len(t) /\ \A i \in 1 .. Len(s) : s[i] = t[i]
  <1>1. Len(s) <= Len(t) => /\ SubSeq(s, 1, Len(s)) = [i \in 1 .. Len(s) |-> s[i]]
                             /\ SubSeq(t, 1, Len(s)) = [i \in 1 .. Len(s) |-> t[i]]
    OBVIOUS
  <1> QED
    BY <1>1 DEF IsPrefix

\* Order of sequences of bytes, position by position.
LEMMA LessPointwise ==
  ASSUME NEW S, NEW a \in Seq(S), NEW b \in Seq(S)
  PROVE  Less(a, b) <=>
           \/ Len(a) < Len(b) /\ \A i \in 1 .. Len(a) : a[i] = b[i]
           \/ \E i \in 1 .. Len(a) : i <= Len(b) /\ a[i] < b[i] /\ \A j \in 1 .. i - 1 : a[j] = b[j]
  <1>1. IsStrictPrefix(a, b) <=> Len(a) < Len(b) /\ \A i \in 1 .. Len(a) : a[i] = b[i]
    <2>1. Len(a) = Len(b) /\ (\A i \in 1 .. Len(a) : a[i] = b[i]) => a = b
      OBVIOUS
    <2> QED
      BY <2>1, PrefixPointwise DEF IsStrictPrefix
  <1>2. DOMAIN a \cap DOMAIN b = {i \in 1 .. Len(a) : i <= Len(b)}
    OBVIOUS
  <1> QED
    BY <1>1, <1>2 DEF Less

----------------------------------------------------------------------------
\* What lies between a key and its end starts with the key.
LEMMA BetweenHasPrefix ==
  ASSUME NEW p \in Key, NEW k \in Key, ~Less(k, p), Less(k, RangeEnd(p))
  PROVE  IsPrefix(p, k)
  <1> DEFINE e == RangeEnd(p)
             n == Len(p)
  <1>1. /\ p \in Seq(0 .. Byte - 1) /\ n \in Nat \ {0} /\ p[n] \in 0 .. Byte - 1
        /\ k \in Seq(0 .. Byte - 1) /\ Len(k) \in Nat
        /\ \A i \in 1 .. Len(k) : k[i] \in 0 .. Byte - 1
    BY KeyIsSequence
  <1>2. /\ e \in Seq(0 .. Byte - 1) /\ Len(e) = n
        /\ \A i \in 1 .. n - 1 : e[i] = p[i]
        /\ e[n] = IF p[n] = Byte - 1 THEN 0 ELSE p[n] + 1
    BY EndDiffersInLast
  <1>3. \/ Len(k) < n /\ \A i \in 1 .. Len(k) : k[i] = e[i]
        \/ \E i \in 1 .. Len(k) : i <= n /\ k[i] < e[i] /\ \A j \in 1 .. i - 1 : k[j] = e[j]
    BY <1>1, <1>2, LessPointwise
  <1>4. /\ ~(Len(k) < n /\ \A i \in 1 .. Len(k) : k[i] = p[i])
        /\ \A i \in 1 .. Len(k) :
             ~(i <= n /\ k[i] < p[i] /\ \A j \in 1 .. i - 1 : k[j] = p[j])
    BY <1>1, LessPointwise
  <1> HIDE DEF e, n
  <1>5. ~(Len(k) < n /\ \A i \in 1 .. Len(k) : k[i] = e[i])
    BY <1>1, <1>2, <1>4
  <1>6. PICK i \in 1 .. Len(k) : i <= n /\ k[i] < e[i] /\ \A j \in 1 .. i - 1 : k[j] = e[j]
    BY <1>3, <1>5
  <1>7. \A j \in 1 .. i - 1 : k[j] = p[j]
    BY <1>1, <1>2, <1>6
  <1>8. i = n
    <2>1. ~(i < n)
      <3> SUFFICES ASSUME i < n PROVE FALSE
        OBVIOUS
      <3>1. e[i] = p[i]
        BY <1>1, <1>2, <1>6
      <3> QED
        BY <3>1, <1>4, <1>6, <1>7
    <2> QED
      BY <2>1, <1>1, <1>6
  <1>9. k[n] = p[n]
    <2>1. k[n] \in 0 .. Byte - 1 /\ k[n] < e[n]
      BY <1>1, <1>6, <1>8
    <2>2. ~(k[n] < p[n])
      BY <1>1, <1>4, <1>6, <1>7, <1>8
    <2>3. p[n] \in Int /\ k[n] \in Int /\ p[n] >= 0 /\ k[n] >= 0
      BY <1>1, <2>1, ByteAssumption
    <2>4. e[n] = 0 \/ e[n] = p[n] + 1
      BY <1>2
    <2> QED
      BY <2>1, <2>2, <2>3, <2>4
  <1>10. n <= Len(k) /\ \A j \in 1 .. n : p[j] = k[j]
    <2>1. n <= Len(k) /\ \A j \in 1 .. n - 1 : k[j] = p[j]
      BY <1>1, <1>6, <1>7, <1>8
    <2>2. \A j \in 1 .. n : j \in 1 .. n - 1 \/ j = n
      BY <1>1
    <2> QED
      BY <1>9, <2>1, <2>2
  <1> QED
    BY <1>1, <1>10, PrefixPointwise DEF n

\* What starts with a key is not below it, and below its end unless that wrapped.
LEMMA PrefixIsBetween ==
  ASSUME NEW p \in Key, NEW k \in Key, IsPrefix(p, k), Last(p) # Byte - 1
  PROVE  ~Less(k, p) /\ Less(k, RangeEnd(p))
  <1> DEFINE e == RangeEnd(p)
             n == Len(p)
  <1>1. /\ p \in Seq(0 .. Byte - 1) /\ n \in Nat \ {0} /\ p[n] \in 0 .. Byte - 1
        /\ \A i \in 1 .. n : p[i] \in 0 .. Byte - 1
        /\ k \in Seq(0 .. Byte - 1) /\ Len(k) \in Nat
    BY KeyIsSequence
  <1>2. /\ e \in Seq(0 .. Byte - 1) /\ Len(e) = n
        /\ \A i \in 1 .. n - 1 : e[i] = p[i]
        /\ e[n] = IF p[n] = Byte - 1 THEN 0 ELSE p[n] + 1
    BY EndDiffersInLast
  <1>3. n <= Len(k) /\ \A i \in 1 .. n : p[i] = k[i]
    BY <1>1, PrefixPointwise
  <1>4. p[n] # Byte - 1
    BY DEF Last
  <1>5. Less(k, p) <=>
           \/ Len(k) < n /\ \A i \in 1 .. Len(k) : k[i] = p[i]
           \/ \E i \in 1 .. Len(k) : i <= n /\ k[i] < p[i] /\ \A j \in 1 .. i - 1 : k[j] = p[j]
    BY <1>1, LessPointwise
  <1>6. Less(k, e) <=>
           \/ Len(k) < n /\ \A i \in 1 .. Len(k) : k[i] = e[i]
           \/ \E i \in 1 .. Len(k) : i <= n /\ k[i] < e[i] /\ \A j \in 1 .. i - 1 : k[j] = e[j]
    BY <1>1, <1>2, LessPointwise
  <1> HIDE DEF e, n
  <1>7. ~Less(k, p)
    BY <1>1, <1>3, <1>5
  <1>8. n \in 1 .. Len(k) /\ k[n] < e[n] /\ \A j \in 1 .. n - 1 : k[j] = e[j]
    BY <1>1, <1>2, <1>3, <1>4
  <1>9. Less(k, e)
    BY <1>1, <1>6, <1>8
  <1> QED
    BY <1>7, <1>9 DEF e

\* The end that stands for none comes from the key <<Byte - 1>> alone.
LEMMA EndlessHasPrefix ==
  ASSUME NEW p \in Key, NEW k \in Key, RangeEnd(p) = NoEnd, ~Less(k, p)
  PROVE  IsPrefix(p, k) /\ Last(p) = Byte - 1
  <1>1. /\ p \in Seq(0 .. Byte - 1) /\ Len(p) \in Nat \ {0}
        /\ \A i \in 1 .. Len(p) : p[i] \in 0 .. Byte - 1
        /\ k \in Seq(0 .. Byte - 1) /\ Len(k) \in Nat \ {0}
        /\ \A i \in 1 .. Len(k) : k[i] \in 0 .. Byte - 1
    BY KeyIsSequence
  <1>2. Len(p) = 1 /\ 0 = IF p[1] = Byte - 1 THEN 0 ELSE p[1] + 1
    BY EndDiffersInLast DEF NoEnd
  <1>3. p[1] = Byte - 1
    BY <1>1, <1>2
  <1>4. \A i \in 1 .. Len(k) :
             ~(i <= 1 /\ k[i] < p[i] /\ \A j \in 1 .. i - 1 : k[j] = p[j])
    BY <1>1, <1>2, LessPointwise
  <1>5. 1 \in 1 .. Len(k) /\ k[1] \in 0 .. Byte - 1 /\ ~(k[1] < p[1])
    BY <1>1, <1>4
  <1>6. k[1] = p[1]
    BY <1>3, <1>5, ByteAssumption
  <1> QED
    BY <1>1, <1>2, <1>3, <1>5, <1>6, PrefixPointwise DEF Last

----------------------------------------------------------------------------
\* The steps of a call keep the end of its request.
LEMMA EndInvariant == Spec => []EndOfKey
  <1>1. Init => EndOfKey
    BY DEF Init, EndOfKey, NoRequest
  <1>2. EndOfKey /\ [Next]_vars => EndOfKey'
    <2> SUFFICES ASSUME EndOfKey, [Next]_vars
                 PROVE  EndOfKey'
      OBVIOUS
    <2>1. CASE Begin
      <3>1. PICK k \in Kind :
              IF k = "Range"
                THEN \E key \in Key, with_prefix \in BOOLEAN :
                       request' = RangeRequest(key, with_prefix)
                ELSE UNCHANGED request
        BY <2>1 DEF Begin
      <3> QED
        BY <3>1 DEF EndOfKey, RangeRequest
    <2>2. CASE Return
      BY <2>2 DEF Return, EndOfKey, NoRequest
    <2>3. CASE UNCHANGED request
      BY <2>3 DEF EndOfKey
    <2>4. CASE LockFirst \/ StartCall \/ Yield \/ Resumed
      <3>1. UNCHANGED request
        BY <2>4 DEF LockFirst, StartCall, Yield, Resumed
      <3> QED
        BY <3>1, <2>3
    <2>5. CASE \E c \in Call : Complete(c) \/ GrpcThread(c)
      <3>1. UNCHANGED request
        BY <2>5 DEF Complete, GrpcThread, Callback, coVars
      <3> QED
        BY <3>1, <2>3
    <2>6. CASE UNCHANGED vars
      BY <2>3, <2>6 DEF vars, coVars
    <2> QED
      BY <2>1, <2>2, <2>4, <2>5, <2>6 DEF Next, Coroutine
  <1> QED
    BY <1>1, <1>2, PTL DEF Spec

\* Range with_prefix asks for no key without the prefix, and for every key that
\* has it unless the prefix ends in the last byte, although the code computes
\* with signed characters (etcd_client.cc:87-88).
THEOREM AsksForPrefix == Spec => []PrefixIsExact
  <1>1. EndOfKey => PrefixIsExact
    <2> SUFFICES ASSUME EndOfKey, request.range_end # <<>>, NEW k \in Key
                 PROVE  /\ Selected(request.key, request.range_end, k) => IsPrefix(request.key, k)
                        /\ IsPrefix(request.key, k) /\ Last(request.key) # Byte - 1
                             => Selected(request.key, request.range_end, k)
      BY DEF PrefixIsExact
    <2>1. request.key \in Key /\ request.range_end = RangeEnd(request.key)
      BY DEF EndOfKey
    <2>2. Selected(request.key, request.range_end, k) <=>
            /\ ~Less(k, request.key)
            /\ RangeEnd(request.key) = NoEnd \/ Less(k, RangeEnd(request.key))
      BY <2>1 DEF Selected
    <2>3. Selected(request.key, request.range_end, k) => IsPrefix(request.key, k)
      BY <2>1, <2>2, BetweenHasPrefix, EndlessHasPrefix
    <2>4. IsPrefix(request.key, k) /\ Last(request.key) # Byte - 1
            => Selected(request.key, request.range_end, k)
      BY <2>1, <2>2, PrefixIsBetween
    <2> QED
      BY <2>3, <2>4
  <1> QED
    BY <1>1, EndInvariant, PTL

----------------------------------------------------------------------------
(* The hand-over between the coroutine and the gRPC threads.               *)

\* Nothing has happened to a call that is still to come.
Untouched(c) ==
  /\ ~live[c] /\ kind[c] = "Put" /\ status[c] /\ ~response[c]
  /\ rpc[c] = "none" /\ outcome[c] = "none" /\ ret[c] = "none"
  /\ thread[c] = Outside /\ ctx[c] = NewContext

\* The coroutine is through with call c.
Past(c) == c < call \/ (c = call /\ pc = "idle")

\* What the RPC of call c has left in its context.
Reply(c) ==
  /\ rpc[c] # "answered" => thread[c] = Outside /\ status[c]
  /\ rpc[c] \in {"none", "sent"} => outcome[c] = "none" /\ ~response[c]
  /\ rpc[c] \in {"callback", "answered"} => response[c] = (outcome[c] = "ok")
  /\ rpc[c] = "answered" /\ kind[c] = "Put" => status[c] = (outcome[c] = "ok")
  /\ kind[c] # "Put" => status[c]

\* Which resumer a context holds, and who holds its mutex.
Resumer(c) ==
  /\ ctx[c].mu <=> thread[c].at \in {"resume", "unlock"}
  /\ ctx[c].resumer = IF call < c \/ kind[c] = "TimeToAlive" \/ (c = call /\ pc = "lock")
                        THEN <<>> ELSE <<c>>

\* A call that is over was answered, and its gRPC thread has at most the
\* unlocking left to do.
Answered(c) == rpc[c] = "answered" /\ thread[c].at \in {"out", "unlock"}

CallInv(c) ==
  /\ call < c => Untouched(c)
  /\ live[c] <=> c = call /\ pc # "idle"
  /\ Reply(c) /\ Resumer(c)
  /\ Past(c) => Answered(c)
  /\ ret[c] # "none" => Past(c) /\ ret[c] = Result(kind[c], status[c], response[c])

\* The call the coroutine is in.
Current ==
  /\ pc # "idle" => call \in Call
  /\ pc = "lock" => kind[call] # "TimeToAlive"
  /\ pc \in {"lock", "start"} => rpc[call] = "none"
  /\ pc \in {"yield", "suspended"} => rpc[call] # "none"
  /\ pc = "return" => Answered(call) /\ posted = <<>>

\* What is posted was posted by the call the coroutine waits in, as the last
\* thing its gRPC thread did before it unlocks.
Hand ==
  posted # <<>> =>
    pc \in {"yield", "suspended"} /\ posted = <<call>> /\ Answered(call)

HandInv == TypeOK /\ (\A c \in Call : CallInv(c)) /\ Current /\ Hand

\* The end of a range is a key.
LEMMA EndIsKey ==
  ASSUME NEW p \in Key
  PROVE  RangeEnd(p) \in Key
  <1>1. PICK n \in 1 .. MaxLen : p \in [1 .. n -> 0 .. Byte - 1]
    BY DEF Key
  <1>2. Len(p) \in Nat \ {0} /\ p[Len(p)] \in 0 .. Byte - 1
    BY KeyIsSequence
  <1>3. Narrow(Signed(p[Len(p)]) + 1) \in 0 .. Byte - 1
    BY <1>2, NextByte, ByteAssumption
  <1>4. RangeEnd(p) \in [1 .. n -> 0 .. Byte - 1]
    BY <1>1, <1>3 DEF RangeEnd
  <1> QED
    BY <1>1, <1>4 DEF Key

\* Nothing is posted, called or held at first.
LEMMA HandInit == Init => HandInv
  <1> SUFFICES ASSUME Init PROVE HandInv
    OBVIOUS
  <1>1. TypeOK
    BY MaxCallsAssumption DEF Init, TypeOK, NoRequest, Kind, NewContext, ContextType, Outside,
       ThreadType, Call
  <1>2. \A c \in Call : CallInv(c)
    BY MaxCallsAssumption DEF Init, CallInv, Untouched, Reply, Resumer, Past, NewContext, Outside,
       Call
  <1>3. Current /\ Hand
    BY DEF Init, Current, Hand
  <1> QED
    BY <1>1, <1>2, <1>3 DEF HandInv

\* An operation builds its request and its context (etcd_client.cc: Put, Range, LeaseGrant,
\* TimeToAlive).
LEMMA HandBegin == HandInv /\ Begin => HandInv'
  <1> SUFFICES ASSUME HandInv, Begin PROVE HandInv'
    OBVIOUS
  <1> USE DEF HandInv
  <1>1. PICK k \in Kind :
          /\ kind' = [kind EXCEPT ![call + 1] = k]
          /\ pc' = IF k = "TimeToAlive" THEN "start" ELSE "lock"
          /\ IF k = "Range"
               THEN \E key \in Key, with_prefix \in BOOLEAN :
                      request' = RangeRequest(key, with_prefix)
               ELSE UNCHANGED request
    BY DEF Begin
  <1>2. /\ pc = "idle" /\ call < MaxCalls /\ call' = call + 1
        /\ live' = [live EXCEPT ![call + 1] = TRUE]
        /\ UNCHANGED <<ctx, thread, posted, ret, status, response, rpc, outcome>>
    BY DEF Begin, contextVars, rpcVars
  <1>3. call + 1 \in Call /\ call' \in 0 .. MaxCalls /\ posted = <<>> /\ call \in Nat
    BY <1>2, MaxCallsAssumption DEF TypeOK, Call, Hand
  <1>4. request'.key \in Key \cup {<<>>} /\ request'.range_end \in Key \cup {<<>>}
    BY <1>1, EndIsKey DEF RangeRequest, TypeOK
  <1>5. TypeOK'
    BY <1>1, <1>2, <1>3, <1>4 DEF TypeOK, Kind
  <1>6. Untouched(call + 1)
    BY <1>3 DEF CallInv
  <1>7. ASSUME NEW d \in Call, d # call + 1 PROVE CallInv(d)'
    <2>1. kind'[d] = kind[d] /\ live'[d] = live[d]
      BY <1>1, <1>2, <1>7 DEF TypeOK
    <2>2. (d < call \/ d = call <=> d < call + 1) /\ (call < d => call + 1 < d) /\ d \in Nat
      BY <1>3, <1>7 DEF Call
    <2> QED
      BY <1>1, <1>2, <1>3, <2>1, <2>2 DEF CallInv, Untouched, Reply, Resumer, Past, Answered
  <1>8. ASSUME NEW d \in Call, d = call + 1 PROVE CallInv(d)'
    <2>1. kind'[d] = k /\ live'[d] /\ d = call' /\ ~(call' < d) /\ Untouched(d)
      BY <1>1, <1>2, <1>3, <1>6, <1>8 DEF TypeOK
    <2> QED
      BY <1>1, <1>2, <2>1
      DEF CallInv, Untouched, Reply, Resumer, Past, Answered, NewContext, Outside
  <1>9. Current' /\ Hand'
    BY <1>1, <1>2, <1>3, <1>6 DEF Current, Hand, Untouched, TypeOK
  <1> QED
    BY <1>5, <1>7, <1>8, <1>9

\* LockContext before the RPC is started.
LEMMA HandLock == HandInv /\ LockFirst => HandInv'
  <1> SUFFICES ASSUME HandInv, LockFirst PROVE HandInv'
    OBVIOUS
  <1> USE DEF HandInv
  <1>1. /\ pc = "lock" /\ pc' = "start" /\ ctx' = [ctx EXCEPT ![call].resumer = <<call>>]
        /\ UNCHANGED <<thread, posted, call, request, kind, ret, live, status, response, rpc,
                       outcome>>
    BY DEF LockFirst, LockContext, callVars, frameVars, rpcVars
  <1>2. call \in Call /\ kind[call] # "TimeToAlive" /\ posted = <<>>
    BY <1>1 DEF Current, Hand
  <1>3. /\ ctx' \in [Call -> ContextType(Call)] /\ ctx'[call].resumer = <<call>>
        /\ ctx'[call].mu = ctx[call].mu
        /\ \A d \in Call : d # call => ctx'[d] = ctx[d]
    BY <1>1, <1>2 DEF TypeOK, ContextType
  <1>4. TypeOK'
    BY <1>1, <1>3 DEF TypeOK
  <1>5. ASSUME NEW d \in Call PROVE CallInv(d)'
    BY <1>1, <1>2, <1>3 DEF CallInv, Untouched, Reply, Resumer, Past, Answered, Call
  <1>6. Current' /\ Hand'
    BY <1>1, <1>2 DEF Current, Hand
  <1> QED
    BY <1>4, <1>5, <1>6

\* The RPC is started.
LEMMA HandStart == HandInv /\ StartCall => HandInv'
  <1> SUFFICES ASSUME HandInv, StartCall PROVE HandInv'
    OBVIOUS
  <1> USE DEF HandInv
  <1>1. /\ pc = "start" /\ pc' = "yield" /\ rpc' = [rpc EXCEPT ![call] = "sent"]
        /\ UNCHANGED <<ctx, thread, posted, call, request, kind, ret, live, status, response,
                       outcome>>
    BY DEF StartCall, callVars, frameVars, contextVars
  <1>2. call \in Call /\ rpc[call] = "none" /\ posted = <<>>
    BY <1>1 DEF Current, Hand
  <1>3. /\ rpc' \in [Call -> {"none", "sent", "callback", "answered"}] /\ rpc'[call] = "sent"
        /\ \A d \in Call : d # call => rpc'[d] = rpc[d]
    BY <1>1, <1>2 DEF TypeOK
  <1>4. TypeOK'
    BY <1>1, <1>3 DEF TypeOK
  <1>5. ASSUME NEW d \in Call PROVE CallInv(d)'
    BY <1>1, <1>2, <1>3 DEF CallInv, Untouched, Reply, Resumer, Past, Answered, Call
  <1>6. Current' /\ Hand'
    BY <1>1, <1>2, <1>3 DEF Current, Hand
  <1> QED
    BY <1>4, <1>5, <1>6

\* CO_YIELD.
LEMMA HandYield == HandInv /\ Yield => HandInv'
  <1> SUFFICES ASSUME HandInv, Yield PROVE HandInv'
    OBVIOUS
  <1> USE DEF HandInv
  <1>1. /\ pc = "yield" /\ pc' = "suspended"
        /\ UNCHANGED <<ctx, thread, posted, call, request, kind, ret, live, status, response,
                       rpc, outcome>>
    BY DEF Yield, callVars, frameVars, contextVars, rpcVars
  <1>2. TypeOK'
    BY <1>1 DEF TypeOK
  <1>3. ASSUME NEW d \in Call PROVE CallInv(d)'
    BY <1>1 DEF CallInv, Untouched, Reply, Resumer, Past, Answered
  <1>4. Current' /\ Hand'
    BY <1>1 DEF Current, Hand, Answered
  <1> QED
    BY <1>2, <1>3, <1>4

\* The loop runs what the gRPC thread of the call has posted.
LEMMA HandResumed == HandInv /\ Resumed => HandInv'
  <1> SUFFICES ASSUME HandInv, Resumed PROVE HandInv'
    OBVIOUS
  <1> USE DEF HandInv
  <1>1. /\ pc = "suspended" /\ pc' = "return" /\ posted # <<>> /\ posted' = Tail(posted)
        /\ UNCHANGED <<ctx, thread, call, request, kind, ret, live, status, response, rpc,
                       outcome>>
    BY DEF Resumed, Resume, callVars, frameVars, rpcVars
  <1>2. call \in Call /\ posted = <<call>> /\ Answered(call)
    BY <1>1 DEF Current, Hand
  <1>3. posted' = <<>>
    BY <1>1, <1>2
  <1>4. TypeOK'
    BY <1>1, <1>3 DEF TypeOK
  <1>5. ASSUME NEW d \in Call PROVE CallInv(d)'
    BY <1>1 DEF CallInv, Untouched, Reply, Resumer, Past, Answered
  <1>6. Current' /\ Hand'
    BY <1>1, <1>2, <1>3 DEF Current, Hand, Answered
  <1> QED
    BY <1>4, <1>5, <1>6

\* The operation returns what its context says, and the context goes away.
LEMMA HandReturn == HandInv /\ Return => HandInv'
  <1> SUFFICES ASSUME HandInv, Return PROVE HandInv'
    OBVIOUS
  <1> USE DEF HandInv
  <1> DEFINE r == Result(kind[call], status[call], response[call])
  <1>1. /\ pc = "return" /\ pc' = "idle" /\ request' = NoRequest
        /\ ret' = [ret EXCEPT ![call] = r] /\ live' = [live EXCEPT ![call] = FALSE]
        /\ UNCHANGED <<ctx, thread, posted, call, kind, status, response, rpc, outcome>>
    BY DEF Return, contextVars, rpcVars
  <1>2. call \in Call /\ posted = <<>> /\ Answered(call)
    BY <1>1 DEF Current
  <1>3. r \in {"none", "data", "zero", "empty", "minus_one"}
    BY <1>2 DEF Result, TypeOK
  <1> HIDE DEF r
  <1>4. /\ ret'[call] = r /\ ~live'[call]
        /\ \A d \in Call : d # call => ret'[d] = ret[d] /\ live'[d] = live[d]
    BY <1>1, <1>2 DEF TypeOK
  <1>5. TypeOK'
    BY <1>1, <1>3 DEF TypeOK, NoRequest
  <1>6. ASSUME NEW d \in Call, d # call PROVE CallInv(d)'
    BY <1>1, <1>4, <1>6 DEF CallInv, Untouched, Reply, Resumer, Past, Answered
  <1>7. ASSUME NEW d \in Call, d = call PROVE CallInv(d)'
    <2>1. ~(d < d)
      BY DEF Call
    <2> QED
      BY <1>1, <1>2, <1>4, <1>7, <2>1 DEF CallInv, Untouched, Reply, Resumer, Past, Answered, r
  <1>8. Current' /\ Hand'
    BY <1>1, <1>2 DEF Current, Hand
  <1> QED
    BY <1>5, <1>6, <1>7, <1>8

\* gRPC completes the RPC of the call the coroutine waits in.
LEMMA HandComplete == ASSUME NEW c \in Call, HandInv, Complete(c) PROVE HandInv'
  <1> USE DEF HandInv
  <1>1. PICK ok \in BOOLEAN :
          /\ outcome' = [outcome EXCEPT ![c] = IF ok THEN "ok" ELSE "failed"]
          /\ response' = [response EXCEPT ![c] = ok]
    BY DEF Complete
  <1>2. /\ rpc[c] = "sent" /\ rpc' = [rpc EXCEPT ![c] = "callback"]
        /\ UNCHANGED <<ctx, thread, posted, pc, call, request, kind, ret, live, status>>
    BY DEF Complete, contextVars, coVars, callVars
  <1>3. /\ rpc'[c] = "callback" /\ response'[c] = ok
        /\ outcome'[c] = IF ok THEN "ok" ELSE "failed"
        /\ \A d \in Call : d # c => /\ rpc'[d] = rpc[d] /\ response'[d] = response[d]
                                    /\ outcome'[d] = outcome[d]
    BY <1>1, <1>2 DEF TypeOK
  <1>4. TypeOK'
    BY <1>1, <1>2 DEF TypeOK
  <1>5. ~Past(c) /\ ~(call < c) /\ c = call /\ pc # "idle"
    BY <1>2 DEF CallInv, Answered, Untouched, Past, TypeOK, Call
  <1>6. ASSUME NEW d \in Call, d # c PROVE CallInv(d)'
    BY <1>2, <1>3, <1>6 DEF CallInv, Untouched, Reply, Resumer, Past, Answered
  <1>7. CallInv(c)'
    BY <1>2, <1>3, <1>5 DEF CallInv, Untouched, Reply, Resumer, Past, Answered
  <1>8. Current' /\ Hand'
    BY <1>2, <1>3, <1>5 DEF Current, Hand, Answered
  <1> QED
    BY <1>4, <1>6, <1>7, <1>8

\* The lambda given to gRPC enters ResumeContext.
LEMMA HandCallback == ASSUME NEW c \in Call, HandInv, Callback(c) PROVE HandInv'
  <1> USE DEF HandInv
  <1>1. /\ rpc[c] = "callback" /\ rpc' = [rpc EXCEPT ![c] = "answered"]
        /\ status' = [status EXCEPT ![c] = IF kind[c] = "Put" THEN Ok(c) ELSE @]
        /\ thread' = [thread EXCEPT ![c] = [at |-> "success", ok |-> Ok(c)]]
        /\ UNCHANGED <<ctx, posted, pc, call, request, kind, ret, live, response, outcome>>
    BY DEF Callback, CallResumeContext, coVars, callVars
  <1>2. Ok(c) \in BOOLEAN
    BY DEF Ok
  <1>3. /\ rpc'[c] = "answered" /\ thread'[c].at = "success"
        /\ status'[c] = IF kind[c] = "Put" THEN Ok(c) ELSE status[c]
        /\ \A d \in Call : d # c => /\ rpc'[d] = rpc[d] /\ status'[d] = status[d]
                                    /\ thread'[d] = thread[d]
    BY <1>1 DEF TypeOK
  <1>4. TypeOK'
    BY <1>1, <1>2 DEF TypeOK, ThreadType
  <1>5. ~Past(c) /\ ~(call < c) /\ c = call /\ pc # "idle" /\ thread[c] = Outside
    BY <1>1 DEF CallInv, Answered, Untouched, Past, TypeOK, Call, Reply
  <1>6. ASSUME NEW d \in Call, d # c PROVE CallInv(d)'
    BY <1>1, <1>3, <1>6 DEF CallInv, Untouched, Reply, Resumer, Past, Answered
  <1>7. CallInv(c)'
    BY <1>1, <1>3, <1>5 DEF CallInv, Untouched, Reply, Resumer, Past, Answered, Ok, Outside
  <1>8. Current' /\ Hand'
    BY <1>1, <1>3, <1>5 DEF Current, Hand, Answered
  <1> QED
    BY <1>4, <1>6, <1>7, <1>8

\* A step of ResumeContext, also of a call that is over: only its unlocking is left then.
LEMMA HandResumeContext ==
  ASSUME NEW c \in Call, HandInv, ResumeContext(c), UNCHANGED <<coVars, callVars, frameVars, rpcVars>>
  PROVE  HandInv'
  <1> USE DEF HandInv
  <1>1. UNCHANGED <<pc, call, request, kind, ret, live, status, response, rpc, outcome>>
    BY DEF coVars, callVars, frameVars, rpcVars
  <1>2. /\ ctx \in [Call -> ContextType(Call)] /\ thread \in [Call -> ThreadType]
        /\ posted \in Seq(Call)
    BY DEF TypeOK
  <1>3. /\ ctx' \in [Call -> ContextType(Call)] /\ thread' \in [Call -> ThreadType]
        /\ posted' \in Seq(Call)
        /\ \A d \in Call : d # c => ctx'[d] = ctx[d] /\ thread'[d] = thread[d]
        /\ ctx'[c].resumer = ctx[c].resumer
        /\ thread[c].at # "out"
        /\ ctx'[c].mu = IF thread[c].at = "lock" THEN TRUE
                        ELSE IF thread[c].at = "unlock" THEN FALSE ELSE ctx[c].mu
        /\ thread'[c].at = NextPlace(thread[c].at)
        /\ posted' = IF thread[c].at = "resume" THEN posted \o ctx[c].resumer ELSE posted
    <2>1. Resuming(Call, Call, c)
      BY <1>2, ResumeStep
    <2> QED
      BY <2>1 DEF Resuming
  <1>4. TypeOK'
    BY <1>1, <1>3 DEF TypeOK
  <1>5. rpc[c] = "answered" /\ ~(call < c)
    BY <1>3 DEF CallInv, Reply, Untouched, Outside
  <1>6. thread[c].at \in {"success", "done", "lock", "resume", "unlock"}
    BY <1>2, <1>3 DEF ThreadType
  <1>7. thread[c].at # "unlock" => c = call /\ pc \in {"yield", "suspended"} /\ posted = <<>>
    BY <1>3, <1>5 DEF CallInv, Past, Answered, Current, Hand, TypeOK, Call
  <1>8. ASSUME NEW d \in Call, d # c PROVE CallInv(d)'
    BY <1>1, <1>3, <1>8 DEF CallInv, Untouched, Reply, Resumer, Past, Answered
  <1>9. CallInv(c)'
    <2>1. ctx'[c].mu <=> thread'[c].at \in {"resume", "unlock"}
      BY <1>3, <1>6 DEF CallInv, Resumer, NextPlace
    <2>2. Past(c) => thread'[c].at \in {"out", "unlock"}
      BY <1>3, <1>6 DEF CallInv, Answered, NextPlace
    <2> QED
      BY <1>1, <1>3, <1>5, <2>1, <2>2 DEF CallInv, Reply, Resumer, Past, Answered
  <1>10. Current' /\ Hand'
    <2>1. CASE thread[c].at = "unlock"
      BY <1>1, <1>3, <2>1 DEF Current, Hand, Answered, NextPlace
    <2>2. CASE thread[c].at = "resume"
      <3>1. posted' = ctx[c].resumer /\ thread'[c].at = "unlock"
        BY <1>2, <1>3, <1>7, <2>2 DEF ContextType, NextPlace
      <3>2. ctx[c].resumer = <<>> \/ ctx[c].resumer = <<c>>
        BY DEF CallInv, Resumer
      <3> QED
        BY <1>1, <1>5, <1>7, <2>2, <3>1, <3>2 DEF Current, Hand, Answered
    <2>3. CASE thread[c].at \notin {"unlock", "resume"}
      <3>1. posted' = <<>> /\ c = call /\ pc \in {"yield", "suspended"}
        BY <1>3, <1>6, <1>7, <2>3
      <3> QED
        BY <1>1, <3>1 DEF Current, Hand
    <2> QED
      BY <2>1, <2>2, <2>3
  <1> QED
    BY <1>4, <1>8, <1>9, <1>10

\* The hand-over between the coroutine and the gRPC threads is kept by every step.
LEMMA HandInvariant == Spec => []HandInv
  <1>1. HandInv /\ [Next]_vars => HandInv'
    <2> SUFFICES ASSUME HandInv, [Next]_vars
                 PROVE  HandInv'
      OBVIOUS
    <2>1. CASE Coroutine
      BY <2>1, HandBegin, HandLock, HandStart, HandYield, HandResumed, HandReturn DEF Coroutine
    <2>2. CASE \E c \in Call : Complete(c) \/ GrpcThread(c)
      BY <2>2, HandComplete, HandCallback, HandResumeContext DEF GrpcThread
    <2>3. CASE UNCHANGED vars
      BY <2>3 DEF vars, contextVars, coVars, callVars, frameVars, rpcVars, HandInv, TypeOK, CallInv,
         Untouched, Reply, Resumer, Past, Answered, Current, Hand
    <2> QED
      BY <2>1, <2>2, <2>3 DEF Next
  <1> QED
    BY <1>1, HandInit, PTL DEF Spec

----------------------------------------------------------------------------
\* The variables keep their types, the posted resumptions and the request included.
THEOREM TypeCorrect == Spec => []TypeOK
  <1>1. HandInv => TypeOK
    BY DEF HandInv
  <1> QED
    BY <1>1, HandInvariant, PTL

\* Whatever is posted to the loop was posted by the call the coroutine waits in,
\* and only once (call_context.cc:12-15).
THEOREM ResumedOnlyByOwnCall == Spec => []ResumedByOwnCall
  <1>1. HandInv => ResumedByOwnCall
    <2> SUFFICES ASSUME HandInv, posted # <<>>
                 PROVE  /\ Len(posted) <= 1
                        /\ Head(posted) = call /\ pc \in {"yield", "suspended"}
      BY DEF ResumedByOwnCall
    <2>1. posted = <<call>> /\ pc \in {"yield", "suspended"}
      BY DEF HandInv, Hand
    <2> QED
      BY <2>1
  <1> QED
    BY <1>1, HandInvariant, PTL

\* An operation returns data exactly if its RPC succeeded, and Put tells a failure
\* (etcd_client.h:50).
THEOREM OutcomeIsReturned == Spec => []ReturnsOutcome
  <1>1. HandInv => ReturnsOutcome
    <2> SUFFICES ASSUME HandInv, NEW c \in Call, ret[c] # "none"
                 PROVE  /\ ret[c] = "data" <=> outcome[c] = "ok"
                        /\ kind[c] = "Put" => ret[c] \in {"data", "minus_one"}
      BY DEF ReturnsOutcome
    <2>1. /\ kind[c] \in Kind /\ rpc[c] = "answered"
          /\ ret[c] = Result(kind[c], status[c], response[c])
          /\ response[c] = (outcome[c] = "ok")
          /\ kind[c] = "Put" => status[c] = (outcome[c] = "ok")
          /\ kind[c] # "Put" => status[c]
      BY DEF HandInv, CallInv, Answered, Reply, TypeOK
    <2> QED
      BY <2>1 DEF Result, Kind
  <1> QED
    BY <1>1, HandInvariant, PTL

\* A gRPC thread that outlives the context it resumes has only the unlocking of mu_
\* left to do (call_context.cc:12-16).
THEOREM LateTouchOnlyUnlocks == Spec => []LateTouchIsUnlock
  <1>1. HandInv => LateTouchIsUnlock
    <2> SUFFICES ASSUME HandInv, NEW c \in Call, ~live[c]
                 PROVE  rpc[c] \in {"none", "answered"} /\ thread[c].at \in {"out", "unlock"}
      BY DEF LateTouchIsUnlock
    <2>1. call < c \/ Past(c)
      BY DEF HandInv, CallInv, Past, TypeOK, Call
    <2> QED
      BY <2>1 DEF HandInv, CallInv, Untouched, Answered, Outside
  <1> QED
    BY <1>1, HandInvariant, PTL

----------------------------------------------------------------------------
(* What the coroutine waits for.                                           *)

\* A coroutine that yielded in a call that locks its context is resumed, or its
\* RPC or the gRPC thread that answers it is still on the way to do so, also when
\* that thread came before CO_YIELD (call_context.cc:8-24).
NoWakeUpLost ==
  pc \in {"yield", "suspended"} /\ kind[call] # "TimeToAlive" =>
    \/ rpc[call] \in {"sent", "callback"}
    \/ thread[call].at \in {"success", "done", "lock", "resume"}
    \/ posted = <<call>>

\* TimeToAlive starts its RPC without LockContext (etcd_client.cc:145-159): its
\* context has no resumer, and it never gives a result to its caller.
TimeToAliveNeverReturns == \A c \in Call : kind[c] = "TimeToAlive" => ret[c] = "none"

\* An answered call has posted a resumption, unless it is one without a resumer.
Owed ==
  /\ pc \in {"yield", "suspended"} /\ Answered(call) =>
       (posted # <<>> <=> kind[call] # "TimeToAlive")
  /\ pc = "return" => kind[call] # "TimeToAlive"
  /\ TimeToAliveNeverReturns

\* The steps of the coroutine.
LEMMA OwedCoroutine == ASSUME HandInv, Owed, Coroutine PROVE Owed'
  <1>1. /\ kind \in [Call -> Kind] /\ rpc \in [Call -> {"none", "sent", "callback", "answered"}]
        /\ ret \in [Call -> {"none", "data", "zero", "empty", "minus_one"}]
    BY DEF HandInv, TypeOK
  <1>2. CASE Begin
    <2>1. /\ pc = "idle" /\ call' = call + 1 /\ pc' \in {"start", "lock"} /\ UNCHANGED ret
          /\ \E k \in Kind : kind' = [kind EXCEPT ![call + 1] = k]
      BY <1>2 DEF Begin
    <2>2. call + 1 \in Call /\ call < call + 1
      BY <1>2, MaxCallsAssumption DEF Begin, HandInv, TypeOK, Call
    <2>3. ret[call + 1] = "none"
      BY <2>2 DEF HandInv, CallInv, Untouched
    <2>4. \A c \in Call : c # call + 1 => kind'[c] = kind[c]
      BY <1>1, <2>1
    <2> QED
      BY <2>1, <2>3, <2>4 DEF Owed, TimeToAliveNeverReturns
  <1>3. CASE LockFirst
    BY <1>3 DEF LockFirst, callVars, Owed, TimeToAliveNeverReturns
  <1>4. CASE StartCall
    <2>1. call \in Call /\ pc = "start" /\ pc' = "yield" /\ UNCHANGED <<call, kind, ret>>
      BY <1>4 DEF StartCall, callVars, HandInv, Current
    <2>2. rpc'[call] = "sent"
      BY <1>1, <1>4, <2>1 DEF StartCall
    <2> QED
      BY <2>1, <2>2 DEF Owed, TimeToAliveNeverReturns, Answered
  <1>5. CASE Yield
    BY <1>5 DEF Yield, contextVars, callVars, rpcVars, Owed, TimeToAliveNeverReturns, Answered
  <1>6. CASE Resumed
    <2>1. pc = "suspended" /\ posted # <<>> /\ pc' = "return" /\ UNCHANGED <<call, kind, ret>>
      BY <1>6 DEF Resumed, Resume, callVars
    <2>2. kind[call] # "TimeToAlive"
      BY <2>1 DEF HandInv, Hand, Owed
    <2> QED
      BY <2>1, <2>2 DEF Owed, TimeToAliveNeverReturns
  <1>7. CASE Return
    <2>1. /\ pc = "return" /\ pc' = "idle" /\ UNCHANGED <<call, kind>>
          /\ \E x : ret' = [ret EXCEPT ![call] = x]
      BY <1>7 DEF Return
    <2>2. kind[call] # "TimeToAlive" /\ \A c \in Call : c # call => ret'[c] = ret[c]
      BY <1>1, <2>1 DEF Owed
    <2> QED
      BY <2>1, <2>2 DEF Owed, TimeToAliveNeverReturns
  <1> QED
    BY <1>2, <1>3, <1>4, <1>5, <1>6, <1>7 DEF Coroutine

\* The RPC ends, and its gRPC thread enters ResumeContext.
LEMMA OwedReply == ASSUME HandInv, Owed, NEW c \in Call, Complete(c) \/ Callback(c) PROVE Owed'
  <1>1. /\ rpc \in [Call -> {"none", "sent", "callback", "answered"}]
        /\ thread \in [Call -> ThreadType]
    BY DEF HandInv, TypeOK
  <1>2. UNCHANGED <<pc, call, kind, ret, posted>>
    BY DEF Complete, Callback, contextVars, coVars, callVars
  <1>3. ~Answered(c)' /\ \A d \in Call : d # c => (Answered(d)' <=> Answered(d))
    <2>1. CASE Complete(c)
      BY <1>1, <2>1 DEF Complete, contextVars, Answered
    <2>2. CASE Callback(c)
      <3>1. thread'[c].at = "success" /\ \A d \in Call : d # c => thread'[d] = thread[d]
        BY <1>1, <2>2 DEF Callback, CallResumeContext
      <3>2. \A d \in Call : d # c => rpc'[d] = rpc[d]
        BY <1>1, <2>2 DEF Callback
      <3> QED
        BY <3>1, <3>2 DEF Answered
    <2> QED
      BY <2>1, <2>2
  <1>4. pc \in {"yield", "suspended"} => call \in Call
    BY DEF HandInv, Current
  <1>5. Answered(call)' /\ call \in Call => Answered(call)
    BY <1>2, <1>3
  <1> QED
    BY <1>2, <1>4, <1>5 DEF Owed, TimeToAliveNeverReturns

\* A step of ResumeContext.
LEMMA OwedResume ==
  ASSUME HandInv, Owed, NEW c \in Call, ResumeContext(c), UNCHANGED <<coVars, callVars, frameVars, rpcVars>>
  PROVE  Owed'
  <1>1. UNCHANGED <<pc, call, kind, ret, rpc>>
    BY DEF coVars, callVars, rpcVars
  <1>2. /\ ctx \in [Call -> ContextType(Call)] /\ thread \in [Call -> ThreadType]
        /\ posted \in Seq(Call)
    BY DEF HandInv, TypeOK
  <1>3. Resuming(Call, Call, c)
    BY <1>2, ResumeStep
  <1>4. /\ \A d \in Call : d # c => thread'[d] = thread[d]
        /\ thread[c].at # "out" /\ thread'[c].at = NextPlace(thread[c].at)
        /\ posted' = IF thread[c].at = "resume" THEN posted \o ctx[c].resumer ELSE posted
    BY <1>3 DEF Resuming
  <1>5. thread[c].at \in {"success", "done", "lock", "resume", "unlock"}
    BY <1>2, <1>4 DEF ThreadType
  <1>6. rpc[c] = "answered" /\ ~(call < c)
    BY <1>4 DEF HandInv, CallInv, Reply, Untouched, Outside
  <1>7. thread[c].at # "unlock" => c = call /\ pc \in {"yield", "suspended"} /\ posted = <<>>
    BY <1>4, <1>6 DEF HandInv, CallInv, Past, Answered, Current, Hand, TypeOK, Call
  <1>8. CASE thread[c].at = "unlock"
    <2>1. posted' = posted /\ thread'[c].at = "out"
      BY <1>4, <1>8 DEF NextPlace
    <2>2. \A d \in Call : Answered(d)' <=> Answered(d)
      BY <1>1, <1>4, <1>8, <2>1 DEF Answered
    <2>3. pc \in {"yield", "suspended"} => call \in Call
      BY DEF HandInv, Current
    <2> QED
      BY <1>1, <2>1, <2>2, <2>3 DEF Owed, TimeToAliveNeverReturns
  <1>9. CASE thread[c].at = "resume"
    <2>1. ctx[c].resumer = IF kind[c] = "TimeToAlive" THEN <<>> ELSE <<c>>
      BY <1>6, <1>7, <1>9 DEF HandInv, CallInv, Resumer
    <2>2. posted' = ctx[c].resumer
      BY <1>4, <1>7, <1>9, <2>1
    <2>3. posted' # <<>> <=> kind[call] # "TimeToAlive"
      BY <1>7, <1>9, <2>1, <2>2
    <2> QED
      BY <1>1, <1>7, <1>9, <2>3 DEF Owed, TimeToAliveNeverReturns
  <1>10. CASE thread[c].at \in {"success", "done", "lock"}
    <2>1. ~Answered(c)' /\ c = call
      BY <1>4, <1>7, <1>10 DEF Answered, NextPlace
    <2> QED
      BY <1>1, <2>1 DEF Owed, TimeToAliveNeverReturns
  <1> QED
    BY <1>5, <1>8, <1>9, <1>10

\* Every step keeps Owed.
LEMMA OwedInvariant == Spec => []Owed
  <1>1. Init => Owed
    BY DEF Init, Owed, TimeToAliveNeverReturns
  <1>2. HandInv /\ Owed /\ [Next]_vars => Owed'
    <2> SUFFICES ASSUME HandInv, Owed, [Next]_vars PROVE Owed'
      OBVIOUS
    <2>1. CASE UNCHANGED vars
      BY <2>1 DEF vars, contextVars, coVars, callVars, rpcVars, Owed, TimeToAliveNeverReturns, Answered
    <2> QED
      BY <2>1, OwedCoroutine, OwedReply, OwedResume DEF Next, GrpcThread
  <1> QED
    BY <1>1, <1>2, HandInvariant, PTL DEF Spec

\* A coroutine in a call that locks its context cannot sleep through its answer:
\* the safety half of CompletedCallReturns.
THEOREM CallMissesNothing == Spec => []NoWakeUpLost
  <1>1. HandInv /\ Owed => NoWakeUpLost
    <2> SUFFICES ASSUME HandInv, Owed, pc \in {"yield", "suspended"}, kind[call] # "TimeToAlive",
                        rpc[call] \notin {"sent", "callback"},
                        thread[call].at \notin {"success", "done", "lock", "resume"}
                 PROVE  posted = <<call>>
      BY DEF NoWakeUpLost
    <2>1. call \in Call /\ rpc[call] # "none"
      BY DEF HandInv, Current
    <2>2. rpc[call] = "answered" /\ thread[call].at \in {"out", "unlock"}
      BY <2>1 DEF HandInv, TypeOK, ThreadType
    <2> QED
      BY <2>2 DEF HandInv, Hand, Owed, Answered
  <1> QED
    BY <1>1, HandInvariant, OwedInvariant, PTL

\* A coroutine that calls TimeToAlive stays in it for good: no execution of any
\* length lets the call return, whatever its RPC answers.
THEOREM TimeToAliveStays == Spec => []TimeToAliveNeverReturns
  <1>1. Owed => TimeToAliveNeverReturns
    BY DEF Owed
  <1> QED
    BY <1>1, OwedInvariant, PTL
=============================================================================
