---------------------------- MODULE DeviceProofs ----------------------------
(***************************************************************************)
(* Theorems about parts of the device, for every value of their constants: *)
(* no signal of a service is lost or given twice, the heap is tiled by its *)
(* blocks until its collection races with an allocation, and the           *)
(* configuration store restores what was written to it.                    *)
(*                                                                         *)
(* They are about the specifications of the parts.  A behaviour of Device  *)
(* is one of a part while the others keep one state.                       *)
(***************************************************************************)
EXTENDS ConfigLog, Heap, Service, TLAPS

(***************************************************************************)
(* Services.                                                               *)
(***************************************************************************)

Statuses == {"Signal", "Timeout", "Running"}
CallSteps == {"timeout", "call", "finish"}

ServiceTypes ==
  /\ services \in Seq(Process) /\ walk \in Seq(Process)
  /\ at \in {"test", "take"} \cup CallSteps
  /\ signals \in [Process -> SUBSET ServiceSignals]
  /\ value \in [Process -> SUBSET ServiceSignals]
  /\ owed \in [Process -> SUBSET ServiceSignals]
  /\ waits \in [Process -> SUBSET Statuses]

(* Only the service at hand runs, between its test and the end of its call. *)
OneRuns ==
  /\ walk = <<>> => at = "test"
  /\ \A p \in Process :
       "Running" \in waits[p] => walk # <<>> /\ p = Head(walk) /\ at \in CallSteps
  /\ at = "call" => "Running" \in waits[Head(walk)]

(* A service whose timer will make it run has no signals left from a call. *)
TimerBringsNone ==
  \A p \in Process :
    "Timeout" \in waits[p] =>
      /\ "Running" \notin waits[p] => value[p] = {}
      /\ at = "timeout" => "Running" \notin waits[p]

ServiceInv == ServiceTypes /\ OneRuns /\ TimerBringsNone /\ SignalsOnce

(* The service at hand. *)
LEMMA HeadOfWalk ==
  ASSUME ServiceTypes, walk # <<>>
  PROVE  Head(walk) \in Process /\ Tail(walk) \in Seq(Process)
BY DEF ServiceTypes

LEMMA InitServices == ASSUME ServiceInit PROVE ServiceInv
BY DEF ServiceInit, ServiceInv, ServiceTypes, OneRuns, TimerBringsNone, SignalsOnce,
   Statuses, CallSteps

(* What comes from outside the work flow, at any moment. *)
LEMMA OutsideKeeps ==
  ASSUME ServiceInv,
         \/ \E p \in Process :
              ServiceRun(p) \/ \E signal \in ServiceSignals : RaiseSignal(p, signal)
         \/ ServiceTick
  PROVE  ServiceInv'
<1> USE DEF ServiceInv, CallSteps
<1>1. ASSUME NEW p \in Process, ServiceRun(p) PROVE ServiceInv'
  <2>1. /\ services' = <<p>> \o services
        /\ UNCHANGED <<walk, at, signals, waits, value, owed>>
    BY <1>1 DEF ServiceRun, dataVars
  <2>2. services' \in Seq(Process)
    BY <2>1 DEF ServiceTypes
  <2> QED
    BY <2>1, <2>2 DEF ServiceTypes, OneRuns, TimerBringsNone, SignalsOnce
<1>2. ASSUME NEW p \in Process, NEW signal \in ServiceSignals,
             RaiseSignal(p, signal)
      PROVE  ServiceInv'
  <2>1. /\ signals' = [signals EXCEPT ![p] = @ \cup {signal}]
        /\ owed' = [owed EXCEPT ![p] = @ \cup {signal}]
        /\ UNCHANGED <<services, walk, at, waits, value>>
    BY <1>2 DEF RaiseSignal
  <2>2. ServiceTypes'
    BY <2>1 DEF ServiceTypes
  <2>3. SignalsOnce'
    BY <2>1 DEF ServiceTypes, SignalsOnce
  <2> QED  BY <2>1, <2>2, <2>3 DEF OneRuns, TimerBringsNone
<1>3. CASE ServiceTick
  <2>1. UNCHANGED <<services, walk, at, signals, waits, value, owed>>
    BY <1>3 DEF ServiceTick, dataVars
  <2> QED  BY <2>1 DEF ServiceTypes, OneRuns, TimerBringsNone, SignalsOnce
<1> QED  BY <1>1, <1>2, <1>3

(* The steps of the work flow up to the call. *)
LEMMA TestsKeep ==
  ASSUME ServiceInv, WalkAgain \/ TestSignals \/ TakeSignals \/ TestTimeout
  PROVE  ServiceInv'
<1> USE DEF ServiceInv, CallSteps
<1>1. CASE WalkAgain
  <2>1. walk' = services /\ at = "test"
        /\ UNCHANGED <<services, at, signals, waits, value, owed>>
    BY <1>1 DEF WalkAgain, dataVars, OneRuns
  <2> QED  BY <2>1 DEF ServiceTypes, OneRuns, TimerBringsNone, SignalsOnce
<1>2. CASE TestSignals
  <2>1. walk # <<>> /\ at = "test" /\ at' \in {"take", "timeout"}
        /\ UNCHANGED <<services, walk, signals, waits, value, owed>>
    BY <1>2 DEF TestSignals, At, dataVars
  <2> QED  BY <2>1 DEF ServiceTypes, OneRuns, TimerBringsNone, SignalsOnce
<1>3. CASE TakeSignals
  <2> DEFINE p == Head(walk)
  <2>1. walk # <<>> /\ at = "take" /\ p \in Process
    BY <1>3, HeadOfWalk DEF TakeSignals, At
  <2>2. /\ value' = [value EXCEPT ![p] = signals[p]]
        /\ signals' = [signals EXCEPT ![p] = {}]
        /\ waits' = [waits EXCEPT ![p] = {"Signal", "Running"}]
        /\ at' = "timeout" /\ UNCHANGED <<services, walk, owed>>
    BY <1>3 DEF TakeSignals
  <2>3. ServiceTypes'
    BY <2>1, <2>2 DEF ServiceTypes, Statuses
  <2>4. \A q \in Process : "Running" \notin waits[q]
    BY <2>1 DEF OneRuns
  <2>5. OneRuns'
    BY <2>1, <2>2, <2>4 DEF ServiceTypes, OneRuns
  <2>6. TimerBringsNone'
    BY <2>1, <2>2, <2>4 DEF ServiceTypes, TimerBringsNone
  <2>7. SignalsOnce'
    BY <2>1, <2>2, <2>4 DEF ServiceTypes, SignalsOnce
  <2> QED  BY <2>3, <2>5, <2>6, <2>7
<1>4. CASE TestTimeout
  <2> DEFINE p == Head(walk)
             now == IF "Timeout" \in waits[p] /\ Expired(p)
                    THEN {"Timeout", "Running"} ELSE waits[p]
  <2>1. walk # <<>> /\ at = "timeout" /\ p \in Process /\ Tail(walk) \in Seq(Process)
    BY <1>4, HeadOfWalk DEF TestTimeout, At
  <2>2. /\ waits' = [waits EXCEPT ![p] = now]
        /\ IF "Running" \in now THEN at' = "call" /\ walk' = walk
           ELSE at' = "test" /\ walk' = Tail(walk)
        /\ UNCHANGED <<services, signals, value, owed>>
    BY <1>4 DEF TestTimeout
  <2>3. now \in SUBSET Statuses
    BY <2>1 DEF ServiceTypes, Statuses
  <2>4. "Timeout" \in waits[p] => "Running" \notin waits[p] /\ value[p] = {}
    BY <2>1 DEF TimerBringsNone
  <2>5. \/ now = waits[p]
        \/ now = {"Timeout", "Running"} /\ "Timeout" \in waits[p]
    OBVIOUS
  <2> HIDE DEF now
  <2>6. \A q \in Process : q # p => "Running" \notin waits[q] /\ waits'[q] = waits[q]
    BY <2>1, <2>2 DEF OneRuns, ServiceTypes
  <2>7. waits'[p] = now
    BY <2>1, <2>2 DEF ServiceTypes
  <2>8. ServiceTypes'
    BY <2>1, <2>2, <2>3 DEF ServiceTypes
  <2>9. OneRuns'
    BY <2>1, <2>2, <2>6, <2>7 DEF OneRuns
  <2>10. TimerBringsNone'
    BY <2>1, <2>2, <2>4, <2>5, <2>6, <2>7 DEF TimerBringsNone
  <2>11. SignalsOnce'
    BY <2>1, <2>2, <2>4, <2>5, <2>6, <2>7 DEF SignalsOnce
  <2> QED  BY <2>8, <2>9, <2>10, <2>11
<1> QED  BY <1>1, <1>2, <1>3, <1>4

(* The call and what follows it. *)
LEMMA CallKeeps == ASSUME ServiceInv, Call \/ Finish PROVE ServiceInv'
<1> USE DEF ServiceInv, CallSteps
<1> DEFINE p == Head(walk)
<1>1. walk # <<>> /\ p \in Process /\ Tail(walk) \in Seq(Process)
  BY HeadOfWalk DEF Call, Finish, At
<1>2. CASE Call
  <2>1. /\ at = "call" /\ at' = "finish"
        /\ owed' = [owed EXCEPT ![p] = (@ \ value[p]) \cup signals[p]]
        /\ \/ waits' = [waits EXCEPT ![p] = @ \ {"Timeout"}]
           \/ waits' = [waits EXCEPT ![p] = @ \cup {"Timeout"}]
           \/ waits' = waits
        /\ UNCHANGED <<services, walk, signals, value>>
    BY <1>2 DEF Call, At, TimerStop, TimerStart, TimerRestart
  <2>2. \A q \in Process :
          /\ "Running" \in waits'[q] <=> "Running" \in waits[q]
          /\ q # p => waits'[q] = waits[q] /\ "Running" \notin waits[q]
    BY <1>1, <2>1 DEF ServiceTypes, OneRuns
  <2>3. "Running" \in waits[p]
    BY <2>1 DEF OneRuns
  <2>4. ServiceTypes'
    BY <1>1, <2>1 DEF ServiceTypes, Statuses
  <2>5. OneRuns'
    BY <2>1, <2>2 DEF OneRuns
  <2>6. TimerBringsNone'
    BY <1>1, <2>1, <2>2, <2>3 DEF TimerBringsNone
  <2>7. SignalsOnce'
    BY <1>1, <2>1, <2>2, <2>3 DEF SignalsOnce, ServiceTypes
  <2> QED  BY <2>4, <2>5, <2>6, <2>7
<1>3. CASE Finish
  <2>1. /\ at = "finish" /\ at' = "test" /\ walk' = Tail(walk)
        /\ value' = [value EXCEPT ![p] = {}]
        /\ waits' = [waits EXCEPT ![p] = (@ \ {"Running"}) \cup {"Signal"}]
        /\ UNCHANGED <<services, signals, owed>>
    BY <1>3 DEF Finish, Clear, At
  <2>2. \A q \in Process : "Running" \notin waits'[q]
    BY <1>1, <2>1 DEF ServiceTypes, OneRuns
  <2>3. ServiceTypes'
    BY <1>1, <2>1 DEF ServiceTypes, Statuses
  <2>4. OneRuns'
    BY <2>1, <2>2 DEF OneRuns
  <2>5. TimerBringsNone'
    <3>1. \A q \in Process : q # p => /\ waits'[q] = waits[q] /\ value'[q] = value[q]
                                      /\ "Running" \notin waits[q]
      BY <1>1, <2>1 DEF ServiceTypes, OneRuns
    <3>2. value'[p] = {}
      BY <1>1, <2>1 DEF ServiceTypes
    <3> QED  BY <2>1, <2>2, <3>1, <3>2 DEF TimerBringsNone
  <2>6. SignalsOnce'
    BY <1>1, <2>1, <2>2 DEF SignalsOnce, ServiceTypes
  <2> QED  BY <2>3, <2>4, <2>5, <2>6
<1> QED  BY <1>2, <1>3

(* Whenever signals are raised, before, between and after the steps of the *)
(* work flow, none is lost and none is given to two calls.                 *)
THEOREM SignalsOnceCorrect == ServiceSpec => []SignalsOnce
<1>1. ServiceInv /\ [ServiceNext]_serviceVars => ServiceInv'
  <2>1. ASSUME ServiceInv, UNCHANGED serviceVars PROVE ServiceInv'
    BY <2>1 DEF serviceVars, ServiceInv, ServiceTypes, OneRuns, TimerBringsNone,
       SignalsOnce
  <2> QED  BY <2>1, OutsideKeeps, TestsKeep, CallKeeps DEF ServiceNext
<1>2. ServiceInv => SignalsOnce
  BY DEF ServiceInv
<1> QED  BY InitServices, <1>1, <1>2, PTL DEF ServiceSpec

(***************************************************************************)
(* The heap.                                                               *)
(***************************************************************************)

Words == Nat \ {0}

HeapTypes ==
  /\ DOMAIN header \subseteq Nat
  /\ header \in [DOMAIN header -> [size : Words, free : BOOLEAN]]
  /\ DOMAIN live \subseteq DOMAIN header /\ live \in [DOMAIN live -> Words]
  /\ last_block \in Nat /\ first_free_block \in Nat
  /\ claimed \in [Caller -> [at : Nat, size : Words] \cup {NoBlock}]
  /\ merging \in [at : Nat, count : Int] \cup {NotMerging}

(* A block, with its header or still without. *)
Sized(a, n) ==
  \/ a \in DOMAIN header /\ header[a].size = n
  \/ \E c \in Caller : claimed[c] # NoBlock /\ claimed[c].at = a /\ claimed[c].size = n

(* The blocks do not overlap, and leave no gap. *)
Tiles ==
  /\ \A a, b, n, m \in Nat : Sized(a, n) /\ Sized(b, m) /\ a < b => a + n <= b
  /\ \A a, n \in Nat :
       Sized(a, n) => a + n \in Starts \cup {last_block} /\ a + n <= last_block
  /\ last_block > 0 => 0 \in Starts

GivenOnce ==
  \A c \in Caller :
    claimed[c] # NoBlock =>
      /\ claimed[c].at \notin DOMAIN header
      /\ \A d \in Caller \ {c} : claimed[d].at # claimed[c].at

LiveKept ==
  \A a \in DOMAIN live : header[a] = [size |-> live[a], free |-> FALSE]

(* The collection joins blocks to a free one, which is the one it stands   *)
(* at.                                                                     *)
Joining ==
  merging # NotMerging =>
    /\ merging.at \in DOMAIN header /\ header[merging.at].free
    /\ first_free_block = merging.at

HeapInv ==
  /\ HeapTypes /\ Tiles /\ GivenOnce /\ LiveKept /\ Joining
  /\ first_free_block \in Starts \cup {last_block}

StartsAreSized ==
  HeapTypes =>
         /\ \A a \in Nat : a \in Starts <=> \E n \in Words : Sized(a, n)
         /\ Starts \subseteq Nat
         /\ \A a : \A n : Sized(a, n) => a \in Nat /\ n \in Words

LEMMA StartsSized == StartsAreSized
<1> SUFFICES ASSUME HeapTypes
             PROVE  /\ \A a \in Nat : a \in Starts <=> \E n \in Words : Sized(a, n)
                    /\ Starts \subseteq Nat
                    /\ \A a : \A n : Sized(a, n) => a \in Nat /\ n \in Words
  BY DEF StartsAreSized
<1>1. ASSUME NEW a, NEW n, Sized(a, n) PROVE a \in Nat /\ n \in Words /\ a \in Starts
  <2>1. CASE a \in DOMAIN header /\ header[a].size = n
    BY <2>1 DEF HeapTypes, Starts
  <2>2. CASE \E c \in Caller :
               claimed[c] # NoBlock /\ claimed[c].at = a /\ claimed[c].size = n
    <3>1. PICK c \in Caller :
            claimed[c] # NoBlock /\ claimed[c].at = a /\ claimed[c].size = n
      BY <2>2
    <3>2. claimed[c] \in [at : Nat, size : Words]
      BY <3>1 DEF HeapTypes
    <3>3. claimed[c] \in InFlight
      BY <3>1 DEF InFlight
    <3> QED  BY <3>1, <3>2, <3>3 DEF Starts
  <2> QED  BY <1>1, <2>1, <2>2 DEF Sized
<1>2. ASSUME NEW a \in Starts PROVE a \in Nat /\ \E n \in Words : Sized(a, n)
  <2>1. CASE a \in DOMAIN header
    <3>1. header[a].size \in Words
      BY <2>1 DEF HeapTypes
    <3> QED  BY <2>1, <3>1 DEF HeapTypes, Sized
  <2>2. CASE \E b \in InFlight : b.at = a
    <3>1. PICK c \in Caller : claimed[c] # NoBlock /\ claimed[c].at = a
      BY <2>2 DEF InFlight
    <3>2. claimed[c] \in [at : Nat, size : Words]
      BY <3>1 DEF HeapTypes
    <3> QED  BY <3>1, <3>2 DEF Sized
  <2> QED  BY <2>1, <2>2 DEF Starts
<1> QED  BY <1>1, <1>2

LEMMA StartsSizedNext == StartsAreSized'
BY StartsSized, PTL

(* What moves no block. *)
LEMMA SameTiles ==
  ASSUME HeapTypes, HeapTypes', Tiles, last_block' = last_block,
         \A a, n \in Nat : Sized(a, n)' <=> Sized(a, n)
  PROVE  Tiles' /\ Starts' = Starts
<1>1. Starts' = Starts
  <2>1. \A a \in Nat : a \in Starts' <=> a \in Starts
    BY StartsSized, StartsSizedNext DEF StartsAreSized, Words
  <2>2. Starts' \subseteq Nat /\ Starts \subseteq Nat
    BY StartsSized, StartsSizedNext DEF StartsAreSized
  <2> QED  BY <2>1, <2>2
<1> QED  BY <1>1 DEF Tiles

LEMMA InitHeap == ASSUME HeapInit PROVE HeapInv
<1>1. /\ header = <<>> /\ live = <<>> /\ last_block = 0 /\ first_free_block = 0
      /\ claimed = [c \in Caller |-> NoBlock] /\ merging = NotMerging
  BY DEF HeapInit
<1>2. HeapTypes
  BY <1>1 DEF HeapTypes
<1>3. \A a, n : ~Sized(a, n)
  BY <1>1 DEF Sized
<1>4. Tiles
  BY <1>1, <1>3 DEF Tiles
<1> QED  BY <1>1, <1>2, <1>4 DEF HeapInv, GivenOnce, LiveKept, Joining

(* A caller moves the end of the heap: the block it takes is the last. *)
LEMMA ClaimKeeps ==
  ASSUME HeapInv, NEW c \in Caller, NEW words \in Request, Claim(c, words)
  PROVE  HeapInv'
<1> USE DEF HeapInv
<1>1. /\ claimed[c] = NoBlock /\ merging' = merging
      /\ last_block' = last_block + words + 1
      /\ claimed' = [claimed EXCEPT ![c] = [at |-> last_block, size |-> words + 1]]
      /\ UNCHANGED <<header, first_free_block, live>>
  BY DEF Claim
<1>2. words \in Nat \ {0} /\ words + 1 \in Words /\ last_block \in Nat
  BY HeapAssumption DEF HeapTypes, Words
<1> DEFINE new == [at |-> last_block, size |-> words + 1]
<1>3. new # NoBlock /\ new \in [at : Nat, size : Words]
      /\ new.at = last_block /\ new.size = words + 1
  BY <1>2 DEF NoBlock
<1> HIDE DEF new
<1>4. claimed' = [claimed EXCEPT ![c] = new]
  BY <1>1 DEF new
<1>5. HeapTypes'
  BY <1>1, <1>2, <1>3, <1>4 DEF HeapTypes
<1>6. claimed'[c] = new /\ \A d \in Caller \ {c} : claimed'[d] = claimed[d]
  BY <1>4 DEF HeapTypes
<1>7. \A a, n \in Nat :
        Sized(a, n)' <=> Sized(a, n) \/ (a = last_block /\ n = words + 1)
  BY <1>1, <1>3, <1>6 DEF Sized
<1>8. \A a \in Nat : a \in Starts' <=> a \in Starts \/ a = last_block
  <2>1. \A a \in Nat : a \in Starts' <=> \E n \in Words : Sized(a, n)'
    BY <1>5, StartsSized, StartsSizedNext DEF StartsAreSized
  <2>2. \A a \in Nat : a \in Starts <=> \E n \in Words : Sized(a, n)
    BY StartsSized, StartsSizedNext DEF StartsAreSized
  <2> QED  BY <1>2, <1>7, <2>1, <2>2 DEF Words
<1>9. Tiles'
  <2>1. ASSUME NEW a \in Nat, NEW b \in Nat, NEW n \in Nat, NEW m \in Nat,
               Sized(a, n)', Sized(b, m)', a < b
        PROVE  a + n <= b
    <3>1. Sized(b, m) => b + m <= last_block /\ m >= 1
      BY StartsSized DEF StartsAreSized, Tiles, Words
    <3>2. Sized(a, n) => a + n <= last_block
      BY DEF Tiles
    <3> QED  BY <1>2, <1>7, <2>1, <3>1, <3>2 DEF Tiles
  <2>2. ASSUME NEW a \in Nat, NEW n \in Nat, Sized(a, n)'
        PROVE  a + n \in Starts' \cup {last_block'} /\ a + n <= last_block'
    <3>1. CASE Sized(a, n)
      <4>1. a + n \in Starts \cup {last_block} /\ a + n <= last_block
        BY <3>1 DEF Tiles
      <4> QED  BY <1>1, <1>2, <1>8, <4>1
    <3>2. CASE a = last_block /\ n = words + 1
      BY <1>1, <1>2, <3>2
    <3> QED  BY <1>7, <2>2, <3>1, <3>2
  <2>3. 0 \in Starts'
    BY <1>2, <1>8 DEF Tiles
  <2> QED  BY <2>1, <2>2, <2>3 DEF Tiles
<1>10. last_block \notin Starts
  <2>1. ASSUME NEW n \in Words, Sized(last_block, n) PROVE FALSE
    BY <1>2, <2>1 DEF Tiles, Words
  <2> QED  BY <1>2, <2>1, StartsSized, StartsSizedNext DEF StartsAreSized
<1>11. GivenOnce'
  <2>1. last_block \notin DOMAIN header
    BY <1>10 DEF Starts
  <2>2. \A d \in Caller : claimed[d].at # last_block
    <3>1. ASSUME NEW d \in Caller, claimed[d].at = last_block PROVE FALSE
      <4>1. claimed[d] # NoBlock
        BY <1>2, <3>1 DEF NoBlock
      <4>2. claimed[d] \in InFlight
        BY <4>1 DEF InFlight
      <4> QED  BY <1>10, <3>1, <4>2 DEF Starts
    <3> QED  BY <3>1
  <2> QED  BY <1>1, <1>3, <1>6, <2>1, <2>2 DEF GivenOnce
<1>12. first_free_block' \in Starts' \cup {last_block'}
  BY <1>1, <1>8 DEF HeapTypes
<1> QED  BY <1>1, <1>5, <1>9, <1>11, <1>12 DEF LiveKept, Joining

(* It writes the header: the block is the heap's as it was the caller's. *)
LEMMA WriteHeaderKeeps ==
  ASSUME HeapInv, NEW c \in Caller, WriteHeader(c)
  PROVE  HeapInv'
<1> USE DEF HeapInv
<1> DEFINE blk == claimed[c].at
           len == claimed[c].size
<1>1. /\ claimed[c] # NoBlock
      /\ header' = Store(header, blk, [size |-> len, free |-> FALSE])
      /\ live' = Store(live, blk, len)
      /\ claimed' = [claimed EXCEPT ![c] = NoBlock]
      /\ UNCHANGED <<last_block, first_free_block, merging>>
  BY DEF WriteHeader
<1>2. blk \in Nat /\ len \in Words /\ blk \notin DOMAIN header
  BY <1>1 DEF HeapTypes, GivenOnce
<1>3. PICK a, n : a = blk /\ n = len
  OBVIOUS
<1>4. /\ claimed[c].at = a /\ claimed[c].size = n
      /\ a \in Nat /\ n \in Words /\ a \notin DOMAIN header
  BY <1>2, <1>3
<1>5. /\ DOMAIN header' = DOMAIN header \cup {a}
      /\ header'[a] = [size |-> n, free |-> FALSE]
      /\ \A b \in DOMAIN header : header'[b] = header[b]
      /\ header' = [b \in DOMAIN header' |-> header'[b]]
  BY <1>1, <1>3, <1>4 DEF Store
<1>6. /\ DOMAIN live' = DOMAIN live \cup {a} /\ live'[a] = n
      /\ \A b \in DOMAIN live : b # a => live'[b] = live[b]
      /\ live' = [b \in DOMAIN live' |-> live'[b]]
  BY <1>1, <1>3 DEF Store
<1> HIDE DEF blk, len
<1>7. claimed'[c] = NoBlock /\ \A d \in Caller \ {c} : claimed'[d] = claimed[d]
  BY <1>1 DEF HeapTypes
<1>8. HeapTypes'
  <2>1. header' \in [DOMAIN header' -> [size : Words, free : BOOLEAN]]
    <3>1. header'[a] \in [size : Words, free : BOOLEAN]
      BY <1>4, <1>5
    <3>2. \A b \in DOMAIN header : header'[b] \in [size : Words, free : BOOLEAN]
      BY <1>5 DEF HeapTypes
    <3> QED  BY <1>5, <3>1, <3>2
  <2>2. live' \in [DOMAIN live' -> Words] /\ DOMAIN live' \subseteq DOMAIN header'
    BY <1>4, <1>5, <1>6 DEF HeapTypes
  <2>3. claimed' \in [Caller -> [at : Nat, size : Words] \cup {NoBlock}]
    BY <1>1 DEF HeapTypes
  <2> QED  BY <1>1, <1>4, <1>5, <2>1, <2>2, <2>3 DEF HeapTypes
<1>9. \A b, m \in Nat : Sized(b, m)' <=> Sized(b, m)
  <2>1. ASSUME NEW b \in Nat, NEW m \in Nat, Sized(b, m)' PROVE Sized(b, m)
    <3>1. CASE b \in DOMAIN header' /\ header'[b].size = m
      <4>1. CASE b = a
        BY <1>1, <1>4, <1>5, <3>1, <4>1 DEF Sized
      <4>2. CASE b # a
        BY <1>5, <3>1, <4>2 DEF Sized
      <4> QED  BY <4>1, <4>2
    <3>2. CASE \E d \in Caller :
                 claimed'[d] # NoBlock /\ claimed'[d].at = b /\ claimed'[d].size = m
      BY <1>7, <3>2 DEF Sized
    <3> QED  BY <2>1, <3>1, <3>2 DEF Sized
  <2>2. ASSUME NEW b \in Nat, NEW m \in Nat, Sized(b, m) PROVE Sized(b, m)'
    <3>1. CASE b \in DOMAIN header /\ header[b].size = m
      BY <1>5, <3>1 DEF Sized
    <3>2. ASSUME NEW d \in Caller,
                 claimed[d] # NoBlock, claimed[d].at = b, claimed[d].size = m
          PROVE  Sized(b, m)'
      <4>1. CASE d = c
        BY <1>4, <1>5, <3>2, <4>1 DEF Sized
      <4>2. CASE d # c
        BY <1>7, <3>2, <4>2 DEF Sized
      <4> QED  BY <4>1, <4>2
    <3> QED  BY <2>2, <3>1, <3>2 DEF Sized
  <2> QED  BY <2>1, <2>2
<1>10. Tiles' /\ Starts' = Starts
  BY <1>1, <1>8, <1>9, SameTiles
<1>11. GivenOnce'
  <2> SUFFICES ASSUME NEW d \in Caller, claimed'[d] # NoBlock
               PROVE  /\ claimed'[d].at \notin DOMAIN header'
                      /\ \A e \in Caller \ {d} : claimed'[e].at # claimed'[d].at
    BY DEF GivenOnce
  <2>1. d # c /\ claimed'[d] = claimed[d]
    BY <1>7
  <2>2. /\ claimed[d].at \in Nat /\ claimed[d].at \notin DOMAIN header
        /\ \A e \in Caller \ {d} : claimed[e].at # claimed[d].at
    BY <2>1 DEF HeapTypes, GivenOnce
  <2>3. claimed'[c].at # claimed[d].at
    BY <1>7, <2>2 DEF NoBlock
  <2> QED  BY <1>4, <1>5, <1>7, <2>1, <2>2, <2>3
<1>12. LiveKept'
  BY <1>4, <1>5, <1>6 DEF LiveKept, HeapTypes
<1>13. Joining'
  BY <1>1, <1>5 DEF Joining
<1> QED  BY <1>1, <1>8, <1>10, <1>11, <1>12, <1>13

(* A block is freed: only a bit changes. *)
LEMMA FreeKeeps ==
  ASSUME HeapInv, NEW a \in DOMAIN live, Free(a)
  PROVE  HeapInv'
<1> USE DEF HeapInv
<1>1. /\ header' = [header EXCEPT ![a].free = TRUE]
      /\ DOMAIN live' = DOMAIN live \ {a}
      /\ live' = [b \in DOMAIN live \ {a} |-> live[b]]
      /\ UNCHANGED <<last_block, first_free_block, claimed, merging>>
  BY DEF Free, Without
<1>2. a \in DOMAIN header /\ header[a] \in [size : Words, free : BOOLEAN]
  BY DEF HeapTypes
<1>3. /\ DOMAIN header' = DOMAIN header
      /\ \A b \in DOMAIN header : b # a => header'[b] = header[b]
      /\ \A b \in DOMAIN header : header'[b].size = header[b].size
      /\ \A b \in DOMAIN header : header[b].free => header'[b].free
      /\ header' \in [DOMAIN header -> [size : Words, free : BOOLEAN]]
  BY <1>1, <1>2 DEF HeapTypes
<1>4. HeapTypes'
  BY <1>1, <1>3 DEF HeapTypes
<1>5. \A b, n \in Nat : Sized(b, n)' <=> Sized(b, n)
  BY <1>1, <1>3 DEF Sized
<1>6. Tiles' /\ Starts' = Starts
  BY <1>1, <1>4, <1>5, SameTiles
<1>7. GivenOnce' /\ Joining'
  BY <1>1, <1>3 DEF GivenOnce, Joining
<1>8. LiveKept'
  BY <1>1, <1>3 DEF LiveKept, HeapTypes
<1> QED  BY <1>1, <1>4, <1>6, <1>7, <1>8

(* The collection looks at one block, and has not read an unwritten header. *)
LEMMA GarbageStartKeeps ==
  ASSUME HeapInv, GarbageStart, ~raced'
  PROVE  HeapInv'
<1> USE DEF HeapInv
<1>1. merging = NotMerging /\ UNCHANGED <<header, last_block, claimed, live>>
  BY DEF GarbageStart
<1>2. Starts' = Starts /\ Tiles' /\ GivenOnce' /\ LiveKept'
  BY <1>1 DEF Starts, InFlight, Tiles, Sized, GivenOnce, LiveKept
<1>3. CASE first_free_block >= last_block
  <2>1. first_free_block' = 0 /\ merging' = merging
    BY <1>3 DEF GarbageStart
  <2>2. 0 \in Starts \cup {last_block}
    BY DEF Tiles, HeapTypes
  <2>3. HeapTypes'
    BY <1>1, <2>1 DEF HeapTypes
  <2> QED  BY <1>1, <1>2, <2>1, <2>2, <2>3 DEF Joining
<1>4. CASE ~(first_free_block >= last_block)
  <2>1. first_free_block \in DOMAIN header
    BY <1>4 DEF GarbageStart
  <2>2. PICK a, n : a = first_free_block /\ n = header[first_free_block].size
    OBVIOUS
  <2>3. a \in Nat /\ n \in Words /\ Sized(a, n)
    BY <2>1, <2>2 DEF HeapTypes, Sized
  <2>4. a + n \in Starts \cup {last_block} /\ a + n \in Nat
    BY <2>3 DEF Tiles, Words
  <2>5. CASE ~header[first_free_block].free
    <3>1. first_free_block' = a + n /\ merging' = merging
      BY <1>4, <2>1, <2>2, <2>5 DEF GarbageStart
    <3>2. HeapTypes'
      BY <1>1, <2>4, <3>1 DEF HeapTypes
    <3> QED  BY <1>1, <1>2, <2>4, <3>1, <3>2 DEF Joining
  <2>6. CASE header[first_free_block].free
    <3>1. /\ merging' = [at |-> first_free_block, count |-> 5]
          /\ first_free_block' = first_free_block
      BY <1>4, <2>1, <2>6 DEF GarbageStart
    <3>2. HeapTypes'
      BY <1>1, <3>1 DEF HeapTypes
    <3> QED  BY <1>1, <1>2, <2>1, <2>6, <3>1, <3>2 DEF Joining
  <2> QED  BY <2>5, <2>6
<1> QED  BY <1>3, <1>4

(* A block in use is not a free one. *)
LEMMA LiveNotFree ==
  ASSUME HeapTypes, LiveKept, NEW a \in DOMAIN live
  PROVE  a \in DOMAIN header /\ ~header[a].free
<1>1. PICK z : header[a] = [size |-> z, free |-> FALSE]
  BY DEF LiveKept
<1>2. [size |-> z, free |-> FALSE].free = FALSE
  OBVIOUS
<1> QED  BY <1>1, <1>2 DEF HeapTypes

(* Where the collection is, between two turns of its loop. *)
LEMMA AtBlock ==
  ASSUME HeapInv, merging # NotMerging,
         NEW blk, NEW size, blk = merging.at, size = header[blk].size
  PROVE  /\ merging \in [at : Nat, count : Int]
         /\ blk \in Nat /\ size \in Nat /\ size > 0 /\ blk + size \in Nat
         /\ blk \in DOMAIN header /\ header[blk].free /\ first_free_block = blk
         /\ header[blk] \in [size : Words, free : BOOLEAN]
         /\ Sized(blk, size) /\ NextBlock = blk + size
         /\ blk + size \in Starts \cup {last_block} /\ blk + size <= last_block
         /\ last_block \notin Starts
<1> USE DEF HeapInv
<1>1. merging \in [at : Nat, count : Int]
  BY DEF HeapTypes
<1>2. /\ blk \in DOMAIN header /\ header[blk].free /\ first_free_block = blk
      /\ header[blk] \in [size : Words, free : BOOLEAN]
      /\ blk \in Nat /\ size \in Words
  BY DEF Joining, HeapTypes
<1>3. Sized(blk, size)
  BY <1>2 DEF Sized
<1>4. blk + size \in Starts \cup {last_block} /\ blk + size <= last_block
  BY <1>2, <1>3 DEF Tiles, Words
<1>5. last_block \notin Starts
  <2>1. last_block \in Nat
    BY DEF HeapTypes
  <2>2. ASSUME NEW n \in Words, Sized(last_block, n) PROVE FALSE
    BY <2>1, <2>2 DEF Tiles, Words
  <2> QED  BY <2>1, <2>2, StartsSized DEF StartsAreSized
<1> QED  BY <1>1, <1>2, <1>3, <1>4, <1>5 DEF NextBlock, Words

(* A turn of the loop that joins blocks.  The sizes alone lead it from one *)
(* header to the next.                                                     *)
LEMMA GarbageJoinKeeps ==
  ASSUME HeapInv, GarbageJoin, ~raced'
  PROVE  HeapInv'
<1> USE DEF HeapInv
<1>1. /\ merging # NotMerging
      /\ claimed' = claimed /\ live' = live /\ last_block' = last_block
  BY DEF GarbageJoin
<1>2. PICK blk, size : blk = merging.at /\ size = header[blk].size
  OBVIOUS
<1>3. PICK next : next = blk + size
  OBVIOUS
<1>4. /\ merging \in [at : Nat, count : Int]
      /\ blk \in Nat /\ size \in Nat /\ size > 0 /\ next \in Nat
      /\ blk \in DOMAIN header /\ header[blk].free /\ first_free_block = blk
      /\ header[blk] \in [size : Words, free : BOOLEAN] /\ header[blk].size = size
      /\ Sized(blk, size) /\ NextBlock = next /\ blk < next /\ next = blk + size
      /\ next \in Starts \cup {last_block} /\ next <= last_block
      /\ last_block \notin Starts
  BY <1>1, <1>2, <1>3, AtBlock
<1>5. CASE next = last_block
  <2>1. /\ merging' = [merging EXCEPT !.count = 0]
        /\ UNCHANGED <<header, first_free_block>>
    BY <1>4, <1>5 DEF GarbageJoin
  <2>2. merging' \in [at : Nat, count : Int] /\ merging'.at = blk
    BY <1>2, <1>4, <2>1
  <2>3. Starts' = Starts /\ Tiles' /\ GivenOnce' /\ LiveKept'
    BY <1>1, <2>1 DEF Starts, InFlight, Tiles, Sized, GivenOnce, LiveKept
  <2>4. HeapTypes'
    BY <1>1, <2>1, <2>2 DEF HeapTypes
  <2> QED  BY <1>1, <1>4, <2>1, <2>2, <2>3, <2>4 DEF Joining
<1>6. CASE next # last_block
  <2>1. next \in DOMAIN header
    BY <1>4, <1>6 DEF GarbageJoin
  <2>2. PICK more : more = header[next].size
    OBVIOUS
  <2>3. /\ more \in Nat /\ more > 0 /\ Sized(next, more)
        /\ header[next] \in [size : Words, free : BOOLEAN]
    BY <2>1, <2>2 DEF HeapTypes, Words, Sized
  <2>4. next + more \in Starts \cup {last_block} /\ next + more <= last_block
    BY <1>4, <2>3 DEF Tiles
  <2>5. CASE ~header[next].free
    <3>1. /\ first_free_block' = next + more /\ merging' = NotMerging
          /\ header' = header
      BY <1>4, <1>6, <2>1, <2>2, <2>5 DEF GarbageJoin, Busy
    <3>2. HeapTypes'
      BY <1>1, <1>4, <2>3, <3>1 DEF HeapTypes
    <3>3. Starts' = Starts /\ Tiles' /\ GivenOnce' /\ LiveKept'
      BY <1>1, <3>1 DEF Starts, InFlight, Tiles, Sized, GivenOnce, LiveKept
    <3> QED  BY <1>1, <2>4, <3>1, <3>2, <3>3 DEF Joining
  <2>6. CASE header[next].free
    <3>1. /\ header' = Without([header EXCEPT ![blk].size = size + more], {next})
          /\ first_free_block' = first_free_block
          /\ merging' = IF merging.count = 1 THEN NotMerging
                        ELSE [merging EXCEPT !.count = @ - 1]
      BY <1>2, <1>4, <1>6, <2>1, <2>2, <2>6 DEF GarbageJoin, Busy
    <3>2. /\ DOMAIN header' = DOMAIN header \ {next}
          /\ \A a \in DOMAIN header' : a # blk => header'[a] = header[a]
          /\ header'[blk] = [header[blk] EXCEPT !.size = size + more]
          /\ header' = [a \in DOMAIN header' |-> header'[a]]
      BY <1>4, <3>1 DEF Without
    <3>3. /\ header'[blk] \in [size : Words, free : BOOLEAN]
          /\ header'[blk].size = size + more /\ header'[blk].free
          /\ blk \in DOMAIN header'
      BY <1>4, <2>3, <3>2 DEF Words
    <3>4. HeapTypes'
      <4>1. header' \in [DOMAIN header' -> [size : Words, free : BOOLEAN]]
        BY <3>2, <3>3 DEF HeapTypes
      <4>2. DOMAIN live \subseteq DOMAIN header'
        BY <2>6, <3>2, LiveNotFree
      <4>3. merging' \in [at : Nat, count : Int] \cup {NotMerging}
        BY <1>4, <3>1
      <4> QED  BY <1>1, <1>4, <3>1, <3>2, <4>1, <4>2, <4>3 DEF HeapTypes
    <3>5. ASSUME NEW a, NEW n
          PROVE  Sized(a, n)' <=> \/ a = blk /\ n = size + more
                                  \/ a # blk /\ a # next /\ Sized(a, n)
      <4>1. \A c \in Caller : claimed[c] # NoBlock =>
              claimed[c].at # blk /\ claimed[c].at # next
        BY <1>4, <2>1 DEF GivenOnce
      <4>2. CASE a = blk
        BY <1>1, <1>4, <3>3, <4>1, <4>2 DEF Sized
      <4>3. CASE a = next
        BY <1>1, <1>4, <3>2, <4>1, <4>3 DEF Sized
      <4>4. CASE a # blk /\ a # next
        BY <1>1, <3>2, <4>4 DEF Sized
      <4> QED  BY <4>2, <4>3, <4>4
    <3>6. Starts' = Starts \ {next}
      <4>1. next \notin {b.at : b \in InFlight}
        BY <2>1 DEF GivenOnce, InFlight
      <4>2. {b.at : b \in InFlight}' = {b.at : b \in InFlight}
        BY <1>1 DEF InFlight
      <4> QED  BY <3>2, <4>1, <4>2 DEF Starts
    <3>7. Tiles'
      <4>1. ASSUME NEW a \in Nat, NEW b \in Nat, NEW n \in Nat, NEW m \in Nat,
                   Sized(a, n)', Sized(b, m)', a < b
            PROVE  a + n <= b
        <5>1. CASE a = blk
          <6>1. n = size + more /\ b # blk /\ b # next /\ Sized(b, m)
            BY <1>4, <3>5, <4>1, <5>1
          <6>2. next <= b
            BY <1>4, <4>1, <5>1, <6>1 DEF Tiles
          <6>3. next + more <= b
            BY <1>4, <2>3, <6>1, <6>2 DEF Tiles
          <6> QED  BY <1>4, <2>3, <5>1, <6>1, <6>3
        <5>2. CASE a # blk
          <6>1. Sized(a, n) /\ \E k \in Nat : Sized(b, k)
            BY <1>4, <3>5, <4>1, <5>2
          <6> QED  BY <4>1, <6>1 DEF Tiles
        <5> QED  BY <5>1, <5>2
      <4>2. ASSUME NEW a \in Nat, NEW n \in Nat, Sized(a, n)'
            PROVE  a + n \in Starts' \cup {last_block'} /\ a + n <= last_block'
        <5>1. CASE a = blk
          <6>1. a + n = next + more
            BY <1>4, <2>3, <3>5, <4>2, <5>1
          <6>2. next + more # next
            BY <1>4, <2>3
          <6> QED  BY <1>1, <2>4, <3>6, <6>1, <6>2
        <5>2. CASE a # blk
          <6>1. /\ Sized(a, n) /\ a # next
                /\ a + n \in Starts \cup {last_block} /\ a + n <= last_block
            BY <3>5, <4>2, <5>2 DEF Tiles
          <6>2. n > 0
            BY <6>1, <4>2, StartsSized DEF StartsAreSized, Words
          <6>3. a + n # next
            <7>1. CASE a < blk
              BY <1>4, <6>1, <7>1 DEF Tiles
            <7>2. CASE a > blk
              <8>1. next <= a
                BY <1>4, <6>1, <7>2 DEF Tiles
              <8> QED  BY <1>4, <6>2, <8>1
            <7> QED  BY <1>4, <5>2, <7>1, <7>2
          <6> QED  BY <1>1, <3>6, <6>1, <6>3
        <5> QED  BY <5>1, <5>2
      <4>3. last_block' > 0 => 0 \in Starts'
        BY <1>1, <1>4, <3>6 DEF Tiles
      <4> QED  BY <4>1, <4>2, <4>3 DEF Tiles
    <3>8. GivenOnce'
      BY <1>1, <3>2 DEF GivenOnce
    <3>9. LiveKept'
      BY <1>1, <1>4, <2>6, <3>2, LiveNotFree DEF LiveKept
    <3>10. merging' # NotMerging => merging'.at = blk
      BY <1>2, <1>4, <3>1
    <3>11. first_free_block' \in Starts'
      BY <1>4, <3>1, <3>3 DEF Starts
    <3> QED
      BY <1>4, <3>1, <3>3, <3>4, <3>7, <3>8, <3>9, <3>10, <3>11 DEF Joining
  <2> QED  BY <2>5, <2>6
<1> QED  BY <1>5, <1>6

(* The block is given back, and still was the last.                        *)
LEMMA GarbageGiveKeeps ==
  ASSUME HeapInv, GarbageGive, ~raced'
  PROVE  HeapInv'
<1> USE DEF HeapInv
<1>1. /\ merging # NotMerging /\ last_block = NextBlock
      /\ claimed' = claimed /\ live' = live
      /\ last_block' = merging.at /\ first_free_block' = 0
      /\ header' = Without(header, {merging.at}) /\ merging' = NotMerging
  BY DEF GarbageGive
<1>2. PICK blk, size : blk = merging.at /\ size = header[blk].size
  OBVIOUS
<1>3. /\ blk \in Nat /\ size \in Nat /\ size > 0
      /\ blk \in DOMAIN header /\ header[blk].free
      /\ Sized(blk, size) /\ last_block = blk + size /\ last_block \notin Starts
  BY <1>1, <1>2, AtBlock
<1>4. /\ DOMAIN header' = DOMAIN header \ {blk}
      /\ \A a \in DOMAIN header' : header'[a] = header[a]
      /\ header' = [a \in DOMAIN header' |-> header'[a]]
  BY <1>1, <1>2 DEF Without
<1>5. HeapTypes'
  <2>1. header' \in [DOMAIN header' -> [size : Words, free : BOOLEAN]]
    BY <1>4 DEF HeapTypes
  <2>2. DOMAIN live \subseteq DOMAIN header'
    BY <1>3, <1>4, LiveNotFree
  <2> QED  BY <1>1, <1>2, <1>3, <1>4, <2>1, <2>2 DEF HeapTypes
<1>6. ASSUME NEW a, NEW n
      PROVE  Sized(a, n)' <=> a # blk /\ Sized(a, n)
  <2>1. \A c \in Caller : claimed[c] # NoBlock => claimed[c].at # blk
    BY <1>3 DEF GivenOnce
  <2>2. CASE a = blk
    BY <1>1, <1>4, <2>1, <2>2 DEF Sized
  <2>3. CASE a # blk
    BY <1>1, <1>4, <2>3 DEF Sized
  <2> QED  BY <2>2, <2>3
<1>7. Starts' = Starts \ {blk}
  <2>1. blk \notin {b.at : b \in InFlight}
    BY <1>3 DEF GivenOnce, InFlight
  <2>2. {b.at : b \in InFlight}' = {b.at : b \in InFlight}
    BY <1>1 DEF InFlight
  <2> QED  BY <1>4, <2>1, <2>2 DEF Starts
<1>8. Tiles'
  <2>1. ASSUME NEW a \in Nat, NEW b \in Nat, NEW n \in Nat, NEW m \in Nat,
               Sized(a, n)', Sized(b, m)', a < b
        PROVE  a + n <= b
    BY <1>6, <2>1 DEF Tiles
  <2>2. ASSUME NEW a \in Nat, NEW n \in Nat, Sized(a, n)'
        PROVE  a + n \in Starts' \cup {last_block'} /\ a + n <= last_block'
    <3>1. /\ Sized(a, n) /\ a # blk
          /\ a + n \in Starts \cup {last_block} /\ a + n <= last_block
      BY <1>6, <2>2 DEF Tiles
    <3>2. n > 0
      BY <2>2, <3>1, StartsSized DEF StartsAreSized, Words
    <3>3. a < blk
      <4>1. a > blk => blk + size <= a
        BY <1>3, <3>1 DEF Tiles
      <4> QED  BY <1>3, <3>1, <3>2, <4>1
    <3>4. a + n <= blk
      BY <1>3, <3>1, <3>3 DEF Tiles
    <3>5. a + n # last_block
      BY <1>3, <3>4
    <3> QED  BY <1>1, <1>2, <1>7, <3>1, <3>4, <3>5
  <2>3. last_block' > 0 => 0 \in Starts'
    BY <1>1, <1>2, <1>3, <1>7 DEF Tiles
  <2> QED  BY <2>1, <2>2, <2>3 DEF Tiles
<1>9. GivenOnce'
  BY <1>1, <1>4 DEF GivenOnce
<1>10. LiveKept'
  BY <1>1, <1>3, <1>4, LiveNotFree DEF LiveKept
<1>11. 0 \in Starts' \cup {last_block'}
  BY <1>1, <1>2, <1>3, <1>8 DEF Tiles
<1> QED  BY <1>1, <1>5, <1>8, <1>9, <1>10, <1>11 DEF Joining

(* The size of a start is that of its block. *)
LEMMA SizeOfStart ==
  ASSUME HeapInv, NEW a \in Starts
  PROVE  a \in Nat /\ SizeAt(a) \in Words /\ Sized(a, SizeAt(a))
<1>1. a \in Nat
  BY StartsSized DEF HeapInv, StartsAreSized
<1>2. CASE a \in DOMAIN header
  BY <1>1, <1>2 DEF HeapInv, HeapTypes, SizeAt, Sized
<1>3. CASE a \notin DOMAIN header
  <2>1. PICK b : b = CHOOSE d \in InFlight : d.at = a
    OBVIOUS
  <2>2. b \in InFlight /\ b.at = a
    BY <1>3, <2>1 DEF Starts
  <2>3. PICK c \in Caller : claimed[c] = b /\ b # NoBlock
    BY <2>2 DEF InFlight
  <2>4. b \in [at : Nat, size : Words]
    BY <2>3 DEF HeapInv, HeapTypes
  <2>5. SizeAt(a) = b.size
    BY <1>3, <2>1 DEF SizeAt
  <2> QED  BY <1>1, <2>2, <2>3, <2>4, <2>5 DEF Sized
<1> QED  BY <1>2, <1>3

(* However the steps of the allocations, the frees and the collection are  *)
(* ordered, until the collection has read a header that is not written or  *)
(* given back what is no longer the last block, the blocks tile the heap,  *)
(* no block is given twice and a block in use keeps its header and size.   *)
THEOREM HeapTiledCorrect == HeapSpec => []HeapTiled
<1> DEFINE Inv == ~raced => HeapInv
<1>1. Inv /\ [HeapNext]_heapVars => Inv'
  <2> SUFFICES ASSUME Inv, [HeapNext]_heapVars, ~raced' PROVE HeapInv'
    OBVIOUS
  <2>1. ASSUME UNCHANGED heapVars PROVE HeapInv'
    BY <2>1 DEF heapVars, HeapInv, HeapTypes, Tiles, Sized, GivenOnce, LiveKept,
       Joining, Starts, InFlight
  <2>2. ASSUME NEW c \in Caller, WriteHeader(c) PROVE HeapInv'
    BY <2>2, WriteHeaderKeeps DEF WriteHeader
  <2>3. ASSUME NEW c \in Caller, NEW words \in Request, Claim(c, words)
        PROVE  HeapInv'
    BY <2>3, ClaimKeeps DEF Claim
  <2>4. ASSUME NEW a \in DOMAIN live, Free(a) PROVE HeapInv'
    BY <2>4, FreeKeeps DEF Free
  <2>5. ASSUME ~raced, GarbageStart \/ GarbageJoin \/ GarbageGive PROVE HeapInv'
    BY <2>5, GarbageStartKeeps, GarbageJoinKeeps, GarbageGiveKeeps
  <2> QED  BY <2>1, <2>2, <2>3, <2>4, <2>5 DEF HeapNext
<1>2. Inv => HeapTiled
  <2> SUFFICES ASSUME HeapInv PROVE HeapTiled
    BY DEF HeapTiled
  <2>1. ASSUME NEW a \in Starts
        PROVE  /\ a + SizeAt(a) \in Starts \cup {last_block}
               /\ (a .. a + SizeAt(a) - 1) \cap Starts = {a}
    <3>1. PICK n : n = SizeAt(a)
      OBVIOUS
    <3>2. a \in Nat /\ n \in Nat /\ n > 0 /\ Sized(a, n)
      BY <3>1, SizeOfStart DEF Words
    <3>3. a + n \in Starts \cup {last_block}
      BY <3>2 DEF HeapInv, Tiles
    <3>4. ASSUME NEW b \in Starts, a < b PROVE a + n <= b
      <4>1. b \in Nat /\ \E m \in Nat : Sized(b, m)
        BY SizeOfStart DEF Words
      <4> QED  BY <3>2, <3>4, <4>1 DEF HeapInv, Tiles
    <3>5. \A b \in Starts : b \in Nat
      BY SizeOfStart
    <3>6. (a .. a + n - 1) \cap Starts = {a}
      BY <3>2, <3>4, <3>5
    <3> QED  BY <3>1, <3>3, <3>6
  <2>2. \A a \in DOMAIN live :
          a \in DOMAIN header /\ header[a] = [size |-> live[a], free |-> FALSE]
    BY DEF HeapInv, HeapTypes, LiveKept
  <2> QED  BY <2>1, <2>2 DEF HeapTiled, HeapInv, Tiles, GivenOnce
<1>3. HeapInit => Inv
  BY InitHeap
<1> QED  BY <1>1, <1>2, <1>3, PTL DEF HeapSpec

(***************************************************************************)
(* The configuration store.                                                *)
(***************************************************************************)

Segments == [WordsOf -> Value]
Offsets == WordsOf \cup {65535}
FlashWords == {Erased, Spoilt} \cup {<<"header", w>> : w \in Offsets}
                \cup {<<"data", v>> : v \in Value}
                \cup {<<"crc", w, v>> : w \in Offsets, v \in Value}

ConfigTypes ==
  /\ config \in Segments /\ image \in Segments /\ imageCrc \in Segments
  /\ log \in [LogSpace -> FlashWords]
  /\ log_offset \in Nat /\ \E k \in Nat : replay = 3 * k
  /\ doing \in {"idle", "data", "crc", "save", "erase", "off", "replay", "loaded"}
  /\ doing \in {"data", "crc"} =>
       record.offset \in Offsets /\ record.value \in Value /\ record.at \in Nat
  /\ stages \in Seq(Segments)

(* Nothing changes the segment while it is saved. *)
SavesConfig ==
  /\ doing = "save" => ramCrc = config
  /\ doing = "erase" => image = config /\ imageCrc = config
  /\ doing \in {"save", "erase"} => log_offset = 0

(* What a load can take was saved or logged. *)
Known(p) ==
  \A w \in WordsOf, v \in Value : log[p] = <<"crc", w, v>> => <<w, v>> \in ever
Booting == {"off", "replay", "loaded"}
KnownWords ==
  /\ Pairs(imageCrc) \subseteq ever
  /\ \A p \in LogSpace : Known(p)
  /\ doing \in Booting =>
       \A w \in WordsOf : config[w] = Default \/ <<w, config[w]>> \in ever

InventInv == ConfigTypes /\ SavesConfig /\ KnownWords

LEMMA ConfigSets ==
  /\ WordsOf \subseteq Offsets /\ 65535 \in Offsets
  /\ Logged \subseteq WordsOf
  /\ [w \in WordsOf |-> Default] \in Segments
  /\ Blank \in [LogSpace -> FlashWords]
  /\ Erased \in FlashWords /\ Spoilt \in FlashWords
  /\ \A w \in Offsets : <<"header", w>> \in FlashWords
  /\ \A v \in Value : <<"data", v>> \in FlashWords
  /\ \A w \in Offsets, v \in Value : <<"crc", w, v>> \in FlashWords
BY ConfigAssumption DEF WordsOf, Offsets, Segments, Blank, FlashWords

(* The words of flash differ by what they are. *)
LEMMA KindsDiffer ==
  /\ \A w, v : Erased # <<"crc", w, v>> /\ Spoilt # <<"crc", w, v>>
  /\ \A w, a, v : <<"header", w>> # <<"crc", a, v>> /\ <<"header", w>>[1] # "data"
  /\ \A u, w, v : <<"data", u>> # <<"crc", w, v>> /\ <<"data", u>>[2] = u
  /\ \A w, v, a, b : <<"crc", w, v>> = <<"crc", a, b>> => w = a /\ v = b
  /\ \A w, v : <<"crc", w, v>>[1] # "data"
  /\ Erased[1] # "data" /\ Spoilt[1] # "data" /\ Erased # Spoilt
  /\ \A w : <<"header", w>> # Erased /\ <<"header", w>>[2] = w
  /\ \A w, v : <<"crc", w, v>> # Erased
  /\ \A v : <<"data", v>> # Erased /\ <<"data", v>>[1] = "data"
  /\ \A w, a : <<"header", w>> = <<"header", a>> => w = a
BY DEF Erased, Spoilt

LEMMA DataHasValue ==
  ASSUME NEW x \in FlashWords, x[1] = "data"
  PROVE  x[2] \in Value
BY KindsDiffer DEF FlashWords

(* A write to the log. *)
LEMMA WriteIs ==
  ASSUME log \in [LogSpace -> FlashWords], NEW p, NEW x \in FlashWords, WriteLog(p, x)
  PROVE  /\ log' \in [LogSpace -> FlashWords]
         /\ \A q \in LogSpace :
              log'[q] = IF q # p THEN log[q] ELSE IF log[p] = Erased THEN x ELSE Spoilt
<1>1. PICK y : y = IF log[p] = Erased THEN x ELSE Spoilt
  OBVIOUS
<1>2. log' = [log EXCEPT ![p] = y]
  BY <1>1 DEF WriteLog
<1>3. y \in FlashWords
  BY <1>1, ConfigSets
<1> QED  BY <1>1, <1>2, <1>3

LEMMA HeaderIs == \A w \in WordsOf : HeaderOffset(w) \in Offsets
BY DEF HeaderOffset, Offsets

LEMMA InitConfig == ASSUME ConfigInit PROVE InventInv
<1>1. ConfigTypes
  <2>1. \E k \in Nat : 0 = 3 * k
    BY Z3
  <2> QED  BY <2>1, ConfigSets DEF ConfigInit, ConfigTypes
<1>2. SavesConfig
  BY DEF ConfigInit, SavesConfig
<1>3. KnownWords
  <2>1. \A p \in LogSpace : log[p] = Erased
    BY DEF ConfigInit, Blank
  <2>2. ASSUME NEW p \in LogSpace PROVE Known(p)
    BY <2>1, KindsDiffer DEF Known
  <2>3. imageCrc = config /\ ever = Pairs(config) /\ doing = "idle"
    BY DEF ConfigInit
  <2>4. Pairs(imageCrc) \subseteq ever
    BY <2>3
  <2> QED  BY <2>2, <2>3, <2>4 DEF KnownWords, Booting
<1> QED  BY <1>1, <1>2, <1>3 DEF InventInv

(* The types are kept, and so is the segment while it is saved. *)
LEMMA ConfigTypesKept ==
  ASSUME ConfigTypes, SavesConfig, ConfigNext
  PROVE  ConfigTypes' /\ SavesConfig'
<1> USE DEF ConfigTypes, SavesConfig
<1>1. ASSUME NEW w \in Logged, NEW v \in Value, Change(w, v)
      PROVE  ConfigTypes' /\ SavesConfig'
  BY <1>1 DEF Change, flashVars, historyVars, Segments
<1>2. ASSUME NEW w \in Logged, LogHeader(w) PROVE ConfigTypes' /\ SavesConfig'
  <2>1. /\ doing = "idle" /\ doing' = "data"
        /\ record' = [offset |-> HeaderOffset(w), value |-> config[w],
                      at |-> log_offset]
        /\ log_offset' = log_offset + 3
        /\ WriteLog(log_offset, <<"header", HeaderOffset(w)>>)
        /\ stages' = IF log[log_offset] = Erased THEN stages ELSE <<>>
        /\ UNCHANGED <<config, image, imageCrc, replay, ramCrc>>
    BY <1>2 DEF LogHeader, Reserve, IfErased
  <2>2. w \in WordsOf /\ HeaderOffset(w) \in Offsets
    BY ConfigSets, HeaderIs
  <2>3. log' \in [LogSpace -> FlashWords]
    BY <2>1, <2>2, ConfigSets, WriteIs
  <2>4. config[w] \in Value
    BY <2>2 DEF Segments
  <2>5. stages' \in Seq(Segments)
    BY <2>1
  <2> QED  BY <2>1, <2>2, <2>3, <2>4, <2>5
<1>3. CASE LogWord
  <2>1. /\ doing = "data" /\ doing' = "crc"
        /\ WriteLog(record.at + 1, <<"data", record.value>>)
        /\ stages' = IF log[record.at + 1] = Erased THEN stages ELSE <<>>
        /\ UNCHANGED <<config, image, imageCrc, log_offset, record, replay, ramCrc>>
    BY <1>3 DEF LogWord, IfErased
  <2>2. log' \in [LogSpace -> FlashWords]
    BY <2>1, ConfigSets, WriteIs
  <2>3. stages' \in Seq(Segments)
    BY <2>1
  <2> QED  BY <2>1, <2>2, <2>3
<1>4. CASE LogCrc
  <2>1. /\ doing = "crc" /\ doing' = "idle"
        /\ WriteLog(record.at + 2, <<"crc", record.offset, record.value>>)
        /\ \/ stages' = <<>>
           \/ /\ stages # <<>>
              /\ stages' = Append(stages,
                             [Stored EXCEPT ![record.offset] = record.value])
        /\ UNCHANGED <<config, image, imageCrc, log_offset, replay, ramCrc>>
    BY <1>4 DEF LogCrc, IfErased
  <2>2. log' \in [LogSpace -> FlashWords]
    BY <2>1, ConfigSets, WriteIs
  <2>3. stages # <<>> => Stored \in Segments
    BY DEF Stored
  <2>4. stages # <<>> => [Stored EXCEPT ![record.offset] = record.value] \in Segments
    BY <2>1, <2>3 DEF Segments
  <2>5. stages' \in Seq(Segments)
    <3>1. stages \in Seq(Segments) /\ <<>> \in Seq(Segments)
      OBVIOUS
    <3>2. \A segment \in Segments : Append(stages, segment) \in Seq(Segments)
      BY <3>1
    <3> QED  BY <2>1, <2>4, <3>1, <3>2
  <2> QED  BY <2>1, <2>2, <2>5
<1>5. CASE SavePage
  <2>1. image' = [w \in WordsOf |-> IF 2 * w < ConfigSize THEN config[w] ELSE image[w]]
    BY <1>5 DEF SavePage
  <2>2. image' \in Segments
    BY <2>1 DEF Segments
  <2> QED  BY <1>5, <2>2 DEF SavePage, historyVars
<1>6. CASE SaveRest
  BY <1>6 DEF SaveRest
<1>7. CASE SaveErase
  <2>1. <<config>> \in Seq(Segments)
    OBVIOUS
  <2> QED  BY <1>7, <2>1, ConfigSets DEF SaveErase
<1>8. CASE PowerFails
  <2>1. \E k \in Nat : 0 = 3 * k
    BY Z3
  <2>2. stages' \in Seq(Segments)
    BY <1>8 DEF PowerFails
  <2> QED  BY <1>8, <2>1, <2>2, ConfigSets DEF PowerFails, flashVars
<1>9. CASE Load
  BY <1>9 DEF Load, flashVars, historyVars
<1>10. CASE ReplayRecord
  <2>1. doing = "replay" /\ Fits(replay)
        /\ UNCHANGED <<image, imageCrc, log, log_offset, stages>>
    BY <1>10 DEF ReplayRecord, flashVars, historyVars
  <2>2. CASE Checks(replay)
    <3>1. /\ config' = [config EXCEPT ![log[replay][2]] = log[replay + 1][2]]
          /\ replay' = replay + 3 /\ doing' = doing
      BY <1>10, <2>2 DEF ReplayRecord
    <3>2. PICK k \in Nat : replay = 3 * k
      OBVIOUS
    <3>3. replay' = 3 * (k + 1) /\ k + 1 \in Nat
      BY <3>1, <3>2
    <3>4. replay + 1 \in LogSpace
      BY <2>1, <3>2, ConfigAssumption DEF Fits, LogSpace
    <3>5. log[replay + 1][2] \in Value
      BY <2>2, <3>4, DataHasValue DEF Checks
    <3>6. config' \in Segments
      BY <3>1, <3>5 DEF Segments
    <3> QED  BY <2>1, <3>1, <3>3, <3>6
  <2>3. CASE ~Checks(replay)
    <3>1. doing' = "loaded" /\ replay' = 0 /\ config' = config
      BY <1>10, <2>3 DEF ReplayRecord
    <3>2. \E k \in Nat : 0 = 3 * k
      BY Z3
    <3> QED  BY <2>1, <3>1, <3>2
  <2> QED  BY <2>2, <2>3
<1>11. CASE ReplayEnds
  <2>1. \E k \in Nat : 0 = 3 * k
    BY Z3
  <2>2. replay \in Nat
    OBVIOUS
  <2> QED  BY <1>11, <2>1, <2>2 DEF ReplayEnds, flashVars, historyVars
<1>12. CASE Start
  BY <1>12 DEF Start, flashVars, historyVars
<1> QED  BY <1>1, <1>2, <1>3, <1>4, <1>5, <1>6, <1>7, <1>8, <1>9, <1>10, <1>11, <1>12
         DEF ConfigNext

(* A word that is not the CRC of a record changes nothing of what is known. *)
LEMMA OtherWordsKnown ==
  ASSUME ConfigTypes, \A p \in LogSpace : Known(p), NEW p, NEW x \in FlashWords,
         WriteLog(p, x), \A w, v : x # <<"crc", w, v>>, ever' = ever
  PROVE  \A q \in LogSpace : Known(q)'
<1>1. \A q \in LogSpace :
        log'[q] = IF q # p THEN log[q] ELSE IF log[p] = Erased THEN x ELSE Spoilt
  BY WriteIs DEF ConfigTypes
<1>2. \A w, v : \A q \in LogSpace :
        log'[q] = <<"crc", w, v>> => log[q] = <<"crc", w, v>>
  BY <1>1, KindsDiffer
<1> QED  BY <1>2 DEF Known

(* What a load can take was saved or logged. *)
LEMMA InventKept == ASSUME InventInv, [ConfigNext]_configVars PROVE InventInv'
<1> USE DEF InventInv
<1>1. CASE UNCHANGED configVars
  BY <1>1 DEF configVars, ConfigTypes, SavesConfig, KnownWords, Known
<1>2. CASE ConfigNext
  <2>1. ConfigTypes' /\ SavesConfig'
    BY <1>2, ConfigTypesKept
  <2> SUFFICES KnownWords'
    BY <2>1
  <2>2. ASSUME UNCHANGED <<imageCrc, log, ever>>,
               doing' \in Booting =>
                 \A w \in WordsOf : config'[w] = Default \/ <<w, config'[w]>> \in ever
        PROVE  KnownWords'
    BY <2>2 DEF KnownWords, Known, Pairs
  <2>3. ASSUME NEW w \in Logged, NEW v \in Value, Change(w, v) PROVE KnownWords'
    BY <2>2, <2>3 DEF Change, flashVars, historyVars, Booting
  <2>4. ASSUME NEW w \in Logged, LogHeader(w) PROVE KnownWords'
    <3>1. /\ doing' = "data" /\ imageCrc' = imageCrc /\ ever' = ever
          /\ WriteLog(log_offset, <<"header", HeaderOffset(w)>>)
      BY <2>4 DEF LogHeader
    <3>2. <<"header", HeaderOffset(w)>> \in FlashWords
      BY ConfigSets, HeaderIs
    <3>3. \A a, v : <<"header", HeaderOffset(w)>> # <<"crc", a, v>>
      BY KindsDiffer
    <3>4. \A q \in LogSpace : Known(q)'
      BY <3>1, <3>2, <3>3, OtherWordsKnown DEF KnownWords
    <3> QED  BY <3>1, <3>4 DEF KnownWords, Booting, Pairs
  <2>5. CASE LogWord
    <3>1. /\ doing = "data" /\ doing' = "crc" /\ imageCrc' = imageCrc /\ ever' = ever
          /\ WriteLog(record.at + 1, <<"data", record.value>>)
      BY <2>5 DEF LogWord
    <3>2. <<"data", record.value>> \in FlashWords
      BY <3>1, ConfigSets DEF ConfigTypes
    <3>3. \A a, v : <<"data", record.value>> # <<"crc", a, v>>
      BY KindsDiffer
    <3>4. \A q \in LogSpace : Known(q)'
      BY <3>1, <3>2, <3>3, OtherWordsKnown DEF KnownWords
    <3> QED  BY <3>1, <3>4 DEF KnownWords, Booting, Pairs
  <2>6. CASE LogCrc
    <3>1. /\ doing = "crc" /\ doing' = "idle" /\ imageCrc' = imageCrc
          /\ ever' = ever \cup {<<record.offset, record.value>>}
          /\ WriteLog(record.at + 2, <<"crc", record.offset, record.value>>)
      BY <2>6 DEF LogCrc
    <3>2. PICK p, a, b : p = record.at + 2 /\ a = record.offset /\ b = record.value
      OBVIOUS
    <3>3. <<"crc", a, b>> \in FlashWords
      BY <3>1, <3>2, ConfigSets DEF ConfigTypes
    <3>4. \A q \in LogSpace :
            log'[q] = IF q # p THEN log[q]
                      ELSE IF log[p] = Erased THEN <<"crc", a, b>> ELSE Spoilt
      BY <3>1, <3>2, <3>3, WriteIs DEF ConfigTypes
    <3>5. ever' = ever \cup {<<a, b>>}
      BY <3>1, <3>2
    <3>6. ASSUME NEW q \in LogSpace, NEW w \in WordsOf, NEW v \in Value,
                 log'[q] = <<"crc", w, v>>
          PROVE  <<w, v>> \in ever'
      <4>1. CASE log'[q] = log[q]
        BY <3>5, <3>6, <4>1 DEF KnownWords, Known
      <4>2. CASE log'[q] = <<"crc", a, b>>
        BY <3>5, <3>6, <4>2, KindsDiffer
      <4> QED  BY <3>4, <3>6, <4>1, <4>2, KindsDiffer
    <3> QED  BY <3>1, <3>6 DEF KnownWords, Known, Booting, Pairs
  <2>7. CASE SavePage
    BY <2>2, <2>7 DEF SavePage, historyVars, Booting
  <2>8. CASE SaveRest
    <3>1. /\ doing = "save" /\ doing' = "erase" /\ imageCrc' = ramCrc /\ log' = log
          /\ ever' = ever \cup Pairs(config)
      BY <2>8 DEF SaveRest
    <3>2. imageCrc' = config
      BY <3>1 DEF SavesConfig
    <3> QED  BY <3>1, <3>2 DEF KnownWords, Known, Booting, Pairs
  <2>9. CASE SaveErase
    <3>1. doing' = "idle" /\ imageCrc' = imageCrc /\ ever' = ever /\ log' = Blank
      BY <2>9 DEF SaveErase
    <3>2. \A p \in LogSpace : log'[p] = Erased
      BY <3>1 DEF Blank
    <3>3. \A p \in LogSpace : Known(p)'
      BY <3>2, KindsDiffer DEF Known
    <3> QED  BY <3>1, <3>3 DEF KnownWords, Booting, Pairs
  <2>10. CASE PowerFails
    BY <2>2, <2>10 DEF PowerFails, flashVars
  <2>11. CASE Load
    <3>1. /\ doing = "off" /\ UNCHANGED <<imageCrc, log, ever>>
          /\ config' = config \/ (imageCrc = image /\ config' = image)
      <4>1. CASE imageCrc = image
        BY <2>11, <4>1 DEF Load, flashVars, historyVars
      <4>2. CASE imageCrc # image
        BY <2>11, <4>2 DEF Load, flashVars, historyVars
      <4> QED  BY <4>1, <4>2
    <3>2. imageCrc = image => \A w \in WordsOf : <<w, image[w]>> \in ever
      BY DEF KnownWords, Pairs
    <3> QED  BY <2>2, <3>1, <3>2 DEF KnownWords, Booting
  <2>12. CASE ReplayRecord
    <3>1. doing = "replay" /\ Fits(replay) /\ UNCHANGED <<imageCrc, log, ever>>
      BY <2>12 DEF ReplayRecord, flashVars, historyVars
    <3>2. CASE Checks(replay)
      <4>1. PICK w \in WordsOf : log[replay] = <<"header", w>>
        BY <3>1 DEF Fits
      <4>2. PICK v : v = log[replay + 1][2]
        OBVIOUS
      <4>3. log[replay][2] = w
        BY <4>1, KindsDiffer
      <4>4. config' = [config EXCEPT ![w] = v]
        BY <2>12, <3>2, <4>2, <4>3 DEF ReplayRecord
      <4>5. PICK k \in Nat : replay = 3 * k
        BY DEF ConfigTypes
      <4>6. replay + 1 \in LogSpace /\ replay + 2 \in LogSpace
        BY <3>1, <4>5, ConfigAssumption DEF Fits, LogSpace
      <4>7. v \in Value
        BY <3>2, <4>2, <4>6, DataHasValue DEF Checks, ConfigTypes
      <4>8. log[replay + 2] = <<"crc", w, v>>
        BY <3>2, <4>2, <4>3 DEF Checks
      <4>9. <<w, v>> \in ever
        BY <4>6, <4>7, <4>8 DEF KnownWords, Known
      <4>10. \A a \in WordsOf : config'[a] = IF a = w THEN v ELSE config[a]
        BY <4>4 DEF ConfigTypes, Segments
      <4> QED  BY <2>2, <3>1, <4>9, <4>10 DEF KnownWords, Booting
    <3>3. CASE ~Checks(replay)
      BY <2>2, <2>12, <3>1, <3>3 DEF ReplayRecord, KnownWords, Booting
    <3> QED  BY <3>2, <3>3
  <2>13. CASE ReplayEnds
    BY <2>2, <2>13 DEF ReplayEnds, flashVars, historyVars, KnownWords, Booting
  <2>14. CASE Start
    BY <2>2, <2>14 DEF Start, flashVars, historyVars, Booting
  <2> QED
    BY <1>2, <2>3, <2>4, <2>5, <2>6, <2>7, <2>8, <2>9, <2>10, <2>11, <2>12, <2>13,
       <2>14 DEF ConfigNext
<1> QED  BY <1>1, <1>2

(* Wherever power fails, and whatever is overwritten, a boot finds only    *)
(* words that are defaults or were saved or logged for their place.        *)
THEOREM NothingInventedCorrect == ConfigSpec => []NothingInvented
<1>1. InventInv => NothingInvented
  BY DEF InventInv, KnownWords, Booting, NothingInvented
<1> QED  BY InitConfig, InventKept, <1>1, PTL DEF ConfigSpec

(* Each logged word can be told from the end of the segment in a header. *)
RecordsFit == \A w \in Logged : 0 < w /\ w + 2 <= ConfigSize

(* A record that was completed, and the stage it makes. *)
Complete(i) ==
  \E w \in Logged, v \in Value :
    /\ log[3 * i - 3] = <<"header", w>> /\ log[3 * i - 2] = <<"data", v>>
    /\ log[3 * i - 1] = <<"crc", w, v>>
    /\ stages[i + 1] = [stages[i] EXCEPT ![w] = v]

(* Where the completed records end. *)
End == 3 * (Len(stages) - 1)
Headers == {<<"header", w>> : w \in Logged}

(* The log, when it can be told what it holds: the records one after       *)
(* another, then one that may lack its data and lacks its CRC.             *)
LogHolds ==
  /\ image = stages[1] /\ imageCrc = stages[1]
  /\ Len(stages) <= LogRecords + 1
  /\ \A i \in 1 .. Len(stages) - 1 : Complete(i)
  /\ End \in LogSpace => log[End] \in {Erased} \cup Headers
  /\ \A p \in LogSpace : p > End + 1 => log[p] = Erased

(* Where the next record goes and what the load has come to. *)
AtRecord ==
  /\ doing \in {"idle", "loaded"} =>
       \/ log_offset = End /\ (End \in LogSpace => log[End] = Erased)
       \/ log_offset = 0 /\ 0 \in LogSpace /\ log[0] # Erased
  /\ doing \in {"data", "crc"} =>
       /\ record.at = End /\ End \in LogSpace /\ record.offset \in Logged
       /\ log[End] = <<"header", record.offset>> /\ log_offset = End + 3
       /\ doing = "crc" => log[End + 1] = <<"data", record.value>>
  /\ doing = "off" => replay = 0
  /\ doing = "replay" =>
       /\ log_offset = 0
       /\ \E i \in 1 .. Len(stages) : replay = 3 * (i - 1) /\ config = stages[i]
  /\ doing = "loaded" => config = Stored

RestoreInv ==
  /\ ConfigTypes /\ SavesConfig
  /\ stages # <<>> /\ doing \notin {"save", "erase"} => LogHolds /\ AtRecord

(* The end of the records is a place for one or the end of the log. *)
LEMMA EndIs ==
  ASSUME ConfigTypes, stages # <<>>
  PROVE  /\ Len(stages) \in Nat /\ Len(stages) >= 1
         /\ End \in Nat /\ End = 3 * Len(stages) - 3
         /\ \A i \in 1 .. Len(stages) : stages[i] \in Segments
         /\ End \in LogSpace => End + 2 \in LogSpace /\ Len(stages) <= LogRecords
<1>1. Len(stages) \in Nat /\ Len(stages) >= 1
  BY DEF ConfigTypes
<1>2. \A i \in 1 .. Len(stages) : stages[i] \in Segments
  BY DEF ConfigTypes
<1> QED  BY <1>1, <1>2, ConfigAssumption DEF End, LogSpace

(* A header of a logged word lets a load go on. *)
LEMMA LoggedFit ==
  ASSUME RecordsFit, NEW w \in Logged
  PROVE  /\ w \in WordsOf /\ HeaderOffset(w) = w
         /\ \A p \in LogSpace : log[p] = <<"header", w>> => Fits(p)
<1>1. w \in WordsOf /\ 0 < w /\ w + 2 <= ConfigSize /\ w \in Int /\ ConfigSize \in Int
  BY ConfigSets, ConfigAssumption DEF RecordsFit, WordsOf
<1> QED  BY <1>1 DEF HeaderOffset, Fits

(* What touches neither the flash nor what is known of it. *)
LEMMA FlashSame ==
  ASSUME LogHolds, UNCHANGED <<image, imageCrc, log, stages>>
  PROVE  LogHolds'
<1>1. PICK n, e : n = Len(stages) /\ e = End
  OBVIOUS
<1>2. Len(stages') = n /\ End' = e
  BY <1>1 DEF End
<1>3. \A i \in 1 .. n - 1 : Complete(i)'
  <2>1. ASSUME NEW i \in 1 .. n - 1 PROVE Complete(i)'
    <3>1. Complete(i)
      BY <1>1, <2>1 DEF LogHolds
    <3> QED  BY <3>1 DEF Complete
  <2> QED  BY <2>1
<1> QED  BY <1>1, <1>2, <1>3 DEF LogHolds

LEMMA InitRestores == ASSUME ConfigInit PROVE RestoreInv
<1>1. ConfigTypes /\ SavesConfig
  BY InitConfig DEF InventInv
<1>2. stages[1] = config /\ Len(stages) = 1 /\ stages # <<>> /\ End = 0
  BY DEF ConfigInit, End
<1>3. /\ image = config /\ imageCrc = config /\ log_offset = 0 /\ doing = "idle"
      /\ \A p \in LogSpace : log[p] = Erased
  BY DEF ConfigInit, Blank
<1>4. LogHolds
  BY <1>2, <1>3, ConfigAssumption DEF LogHolds
<1>5. AtRecord
  BY <1>2, <1>3 DEF AtRecord
<1> QED  BY <1>1, <1>4, <1>5 DEF RestoreInv

(* The writes of a record. *)
LEMMA HeaderRestores ==
  ASSUME RecordsFit, RestoreInv, NEW w \in Logged, LogHeader(w), stages' # <<>>
  PROVE  LogHolds' /\ AtRecord'
<1>1. /\ doing = "idle" /\ doing' = "data" /\ log_offset + 2 \in LogSpace
      /\ record'.offset = w /\ record'.value = config[w] /\ record'.at = log_offset
      /\ log_offset' = log_offset + 3
      /\ WriteLog(log_offset, <<"header", w>>)
      /\ log[log_offset] = Erased /\ stages' = stages
      /\ UNCHANGED <<config, image, imageCrc>>
  BY LoggedFit DEF LogHeader, Reserve, IfErased
<1>2. ConfigTypes /\ LogHolds /\ AtRecord
  BY <1>1 DEF RestoreInv
<1>3. PICK n, e : n = Len(stages) /\ e = End
  OBVIOUS
<1>4. /\ n \in Nat /\ n >= 1 /\ e \in Nat /\ e = 3 * n - 3
      /\ Len(stages') = n /\ End' = e
  BY <1>1, <1>2, <1>3, EndIs DEF End
<1>5. log_offset = e
  BY <1>1, <1>2, <1>3 DEF AtRecord
<1>6. e \in LogSpace
  BY <1>1, <1>4, <1>5, ConfigAssumption DEF LogSpace
<1>7. <<"header", w>> \in FlashWords
  BY LoggedFit, ConfigSets
<1>8. \A q \in LogSpace : log'[q] = IF q = e THEN <<"header", w>> ELSE log[q]
  BY <1>1, <1>2, <1>5, <1>7, WriteIs DEF ConfigTypes
<1>9. LogHolds'
  <2>1. ASSUME NEW i \in 1 .. n - 1 PROVE Complete(i)'
    <3>1. Complete(i)
      BY <1>2, <1>3, <2>1 DEF LogHolds
    <3>2. \A k \in {3 * i - 3, 3 * i - 2, 3 * i - 1} : k \in LogSpace /\ k # e
      BY <1>4, <1>6, ConfigAssumption DEF LogSpace
    <3>3. \A k \in {3 * i - 3, 3 * i - 2, 3 * i - 1} : log'[k] = log[k]
      BY <1>8, <3>2
    <3> QED  BY <1>1, <3>1, <3>3 DEF Complete
  <2>2. log'[e] \in {Erased} \cup Headers
    BY <1>6, <1>8 DEF Headers
  <2>3. \A p \in LogSpace : p > e + 1 => log'[p] = Erased
    BY <1>2, <1>3, <1>4, <1>8 DEF LogHolds, LogSpace
  <2> QED  BY <1>1, <1>2, <1>3, <1>4, <2>1, <2>2, <2>3 DEF LogHolds
<1> QED  BY <1>1, <1>4, <1>5, <1>6, <1>8, <1>9 DEF AtRecord

LEMMA DataRestores ==
  ASSUME RestoreInv, LogWord, stages' # <<>>
  PROVE  LogHolds' /\ AtRecord'
<1>1. /\ doing = "data" /\ doing' = "crc"
      /\ WriteLog(record.at + 1, <<"data", record.value>>)
      /\ log[record.at + 1] = Erased /\ stages' = stages
      /\ UNCHANGED <<config, image, imageCrc, log_offset, record>>
  BY DEF LogWord, IfErased
<1>2. ConfigTypes /\ LogHolds /\ AtRecord
  BY <1>1 DEF RestoreInv
<1>3. PICK n, e : n = Len(stages) /\ e = End
  OBVIOUS
<1>4. /\ n \in Nat /\ n >= 1 /\ e \in Nat /\ e = 3 * n - 3
      /\ Len(stages') = n /\ End' = e
  BY <1>1, <1>2, <1>3, EndIs DEF End
<1>5. /\ record.at = e /\ e \in LogSpace /\ record.offset \in Logged
      /\ log[e] = <<"header", record.offset>> /\ log_offset = e + 3
  BY <1>1, <1>2, <1>3 DEF AtRecord
<1>6. e + 1 \in LogSpace
  BY <1>4, <1>5, ConfigAssumption DEF LogSpace
<1>7. <<"data", record.value>> \in FlashWords
  BY <1>1, <1>2, ConfigSets DEF ConfigTypes
<1>8. \A q \in LogSpace :
        log'[q] = IF q = e + 1 THEN <<"data", record.value>> ELSE log[q]
  BY <1>1, <1>2, <1>5, <1>7, WriteIs DEF ConfigTypes
<1>9. LogHolds'
  <2>1. ASSUME NEW i \in 1 .. n - 1 PROVE Complete(i)'
    <3>1. Complete(i)
      BY <1>2, <1>3, <2>1 DEF LogHolds
    <3>2. \A k \in {3 * i - 3, 3 * i - 2, 3 * i - 1} : k \in LogSpace /\ k # e + 1
      BY <1>4, <1>5, ConfigAssumption DEF LogSpace
    <3>3. \A k \in {3 * i - 3, 3 * i - 2, 3 * i - 1} : log'[k] = log[k]
      BY <1>8, <3>2
    <3> QED  BY <1>1, <3>1, <3>3 DEF Complete
  <2>2. log'[e] = log[e]
    BY <1>4, <1>5, <1>8
  <2>3. \A p \in LogSpace : p > e + 1 => log'[p] = Erased
    BY <1>2, <1>3, <1>4, <1>8 DEF LogHolds, LogSpace
  <2> QED  BY <1>1, <1>2, <1>3, <1>4, <2>1, <2>2, <2>3 DEF LogHolds
<1>10. log'[e] = <<"header", record.offset>> /\ log'[e + 1] = <<"data", record.value>>
  BY <1>4, <1>5, <1>6, <1>8
<1> QED  BY <1>1, <1>4, <1>5, <1>9, <1>10 DEF AtRecord

(* The record is complete: the next stage. *)
LEMMA CrcRestores ==
  ASSUME RestoreInv, LogCrc, stages' # <<>>
  PROVE  LogHolds' /\ AtRecord'
<1>1. /\ doing = "crc" /\ doing' = "idle"
      /\ WriteLog(record.at + 2, <<"crc", record.offset, record.value>>)
      /\ log[record.at + 2] = Erased /\ stages # <<>>
      /\ stages' = Append(stages, [Stored EXCEPT ![record.offset] = record.value])
      /\ UNCHANGED <<config, image, imageCrc, log_offset>>
  BY DEF LogCrc, IfErased
<1>2. ConfigTypes /\ LogHolds /\ AtRecord
  BY <1>1 DEF RestoreInv
<1>3. PICK n, e : n = Len(stages) /\ e = End
  OBVIOUS
<1>4. /\ n \in Nat /\ n >= 1 /\ e \in Nat /\ e = 3 * n - 3
  BY <1>1, <1>2, <1>3, EndIs
<1>5. PICK w, v : w = record.offset /\ v = record.value
  OBVIOUS
<1>6. /\ record.at = e /\ e \in LogSpace /\ w \in Logged /\ v \in Value
      /\ log[e] = <<"header", w>> /\ log[e + 1] = <<"data", v>> /\ log_offset = e + 3
  BY <1>1, <1>2, <1>3, <1>5 DEF AtRecord, ConfigTypes
<1>7. e + 1 \in LogSpace /\ e + 2 \in LogSpace /\ n <= LogRecords
  BY <1>4, <1>6, ConfigAssumption DEF LogSpace
<1>8. <<"crc", w, v>> \in FlashWords
  BY <1>6, ConfigSets
<1>9. \A q \in LogSpace : log'[q] = IF q = e + 2 THEN <<"crc", w, v>> ELSE log[q]
  BY <1>1, <1>2, <1>5, <1>6, <1>8, WriteIs DEF ConfigTypes
<1>10. PICK stage : stage = [stages[n] EXCEPT ![w] = v]
  OBVIOUS
<1>11. stages' = Append(stages, stage)
  BY <1>1, <1>3, <1>5, <1>10 DEF Stored
<1>12. /\ Len(stages') = n + 1 /\ stages'[n + 1] = stage
       /\ \A i \in 1 .. n : stages'[i] = stages[i]
  BY <1>2, <1>3, <1>11 DEF ConfigTypes
<1>13. End' = e + 3
  BY <1>4, <1>12 DEF End
<1>14. LogHolds'
  <2>1. ASSUME NEW i \in 1 .. n PROVE Complete(i)'
    <3>1. CASE i = n
      <4>1. 3 * i - 3 = e /\ 3 * i - 2 = e + 1 /\ 3 * i - 1 = e + 2
        BY <1>4, <3>1
      <4>2. /\ log'[e] = <<"header", w>> /\ log'[e + 1] = <<"data", v>>
            /\ log'[e + 2] = <<"crc", w, v>>
        BY <1>4, <1>6, <1>7, <1>9
      <4>3. stages'[i + 1] = [stages'[i] EXCEPT ![w] = v]
        BY <1>4, <1>10, <1>12, <3>1
      <4> QED  BY <1>6, <4>1, <4>2, <4>3 DEF Complete
    <3>2. CASE i # n
      <4>1. i \in 1 .. n - 1 /\ i + 1 \in 1 .. n
        BY <1>4, <3>2
      <4>2. Complete(i)
        BY <1>2, <1>3, <4>1 DEF LogHolds
      <4>3. \A k \in {3 * i - 3, 3 * i - 2, 3 * i - 1} : k \in LogSpace /\ k # e + 2
        BY <1>4, <1>6, <4>1, ConfigAssumption DEF LogSpace
      <4>4. \A k \in {3 * i - 3, 3 * i - 2, 3 * i - 1} : log'[k] = log[k]
        BY <1>9, <4>3
      <4>5. stages'[i] = stages[i] /\ stages'[i + 1] = stages[i + 1]
        BY <1>12, <4>1
      <4>6. PICK a \in Logged, b \in Value :
              /\ log[3 * i - 3] = <<"header", a>> /\ log[3 * i - 2] = <<"data", b>>
              /\ log[3 * i - 1] = <<"crc", a, b>>
              /\ stages[i + 1] = [stages[i] EXCEPT ![a] = b]
        BY <4>2 DEF Complete
      <4>7. /\ log'[3 * i - 3] = <<"header", a>> /\ log'[3 * i - 2] = <<"data", b>>
            /\ log'[3 * i - 1] = <<"crc", a, b>>
        BY <4>4, <4>6
      <4>8. stages'[i + 1] = [stages'[i] EXCEPT ![a] = b]
        BY <4>5, <4>6
      <4> QED  BY <4>7, <4>8 DEF Complete
    <3> QED  BY <3>1, <3>2
  <2>2. \A p \in LogSpace : p > e + 2 => log'[p] = Erased
    BY <1>2, <1>3, <1>4, <1>9 DEF LogHolds, LogSpace
  <2>3. stages'[1] = stages[1]
    BY <1>4, <1>12
  <2>4. \A p \in LogSpace : p > e + 3 + 1 => log'[p] = Erased
    BY <1>4, <2>2 DEF LogSpace
  <2>5. e + 3 \in LogSpace => log'[e + 3] = Erased
    BY <1>4, <2>2
  <2>6. n + 1 <= LogRecords + 1 /\ n + 1 - 1 = n
    BY <1>4, <1>7, ConfigAssumption
  <2>7. image' = stages'[1] /\ imageCrc' = stages'[1]
    BY <1>1, <1>2, <2>3 DEF LogHolds
  <2>8. PICK m, f : m = Len(stages') /\ f = End'
    OBVIOUS
  <2>9. m = n + 1 /\ f = e + 3
    BY <1>12, <1>13, <2>8
  <2>10. /\ m <= LogRecords + 1 /\ \A i \in 1 .. m - 1 : Complete(i)'
         /\ f \in LogSpace => log'[f] = Erased
         /\ \A q \in LogSpace : q > f + 1 => log'[q] = Erased
    <3>1. m - 1 = n
      BY <1>4, <2>9
    <3>2. \A i \in 1 .. n : Complete(i)'
      BY <2>1
    <3>3. \A i \in 1 .. m - 1 : Complete(i)'
      BY <3>1, <3>2
    <3> QED  BY <2>4, <2>5, <2>6, <2>9, <3>3
  <2> QED  BY <2>7, <2>8, <2>10 DEF LogHolds
<1> QED
  <2>1. e + 3 \in LogSpace => log'[e + 3] = Erased
    BY <1>13, <1>14, <1>2, <1>3, <1>4, <1>9 DEF LogHolds
  <2> QED  BY <1>1, <1>6, <1>13, <1>14, <2>1 DEF AtRecord

(* The load comes to the records one after another and to no more.  It     *)
(* stands at the end of the log, or is cut short by a record that power    *)
(* cut, which the program then overwrites.                                 *)
LEMMA ReplayRestores ==
  ASSUME RecordsFit, RestoreInv, ReplayRecord \/ ReplayEnds, stages' # <<>>
  PROVE  LogHolds' /\ AtRecord'
<1>1. /\ doing = "replay" /\ UNCHANGED <<image, imageCrc, log, record, stages>>
  BY DEF ReplayRecord, ReplayEnds, flashVars, historyVars
<1>2. ConfigTypes /\ LogHolds /\ AtRecord
  BY <1>1 DEF RestoreInv
<1>3. PICK n, e : n = Len(stages) /\ e = End
  OBVIOUS
<1>4. /\ n \in Nat /\ n >= 1 /\ e \in Nat /\ e = 3 * n - 3
      /\ Len(stages') = n /\ End' = e /\ Stored' = Stored /\ Stored = stages[n]
  BY <1>1, <1>2, <1>3, EndIs DEF End, Stored
<1>5. LogHolds'
  BY <1>1, <1>2, FlashSame
<1>6. PICK i \in 1 .. n : replay = 3 * (i - 1) /\ config = stages[i]
  BY <1>1, <1>2, <1>3 DEF AtRecord
<1>7. log_offset = 0
  BY <1>1, <1>2 DEF AtRecord
<1>8. ASSUME i < n
      PROVE  \E w \in Logged, v \in Value :
               /\ replay \in LogSpace /\ log[replay] = <<"header", w>>
               /\ log[replay + 1] = <<"data", v>> /\ log[replay + 2] = <<"crc", w, v>>
               /\ stages[i + 1] = [stages[i] EXCEPT ![w] = v]
  <2>1. i \in 1 .. n - 1
    BY <1>4, <1>8
  <2>2. PICK w \in Logged, v \in Value :
          /\ log[3 * i - 3] = <<"header", w>> /\ log[3 * i - 2] = <<"data", v>>
          /\ log[3 * i - 1] = <<"crc", w, v>>
          /\ stages[i + 1] = [stages[i] EXCEPT ![w] = v]
    BY <1>2, <1>3, <2>1 DEF LogHolds, Complete
  <2>3. 3 * i - 3 = replay /\ 3 * i - 2 = replay + 1 /\ 3 * i - 1 = replay + 2
    BY <1>6
  <2>4. n <= LogRecords + 1
    BY <1>2, <1>3 DEF LogHolds
  <2>5. replay \in LogSpace
    BY <1>4, <1>6, <2>1, <2>4, ConfigAssumption DEF LogSpace
  <2> QED  BY <2>2, <2>3, <2>5
<1>9. CASE ReplayRecord /\ Checks(replay)
  <2>1. /\ Fits(replay) /\ doing' = "replay" /\ replay' = replay + 3
        /\ config' = [config EXCEPT ![log[replay][2]] = log[replay + 1][2]]
        /\ log_offset' = 0
    BY <1>1, <1>7, <1>9 DEF ReplayRecord
  <2>2. i < n
    <3>1. CASE i = n
      <4>1. replay = e
        BY <1>4, <1>6, <3>1
      <4>2. e \in LogSpace /\ e + 2 \in LogSpace
        BY <1>2, <1>3, <1>4, <2>1, <4>1, EndIs DEF Fits
      <4>3. log[e + 2] = Erased
        BY <1>2, <1>3, <1>4, <4>2 DEF LogHolds
      <4>4. PICK a, b : log[replay + 2] = <<"crc", a, b>>
        BY <1>9 DEF Checks
      <4> QED  BY <4>1, <4>3, <4>4, KindsDiffer
    <3> QED  BY <1>4, <3>1
  <2>3. PICK w \in Logged, v \in Value :
          /\ log[replay] = <<"header", w>> /\ log[replay + 1] = <<"data", v>>
          /\ stages[i + 1] = [stages[i] EXCEPT ![w] = v]
    BY <1>8, <2>2
  <2>4. log[replay][2] = w /\ log[replay + 1][2] = v
    BY <2>3, KindsDiffer
  <2>5. config' = stages[i + 1]
    BY <1>6, <2>1, <2>3, <2>4
  <2>6. i + 1 \in 1 .. n /\ replay' = 3 * (i + 1 - 1)
    BY <1>4, <1>6, <2>1, <2>2
  <2>7. \E j \in 1 .. Len(stages') : replay' = 3 * (j - 1) /\ config' = stages'[j]
    BY <1>1, <1>4, <2>5, <2>6
  <2> QED  BY <1>5, <2>1, <2>7 DEF AtRecord
<1>10. CASE ReplayRecord /\ ~Checks(replay)
  <2>1. /\ Fits(replay) /\ doing' = "loaded" /\ config' = config /\ log_offset' = 0
    BY <1>1, <1>7, <1>10 DEF ReplayRecord
  <2>2. i = n
    <3>1. CASE i < n
      <4>1. PICK w \in Logged, v \in Value :
              /\ log[replay] = <<"header", w>>
              /\ log[replay + 1] = <<"data", v>> /\ log[replay + 2] = <<"crc", w, v>>
        BY <1>8, <3>1
      <4>2. log[replay][2] = w /\ log[replay + 1][2] = v /\ log[replay + 1][1] = "data"
        BY <4>1, KindsDiffer
      <4>3. Checks(replay)
        BY <4>1, <4>2 DEF Checks
      <4> QED  BY <1>10, <4>3
    <3> QED  BY <1>4, <3>1
  <2>3. config' = Stored'
    BY <1>4, <1>6, <2>1, <2>2
  <2>4. 0 \in LogSpace /\ log[0] # Erased
    <3>1. CASE n = 1
      <4>1. replay = 0
        BY <1>6, <2>2, <3>1
      <4> QED  BY <2>1, <4>1, KindsDiffer DEF Fits
    <3>2. CASE n # 1
      <4>1. 1 \in 1 .. n - 1
        BY <1>4, <3>2
      <4>2. Complete(1)
        BY <1>2, <1>3, <4>1 DEF LogHolds
      <4>3. PICK w : log[3 * 1 - 3] = <<"header", w>>
        BY <4>2 DEF Complete
      <4>4. 3 * 1 - 3 = 0
        OBVIOUS
      <4>5. log[0] # Erased
        BY <4>3, <4>4, KindsDiffer
      <4>6. 0 \in LogSpace
        BY <2>1, ConfigAssumption DEF Fits, LogSpace
      <4> QED  BY <4>5, <4>6
    <3> QED  BY <3>1, <3>2
  <2> QED  BY <1>1, <1>5, <2>1, <2>3, <2>4 DEF AtRecord
<1>11. CASE ReplayEnds
  <2>1. /\ ~Fits(replay) /\ log_offset' = replay /\ doing' = "loaded"
        /\ config' = config
    BY <1>11 DEF ReplayEnds
  <2>2. i = n
    <3>1. CASE i < n
      <4>1. PICK w \in Logged : replay \in LogSpace /\ log[replay] = <<"header", w>>
        BY <1>8, <3>1
      <4> QED  BY <2>1, <4>1, LoggedFit
    <3> QED  BY <1>4, <3>1
  <2>3. replay = e /\ config' = Stored'
    BY <1>4, <1>6, <2>1, <2>2
  <2>4. e \in LogSpace => log[e] = Erased
    <3>1. ASSUME e \in LogSpace, log[e] \in Headers PROVE FALSE
      <4>1. PICK w \in Logged : log[e] = <<"header", w>>
        BY <3>1 DEF Headers
      <4> QED  BY <2>1, <2>3, <3>1, <4>1, LoggedFit
    <3> QED  BY <1>2, <1>3, <3>1 DEF LogHolds
  <2>5. /\ log_offset' = End' /\ (End' \in LogSpace => log'[End'] = Erased)
    BY <1>1, <1>4, <2>1, <2>3, <2>4
  <2> QED  BY <1>5, <2>1, <2>3, <2>5 DEF AtRecord
<1> QED  BY <1>9, <1>10, <1>11

(* What is stored is what a boot restores. *)
LEMMA RestoreKept ==
  ASSUME RecordsFit, RestoreInv, [ConfigNext]_configVars
  PROVE  RestoreInv'
<1>1. CASE UNCHANGED configVars
  <2>1. UNCHANGED <<config, image, imageCrc, log, log_offset, doing, record,
                    replay, ramCrc, stages>>
    BY <1>1 DEF configVars
  <2>2. ConfigTypes' /\ SavesConfig'
    BY <2>1 DEF RestoreInv, ConfigTypes, SavesConfig
  <2>3. AtRecord' <=> AtRecord
    BY <2>1 DEF AtRecord, End, Stored
  <2> QED  BY <2>1, <2>2, <2>3, FlashSame DEF RestoreInv
<1>2. CASE ConfigNext
  <2>1. ConfigTypes' /\ SavesConfig' /\ ConfigTypes /\ SavesConfig
    BY <1>2, ConfigTypesKept DEF RestoreInv
  <2> SUFFICES ASSUME stages' # <<>>, doing' \notin {"save", "erase"}
               PROVE  LogHolds' /\ AtRecord'
    BY <2>1 DEF RestoreInv
  <2>2. ASSUME NEW w \in Logged, NEW v \in Value, Change(w, v)
        PROVE  LogHolds' /\ AtRecord'
    <3>1. /\ doing = "idle" /\ doing' = "idle"
          /\ UNCHANGED <<image, imageCrc, log, log_offset, stages>>
      BY <2>2 DEF Change, flashVars, historyVars
    <3>2. LogHolds /\ AtRecord
      BY <3>1 DEF RestoreInv
    <3>3. End' = End
      BY <3>1 DEF End
    <3> QED  BY <3>1, <3>2, <3>3, FlashSame DEF AtRecord
  <2>3. ASSUME NEW w \in Logged, LogHeader(w) PROVE LogHolds' /\ AtRecord'
    BY <2>3, HeaderRestores
  <2>4. CASE LogWord
    BY <2>4, DataRestores
  <2>5. CASE LogCrc
    BY <2>5, CrcRestores
  <2>6. CASE SavePage \/ SaveRest
    BY <2>6 DEF SavePage, SaveRest
  <2>7. CASE SaveErase
    <3>1. /\ doing' = "idle" /\ log' = Blank /\ stages' = <<config>>
          /\ image' = config /\ imageCrc' = config /\ log_offset' = 0
      BY <2>1, <2>7 DEF SaveErase, SavesConfig
    <3>2. Len(stages') = 1 /\ stages'[1] = config /\ End' = 0
      BY <3>1 DEF End
    <3>3. \A p \in LogSpace : log'[p] = Erased
      BY <3>1 DEF Blank
    <3>4. LogHolds'
      BY <3>1, <3>2, <3>3, ConfigAssumption DEF LogHolds
    <3> QED  BY <3>1, <3>2, <3>3, <3>4 DEF AtRecord
  <2>8. CASE PowerFails
    <3>1. /\ doing \notin {"save", "erase"} /\ doing' = "off" /\ replay' = 0
          /\ UNCHANGED <<image, imageCrc, log, stages>>
      BY <2>8 DEF PowerFails, flashVars
    <3> QED  BY <3>1, FlashSame DEF RestoreInv, AtRecord
  <2>9. CASE Load
    <3>1. /\ doing = "off" /\ UNCHANGED <<image, imageCrc, log, stages, replay>>
      BY <2>9 DEF Load, flashVars, historyVars
    <3>2. LogHolds /\ AtRecord
      BY <3>1 DEF RestoreInv
    <3>3. imageCrc = image /\ image = stages[1]
      BY <3>2 DEF LogHolds
    <3>4. doing' = "replay" /\ config' = stages[1] /\ log_offset' = 0
      BY <2>9, <3>3 DEF Load
    <3>5. 1 \in 1 .. Len(stages) /\ replay' = 3 * (1 - 1)
      BY <2>1, <3>1, <3>2, EndIs DEF AtRecord
    <3>6. \E i \in 1 .. Len(stages') : replay' = 3 * (i - 1) /\ config' = stages'[i]
      BY <3>1, <3>4, <3>5
    <3> QED  BY <3>1, <3>2, <3>4, <3>6, FlashSame DEF AtRecord
  <2>10. CASE ReplayRecord \/ ReplayEnds
    BY <2>10, ReplayRestores
  <2>11. CASE Start
    <3>1. /\ doing = "loaded" /\ doing' = "idle"
          /\ UNCHANGED <<config, image, imageCrc, log, log_offset, stages>>
      BY <2>11 DEF Start, flashVars, historyVars
    <3>2. LogHolds /\ AtRecord
      BY <3>1 DEF RestoreInv
    <3>3. End' = End
      BY <3>1 DEF End
    <3> QED  BY <3>1, <3>2, <3>3, FlashSame DEF AtRecord
  <2> QED
    BY <1>2, <2>2, <2>3, <2>4, <2>5, <2>6, <2>7, <2>8, <2>9, <2>10, <2>11
    DEF ConfigNext
<1> QED  BY <1>1, <1>2

(* Wherever power fails between two writes of a record, a boot restores    *)
(* what was saved with every record that was completed, where each word    *)
(* the program logs can be told from the end of the segment: the size in a *)
(* header counts the header, so that a record of the last word never fits. *)
THEOREM LoadRestoresCorrect ==
  ASSUME RecordsFit
  PROVE  ConfigSpec => []LoadRestores
<1>1. RestoreInv => LoadRestores
  BY DEF RestoreInv, AtRecord, LoadRestores
<1>2. RestoreInv /\ [ConfigNext]_configVars => RestoreInv'
  BY RestoreKept, RecordsFit
<1> QED  BY InitRestores, <1>1, <1>2, PTL DEF ConfigSpec
=============================================================================
