------------------------------- MODULE Service ------------------------------
(***************************************************************************)
(* The services of service.c.  The idle loop of main.c walks the list of   *)
(* services again and again (osServiceWorkFlow): a service that waits for  *)
(* signals and has some takes them all and is called, and so is one whose  *)
(* timer has run out.  Interrupts and threads raise signals                *)
(* (osServiceSignal) and add services (osServiceRun) at any moment; a      *)
(* service starts and stops its own timer while it is called.              *)
(*                                                                         *)
(* process->result is a pointer, which is never below 0: a service is      *)
(* never completed.  The clock is a word of ServiceWord values.            *)
(***************************************************************************)
EXTENDS Integers, Sequences

CONSTANTS
  Process,      \* the services
  ServiceSignals,   \* the signals that are raised
  ServiceWord,  \* the values of clock()
  ServiceTimeout  \* the timeouts they ask for

ASSUME ServiceAssumption ==
  ServiceWord \in Nat \ {0} /\ ServiceTimeout \subseteq 0 .. ServiceWord - 1

VARIABLES
  services,     \* the list, newest first
  walk,         \* the rest of the list the work flow has before it
  at,           \* what it does with the first of them
  signals,      \* process->signals
  waits,        \* process->event.status
  value,        \* process->event.value.signals
  wait,         \* process->wait
  ticks,        \* clock()
  owed          \* history: the signals raised and not yet given to a call

serviceVars == <<services, walk, at, signals, waits, value, wait, ticks, owed>>
dataVars == <<signals, waits, value, wait, owed>>

(* osServiceCreate. *)
ServiceInit ==
  /\ services = <<>> /\ walk = <<>> /\ at = "test" /\ ticks = 0
  /\ signals = [p \in Process |-> {}] /\ owed = signals
  /\ waits = [p \in Process |-> {"Signal"}]
  /\ value = [p \in Process |-> ServiceSignals]
  /\ wait = [p \in Process |-> [timeout |-> 0, timestamp |-> 0]]

(* osServiceRun pushes the service onto the list. *)
ServiceRun(p) ==
  /\ \A i \in 1 .. Len(services) : services[i] # p
  /\ services' = <<p>> \o services
  /\ UNCHANGED <<walk, at, ticks, dataVars>>

(* osServiceSignal. *)
RaiseSignal(p, signal) ==
  /\ signals' = [signals EXCEPT ![p] = @ \cup {signal}]
  /\ owed' = [owed EXCEPT ![p] = @ \cup {signal}]
  /\ UNCHANGED <<services, walk, at, waits, value, wait, ticks>>

ServiceTick ==
  /\ ticks' = (ticks + 1) % ServiceWord
  /\ UNCHANGED <<services, walk, at, dataVars>>

(* A walk begins with the list as it is. *)
WalkAgain ==
  /\ walk = <<>> /\ walk' = services
  /\ UNCHANGED <<services, at, ticks, dataVars>>

At(step) == walk # <<>> /\ at = step

(* The service has signals to take, or none. *)
TestSignals ==
  /\ At("test")
  /\ at' = IF "Signal" \in waits[Head(walk)] /\ signals[Head(walk)] # {}
           THEN "take" ELSE "timeout"
  /\ UNCHANGED <<services, walk, ticks, dataVars>>

(* They are taken in one exchange.  The status no longer has Timeout. *)
TakeSignals ==
  /\ At("take")
  /\ LET p == Head(walk) IN
     /\ value' = [value EXCEPT ![p] = signals[p]]
     /\ signals' = [signals EXCEPT ![p] = {}]
     /\ waits' = [waits EXCEPT ![p] = {"Signal", "Running"}]
  /\ at' = "timeout"
  /\ UNCHANGED <<services, walk, wait, ticks, owed>>

(* osServiceTimerExpired. *)
Expired(p) ==
  (ticks - wait[p].timestamp) % ServiceWord >= wait[p].timeout

(* The timer, and whether the service is to be called. *)
TestTimeout ==
  /\ At("timeout")
  /\ LET p == Head(walk)
         ends == "Timeout" \in waits[p] /\ Expired(p)
         now == IF ends THEN {"Timeout", "Running"} ELSE waits[p] IN
     /\ waits' = [waits EXCEPT ![p] = now]
     /\ IF "Running" \in now THEN at' = "call" /\ UNCHANGED walk
        ELSE at' = "test" /\ walk' = Tail(walk)
  /\ UNCHANGED <<services, signals, value, wait, ticks, owed>>

(* The service is called: it sees its signals and may stop its timer, *)
(* start it, or let it run on from where it ended.                    *)
TimerStop(p) ==
  waits' = [waits EXCEPT ![p] = @ \ {"Timeout"}] /\ UNCHANGED wait
TimerStart(p) ==
  /\ waits' = [waits EXCEPT ![p] = @ \cup {"Timeout"}]
  /\ \E timeout \in ServiceTimeout :
       wait' = [wait EXCEPT ![p] = [timeout |-> timeout, timestamp |-> ticks]]
TimerRestart(p) ==
  /\ waits' = [waits EXCEPT ![p] = @ \cup {"Timeout"}]
  /\ wait' = [wait EXCEPT ![p].timestamp =
                (@ + wait[p].timeout) % ServiceWord]
Call ==
  /\ At("call")
  /\ LET p == Head(walk) IN
     /\ owed' = [owed EXCEPT ![p] = (@ \ value[p]) \cup signals[p]]
     /\ \/ TimerStop(p)
        \/ TimerStart(p)
        \/ TimerRestart(p)
        \/ UNCHANGED <<waits, wait>>
  /\ at' = "finish"
  /\ UNCHANGED <<services, walk, signals, value, ticks>>

SlipClear(p) ==
  value' = [value EXCEPT ![p] = {}] /\ signals' = [signals EXCEPT ![p] = {}]
(* What is cleared after the call. *)
Clear(p) == value' = [value EXCEPT ![p] = {}] /\ UNCHANGED signals

(* After the call the service waits for signals, and for its timer if the  *)
(* status still has it.                                                    *)
Finish ==
  /\ At("finish")
  /\ LET p == Head(walk) IN
     /\ Clear(p)
     /\ waits' = [waits EXCEPT ![p] = (@ \ {"Running"}) \cup {"Signal"}]
  /\ at' = "test" /\ walk' = Tail(walk)
  /\ UNCHANGED <<services, wait, ticks, owed>>

ServiceNext ==
  \/ \E p \in Process :
       ServiceRun(p) \/ \E signal \in ServiceSignals : RaiseSignal(p, signal)
  \/ ServiceTick \/ WalkAgain \/ TestSignals \/ TakeSignals \/ TestTimeout
  \/ Call \/ Finish

ServiceSpec == ServiceInit /\ [][ServiceNext]_serviceVars

-----------------------------------------------------------------------------
(* Whenever signals are raised, before, between and after the steps of the *)
(* work flow, each is either still pending or in the hands of the call     *)
(* that is about to be made: none is lost, and none is given to two calls. *)
SignalsOnce ==
  \A p \in Process :
    owed[p] = signals[p] \cup
              (IF "Running" \in waits[p] /\ at # "finish" THEN value[p] ELSE {})
=============================================================================
