----------------------------- MODULE KeyProvider -----------------------------
(***************************************************************************)
(* The keys of an overlay socket and their rotation                        *)
(* (src/daemon/overlay/KeyProvider.cpp).                                   *)
(*                                                                         *)
(* Two threads: the main thread, which runs the constructor and then the   *)
(* handlers of the io_service, and the generator thread, which runs        *)
(* renewKeys() once and ends.  They share `history' and `timer' without a  *)
(* lock.  Time is counted in seconds by Tick; what the code keeps as time  *)
(* points is kept as ages and as time left.                                *)
(***************************************************************************)
EXTENDS Integers, Sequences

CONSTANTS
  Key,             \* what generateNewKey() can return, named by its TH
  Nil,            \* no key, no handler
  history_size,    \* overlay.key_provider.history_size
  renew_interval,  \* overlay.key_provider.renew_interval
  Modulus,         \* 2^32, for the product of the two unsigned ints
  Slack            \* bound on how late the machine is, in seconds

ASSUME KeyProviderAssumption ==
  /\ Nil \notin Key \cup Nat
  /\ history_size \in Nat
  /\ renew_interval \in Nat
  /\ Modulus \in Nat \ {0}
  /\ Slack \in Nat

VARIABLES
  history,    \* KeyProvider::history, the current key first
  age,        \* of every key: seconds since renewKeys() looked at the clock for it
  generator,  \* where the generator thread is, see Generator
  new_info,   \* the local variable of renewKeys(), Nil if renewKeys() is not running
  timer,      \* seconds left until the timer expires, Nil if nobody waits for it
  main,       \* where the main thread is
  posted,     \* <<old, new>>: the rotation that a dispatched lambda is about, or Nil
  announced,  \* <<rotation, arguments>> of the last rotation_signal, or Nil
  answer      \* the key that getKeyInfo() returned last

keyVars == <<history, age, generator, new_info, timer, main, posted, announced, answer>>

max_history_size == history_size + 1
expiration_interval == renew_interval
lose_interval == (renew_interval * max_history_size) % Modulus

\* "none": no thread to join; the others are named after what renewKeys() does next.
Generator == {"none", "now", "dispatch", "push", "pushing", "pop", "popping", "arm", "ended"}

Keys(h) == {h[i] : i \in DOMAIN h}
InUse == Keys(history) \cup {new_info}

KPTypeOK ==
  /\ history \in Seq(Key)
  /\ Len(history) <= max_history_size + 1
  /\ age \in [Key -> Nat]
  /\ generator \in Generator
  /\ new_info \in Key \cup {Nil}
  /\ timer \in Nat \cup {Nil}
  /\ main \in {"constructor", "idle", "join"}
  /\ posted \in (Key \X Key) \cup {Nil}
  /\ announced \in ((Key \X Key) \X ((Key \cup {Nil}) \X (Key \cup {Nil}))) \cup {Nil}
  /\ answer \in Key \cup {Nil, "unread"}

\* The constructor has called loopGenerate() and is about to join the thread.
KPInit ==
  /\ history = <<>>
  /\ age = [k \in Key |-> 0]
  /\ generator = "now"
  /\ new_info = Nil
  /\ timer = Nil
  /\ main = "constructor"
  /\ posted = Nil
  /\ announced = Nil
  /\ answer = "unread"

-----------------------------------------------------------------------------
(***************************************************************************)
(* The generator thread: renewKeys().                                      *)
(***************************************************************************)

\* Looks at the clock and generates a key nobody has yet; that takes a while.
generateNewKey(k) ==
  /\ generator = "now"
  /\ k \notin InUse
  /\ new_info' = k
  /\ age' = [age EXCEPT ![k] = 0]
  /\ generator' = "dispatch"
  /\ UNCHANGED <<history, timer, main, posted, announced, answer>>

\* The generator thread does not run the io_service, so dispatch() posts.
dispatch ==
  /\ generator = "dispatch"
  /\ posted' = IF history # <<>> THEN <<history[1], new_info>> ELSE posted
  /\ generator' = "push"
  /\ UNCHANGED <<history, age, new_info, timer, main, announced, answer>>

\* A deque is not updated in one go: main may look at it in between.
push_front ==
  \/ /\ generator = "push"
     /\ generator' = "pushing"
     /\ UNCHANGED <<history, age, new_info, timer, main, posted, announced, answer>>
  \/ /\ generator = "pushing"
     /\ history' = <<new_info>> \o history
     /\ generator' = "pop"
     /\ UNCHANGED <<age, new_info, timer, main, posted, announced, answer>>

\* Mutant: one key fewer is kept.
TooMany_early(h) == Len(h) >= max_history_size

TooMany(h) == Len(h) > max_history_size

pop_back ==
  \/ /\ generator = "pop"
     /\ generator' = IF TooMany(history) THEN "popping" ELSE "arm"
     /\ UNCHANGED <<history, age, new_info, timer, main, posted, announced, answer>>
  \/ /\ generator = "popping"
     /\ history' = SubSeq(history, 1, Len(history) - 1)
     /\ age' = [age EXCEPT ![history[Len(history)]] = 0]
     /\ generator' = "arm"
     /\ UNCHANGED <<new_info, timer, main, posted, announced, answer>>

\* Mutants: the timer is set but not waited for; it is set too early.
TimeLeft_noWait(k) == Nil
TimeLeft_half(k) == expiration_interval \div 2

\* timer.expires_at() and async_wait() for the expiration time of the key.
TimeLeft(k) == IF age[k] < expiration_interval THEN expiration_interval - age[k] ELSE 0

\* The log line after it reads history.front(); then new_info is gone.
arm ==
  /\ generator = "arm"
  /\ timer' = TimeLeft(new_info)
  /\ generator' = "ended"
  /\ new_info' = Nil
  /\ UNCHANGED <<history, age, main, posted, announced, answer>>

renewKeys ==
  \/ \E k \in Key : generateNewKey(k)
  \/ dispatch \/ push_front \/ pop_back \/ arm

-----------------------------------------------------------------------------
(***************************************************************************)
(* The main thread.                                                        *)
(***************************************************************************)

\* The constructor returns once the first key is there.
constructed ==
  /\ main = "constructor"
  /\ generator = "ended"
  /\ main' = "idle"
  /\ generator' = "none"
  /\ UNCHANGED <<history, age, new_info, timer, posted, announced, answer>>

\* Mutant: a thread that has not been joined makes the handler do nothing.
loopGenerate_busy ==
  /\ main = "idle"
  /\ timer = 0
  /\ posted = Nil
  /\ timer' = Nil
  /\ main' = IF generator = "none" THEN "join" ELSE "idle"
  /\ UNCHANGED <<history, age, generator, new_info, posted, announced, answer>>

\* The timer has expired and its handler, loopGenerate(), gets to the join().
\* A lambda that was posted before the timer was set is ahead of it in the
\* queue of the io_service.
loopGenerate ==
  /\ main = "idle"
  /\ timer = 0
  /\ posted = Nil
  /\ timer' = Nil
  /\ main' = "join"
  /\ UNCHANGED <<history, age, generator, new_info, posted, announced, answer>>

\* The thread is joined and its successor started.
join ==
  /\ main = "join"
  /\ generator \in {"none", "ended"}
  /\ generator' = "now"
  /\ main' = "idle"
  /\ UNCHANGED <<history, age, new_info, timer, posted, announced, answer>>

\* What a reader of the deque gets while it is being updated is undefined:
\* any key, or bytes that are no key.
Torn == generator \in {"pushing", "popping"}

FrontRead == IF Torn THEN Key \cup {Nil} ELSE {IF history = <<>> THEN Nil ELSE history[1]}

\* The lambda captures new_info by reference: once renewKeys() has returned,
\* the reference dangles and may or may not still yield the key.
deliver ==
  /\ main = "idle"
  /\ posted # Nil
  /\ \E front \in FrontRead :
       \E new \in IF new_info = posted[2] THEN {new_info} ELSE {posted[2], Nil} :
         announced' = <<posted, <<front, new>>>>
  /\ posted' = Nil
  /\ UNCHANGED <<history, age, generator, new_info, timer, main, answer>>

\* A handler asks for the current key; no lock is taken.
getKeyInfo ==
  /\ main = "idle"
  /\ answer' \in FrontRead
  /\ UNCHANGED <<history, age, generator, new_info, timer, main, posted, announced>>

\* It asks for a recent key.
getRecentKeyInfo(k) ==
  /\ main = "idle"
  /\ answer' \in IF Torn THEN Key \cup {Nil} ELSE {IF k \in Keys(history) THEN k ELSE Nil}
  /\ UNCHANGED <<history, age, generator, new_info, timer, main, posted, announced>>

-----------------------------------------------------------------------------
\* One second.  The machine is never more than Slack late with a key.
Tick ==
  /\ new_info # Nil => age[new_info] < Slack
  /\ history # <<>> => age[history[1]] < expiration_interval + Slack
  /\ age' = [k \in Key |-> IF k \in InUse THEN age[k] + 1 ELSE age[k]]
  /\ timer' = IF timer \in Nat \ {0} THEN timer - 1 ELSE timer
  /\ UNCHANGED <<history, generator, new_info, main, posted, announced, answer>>

KPNext ==
  \/ renewKeys \/ constructed \/ loopGenerate \/ join \/ deliver \/ getKeyInfo \/ Tick
  \/ \E k \in Key : getRecentKeyInfo(k)

KPSpec == KPInit /\ [][KPNext]_keyVars

\* The system schedules both threads, io_service::run() gets to every handler
\* that is ready, and time passes.
KPFairness ==
  /\ WF_keyVars(renewKeys)
  /\ WF_keyVars(constructed)
  /\ WF_keyVars(loopGenerate)
  /\ WF_keyVars(join)
  /\ WF_keyVars(deliver)
  /\ WF_keyVars(Tick)

KPLiveSpec == KPSpec /\ KPFairness

-----------------------------------------------------------------------------
(***************************************************************************)
(* Properties.                                                             *)
(***************************************************************************)

\* The keys of the history differ, and each was current for at least the
\* renewal interval, however late the timer and the generation are.
HistorySpaced ==
  \A p, q \in DOMAIN history : p < q =>
    /\ history[p] # history[q]
    /\ age[history[q]] >= age[history[p]] + (q - p) * renew_interval

\* getKeyInfo(TH) finds a key until its lose_time: pop_back() takes away only
\* keys whose lose_time, which peers were told, has passed.
KeptUntilLost ==
  [][\A k \in Keys(history) \ Keys(history') : age[k] >= lose_interval]_keyVars

\* KeyProvider.h:75, "Current key is guaranteed to exist".
CurrentKeyExists == answer # Nil

\* KeyProvider.cpp:78, "Notify OverlaySocket about key rotation": the signal
\* passes the key that was current and the key that replaces it.
RotationAnnounced == announced # Nil => announced[1] = announced[2]

\* The chain from timer to thread to timer never breaks: when no generator
\* runs or is about to be started, somebody waits for the timer.
ChainUnbroken == generator \in {"none", "ended"} /\ main # "join" => timer # Nil

Current(k) == history # <<>> /\ history[1] = k

\* Every key stops being the current one: renewKeys() runs again and again.
KeysRotate == \A k \in Key : Current(k) ~> ~Current(k)
=============================================================================
