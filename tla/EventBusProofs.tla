--------------------------- MODULE EventBusProofs ---------------------------
(***************************************************************************)
(* What the bus promises to any number of subscriptions, events, threads   *)
(* and nested calls: lists of living subscriptions, dispatches that call   *)
(* each of them once and miss none, and a bus that is dead once a callback *)
(* waits for its own thread.                                               *)
(***************************************************************************)
EXTENDS EventBus, SequenceTheorems, FiniteSetTheorems, TLAPS

Members(list) == {list[k] : k \in DOMAIN list}
Once(list) == \A j, k \in DOMAIN list : list[j] = list[k] => j = k

\* How far a dispatch has come: the index of the subscription called last.
Reached(c) == IF c.at = "call" THEN c.i + 1 ELSE c.i

(***************************************************************************)
(* A dispatch c through a list: what has been heard is still listed and is *)
(* not behind the index, so that it is not called again; and up to the     *)
(* index all has been heard, unless somebody left.                         *)
(***************************************************************************)
CallOK(c, list) ==
    /\ c.heard \cup c.due \subseteq Members(list)
    /\ ~c.twice /\ Reached(c) <= Cardinality(Subs)
    /\ c.at = "wait" => c.heard = {} /\ c.i = 0 /\ ~c.disturbed
    /\ \A k \in DOMAIN list : Reached(c) < k => list[k] \notin c.heard
    /\ ~c.disturbed => /\ Reached(c) <= Len(list)
                       /\ \A k \in 1 .. Reached(c) : list[k] \in c.heard

CallRecords ==
    [op : Operations, event : Events, sub : Subs \cup {Nobody}, 
     at : {"wait", "loop", "call"}, i : Nat, heard : SUBSET Subs, 
     due : SUBSET Subs, twice : BOOLEAN, disturbed : BOOLEAN]
-----------------------------------------------------------------------------
(***************************************************************************)
(* Lists                                                                   *)
(***************************************************************************)

\* A list without repetition is no longer than there are subscriptions.
LEMMA OnceLength ==
    ASSUME NEW list \in Seq(Subs), Once(list)
    PROVE  /\ Cardinality(Members(list)) = Len(list)
           /\ Len(list) <= Cardinality(Subs)
           /\ Cardinality(Subs) \in Nat
<1>1. IsFiniteSet(Subs)
  BY BusAssumption
<1>2. Len(list) \in Nat /\ DOMAIN list = 1 .. Len(list) /\ list \in [1 .. Len(list) -> Subs]
  BY LenProperties
<1>3. list \in Bijection(1 .. Len(list), Members(list))
  BY <1>2 DEF Members, Once, Bijection, Injection, Surjection, IsInjective
<1>4. IsFiniteSet(1 .. Len(list)) /\ Cardinality(1 .. Len(list)) = Len(list)
  <2>1. Len(list) \in Int /\ 1 \in Int
    BY <1>2
  <2>2. Cardinality(1 .. Len(list)) = IF 1 > Len(list) THEN 0 ELSE Len(list) - 1 + 1
    BY <2>1, FS_Interval
  <2> QED BY <1>2, <2>1, <2>2, FS_Interval
<1>5. Cardinality(Members(list)) = Len(list)
  BY <1>3, <1>4, FS_Bijection DEF ExistsBijection
<1>6. Members(list) \in SUBSET Subs
  BY <1>2 DEF Members
<1> QED BY <1>1, <1>5, <1>6, FS_Subset, FS_CardinalityType

\* What HeapBuffer::remove() does to a list.
LEMMA WithoutKeeps ==
    ASSUME NEW list \in Seq(Subs), Once(list), NEW s \in Subs
    PROVE  /\ Without(list, s) \in Seq(Subs) /\ Once(Without(list, s))
           /\ Members(Without(list, s)) = Members(list) \ {s}
           /\ s \notin Members(list) => Without(list, s) = list
           /\ \A k \in DOMAIN Without(list, s) : 
                 /\ k \in DOMAIN list
                 /\ Without(list, s)[k] = list[k] \/ Without(list, s)[k] = list[Len(list)]
<1> DEFINE n == Len(list)
<1>1. n \in Nat /\ DOMAIN list = 1 .. n /\ list \in [1 .. n -> Subs]
  BY LenProperties
<1>2. CASE s \notin Members(list)
  BY <1>1, <1>2 DEF Without, Members
<1>3. CASE s \in Members(list)
  <2>1. PICK gap \in 1 .. n : list[gap] = s
    BY <1>1, <1>3 DEF Members
  <2>2. \A j \in 1 .. n : list[j] = s <=> j = gap
    BY <1>1, <2>1 DEF Once
  <2>3. gap = CHOOSE k \in DOMAIN list : list[k] = s /\ \A j \in 1 .. k - 1 : list[j] # s
    <3> DEFINE First(k) == list[k] = s /\ \A j \in 1 .. k - 1 : list[j] # s
    <3>1. First(gap) /\ \A k \in DOMAIN list : First(k) => k = gap
      BY <1>1, <2>1, <2>2
    <3> HIDE DEF First
    <3>2. gap = CHOOSE k \in DOMAIN list : First(k)
      BY <1>1, <2>1, <3>1
    <3> QED BY <3>2 DEF First
  <2> DEFINE w == [k \in 1 .. n - 1 |-> IF k = gap THEN list[n] ELSE list[k]]
  <2>4. Without(list, s) = w
    BY <1>1, <2>1, <2>3 DEF Without
  <2>5. w \in Seq(Subs) /\ DOMAIN w = 1 .. n - 1
    <3>1. w \in [1 .. n - 1 -> Subs] /\ n - 1 \in Nat
      BY <1>1, <2>1
    <3> QED BY <3>1, SeqDef
  <2>6. \A k \in 1 .. n - 1 : w[k] = IF k = gap THEN list[n] ELSE list[k]
    OBVIOUS
  <2>7. \A j, k \in 1 .. n : list[j] = list[k] => j = k
    BY <1>1 DEF Once
  <2> HIDE DEF w
  <2>8. Once(w)
    BY <1>1, <2>1, <2>5, <2>6, <2>7 DEF Once
  <2>9. Members(w) = Members(list) \ {s}
    <3>1. \A k \in 1 .. n - 1 : w[k] \in Members(list) /\ w[k] # s
      BY <1>1, <2>1, <2>2, <2>6 DEF Members
    <3>2. ASSUME NEW k \in 1 .. n, list[k] # s PROVE \E j \in 1 .. n - 1 : w[j] = list[k]
      BY <1>1, <2>1, <2>6, <3>2
    <3>3. ASSUME NEW x \in Members(w) PROVE x \in Members(list) \ {s}
      BY <2>5, <3>1, <3>3 DEF Members
    <3>4. ASSUME NEW x \in Members(list), x # s PROVE x \in Members(w)
      BY <1>1, <2>5, <3>2, <3>4 DEF Members
    <3> QED BY <3>3, <3>4
  <2> QED BY <1>1, <1>3, <2>4, <2>5, <2>6, <2>8, <2>9
<1> QED BY <1>2, <1>3

LEMMA AppendKeeps ==
    ASSUME NEW list \in Seq(Subs), Once(list), NEW s \in Subs, s \notin Members(list)
    PROVE  /\ Append(list, s) \in Seq(Subs) /\ Once(Append(list, s))
           /\ Members(Append(list, s)) = Members(list) \cup {s}
           /\ Len(Append(list, s)) = Len(list) + 1
           /\ Append(list, s)[Len(list) + 1] = s
           /\ \A k \in 1 .. Len(list) : Append(list, s)[k] = list[k]
<1> DEFINE n == Len(list)
           a == Append(list, s)
<1>1. n \in Nat /\ DOMAIN list = 1 .. n
  BY LenProperties
<1>2. /\ a \in Seq(Subs) /\ Len(a) = n + 1 /\ a[n + 1] = s
      /\ \A k \in 1 .. n : a[k] = list[k]
  BY AppendProperties
<1>3. DOMAIN a = 1 .. n + 1
  BY <1>2, LenProperties
<1> HIDE DEF n, a
<1>4. \A k \in 1 .. n + 1 : k = n + 1 \/ k \in 1 .. n
  BY <1>1
<1>5. Members(a) = Members(list) \cup {s}
  <2>1. \A k \in 1 .. n + 1 : a[k] \in Members(list) \cup {s}
    BY <1>1, <1>2, <1>4 DEF Members
  <2>2. \A k \in 1 .. n : k \in 1 .. n + 1 /\ n + 1 \in 1 .. n + 1
    BY <1>1
  <2>3. n + 1 \in 1 .. n + 1
    BY <1>1
  <2> QED BY <1>1, <1>2, <1>3, <2>1, <2>2, <2>3 DEF Members
<1>6. Once(a)
  BY <1>1, <1>2, <1>3, <1>4 DEF Once, Members
<1> QED BY <1>2, <1>5, <1>6 DEF n, a
-----------------------------------------------------------------------------
(***************************************************************************)
(* Dispatches                                                              *)
(***************************************************************************)
LEMMA CallBegins ==
    ASSUME NEW op, NEW e \in Events, NEW s, NEW list \in Seq(Subs), Once(list),
           Members(list) = Listed(e)
    PROVE  CallOK(NewCall(op, e, s), list)
<1>1. Len(list) \in Nat /\ Cardinality(Subs) \in Nat
  BY OnceLength, LenProperties
<1> QED BY <1>1 DEF CallOK, NewCall, Reached

\* Somebody new is called later.
LEMMA CallAppends ==
    ASSUME NEW list \in Seq(Subs), Once(list), NEW s \in Subs, s \notin Members(list),
           NEW c \in CallRecords, CallOK(c, list)
    PROVE  CallOK(c, Append(list, s))
<1> DEFINE n == Len(list)
           a == Append(list, s)
<1>1. /\ n \in Nat /\ DOMAIN list = 1 .. n
      /\ a \in Seq(Subs) /\ Members(a) = Members(list) \cup {s} 
      /\ Len(a) = n + 1 /\ DOMAIN a = 1 .. n + 1
      /\ a[n + 1] = s /\ \A k \in 1 .. n : a[k] = list[k]
  BY AppendKeeps, LenProperties
<1>2. Reached(c) \in Nat
  BY DEF Reached, CallRecords
<1> HIDE DEF n, a
<1>3. s \notin c.heard
  BY DEF CallOK
<1>4. \A k \in 1 .. n + 1 : k = n + 1 \/ k \in 1 .. n
  BY <1>1
<1>5. \A k \in DOMAIN a : Reached(c) < k => a[k] \notin c.heard
  BY <1>1, <1>3, <1>4 DEF CallOK
<1>6. ~c.disturbed => Reached(c) <= Len(a) /\ \A k \in 1 .. Reached(c) : a[k] \in c.heard
  <2>1. ~c.disturbed => Reached(c) <= n /\ \A k \in 1 .. Reached(c) : list[k] \in c.heard
    BY DEF CallOK, n
  <2>2. ~c.disturbed => \A k \in 1 .. Reached(c) : k \in 1 .. n
    BY <1>1, <1>2, <2>1
  <2> QED BY <1>1, <1>2, <2>1, <2>2
<1> QED BY <1>1, <1>5, <1>6 DEF CallOK, a

\* Somebody leaves, and the last one fills the gap: it was called before only
\* if the gap is behind the index too.
LEMMA CallLoses ==
    ASSUME NEW list \in Seq(Subs), Once(list), NEW s \in Subs,
           NEW c \in CallRecords, CallOK(c, list), c.event = mEventId[s]
    PROVE  CallOK(Missing(c, s), Without(list, s))
<1> DEFINE w == Without(list, s)
           d == Missing(c, s)
           n == Len(list)
<1>1. /\ w \in Seq(Subs) /\ Members(w) = Members(list) \ {s}
      /\ \A k \in DOMAIN w : /\ k \in DOMAIN list
                             /\ w[k] = list[k] \/ w[k] = list[n]
  BY WithoutKeeps
<1>2. n \in Nat /\ DOMAIN list = 1 .. n
  BY LenProperties
<1>3. Len(w) \in Nat /\ DOMAIN w = 1 .. Len(w)
  BY <1>1, LenProperties
<1>4. /\ d.heard = c.heard \ {s} /\ d.due = c.due \ {s} 
      /\ d.twice = c.twice /\ d.at = c.at /\ d.i = c.i
      /\ d.disturbed = (c.disturbed \/ c.at # "wait")
  BY DEF Missing, CallRecords
<1> HIDE DEF w, d, n
<1>5. Reached(d) = Reached(c) /\ Reached(c) \in Nat
  BY <1>4 DEF Reached, CallRecords
<1>6. \A k \in DOMAIN w : Reached(d) < k => w[k] \notin d.heard
  <2> SUFFICES ASSUME NEW k \in DOMAIN w, Reached(c) < k PROVE w[k] \notin c.heard
    BY <1>4, <1>5
  <2>1. k \in 1 .. n /\ n \in DOMAIN list /\ Reached(c) < n
    BY <1>1, <1>2, <1>5
  <2> QED BY <1>1, <1>2, <2>1 DEF CallOK
<1>7. d.at = "wait" => d.heard = {} /\ d.i = 0 /\ ~d.disturbed
  BY <1>4 DEF CallOK
<1>8. ~d.disturbed => Reached(d) <= Len(w) /\ \A k \in 1 .. Reached(d) : w[k] \in d.heard
  <2> SUFFICES ASSUME ~d.disturbed PROVE Reached(d) = 0
    BY <1>3
  <2>1. d.at = "wait"
    BY <1>4
  <2> QED BY <1>7, <2>1 DEF Reached
<1>9. /\ d.heard \cup d.due \subseteq Members(w)
      /\ ~d.twice /\ Reached(d) <= Cardinality(Subs)
  BY <1>1, <1>4, <1>5 DEF CallOK
<1> QED BY <1>6, <1>7, <1>8, <1>9 DEF CallOK, w, d

LEMMA CallElsewhere ==
    ASSUME NEW list \in Seq(Subs), NEW s \in Subs, s \notin Members(list),
           NEW c \in CallRecords, CallOK(c, list), c.event # mEventId[s]
    PROVE  CallOK(Missing(c, s), list)
<1> DEFINE d == Missing(c, s)
<1>1. s \notin c.heard /\ s \notin c.due
  BY DEF CallOK
<1>2. /\ d.heard = c.heard /\ d.due = c.due
      /\ d.twice = c.twice /\ d.at = c.at /\ d.i = c.i
      /\ d.disturbed = c.disturbed
  BY <1>1 DEF Missing, CallRecords
<1> HIDE DEF d
<1>3. Reached(d) = Reached(c)
  BY <1>2 DEF Reached
<1>4. CallOK(d, list)
  BY <1>2, <1>3 DEF CallOK
<1> QED BY <1>4 DEF d

\* The steps of the loop.
LEMMA CallLoops ==
    ASSUME NEW list \in Seq(Subs), NEW c \in CallRecords, CallOK(c, list), 
           c.at = "wait"
    PROVE  CallOK([c EXCEPT !.at = "loop"], list)
BY DEF CallOK, Reached, CallRecords

LEMMA CallCalls ==
    ASSUME NEW list \in Seq(Subs), Once(list), NEW c \in CallRecords, CallOK(c, list), 
           c.at = "loop", c.i < Len(list)
    PROVE  LET s == list[c.i + 1] 
               d == [c EXCEPT !.at = "call", !.heard = @ \cup {s}, 
                              !.twice = @ \/ s \in c.heard]
           IN  CallOK(d, list) /\ d \in CallRecords
<1> DEFINE n == Len(list)
           s == list[c.i + 1]
           d == [c EXCEPT !.at = "call", !.heard = @ \cup {s}, 
                          !.twice = @ \/ s \in c.heard]
<1>1. n \in Nat /\ DOMAIN list = 1 .. n /\ list \in [1 .. n -> Subs]
  BY LenProperties
<1>2. c.i \in Nat /\ c.i + 1 \in 1 .. n
  BY <1>1 DEF CallRecords
<1>3. s \in Subs /\ s \in Members(list) /\ s \notin c.heard
  BY <1>1, <1>2 DEF Members, CallOK, Reached
<1>4. /\ d.heard = c.heard \cup {s} /\ d.due = c.due
      /\ d.twice = (c.twice \/ s \in c.heard) /\ d.at = "call" /\ d.i = c.i
      /\ d.disturbed = c.disturbed
  BY DEF CallRecords
<1>5. d \in CallRecords
  BY <1>3 DEF CallRecords
<1>6. Reached(c) = c.i /\ Reached(d) = c.i + 1
  BY <1>4 DEF Reached
<1>7. \A j, k \in 1 .. n : list[j] = list[k] => j = k
  BY <1>1 DEF Once
<1> HIDE DEF d, n
<1>8. c.i + 1 <= Cardinality(Subs) 
  BY <1>2, OnceLength DEF n
<1>9. \A k \in DOMAIN list : Reached(d) < k => list[k] \notin d.heard
  <2> SUFFICES ASSUME NEW k \in 1 .. n, c.i + 1 < k PROVE list[k] \notin c.heard /\ list[k] # s
    BY <1>1, <1>4, <1>6
  <2> QED BY <1>1, <1>2, <1>6, <1>7 DEF CallOK
<1>10. ~d.disturbed => Reached(d) <= Len(list) /\ \A k \in 1 .. Reached(d) : list[k] \in d.heard
  <2>1. \A k \in 1 .. c.i + 1 : k = c.i + 1 \/ k \in 1 .. c.i
    BY <1>2
  <2> QED BY <1>2, <1>4, <1>6, <2>1 DEF CallOK, n
<1>11. CallOK(d, list)
  BY <1>3, <1>4, <1>6, <1>8, <1>9, <1>10 DEF CallOK
<1> QED BY <1>5, <1>11 DEF d

LEMMA CallReturns ==
    ASSUME NEW list \in Seq(Subs), NEW c \in CallRecords, CallOK(c, list), 
           c.at = "call"
    PROVE  CallOK([c EXCEPT !.at = "loop", !.i = @ + 1], list)
<1> DEFINE d == [c EXCEPT !.at = "loop", !.i = @ + 1]
<1>1. /\ d.heard = c.heard /\ d.due = c.due /\ d.twice = c.twice 
      /\ d.at = "loop" /\ d.i = c.i + 1 /\ d.disturbed = c.disturbed
  BY DEF CallRecords
<1>2. Reached(d) = Reached(c)
  BY <1>1 DEF Reached
<1> HIDE DEF d
<1>3. CallOK(d, list)
  BY <1>1, <1>2 DEF CallOK
<1> QED BY <1>3 DEF d
-----------------------------------------------------------------------------
(***************************************************************************)
(* The inductive invariant                                                 *)
(***************************************************************************)
BusType ==
    /\ use \in Uses
    /\ mEvents \in [Events -> Seq(Subs)]
    /\ holder \in Threads \cup {Nobody}
    /\ life \in [Subs -> Life]
    /\ calls \in [Threads -> Seq(CallRecords)]
    /\ \A t \in Threads : Len(calls[t]) <= MaxDepth

\* Calls under others are callbacks, and constructors and destructors have
\* told their subscription.
Stacked == \A t \in Threads : \A k \in 1 .. Len(calls[t]) :
    LET c == calls[t][k] IN
    /\ k < Len(calls[t]) => c.at = "call"
    /\ c.op # "fire" => c.at = "wait" /\ c.sub \in Subs /\ c.event = mEventId[c.sub]
    /\ c.op = "subscribe" => life[c.sub] = "coming"
    /\ c.op = "unsubscribe" => life[c.sub] = "going"

\* One constructor or destructor runs for a subscription.
Changes(t) == calls[t] # <<>> /\ Top(t).op # "fire"
Distinct == \A t, u \in Threads :
    Changes(t) /\ Changes(u) /\ Top(t).sub = Top(u).sub => t = u

ListsOK == \A e \in Events :
    /\ Members(mEvents[e]) \subseteq {s \in Subs : mEventId[s] = e /\ life[s] \in {"there", "going"}}
    /\ {s \in Subs : mEventId[s] = e /\ life[s] = "there"} \subseteq Members(mEvents[e])
    /\ Once(mEvents[e])

CallsOK == \A t \in Threads : \A k \in 1 .. Len(calls[t]) :
    CallOK(calls[t][k], mEvents[calls[t][k].event])

\* A Mutex is held by the one thread that is past it, in its outermost call.
Locked ==
    /\ holder # Nobody => use.excludes
    /\ use.excludes => \A t \in Threads : \A k \in 1 .. Len(calls[t]) :
          calls[t][k].at # "wait" => k = 1 /\ holder = t

Alone == Aloof => \A t \in Threads : \A k \in 1 .. Len(calls[t]) :
    k = 1 /\ ~calls[t][k].disturbed

BusInv == BusType /\ Stacked /\ Distinct /\ ListsOK /\ CallsOK /\ Locked /\ Alone
-----------------------------------------------------------------------------
(***************************************************************************)
(* Stacks                                                                  *)
(***************************************************************************)
LEMMA Entered ==
    ASSUME BusType, NEW t \in Threads, NEW c \in CallRecords, Enter(t, c)
    PROVE  /\ calls' \in [Threads -> Seq(CallRecords)]
           /\ \A u \in Threads \ {t} : calls'[u] = calls[u]
           /\ Len(calls[t]) \in Nat /\ Len(calls'[t]) = Len(calls[t]) + 1
           /\ calls'[t][Len(calls[t]) + 1] = c
           /\ \A k \in 1 .. Len(calls[t]) : calls'[t][k] = calls[t][k]
<1>1. calls[t] \in Seq(CallRecords) 
  BY DEF BusType
<1>2. calls' = [calls EXCEPT ![t] = Append(calls[t], c)]
  BY DEF Enter
<1>3. calls'[t] = Append(calls[t], c) /\ \A u \in Threads \ {t} : calls'[u] = calls[u]
  BY <1>2 DEF BusType
<1>4. calls'[t] \in Seq(CallRecords)
  BY <1>1, <1>3, AppendProperties
<1>5. calls' \in [Threads -> Seq(CallRecords)]
  BY <1>1, <1>2, AppendProperties DEF BusType
<1> QED BY <1>1, <1>3, <1>5, AppendProperties, LenProperties

LEMMA Continued ==
    ASSUME BusType, NEW t \in Threads, Busy(t), NEW c \in CallRecords, Continue(t, c)
    PROVE  /\ calls' \in [Threads -> Seq(CallRecords)]
           /\ \A u \in Threads \ {t} : calls'[u] = calls[u]
           /\ Len(calls[t]) \in Nat \ {0} /\ Len(calls'[t]) = Len(calls[t])
           /\ \A k \in 1 .. Len(calls[t]) : 
                 calls'[t][k] = IF k = Len(calls[t]) THEN c ELSE calls[t][k]
<1>1. calls[t] \in Seq(CallRecords) /\ calls[t] # <<>>
  BY DEF BusType, Busy
<1>2. Len(calls[t]) \in Nat \ {0} /\ Len(calls[t]) \in 1 .. Len(calls[t])
  BY <1>1, EmptySeq
<1> DEFINE stack == [calls[t] EXCEPT ![Len(calls[t])] = c]
<1>3. calls' = [calls EXCEPT ![t] = stack]
  BY DEF Continue
<1>4. /\ stack \in Seq(CallRecords) /\ Len(stack) = Len(calls[t])
      /\ \A k \in 1 .. Len(calls[t]) : stack[k] = IF k = Len(calls[t]) THEN c ELSE calls[t][k]
  BY <1>1, <1>2, ExceptSeq
<1> HIDE DEF stack
<1>5. calls'[t] = stack /\ \A u \in Threads \ {t} : calls'[u] = calls[u]
  BY <1>3 DEF BusType
<1> QED BY <1>2, <1>3, <1>4, <1>5 DEF BusType

LEMMA Left ==
    ASSUME BusType, NEW t \in Threads, Busy(t), Leave(t)
    PROVE  /\ calls' \in [Threads -> Seq(CallRecords)]
           /\ \A u \in Threads \ {t} : calls'[u] = calls[u]
           /\ Len(calls[t]) \in Nat \ {0} /\ Len(calls'[t]) = Len(calls[t]) - 1
           /\ \A k \in 1 .. Len(calls[t]) - 1 : calls'[t][k] = calls[t][k]
<1>1. calls[t] \in Seq(CallRecords) /\ calls[t] # <<>>
  BY DEF BusType, Busy
<1>2. Len(calls[t]) \in Nat \ {0} /\ calls[t] \in [1 .. Len(calls[t]) -> CallRecords]
  BY <1>1, EmptySeq, LenProperties
<1> DEFINE stack == SubSeq(calls[t], 1, Len(calls[t]) - 1)
<1>3. calls' = [calls EXCEPT ![t] = stack]
  BY DEF Leave
<1>4. \A k \in 1 .. Len(calls[t]) - 1 : calls[t][k] \in CallRecords
  BY <1>2
<1>5. /\ stack \in Seq(CallRecords) /\ Len(stack) = Len(calls[t]) - 1
      /\ \A k \in 1 .. Len(calls[t]) - 1 : stack[k] = calls[t][k]
  <2>1. 1 \in Int /\ Len(calls[t]) - 1 \in Int
    BY <1>2
  <2> QED BY <1>2, <1>4, <2>1, SubSeqProperties
<1> HIDE DEF stack
<1>6. calls'[t] = stack /\ \A u \in Threads \ {t} : calls'[u] = calls[u]
  BY <1>3 DEF BusType
<1> QED BY <1>2, <1>3, <1>5, <1>6 DEF BusType
-----------------------------------------------------------------------------
(***************************************************************************)
(* What the steps have in common                                           *)
(***************************************************************************)
LEMMA Tops ==
    ASSUME BusType, NEW t \in Threads, Busy(t)
    PROVE  /\ Len(calls[t]) \in Nat /\ Len(calls[t]) \in 1 .. Len(calls[t])
           /\ Top(t) = calls[t][Len(calls[t])] /\ Top(t) \in CallRecords
<1>1. calls[t] \in Seq(CallRecords) /\ calls[t] # <<>>
  BY DEF BusType, Busy
<1>2. Len(calls[t]) \in Nat \ {0} /\ calls[t] \in [1 .. Len(calls[t]) -> CallRecords]
  BY <1>1, EmptySeq, LenProperties
<1> QED BY <1>2 DEF Top

LEMMA CallTypes ==
    ASSUME BusType, NEW t \in Threads
    PROVE  /\ Len(calls[t]) \in Nat 
           /\ \A k \in 1 .. Len(calls[t]) : calls[t][k] \in CallRecords
BY LenProperties DEF BusType

\* The life of a subscription that is neither coming nor going may change.
LEMMA EnterKeeps ==
    ASSUME BusInv, NEW t \in Threads, NEW op \in Operations, NEW e \in Events, 
           NEW s \in Subs \cup {Nobody}, Calls(t, op), Enter(t, NewCall(op, e, s)),
           UNCHANGED <<use, mEvents, holder>>
    PROVE  /\ calls' \in [Threads -> Seq(CallRecords)]
           /\ \A u \in Threads : Len(calls'[u]) <= MaxDepth
           /\ CallsOK' /\ Locked' /\ Alone'
           /\ \A k \in 1 .. Len(calls[t]) : calls[t][k].at = "call"
<1> USE DEF BusInv
<1> DEFINE c == NewCall(op, e, s)
<1>1. c \in CallRecords
  <2>1. Listed(e) \subseteq Subs
    BY LenProperties DEF BusType, Listed
  <2> QED BY <2>1 DEF NewCall, CallRecords
<1>2. /\ calls' \in [Threads -> Seq(CallRecords)]
      /\ \A u \in Threads \ {t} : calls'[u] = calls[u]
      /\ Len(calls[t]) \in Nat /\ Len(calls'[t]) = Len(calls[t]) + 1
      /\ calls'[t][Len(calls[t]) + 1] = c
      /\ \A k \in 1 .. Len(calls[t]) : calls'[t][k] = calls[t][k]
  BY <1>1, Entered
<1>3. c.at = "wait" /\ c.event = e /\ c.disturbed = FALSE
  BY DEF NewCall
<1>4. CallOK(c, mEvents[e])
  <2>1. mEvents[e] \in Seq(Subs) /\ Once(mEvents[e])
    BY DEF ListsOK, BusType
  <2>2. Members(mEvents[e]) = Listed(e)
    BY DEF Members, Listed
  <2> QED BY <2>1, <2>2, CallBegins
<1> HIDE DEF c
<1>5. \A k \in 1 .. Len(calls'[t]) : k = Len(calls[t]) + 1 \/ k \in 1 .. Len(calls[t])
  BY <1>2
<1>6. CallsOK'
  BY <1>2, <1>3, <1>4, <1>5 DEF CallsOK
<1>7. Locked'
  BY <1>2, <1>3, <1>5 DEF Locked
<1>8. Len(calls[t]) = 0 \/ (Busy(t) /\ Top(t).at = "call" /\ op \in use.reenters /\ Len(calls[t]) < MaxDepth)
  BY DEF Calls, Busy, BusType
<1>9. \A u \in Threads : Len(calls'[u]) <= MaxDepth
  BY <1>2, <1>8, BusAssumption DEF BusType
<1>10. Alone'
  <2> SUFFICES ASSUME Aloof' PROVE Alone'
    BY DEF Alone
  <2>1. Aloof /\ Len(calls[t]) = 0
    BY <1>8 DEF Aloof
  <2>2. \A k \in 1 .. Len(calls'[t]) : k = 1 /\ ~calls'[t][k].disturbed
    BY <1>2, <1>3, <1>5, <2>1
  <2>3. \A u \in Threads \ {t} : \A k \in 1 .. Len(calls'[u]) : k = 1 /\ ~calls'[u][k].disturbed
    BY <1>2, <2>1 DEF Alone
  <2> QED BY <2>2, <2>3 DEF Alone
<1>11. \A k \in 1 .. Len(calls[t]) : calls[t][k].at = "call"
  BY <1>2, <1>8 DEF Stacked, Top
<1> QED BY <1>2, <1>6, <1>7, <1>9, <1>10, <1>11

LEMMA ContinueKeeps ==
    ASSUME BusInv, NEW t \in Threads, Busy(t), NEW c \in CallRecords, Continue(t, c),
           Top(t).op = "fire", c.op = "fire", c.event = Top(t).event,
           c.disturbed = Top(t).disturbed,
           CallOK(c, mEvents[c.event]), UNCHANGED <<use, mEvents, life>>
    PROVE  /\ calls' \in [Threads -> Seq(CallRecords)]
           /\ \A u \in Threads : Len(calls'[u]) <= MaxDepth
           /\ Stacked' /\ Distinct' /\ ListsOK' /\ CallsOK' /\ Alone'
<1> USE DEF BusInv
<1>1. /\ calls' \in [Threads -> Seq(CallRecords)]
      /\ \A u \in Threads \ {t} : calls'[u] = calls[u]
      /\ Len(calls[t]) \in Nat \ {0} /\ Len(calls'[t]) = Len(calls[t])
      /\ \A k \in 1 .. Len(calls[t]) : 
            calls'[t][k] = IF k = Len(calls[t]) THEN c ELSE calls[t][k]
  BY Continued
<1>2. Len(calls[t]) \in 1 .. Len(calls[t]) /\ Top(t) = calls[t][Len(calls[t])]
  BY Tops
<1>3. \A u \in Threads : Len(calls'[u]) <= MaxDepth
  BY <1>1 DEF BusType
<1>4. Stacked'
  <2>1. \A u \in Threads \ {t} : Len(calls'[u]) = Len(calls[u])
    BY <1>1
  <2>2. \A k \in 1 .. Len(calls[t]) : k < Len(calls[t]) => calls'[t][k] = calls[t][k]
    BY <1>1
  <2>3. \A k \in 1 .. Len(calls[t]) : ~(k < Len(calls[t])) => calls'[t][k] = c
    BY <1>1
  <2> QED BY <1>1, <2>1, <2>2, <2>3 DEF Stacked
<1>5. ~Changes(t)' /\ \A u \in Threads \ {t} : Changes(u)' = Changes(u) /\ Top(u)' = Top(u)
  BY <1>1, <1>2 DEF Changes, Top
<1>6. Distinct'
  BY <1>5 DEF Distinct
<1>7. ListsOK'
  BY DEF ListsOK
<1>8. CallsOK'
  BY <1>1 DEF CallsOK
<1>9. Alone'
  BY <1>1, <1>2 DEF Alone, Aloof
<1> QED BY <1>1, <1>3, <1>4, <1>6, <1>7, <1>8, <1>9

LEMMA LeaveKeeps ==
    ASSUME BusInv, NEW t \in Threads, Busy(t), Leave(t), UNCHANGED use
    PROVE  /\ calls' \in [Threads -> Seq(CallRecords)]
           /\ \A u \in Threads : Len(calls'[u]) <= MaxDepth
           /\ Distinct' /\ Alone'
           /\ \A u \in Threads : \A k \in 1 .. Len(calls'[u]) :
                 /\ k \in 1 .. Len(calls[u]) /\ calls'[u][k] = calls[u][k]
                 /\ k < Len(calls'[u]) => k < Len(calls[u])
                 /\ u = t => k < Len(calls[t]) /\ calls[t][k].at = "call" /\ calls[t][k].op = "fire"
<1> USE DEF BusInv
<1>1. /\ calls' \in [Threads -> Seq(CallRecords)]
      /\ \A u \in Threads \ {t} : calls'[u] = calls[u]
      /\ Len(calls[t]) \in Nat \ {0} /\ Len(calls'[t]) = Len(calls[t]) - 1
      /\ \A k \in 1 .. Len(calls[t]) - 1 : calls'[t][k] = calls[t][k]
  BY Left
<1>2. \A u \in Threads : Len(calls'[u]) <= MaxDepth
  <2>1. Len(calls'[t]) <= MaxDepth
    BY <1>1, BusAssumption DEF BusType
  <2> QED BY <1>1, <2>1 DEF BusType
<1>3. ASSUME NEW k \in 1 .. Len(calls'[t])
      PROVE  /\ k \in 1 .. Len(calls[t]) /\ calls'[t][k] = calls[t][k] /\ k < Len(calls[t])
             /\ calls[t][k].at = "call" /\ calls[t][k].op = "fire"
  <2>1. k \in 1 .. Len(calls[t]) /\ k < Len(calls[t]) /\ k \in 1 .. Len(calls[t]) - 1
    BY <1>1
  <2>2. calls[t][k].at = "call"
    BY <2>1 DEF Stacked
  <2>3. calls[t][k].op = "fire"
    BY <2>1, <2>2 DEF Stacked
  <2> QED BY <1>1, <2>1, <2>2, <2>3
<1>4. ~Changes(t)' /\ \A u \in Threads \ {t} : Changes(u)' = Changes(u) /\ Top(u)' = Top(u)
  <2>1. ASSUME calls'[t] # <<>> PROVE Top(t)'.op = "fire"
    <3>1. Len(calls'[t]) \in 1 .. Len(calls'[t])
      BY <1>1, <2>1, EmptySeq
    <3> QED BY <1>3, <3>1 DEF Top
  <2> QED BY <1>1, <2>1 DEF Changes, Top
<1>5. Distinct'
  BY <1>4 DEF Distinct
<1>6. ASSUME NEW u \in Threads, NEW k \in 1 .. Len(calls'[u])
      PROVE  /\ k \in 1 .. Len(calls[u]) /\ calls'[u][k] = calls[u][k]
             /\ k < Len(calls'[u]) => k < Len(calls[u])
             /\ u = t => k < Len(calls[t]) /\ calls[t][k].at = "call" /\ calls[t][k].op = "fire"
  <2>1. CASE u = t  BY <1>3, <2>1
  <2>2. CASE u # t  BY <1>1, <2>2
  <2> QED BY <2>1, <2>2
<1>7. Alone'
  BY <1>6 DEF Alone, Aloof
<1> QED BY <1>1, <1>2, <1>5, <1>6, <1>7
-----------------------------------------------------------------------------
(***************************************************************************)
(* Every step keeps the invariant                                          *)
(***************************************************************************)

\* A constructor or destructor is entered: its subscription is told so, and
\* nobody else's.
LEMMA ChangeBegins ==
    ASSUME BusInv, NEW t \in Threads, NEW s \in Subs, NEW op \in {"subscribe", "unsubscribe"},
           Calls(t, op), Enter(t, NewCall(op, mEventId[s], s)),
           life[s] \notin {"coming", "going"},
           life' = [life EXCEPT ![s] = IF op = "subscribe" THEN "coming" ELSE "going"],
           op = "subscribe" => life[s] = "none",
           UNCHANGED <<use, mEvents, holder>>
    PROVE  BusInv'
<1> USE DEF BusInv
<1> DEFINE c == NewCall(op, mEventId[s], s)
           m == Len(calls[t]) + 1
<1>1. c \in CallRecords /\ c.op = op /\ c.sub = s /\ c.event = mEventId[s] /\ c.at = "wait"
  BY BusAssumption DEF NewCall, CallRecords, Operations
<1>2. /\ calls' \in [Threads -> Seq(CallRecords)]
      /\ \A u \in Threads \ {t} : calls'[u] = calls[u]
      /\ Len(calls[t]) \in Nat /\ Len(calls'[t]) = m
      /\ calls'[t][m] = c
      /\ \A k \in 1 .. Len(calls[t]) : calls'[t][k] = calls[t][k]
  BY <1>1, Entered
<1>3. /\ \A u \in Threads : Len(calls'[u]) <= MaxDepth
      /\ CallsOK' /\ Locked' /\ Alone'
      /\ \A k \in 1 .. Len(calls[t]) : calls[t][k].at = "call"
  BY <1>1, EnterKeeps, BusAssumption DEF Operations
<1> HIDE DEF c
<1>4. /\ life' \in [Subs -> Life] /\ \A r \in Subs \ {s} : life'[r] = life[r]
      /\ life'[s] = IF op = "subscribe" THEN "coming" ELSE "going"
  BY DEF BusType, Life
<1>5. BusType'
  BY <1>2, <1>3, <1>4 DEF BusType
<1>6. \A u \in Threads : \A k \in 1 .. Len(calls[u]) :
         calls[u][k].op # "fire" => calls[u][k].sub \in Subs /\ calls[u][k].sub # s
  BY CallTypes DEF Stacked, CallRecords, Operations
<1>7. Stacked'
  <2>1. \A u \in Threads : \A k \in 1 .. Len(calls[u]) :
           LET d == calls[u][k] IN
           /\ d.op # "fire" => d.at = "wait" /\ d.sub \in Subs /\ d.event = mEventId[d.sub]
           /\ d.op = "subscribe" => life'[d.sub] = "coming"
           /\ d.op = "unsubscribe" => life'[d.sub] = "going"
    BY <1>4, <1>6 DEF Stacked
  <2>2. \A k \in 1 .. m : k = m \/ (k \in 1 .. Len(calls[t]) /\ calls'[t][k] = calls[t][k])
    BY <1>2
  <2>3. \A k \in 1 .. m : LET d == calls'[t][k] IN
           /\ k < m => d.at = "call"
           /\ d.op # "fire" => d.at = "wait" /\ d.sub \in Subs /\ d.event = mEventId[d.sub]
           /\ d.op = "subscribe" => life'[d.sub] = "coming"
           /\ d.op = "unsubscribe" => life'[d.sub] = "going"
    <3> SUFFICES ASSUME NEW k \in 1 .. m
                 PROVE  LET d == calls'[t][k] IN
                        /\ k < m => d.at = "call"
                        /\ d.op # "fire" => d.at = "wait" /\ d.sub \in Subs /\ d.event = mEventId[d.sub]
                        /\ d.op = "subscribe" => life'[d.sub] = "coming"
                        /\ d.op = "unsubscribe" => life'[d.sub] = "going"
      OBVIOUS
    <3>1. CASE k = m
      BY <1>1, <1>2, <1>4, <3>1
    <3>2. CASE k \in 1 .. Len(calls[t]) /\ calls'[t][k] = calls[t][k]
      BY <1>3, <2>1, <3>2
    <3> QED BY <2>2, <3>1, <3>2
  <2>4. \A u \in Threads \ {t} : \A k \in 1 .. Len(calls'[u]) : LET d == calls'[u][k] IN
           /\ k < Len(calls'[u]) => d.at = "call"
           /\ d.op # "fire" => d.at = "wait" /\ d.sub \in Subs /\ d.event = mEventId[d.sub]
           /\ d.op = "subscribe" => life'[d.sub] = "coming"
           /\ d.op = "unsubscribe" => life'[d.sub] = "going"
    BY <1>2, <2>1 DEF Stacked
  <2> QED BY <1>2, <2>3, <2>4 DEF Stacked
<1>8. Distinct'
  <2>1. Top(t)' = c
    BY <1>2 DEF Top
  <2>2. ASSUME NEW u \in Threads \ {t}, Changes(u)' 
        PROVE  Changes(u) /\ Top(u)' = Top(u) /\ Top(u).sub # s
    <3>1. Changes(u) /\ Top(u)' = Top(u)
      BY <1>2, <2>2 DEF Changes, Top
    <3> QED BY <1>6, <3>1, Tops DEF Changes, Busy
  <2> QED BY <1>1, <2>1, <2>2 DEF Distinct
<1>9. ListsOK'
  BY <1>4 DEF ListsOK
<1> QED BY <1>3, <1>5, <1>7, <1>8, <1>9

LEMMA FireKeeps ==
    ASSUME BusInv, NEW t \in Threads, NEW e \in Events, Fire(t, e), UNCHANGED use
    PROVE  BusInv'
<1> USE DEF BusInv
<1> DEFINE c == NewCall("fire", e, Nobody)
           m == Len(calls[t]) + 1
<1>1. c.op = "fire" /\ c.at = "wait" /\ "fire" \in Operations /\ c \in CallRecords
  <2>1. Listed(e) \subseteq Subs
    BY LenProperties DEF BusType, Listed
  <2> QED BY <2>1 DEF NewCall, Operations, CallRecords
<1>2. /\ calls' \in [Threads -> Seq(CallRecords)]
      /\ \A u \in Threads : Len(calls'[u]) <= MaxDepth
      /\ CallsOK' /\ Locked' /\ Alone'
      /\ \A k \in 1 .. Len(calls[t]) : calls[t][k].at = "call"
  BY <1>1, EnterKeeps DEF Fire
<1>3. /\ \A u \in Threads \ {t} : calls'[u] = calls[u]
      /\ Len(calls[t]) \in Nat /\ Len(calls'[t]) = m
      /\ calls'[t][m] = c
      /\ \A k \in 1 .. Len(calls[t]) : calls'[t][k] = calls[t][k]
  BY <1>1, Entered DEF Fire
<1> HIDE DEF c
<1>4. UNCHANGED <<use, mEvents, holder, life>>
  BY DEF Fire
<1>5. BusType'
  BY <1>2, <1>4 DEF BusType
<1>6. Stacked'
  <2>1. \A k \in 1 .. m : k = m \/ (k \in 1 .. Len(calls[t]) /\ calls'[t][k] = calls[t][k])
    BY <1>3
  <2>2. \A k \in 1 .. m : LET d == calls'[t][k] IN
           /\ k < m => d.at = "call"
           /\ d.op # "fire" => d.at = "wait" /\ d.sub \in Subs /\ d.event = mEventId[d.sub]
           /\ d.op = "subscribe" => life[d.sub] = "coming"
           /\ d.op = "unsubscribe" => life[d.sub] = "going"
    BY <1>1, <1>2, <1>3, <2>1 DEF Stacked
  <2>3. ASSUME NEW u \in Threads \ {t}, NEW k \in 1 .. Len(calls'[u])
        PROVE  LET d == calls'[u][k] IN
           /\ k < Len(calls'[u]) => d.at = "call"
           /\ d.op # "fire" => d.at = "wait" /\ d.sub \in Subs /\ d.event = mEventId[d.sub]
           /\ d.op = "subscribe" => life[d.sub] = "coming"
           /\ d.op = "unsubscribe" => life[d.sub] = "going"
    BY <1>3 DEF Stacked
  <2> DEFINE Good(u, k) ==
           /\ k < Len(calls'[u]) => calls'[u][k].at = "call"
           /\ calls'[u][k].op # "fire" =>
                calls'[u][k].at = "wait" /\ calls'[u][k].sub \in Subs /\ calls'[u][k].event = mEventId[calls'[u][k].sub]
           /\ calls'[u][k].op = "subscribe" => life[calls'[u][k].sub] = "coming"
           /\ calls'[u][k].op = "unsubscribe" => life[calls'[u][k].sub] = "going"
  <2>4. ASSUME NEW u \in Threads, NEW k \in 1 .. Len(calls'[u]) PROVE Good(u, k)
    <3>1. CASE u = t
      BY <1>3, <2>2, <3>1
    <3>2. CASE u \in Threads \ {t}
      BY <2>3, <3>2
    <3> QED BY <3>1, <3>2
  <2> QED BY <1>4, <2>4 DEF Stacked
<1>7. Distinct'
  <2>1. Top(t)' = c
    BY <1>3 DEF Top
  <2>2. \A u \in Threads \ {t} : Changes(u)' = Changes(u) /\ Top(u)' = Top(u)
    BY <1>3 DEF Changes, Top
  <2> QED BY <1>1, <2>1, <2>2 DEF Distinct, Changes
<1>8. ListsOK'
  BY <1>4 DEF ListsOK
<1> QED BY <1>2, <1>5, <1>6, <1>7, <1>8

LEMMA SubscribeKeeps ==
    ASSUME BusInv, NEW t \in Threads, NEW s \in Subs, Subscribe(t, s), UNCHANGED use
    PROVE  BusInv'
BY ChangeBegins DEF Subscribe

LEMMA UnsubscribeKeeps ==
    ASSUME BusInv, NEW t \in Threads, NEW s \in Subs, Unsubscribe(t, s), UNCHANGED use
    PROVE  BusInv'
BY ChangeBegins DEF Unsubscribe

\* A constructor or destructor at the lock, and its subscription.
LEMMA ChangeWaits ==
    ASSUME BusInv, NEW t \in Threads, Busy(t), Top(t).op # "fire"
    PROVE  /\ Changes(t) /\ Top(t).sub \in Subs /\ Top(t).event = mEventId[Top(t).sub]
           /\ Top(t).op = "subscribe" => life[Top(t).sub] = "coming"
           /\ Top(t).op = "unsubscribe" => life[Top(t).sub] = "going"
           /\ \A u \in Threads : \A k \in 1 .. Len(calls[u]) :
                 calls[u][k].op # "fire" /\ calls[u][k].sub = Top(t).sub => u = t /\ k = Len(calls[t])
<1> USE DEF BusInv
<1>1. Len(calls[t]) \in 1 .. Len(calls[t]) /\ Top(t) = calls[t][Len(calls[t])]
  BY Tops
<1>2. Changes(t)
  BY DEF Changes, Busy
<1>3. ASSUME NEW u \in Threads, NEW k \in 1 .. Len(calls[u]), calls[u][k].op # "fire"
      PROVE  k = Len(calls[u]) /\ Top(u) = calls[u][k] /\ Changes(u)
  <2>1. Len(calls[u]) \in Nat
    BY CallTypes
  <2>2. ~(k < Len(calls[u]))
    BY <1>3 DEF Stacked
  <2>3. k = Len(calls[u])
    BY <2>1, <2>2
  <2>4. calls[u] # <<>>
    BY <2>1, <2>3, EmptySeq DEF BusType
  <2> QED BY <1>3, <2>3, <2>4 DEF Changes, Top
<1>4. \A u \in Threads : \A k \in 1 .. Len(calls[u]) :
         calls[u][k].op # "fire" /\ calls[u][k].sub = Top(t).sub => u = t /\ k = Len(calls[t])
  BY <1>2, <1>3 DEF Distinct
<1>5. /\ Top(t).sub \in Subs /\ Top(t).event = mEventId[Top(t).sub]
      /\ Top(t).op = "subscribe" => life[Top(t).sub] = "coming"
      /\ Top(t).op = "unsubscribe" => life[Top(t).sub] = "going"
  BY <1>1 DEF Stacked
<1> QED BY <1>2, <1>4, <1>5

\* The push, or not.
LEMMA AddKeeps ==
    ASSUME BusInv, NEW t \in Threads, Add(t), UNCHANGED use
    PROVE  BusInv'
<1> USE DEF BusInv
<1> DEFINE s == Top(t).sub
           e == mEventId[s]
<1>1. Busy(t) /\ Top(t).op = "subscribe" /\ Leave(t) /\ UNCHANGED <<holder, use>>
  BY DEF Add, TopIs
<1>2. /\ s \in Subs /\ e \in Events /\ life[s] = "coming"
      /\ \A u \in Threads : \A k \in 1 .. Len(calls[u]) :
            calls[u][k].op # "fire" /\ calls[u][k].sub = s => u = t /\ k = Len(calls[t])
  BY <1>1, ChangeWaits, BusAssumption
<1>3. /\ \/ /\ mEvents' = [mEvents EXCEPT ![e] = Append(mEvents[e], s)]
            /\ life' = [life EXCEPT ![s] = "there"]
         \/ /\ life' = [life EXCEPT ![s] = "unlisted"]
            /\ mEvents' = mEvents
  BY DEF Add
<1> HIDE DEF s, e
<1>4. /\ calls' \in [Threads -> Seq(CallRecords)]
      /\ \A u \in Threads : Len(calls'[u]) <= MaxDepth
      /\ Distinct' /\ Alone'
      /\ \A u \in Threads : \A k \in 1 .. Len(calls'[u]) :
            /\ k \in 1 .. Len(calls[u]) /\ calls'[u][k] = calls[u][k]
            /\ k < Len(calls'[u]) => k < Len(calls[u])
            /\ u = t => k < Len(calls[t]) /\ calls[t][k].at = "call" /\ calls[t][k].op = "fire"
  BY <1>1, LeaveKeeps
<1>5. /\ life' \in [Subs -> Life] /\ \A r \in Subs \ {s} : life'[r] = life[r]
      /\ life'[s] \in {"there", "unlisted"}
  BY <1>2, <1>3 DEF BusType, Life
<1>6. \A d \in Events : /\ mEvents[d] \in Seq(Subs) /\ Once(mEvents[d])
                        /\ s \notin Members(mEvents[d])
  BY <1>2 DEF ListsOK, BusType
<1>7. \A d \in Events : \/ mEvents'[d] = mEvents[d]
                        \/ d = e /\ life'[s] = "there" /\ mEvents'[d] = Append(mEvents[d], s)
  BY <1>2, <1>3 DEF BusType
<1>8. mEvents' \in [Events -> Seq(Subs)] /\ \A d \in Events : Once(mEvents'[d])
  <2>1. \A d \in Events : Append(mEvents[d], s) \in Seq(Subs) /\ Once(Append(mEvents[d], s))
    BY <1>2, <1>6, AppendKeeps
  <2>2. DOMAIN mEvents' = Events /\ mEvents' = [d \in Events |-> mEvents'[d]]
    BY <1>3 DEF BusType
  <2>3. \A d \in Events : mEvents'[d] \in Seq(Subs) /\ Once(mEvents'[d])
    BY <1>6, <1>7, <2>1
  <2> QED BY <2>2, <2>3
<1>9. BusType'
  BY <1>1, <1>4, <1>5, <1>8 DEF BusType
<1>10. ListsOK'
  <2> SUFFICES ASSUME NEW d \in Events
               PROVE  /\ Members(mEvents'[d]) \subseteq 
                            {r \in Subs : mEventId[r] = d /\ life'[r] \in {"there", "going"}}
                      /\ {r \in Subs : mEventId[r] = d /\ life'[r] = "there"} \subseteq Members(mEvents'[d])
    BY <1>8 DEF ListsOK
  <2>1. CASE mEvents'[d] = mEvents[d] /\ (d = e => life'[s] # "there")
    BY <1>2, <1>5, <1>6, <2>1 DEF ListsOK, e
  <2>2. CASE d = e /\ life'[s] = "there" /\ mEvents'[d] = Append(mEvents[d], s)
    <3>1. Members(mEvents'[d]) = Members(mEvents[d]) \cup {s}
      BY <1>2, <1>6, <2>2, AppendKeeps
    <3> QED BY <1>2, <1>5, <2>2, <3>1 DEF ListsOK, e
  <2>3. d = e => (mEvents'[d] = mEvents[d] => life'[s] # "there")
    BY <1>2, <1>3, <1>6, AppendKeeps DEF BusType, ListsOK
  <2> QED BY <1>7, <2>1, <2>2, <2>3
<1>11. CallsOK'
  <2> SUFFICES ASSUME NEW u \in Threads, NEW k \in 1 .. Len(calls'[u])
               PROVE  CallOK(calls'[u][k], mEvents'[calls'[u][k].event])
    BY DEF CallsOK
  <2> DEFINE c == calls[u][k]
  <2>1. k \in 1 .. Len(calls[u]) /\ calls'[u][k] = c /\ c \in CallRecords
    BY <1>4, CallTypes
  <2>2. CallOK(c, mEvents[c.event]) /\ c.event \in Events
    BY <2>1 DEF CallsOK, CallRecords
  <2>3. CallOK(c, Append(mEvents[c.event], s))
    BY <1>2, <1>6, <2>1, <2>2, CallAppends
  <2> HIDE DEF c
  <2> QED BY <1>7, <2>1, <2>2, <2>3
<1>12. Stacked'
  <2> SUFFICES ASSUME NEW u \in Threads, NEW k \in 1 .. Len(calls'[u])
               PROVE  LET c == calls'[u][k] IN
                      /\ k < Len(calls'[u]) => c.at = "call"
                      /\ c.op # "fire" => c.at = "wait" /\ c.sub \in Subs /\ c.event = mEventId[c.sub]
                      /\ c.op = "subscribe" => life'[c.sub] = "coming"
                      /\ c.op = "unsubscribe" => life'[c.sub] = "going"
    BY DEF Stacked
  <2>1. /\ k \in 1 .. Len(calls[u]) /\ calls'[u][k] = calls[u][k]
        /\ k < Len(calls'[u]) => k < Len(calls[u])
        /\ u = t => calls[u][k].op = "fire"
    BY <1>4
  <2>2. calls[u][k].op # "fire" => calls[u][k].sub # s
    BY <1>2, <2>1
  <2>3. /\ k < Len(calls[u]) => calls[u][k].at = "call"
        /\ calls[u][k].op # "fire" => /\ calls[u][k].at = "wait" /\ calls[u][k].sub \in Subs
                                     /\ calls[u][k].event = mEventId[calls[u][k].sub]
        /\ calls[u][k].op = "subscribe" => life[calls[u][k].sub] = "coming"
        /\ calls[u][k].op = "unsubscribe" => life[calls[u][k].sub] = "going"
    BY <2>1 DEF Stacked
  <2> QED BY <1>5, <2>1, <2>2, <2>3
<1>13. Locked'
  BY <1>1, <1>4 DEF Locked
<1> QED BY <1>4, <1>9, <1>10, <1>11, <1>12, <1>13

LEMMA MissingKeeps ==
    ASSUME NEW c \in CallRecords, NEW s
    PROVE  /\ Missing(c, s) \in CallRecords
           /\ Missing(c, s).op = c.op /\ Missing(c, s).event = c.event
           /\ Missing(c, s).sub = c.sub /\ Missing(c, s).at = c.at
           /\ Missing(c, s).disturbed = (c.disturbed \/ (c.event = mEventId[s] /\ c.at # "wait"))
<1>1. /\ Missing(c, s).op = c.op /\ Missing(c, s).event = c.event
      /\ Missing(c, s).sub = c.sub /\ Missing(c, s).at = c.at
  BY DEF Missing, CallRecords
<1>2. Missing(c, s).disturbed = (c.disturbed \/ (c.event = mEventId[s] /\ c.at # "wait"))
  BY DEF Missing, CallRecords
<1>3. Missing(c, s) \in CallRecords
  BY DEF Missing, CallRecords
<1> QED BY <1>1, <1>2, <1>3

\* The stacks once s has left: the innermost call of t is over.
LEMMA Removed ==
    ASSUME BusInv, NEW t \in Threads, Remove(t)
    PROVE  LET s == Top(t).sub IN
           /\ calls' \in [Threads -> Seq(CallRecords)]
           /\ \A u \in Threads : 
                 /\ Len(calls'[u]) \in Nat
                 /\ Len(calls'[u]) = IF u = t THEN Len(calls[u]) - 1 ELSE Len(calls[u])
           /\ \A u \in Threads : \A k \in 1 .. Len(calls'[u]) :
                 /\ k \in 1 .. Len(calls[u]) 
                 /\ calls[u][k] \in CallRecords /\ calls'[u][k] = Missing(calls[u][k], s)
                 /\ k < Len(calls'[u]) => k < Len(calls[u])
                 /\ u = t => k < Len(calls[t])
<1> DEFINE s == Top(t).sub
           n(u) == Len(calls[u]) - (IF u = t THEN 1 ELSE 0)
           stack(u) == [k \in 1 .. n(u) |-> Missing(calls[u][k], s)]
<1>1. calls' = [u \in Threads |-> stack(u)]
  BY DEF Remove
<1>2. \A u \in Threads : Len(calls[u]) \in Nat /\ (u = t => Len(calls[u]) # 0)
  BY CallTypes, EmptySeq DEF Remove, TopIs, Busy, BusInv, BusType
<1>3. \A u \in Threads : n(u) \in Nat /\ n(u) = IF u = t THEN Len(calls[u]) - 1 ELSE Len(calls[u])
  BY <1>2
<1>4. ASSUME NEW u \in Threads, NEW k \in 1 .. n(u)
      PROVE  /\ k \in 1 .. Len(calls[u]) 
             /\ calls[u][k] \in CallRecords /\ Missing(calls[u][k], s) \in CallRecords
             /\ k < n(u) => k < Len(calls[u])
             /\ u = t => k < Len(calls[t])
  <2>1. /\ k \in 1 .. Len(calls[u]) 
        /\ k < n(u) => k < Len(calls[u])
        /\ u = t => k < Len(calls[t])
    <3>1. Len(calls[u]) \in Nat /\ n(u) \in Nat
      BY <1>2, <1>3
    <3>2. CASE u = t
      BY <1>3, <3>1, <3>2
    <3>3. CASE u # t
      BY <1>3, <3>1, <3>3
    <3> QED BY <3>2, <3>3
  <2>2. calls[u][k] \in CallRecords
    BY <2>1, CallTypes DEF BusInv
  <2> QED BY <2>1, <2>2, MissingKeeps
<1> HIDE DEF n, s
<1>5. \A u \in Threads : stack(u) \in [1 .. n(u) -> CallRecords]
  BY <1>4
<1>6. \A u \in Threads : stack(u) \in Seq(CallRecords)
  BY <1>3, <1>5, SeqDef
<1>7. \A u \in Threads : Len(stack(u)) = n(u)
  BY <1>3, <1>5, <1>6, LenProperties
<1>8. \A u \in Threads : calls'[u] = stack(u) 
  BY <1>1
<1>9. \A u \in Threads : \A k \in 1 .. n(u) : calls'[u][k] = Missing(calls[u][k], s)
  BY <1>8
<1> HIDE DEF stack
<1>10. calls' \in [Threads -> Seq(CallRecords)]
  BY <1>1, <1>6
<1>11. \A u \in Threads : Len(calls'[u]) = n(u)
  BY <1>7, <1>8
<1> QED BY <1>3, <1>4, <1>9, <1>10, <1>11 DEF s

\* Somebody leaves the list, and all dispatches of the event take note of it.
LEMMA RemoveKeeps ==
    ASSUME BusInv, NEW t \in Threads, Remove(t), UNCHANGED use
    PROVE  BusInv'
<1> USE DEF BusInv
<1> DEFINE s == Top(t).sub
           e == mEventId[s]
<1>1. Busy(t) /\ Top(t).op = "unsubscribe" /\ MayLock(t) /\ UNCHANGED <<holder, use>>
  BY DEF Remove, TopIs
<1>2. /\ s \in Subs /\ e \in Events /\ life[s] = "going"
      /\ \A u \in Threads : \A k \in 1 .. Len(calls[u]) :
            calls[u][k].op # "fire" /\ calls[u][k].sub = s => u = t /\ k = Len(calls[t])
  BY <1>1, ChangeWaits, BusAssumption
<1>3. /\ mEvents' = [mEvents EXCEPT ![e] = Without(mEvents[e], s)]
      /\ life' = [life EXCEPT ![s] = "none"]
  BY DEF Remove
<1>4. /\ calls' \in [Threads -> Seq(CallRecords)]
      /\ \A u \in Threads : 
            /\ Len(calls'[u]) \in Nat
            /\ Len(calls'[u]) = IF u = t THEN Len(calls[u]) - 1 ELSE Len(calls[u])
      /\ \A u \in Threads : \A k \in 1 .. Len(calls'[u]) :
            /\ k \in 1 .. Len(calls[u]) 
            /\ calls[u][k] \in CallRecords /\ calls'[u][k] = Missing(calls[u][k], s)
            /\ k < Len(calls'[u]) => k < Len(calls[u])
            /\ u = t => k < Len(calls[t])
  BY Removed
<1> HIDE DEF s, e
<1>5. \A u \in Threads : \A k \in 1 .. Len(calls'[u]) :
         /\ calls'[u][k].op = calls[u][k].op /\ calls'[u][k].event = calls[u][k].event
         /\ calls'[u][k].sub = calls[u][k].sub /\ calls'[u][k].at = calls[u][k].at
         /\ calls'[u][k].disturbed = (calls[u][k].disturbed \/ (calls[u][k].event = e /\ calls[u][k].at # "wait"))
  BY <1>4, MissingKeeps DEF e
<1>6. /\ life' \in [Subs -> Life] /\ \A r \in Subs \ {s} : life'[r] = life[r]
      /\ life'[s] = "none"
  BY <1>2, <1>3 DEF BusType, Life
<1>7. \A d \in Events : /\ mEvents[d] \in Seq(Subs) /\ Once(mEvents[d])
                        /\ mEvents'[d] = IF d = e THEN Without(mEvents[d], s) ELSE mEvents[d]
                        /\ d # e => s \notin Members(mEvents[d])
  <2>1. \A d \in Events : /\ mEvents[d] \in Seq(Subs) /\ Once(mEvents[d])
                          /\ d # e => s \notin Members(mEvents[d])
    BY <1>2 DEF ListsOK, BusType, e
  <2>2. \A d \in Events : mEvents'[d] = IF d = e THEN Without(mEvents[d], s) ELSE mEvents[d]
    BY <1>3 DEF BusType
  <2> QED BY <2>1, <2>2
<1>8. \A d \in Events : /\ mEvents'[d] \in Seq(Subs) /\ Once(mEvents'[d])
                        /\ Members(mEvents'[d]) = Members(mEvents[d]) \ {s}
  <2> SUFFICES ASSUME NEW d \in Events
               PROVE  /\ mEvents'[d] \in Seq(Subs) /\ Once(mEvents'[d])
                      /\ Members(mEvents'[d]) = Members(mEvents[d]) \ {s}
    OBVIOUS
  <2>1. CASE d = e
    BY <1>2, <1>7, <2>1, WithoutKeeps
  <2>2. CASE d # e
    BY <1>7, <2>2
  <2> QED BY <2>1, <2>2
<1>9. BusType'
  <2>1. mEvents' \in [Events -> Seq(Subs)]
    <3>1. DOMAIN mEvents' = Events /\ mEvents' = [d \in Events |-> mEvents'[d]]
      BY <1>3 DEF BusType
    <3> QED BY <1>8, <3>1
  <2>2. \A u \in Threads : Len(calls'[u]) <= MaxDepth
    <3>1. MaxDepth \in Nat /\ \A u \in Threads : Len(calls[u]) \in Nat
      BY BusAssumption, CallTypes
    <3> QED BY <1>4, <3>1 DEF BusType
  <2> QED BY <1>1, <1>4, <1>6, <2>1, <2>2 DEF BusType
<1>10. ListsOK'
  <2> SUFFICES ASSUME NEW d \in Events
               PROVE  /\ \A r \in Members(mEvents'[d]) : 
                            r \in Subs /\ mEventId[r] = d /\ life'[r] \in {"there", "going"}
                      /\ \A r \in Subs : mEventId[r] = d /\ life'[r] = "there" => r \in Members(mEvents'[d])
    BY <1>8 DEF ListsOK
  <2>1. /\ \A r \in Members(mEvents[d]) : 
              r \in Subs /\ mEventId[r] = d /\ life[r] \in {"there", "going"}
        /\ \A r \in Subs : mEventId[r] = d /\ life[r] = "there" => r \in Members(mEvents[d])
    BY DEF ListsOK
  <2> QED BY <1>2, <1>6, <1>8, <2>1
<1>11. CallsOK'
  <2> SUFFICES ASSUME NEW u \in Threads, NEW k \in 1 .. Len(calls'[u])
               PROVE  CallOK(calls'[u][k], mEvents'[calls'[u][k].event])
    BY DEF CallsOK
  <2> DEFINE c == calls[u][k]
  <2>1. /\ k \in 1 .. Len(calls[u]) /\ c \in CallRecords 
        /\ calls'[u][k] = Missing(c, s) /\ calls'[u][k].event = c.event
    BY <1>4, <1>5
  <2>2. CallOK(c, mEvents[c.event]) /\ c.event \in Events
    BY <2>1 DEF CallsOK, CallRecords
  <2> HIDE DEF c
  <2>3. CASE c.event = e
    BY <1>2, <1>7, <2>1, <2>2, <2>3, CallLoses DEF e
  <2>4. CASE c.event # e
    BY <1>2, <1>7, <2>1, <2>2, <2>4, CallElsewhere DEF e
  <2> QED BY <2>3, <2>4
<1>12. Stacked'
  <2> SUFFICES ASSUME NEW u \in Threads, NEW k \in 1 .. Len(calls'[u])
               PROVE  LET c == calls'[u][k] IN
                      /\ k < Len(calls'[u]) => c.at = "call"
                      /\ c.op # "fire" => c.at = "wait" /\ c.sub \in Subs /\ c.event = mEventId[c.sub]
                      /\ c.op = "subscribe" => life'[c.sub] = "coming"
                      /\ c.op = "unsubscribe" => life'[c.sub] = "going"
    BY DEF Stacked
  <2>1. /\ k \in 1 .. Len(calls[u]) 
        /\ k < Len(calls'[u]) => k < Len(calls[u])
        /\ u = t => k < Len(calls[t])
    BY <1>4
  <2>2. Len(calls[t]) \in Nat /\ (u = t => k # Len(calls[t]))
    BY <2>1, CallTypes
  <2>3. calls[u][k].op # "fire" => calls[u][k].sub # s
    BY <1>2, <2>1, <2>2
  <2>4. /\ k < Len(calls[u]) => calls[u][k].at = "call"
        /\ calls[u][k].op # "fire" => /\ calls[u][k].at = "wait" /\ calls[u][k].sub \in Subs
                                      /\ calls[u][k].event = mEventId[calls[u][k].sub]
        /\ calls[u][k].op = "subscribe" => life[calls[u][k].sub] = "coming"
        /\ calls[u][k].op = "unsubscribe" => life[calls[u][k].sub] = "going"
    BY <2>1 DEF Stacked
  <2> QED BY <1>5, <1>6, <2>1, <2>3, <2>4
<1>13. Distinct'
  <2>1. ASSUME NEW u \in Threads, Changes(u)'
        PROVE  u # t /\ Changes(u) /\ Top(u)'.sub = Top(u).sub
    <3>1. Len(calls'[u]) \in 1 .. Len(calls'[u]) /\ Top(u)' = calls'[u][Len(calls'[u])]
      BY <1>4, <2>1, EmptySeq DEF Changes, Top
    <3> DEFINE k == Len(calls'[u])
    <3>2. /\ k \in 1 .. Len(calls[u]) /\ Top(u)'.op = calls[u][k].op /\ Top(u)'.sub = calls[u][k].sub
          /\ u = t => k < Len(calls[t])
      BY <1>4, <1>5, <3>1
    <3>3. Top(u)'.op # "fire"
      BY <2>1 DEF Changes
    <3>4. u # t
      <4> SUFFICES ASSUME u = t PROVE FALSE
        OBVIOUS
      <4>1. calls[t][k].at = "call" /\ calls[t][k].op # "fire"
        BY <3>2, <3>3 DEF Stacked
      <4> QED BY <3>2, <4>1 DEF Stacked
    <3>5. k = Len(calls[u]) /\ calls[u] # <<>>
      BY <1>4, <3>1, <3>4, EmptySeq DEF BusType
    <3> QED BY <3>2, <3>3, <3>4, <3>5 DEF Changes, Top
  <2> QED BY <2>1 DEF Distinct
<1>14. Locked'
  BY <1>1, <1>4, <1>5 DEF Locked
<1>15. Alone'
  <2> SUFFICES ASSUME Aloof, NEW u \in Threads, NEW k \in 1 .. Len(calls'[u])
               PROVE  k = 1 /\ ~calls'[u][k].disturbed
    BY <1>1 DEF Alone, Aloof
  <2>1. k \in 1 .. Len(calls[u]) /\ k = 1 /\ ~calls[u][k].disturbed
    BY <1>4 DEF Alone
  <2>2. holder = Nobody
    BY <1>1 DEF Aloof, MayLock
  <2>3. calls[u][k].at = "wait"
    BY <2>1, <2>2, BusAssumption DEF Locked, Aloof
  <2> QED BY <1>5, <2>1, <2>3
<1> QED BY <1>9, <1>10, <1>11, <1>12, <1>13, <1>14, <1>15

LEMMA BeginKeeps ==
    ASSUME BusInv, NEW t \in Threads, Begin(t), UNCHANGED use
    PROVE  BusInv'
<1> USE DEF BusInv
<1> DEFINE c == [Top(t) EXCEPT !.at = "loop"]
<1>1. /\ Busy(t) /\ Top(t).op = "fire" /\ Top(t).at = "wait" /\ MayLock(t)
      /\ Continue(t, c) /\ UNCHANGED <<use, mEvents, life>>
      /\ holder' = IF use.excludes THEN t ELSE Nobody
  BY DEF Begin, TopIs
<1>2. /\ Len(calls[t]) \in 1 .. Len(calls[t]) /\ Top(t) = calls[t][Len(calls[t])] 
      /\ Top(t) \in CallRecords
  BY <1>1, Tops
<1>3. /\ c \in CallRecords /\ c.op = "fire" /\ c.at = "loop"
      /\ c.event = Top(t).event /\ c.disturbed = Top(t).disturbed
  BY <1>1, <1>2 DEF CallRecords
<1>4. CallOK(c, mEvents[c.event])
  <2>1. CallOK(Top(t), mEvents[Top(t).event]) /\ mEvents[Top(t).event] \in Seq(Subs)
    BY <1>2 DEF CallsOK, BusType, CallRecords
  <2> QED BY <1>1, <1>2, <1>3, <2>1, CallLoops
<1> HIDE DEF c
<1>5. /\ calls' \in [Threads -> Seq(CallRecords)]
      /\ \A u \in Threads : Len(calls'[u]) <= MaxDepth
      /\ Stacked' /\ Distinct' /\ ListsOK' /\ CallsOK' /\ Alone'
  BY <1>1, <1>3, <1>4, ContinueKeeps
<1>6. BusType'
  BY <1>1, <1>5 DEF BusType
<1>7. Locked'
  <2> SUFFICES ASSUME use.excludes, NEW u \in Threads, NEW k \in 1 .. Len(calls'[u]),
                      calls'[u][k].at # "wait"
               PROVE  k = 1 /\ u = t
    BY <1>1 DEF Locked
  <2>1. \A v \in Threads : \A j \in 1 .. Len(calls[v]) : calls[v][j].at = "wait"
    BY <1>1, BusAssumption DEF Locked, MayLock
  <2>2. /\ \A v \in Threads \ {t} : calls'[v] = calls[v]
        /\ Len(calls'[t]) = Len(calls[t])
    BY <1>1, <1>3, Continued
  <2>3. u = t
    BY <2>1, <2>2
  <2>4. \A j \in 1 .. Len(calls[t]) : ~(j < Len(calls[t]))
    BY <2>1 DEF Stacked
  <2>5. k = 1
    BY <1>2, <2>2, <2>3, <2>4, CallTypes
  <2> QED BY <2>3, <2>5
<1> QED BY <1>5, <1>6, <1>7

\* The lock stays with whom it was.
LEMMA LoopLocked ==
    ASSUME BusInv, NEW t \in Threads, Busy(t), NEW c \in CallRecords, Continue(t, c),
           Top(t).at # "wait", UNCHANGED <<use, holder>>
    PROVE  Locked'
<1>1. /\ \A u \in Threads \ {t} : calls'[u] = calls[u]
      /\ Len(calls'[t]) = Len(calls[t])
      /\ \A k \in 1 .. Len(calls[t]) : 
            calls'[t][k] = IF k = Len(calls[t]) THEN c ELSE calls[t][k]
  BY Continued DEF BusInv
<1>2. Len(calls[t]) \in 1 .. Len(calls[t]) /\ calls[t][Len(calls[t])].at # "wait"
  BY Tops DEF BusInv
<1>3. \A u \in Threads : \A k \in 1 .. Len(calls'[u]) :
         /\ k \in 1 .. Len(calls[u])
         /\ calls'[u][k].at # "wait" => calls[u][k].at # "wait"
  BY <1>1, <1>2
<1> QED BY <1>3 DEF BusInv, Locked

LEMMA DispatchKeeps ==
    ASSUME BusInv, NEW t \in Threads, Dispatch(t), UNCHANGED use
    PROVE  BusInv'
<1> USE DEF BusInv
<1> DEFINE list == mEvents[Top(t).event]
           s == list[Top(t).i + 1]
           c == [Top(t) EXCEPT !.at = "call", !.heard = @ \cup {s},
                               !.twice = @ \/ s \in Top(t).heard]
<1>1. /\ Busy(t) /\ Top(t).op = "fire" /\ Top(t).at = "loop" /\ Top(t).i < Len(list)
      /\ Continue(t, c) /\ UNCHANGED <<use, mEvents, holder, life>>
  BY DEF Dispatch, TopIs, Subscribers
<1>2. /\ Len(calls[t]) \in 1 .. Len(calls[t]) /\ Top(t) = calls[t][Len(calls[t])] 
      /\ Top(t) \in CallRecords
  BY <1>1, Tops
<1>3. CallOK(Top(t), list) /\ list \in Seq(Subs) /\ Once(list)
  BY <1>2 DEF CallsOK, BusType, CallRecords, ListsOK
<1>4. CallOK(c, list) /\ c \in CallRecords
  BY <1>1, <1>2, <1>3, CallCalls
<1>5. /\ c.op = "fire" /\ c.at = "call"
      /\ c.event = Top(t).event /\ c.disturbed = Top(t).disturbed
  BY <1>1, <1>2 DEF CallRecords
<1>6. list = mEvents[c.event]
  BY <1>5
<1> HIDE DEF c, list
<1>7. /\ calls' \in [Threads -> Seq(CallRecords)]
      /\ \A u \in Threads : Len(calls'[u]) <= MaxDepth
      /\ Stacked' /\ Distinct' /\ ListsOK' /\ CallsOK' /\ Alone'
  BY <1>1, <1>4, <1>5, <1>6, ContinueKeeps
<1>8. BusType'
  BY <1>1, <1>7 DEF BusType
<1>9. Locked'
  BY <1>1, <1>4, LoopLocked
<1> QED BY <1>7, <1>8, <1>9

LEMMA ReturnKeeps ==
    ASSUME BusInv, NEW t \in Threads, Return(t), UNCHANGED use
    PROVE  BusInv'
<1> USE DEF BusInv
<1> DEFINE c == [Top(t) EXCEPT !.at = "loop", !.i = @ + 1]
<1>1. /\ Busy(t) /\ Top(t).op = "fire" /\ Top(t).at = "call"
      /\ Continue(t, c) /\ UNCHANGED <<use, mEvents, holder, life>>
  BY DEF Return, TopIs
<1>2. /\ Len(calls[t]) \in 1 .. Len(calls[t]) /\ Top(t) = calls[t][Len(calls[t])] 
      /\ Top(t) \in CallRecords
  BY <1>1, Tops
<1>3. /\ c \in CallRecords /\ c.op = "fire"
      /\ c.event = Top(t).event /\ c.disturbed = Top(t).disturbed
  <2>1. /\ c.op = "fire" /\ c.event = Top(t).event /\ c.disturbed = Top(t).disturbed
    BY <1>1, <1>2 DEF CallRecords
  <2>2. c \in CallRecords
    <3>1. Top(t).i + 1 \in Nat
      BY <1>2 DEF CallRecords
    <3>2. c = [Top(t) EXCEPT !.at = "loop", !.i = Top(t).i + 1]
      OBVIOUS
    <3> QED BY <1>2, <3>1, <3>2 DEF CallRecords
  <2> QED BY <2>1, <2>2
<1>4. CallOK(c, mEvents[c.event])
  <2>1. CallOK(Top(t), mEvents[Top(t).event]) /\ mEvents[Top(t).event] \in Seq(Subs)
    BY <1>2 DEF CallsOK, BusType, CallRecords
  <2> QED BY <1>1, <1>2, <1>3, <2>1, CallReturns
<1> HIDE DEF c
<1>5. /\ calls' \in [Threads -> Seq(CallRecords)]
      /\ \A u \in Threads : Len(calls'[u]) <= MaxDepth
      /\ Stacked' /\ Distinct' /\ ListsOK' /\ CallsOK' /\ Alone'
  BY <1>1, <1>3, <1>4, ContinueKeeps
<1>6. BusType'
  BY <1>1, <1>5 DEF BusType
<1>7. Locked'
  BY <1>1, <1>3, LoopLocked
<1> QED BY <1>5, <1>6, <1>7

\* With a Mutex, who is past it is in his outermost call, and leaves an empty
\* stack.
LEMMA EndKeeps ==
    ASSUME BusInv, NEW t \in Threads, End(t), UNCHANGED use
    PROVE  BusInv'
<1> USE DEF BusInv
<1>1. /\ Busy(t) /\ Top(t).op = "fire" /\ Top(t).at = "loop" /\ Leave(t)
      /\ holder' = Nobody /\ UNCHANGED <<use, mEvents, life>>
  BY DEF End, Ended, TopIs
<1>2. /\ Len(calls[t]) \in Nat /\ Len(calls[t]) \in 1 .. Len(calls[t]) 
      /\ Top(t) = calls[t][Len(calls[t])] 
  BY <1>1, Tops
<1>3. /\ calls' \in [Threads -> Seq(CallRecords)]
      /\ \A u \in Threads : Len(calls'[u]) <= MaxDepth
      /\ Distinct' /\ Alone'
      /\ \A u \in Threads : \A k \in 1 .. Len(calls'[u]) :
            /\ k \in 1 .. Len(calls[u]) /\ calls'[u][k] = calls[u][k]
            /\ k < Len(calls'[u]) => k < Len(calls[u])
            /\ u = t => k < Len(calls[t]) /\ calls[t][k].at = "call" /\ calls[t][k].op = "fire"
  BY <1>1, LeaveKeeps
<1>4. BusType'
  BY <1>1, <1>3 DEF BusType
<1>5. Stacked'
  <2> SUFFICES ASSUME NEW u \in Threads, NEW k \in 1 .. Len(calls'[u])
               PROVE  LET c == calls'[u][k] IN
                      /\ k < Len(calls'[u]) => c.at = "call"
                      /\ c.op # "fire" => c.at = "wait" /\ c.sub \in Subs /\ c.event = mEventId[c.sub]
                      /\ c.op = "subscribe" => life[c.sub] = "coming"
                      /\ c.op = "unsubscribe" => life[c.sub] = "going"
    BY <1>1 DEF Stacked
  <2>1. /\ k \in 1 .. Len(calls[u]) /\ calls'[u][k] = calls[u][k]
        /\ k < Len(calls'[u]) => k < Len(calls[u])
    BY <1>3
  <2> QED BY <2>1 DEF Stacked
<1>6. ListsOK'
  BY <1>1 DEF ListsOK
<1>7. CallsOK'
  BY <1>1, <1>3 DEF CallsOK
<1>8. Locked'
  <2> SUFFICES ASSUME use.excludes, NEW u \in Threads, NEW k \in 1 .. Len(calls'[u])
               PROVE  calls'[u][k].at = "wait"
    BY <1>1 DEF Locked
  <2>1. Len(calls[t]) = 1 /\ holder = t
    BY <1>1, <1>2 DEF Locked
  <2>2. u # t
    BY <1>2, <1>3, <2>1
  <2> QED BY <1>3, <2>1, <2>2 DEF Locked
<1> QED BY <1>3, <1>4, <1>5, <1>6, <1>7, <1>8
-----------------------------------------------------------------------------
LEMMA BusInit ==
    ASSUME Init PROVE BusInv
<1>1. \A t \in Threads : calls[t] = <<>> /\ Len(calls[t]) = 0 /\ 1 .. Len(calls[t]) = {}
  BY DEF Init
<1>2. \A e \in Events : mEvents[e] = <<>> /\ Members(mEvents[e]) = {} /\ Once(mEvents[e])
  BY DEF Init, Members, Once
<1>3. BusType
  <2>1. <<>> \in Seq(Subs) /\ <<>> \in Seq(CallRecords) /\ MaxDepth \in Nat
    BY BusAssumption
  <2> QED BY <1>1, <2>1 DEF Init, BusType, Life
<1>4. ListsOK
  BY <1>2 DEF ListsOK, Init
<1>5. Stacked /\ CallsOK /\ Locked /\ Alone
  BY <1>1 DEF Stacked, CallsOK, Locked, Alone, Init
<1>6. Distinct
  BY <1>1 DEF Distinct, Changes
<1> QED BY <1>3, <1>4, <1>5, <1>6 DEF BusInv

LEMMA BusNext ==
    ASSUME BusInv, [Next]_vars PROVE BusInv'
<1>1. CASE UNCHANGED vars
  <2>1. UNCHANGED <<use, mEvents, holder, life, calls>>
    BY <1>1 DEF vars
  <2> QED BY <2>1 DEF BusInv, BusType, Stacked, Distinct, ListsOK, CallsOK, Locked, Alone, 
                      Changes, Top, Aloof
<1>2. ASSUME NEW t \in Threads, Step(t), UNCHANGED use PROVE BusInv'
  <2>1. ASSUME NEW s \in Subs, Subscribe(t, s) PROVE BusInv'
    BY <1>2, <2>1, SubscribeKeeps
  <2>2. ASSUME NEW s \in Subs, Unsubscribe(t, s) PROVE BusInv'
    BY <1>2, <2>2, UnsubscribeKeeps
  <2>3. ASSUME NEW e \in Events, Fire(t, e) PROVE BusInv'
    BY <1>2, <2>3, FireKeeps
  <2>4. CASE Add(t)
    BY <1>2, <2>4, AddKeeps
  <2>5. CASE Remove(t)
    BY <1>2, <2>5, RemoveKeeps
  <2>6. CASE Begin(t)
    BY <1>2, <2>6, BeginKeeps
  <2>7. CASE Dispatch(t)
    BY <1>2, <2>7, DispatchKeeps
  <2>8. CASE End(t)
    BY <1>2, <2>8, EndKeeps
  <2>9. CASE Return(t)
    BY <1>2, <2>9, ReturnKeeps
  <2> QED BY <1>2, <2>1, <2>2, <2>3, <2>4, <2>5, <2>6, <2>7, <2>8, <2>9 DEF Step, Runs
<1> QED BY <1>1, <1>2 DEF Next

(***************************************************************************)
(* Every reachable state of every bus, with or without a Mutex, whatever   *)
(* its callbacks do with it, is one of BusInv.                             *)
(***************************************************************************)
THEOREM BusInvariant == Spec => []BusInv
<1>1. Init => BusInv
  BY BusInit
<1>2. BusInv /\ [Next]_vars => BusInv'
  BY BusNext
<1> QED BY <1>1, <1>2, PTL DEF Spec

-----------------------------------------------------------------------------
(***************************************************************************)
(* What follows from it                                                    *)
(***************************************************************************)
LEMMA DispatchesOK ==
    ASSUME BusInv, NEW c \in Dispatches
    PROVE  \E t \in Threads : \E k \in 1 .. Len(calls[t]) :
              c = calls[t][k] /\ c \in CallRecords /\ CallOK(c, mEvents[c.event])
<1>1. PICK t \in Threads : \E k \in DOMAIN calls[t] : c = calls[t][k]
  BY DEF Dispatches
<1>2. DOMAIN calls[t] = 1 .. Len(calls[t])
  BY LenProperties DEF BusInv, BusType
<1>3. PICK k \in 1 .. Len(calls[t]) : c = calls[t][k]
  BY <1>1, <1>2
<1>4. c \in CallRecords
  BY <1>3, CallTypes DEF BusInv
<1>5. CallOK(c, mEvents[c.event])
  BY <1>3 DEF BusInv, CallsOK
<1> QED BY <1>3, <1>4, <1>5

\* No list holds a destroyed subscription, or one twice, or lacks a living one
\* that got into it, whatever callbacks and other threads do.
THEOREM BusListsAreLive == Spec => []ListsAreLive
<1>1. BusInv => ListsAreLive
  <2> SUFFICES ASSUME BusInv PROVE ListsAreLive
    OBVIOUS
  <2> USE DEF BusInv
  <2>1. \A e \in Events : Listed(e) = Members(mEvents[e]) /\ mEvents[e] \in Seq(Subs) /\ Once(mEvents[e])
    BY DEF Listed, Members, BusType, ListsOK
  <2>2. \A e \in Events : Cardinality(Listed(e)) = Len(mEvents[e])
    BY <2>1, OnceLength
  <2>3. \A e \in Events : Listed(e) \subseteq Subs
    BY <2>1 DEF ListsOK
  <2>4. ASSUME NEW c \in Dispatches PROVE c.i <= Cardinality(Subs)
    <3>1. CallOK(c, mEvents[c.event]) /\ c.i \in Nat
      BY <2>4, DispatchesOK DEF CallRecords
    <3>2. Cardinality(Subs) \in Nat
      BY BusAssumption, FS_CardinalityType
    <3> QED BY <3>1, <3>2 DEF CallOK, Reached
  <2>5. TypeOK
    BY <2>3, <2>4 DEF TypeOK, BusType
  <2> QED BY <2>1, <2>2, <2>5 DEF ListsAreLive, ListsOK
<1> QED BY <1>1, BusInvariant, PTL

\* One fireEvent() calls a subscription once at most, also while callbacks
\* change the list it walks.
THEOREM BusHeardAtMostOnce == Spec => []HeardAtMostOnce
<1>1. BusInv => HeardAtMostOnce
  BY DispatchesOK DEF HeardAtMostOnce, CallOK
<1> QED BY <1>1, BusInvariant, PTL

\* A fireEvent() in which nobody left has called everybody that was there when
\* it began: the unlocked look at the length loses nobody.
THEOREM BusNobodyMissed == Spec => []NobodyMissed
<1>1. BusInv => NobodyMissed
  <2> SUFFICES ASSUME BusInv, NEW t \in Threads, Ended(t), ~Top(t).disturbed
               PROVE  Top(t).due \subseteq Top(t).heard
    BY DEF NobodyMissed
  <2> DEFINE c == Top(t)
             list == mEvents[c.event]
  <2>1. Busy(t) /\ c.at = "loop" /\ c.i >= Len(list)
    BY DEF Ended, TopIs, Subscribers
  <2>2. c \in CallRecords /\ CallOK(c, list) /\ list \in Seq(Subs)
    BY <2>1, Tops DEF BusInv, BusType, CallsOK, CallRecords
  <2> HIDE DEF c, list
  <2>3. Len(list) \in Nat /\ DOMAIN list = 1 .. Len(list) /\ c.i \in Nat
    BY <2>2, LenProperties DEF CallRecords
  <2>4. Reached(c) = Len(list) /\ \A k \in 1 .. Len(list) : list[k] \in c.heard
    BY <2>1, <2>2, <2>3 DEF CallOK, Reached, c
  <2>5. c.due \subseteq Members(list)
    BY <2>2 DEF CallOK
  <2> QED BY <2>3, <2>4, <2>5 DEF Members, c
<1> QED BY <1>1, BusInvariant, PTL

\* With a Mutex and callbacks that leave the bus alone, the list stands still
\* under a dispatch, and dispatches come one after another.
THEOREM BusDispatchAlone == Spec => []DispatchAlone
<1>1. BusInv => DispatchAlone
  <2> SUFFICES ASSUME BusInv, Aloof PROVE DispatchAlone
    BY DEF DispatchAlone
  <2>1. \A c \in Dispatches : ~c.disturbed
    BY DispatchesOK DEF BusInv, Alone
  <2>2. ASSUME NEW t \in Threads, Looping(t) PROVE holder = t
    BY <2>2, Tops DEF Looping, BusInv, Locked, Aloof
  <2> QED BY <2>1, <2>2 DEF DispatchAlone
<1> QED BY <1>1, BusInvariant, PTL

\* The dead bus: who waits for a lock that its own thread holds waits for ever,
\* and so does everybody that needs the lock after that.
THEOREM BusDiesOfItself == Spec => BusDies
<1> DEFINE Dead == \E t \in Threads : WaitsForItself(t)
           Stuck == /\ UNCHANGED <<mEvents, holder>>
                    /\ \A t \in Threads : Len(calls[t]) <= Len(calls'[t])
<1>1. ASSUME BusInv, [Next]_vars, Dead PROVE Stuck \/ UNCHANGED vars
  <2>1. PICK t \in Threads : Busy(t) /\ Top(t).at = "wait" /\ holder = t
    BY <1>1 DEF WaitsForItself
  <2>2. use.excludes /\ \A u \in Threads : ~MayLock(u)
    BY <1>1, <2>1, BusAssumption DEF BusInv, Locked, MayLock
  <2>3. ASSUME NEW u \in Threads PROVE ~End(u)
    <3> SUFFICES ASSUME Busy(u), Top(u).at = "loop" PROVE FALSE
      BY DEF End, Ended, TopIs
    <3>1. holder = u
      BY <1>1, <2>2, Tops DEF BusInv, Locked
    <3> QED BY <2>1, <3>1
  <2>4. \A u \in Threads : Len(calls[u]) \in Nat
    BY <1>1, CallTypes DEF BusInv
  <2>5. ASSUME NEW u \in Threads, NEW c, Enter(u, c), UNCHANGED <<mEvents, holder>> PROVE Stuck
    <3>1. calls' = [calls EXCEPT ![u] = Append(calls[u], c)] /\ calls \in [Threads -> Seq(CallRecords)]
      BY <1>1, <2>5 DEF Enter, BusInv, BusType
    <3>2. Len(calls'[u]) = Len(calls[u]) + 1
      BY <3>1, AppendProperties
    <3>3. \A v \in Threads \ {u} : calls'[v] = calls[v]
      BY <3>1
    <3> QED BY <2>4, <2>5, <3>2, <3>3
  <2>6. ASSUME NEW u \in Threads, NEW c, Continue(u, c), UNCHANGED <<mEvents, holder>> PROVE Stuck
    <3>1. calls' = [calls EXCEPT ![u] = [calls[u] EXCEPT ![Len(calls[u])] = c]]
      BY <2>6 DEF Continue
    <3>2. calls \in [Threads -> Seq(CallRecords)]
      BY <1>1 DEF BusInv, BusType
    <3>3. Len(calls'[u]) = Len(calls[u])
      BY <3>1, <3>2
    <3>4. \A v \in Threads \ {u} : calls'[v] = calls[v]
      BY <3>1, <3>2
    <3> QED BY <2>4, <2>6, <3>3, <3>4
  <2>7. ASSUME NEW u \in Threads, Step(u) PROVE Stuck
    <3>1. ASSUME NEW s \in Subs, Subscribe(u, s) \/ Unsubscribe(u, s) PROVE Stuck
      BY <2>5, <3>1 DEF Subscribe, Unsubscribe
    <3>2. ASSUME NEW e \in Events, Fire(u, e) PROVE Stuck
      BY <2>5, <3>2 DEF Fire
    <3>3. CASE Dispatch(u)
      BY <2>6, <3>3 DEF Dispatch
    <3>4. CASE Return(u)
      BY <2>6, <3>4 DEF Return
    <3>5. ~Add(u) /\ ~Remove(u) /\ ~Begin(u)
      BY <2>2 DEF Add, Remove, Begin
    <3> QED BY <2>3, <2>7, <3>1, <3>2, <3>3, <3>4, <3>5 DEF Step, Runs
  <2> QED BY <1>1, <2>7 DEF Next
<1>2. BusInv /\ [Next]_vars => [Dead => Stuck]_vars
  BY <1>1
<1> QED BY <1>2, BusInvariant, PTL DEF Spec, BusDies
=============================================================================
