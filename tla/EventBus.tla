------------------------------ MODULE EventBus ------------------------------
(***************************************************************************)
(* EventBus (TEventBus.hpp).  A subscription enters the list of its event  *)
(* in its constructor and leaves it in its destructor; fireEvent() calls   *)
(* the subscriptions of an event in the order of the list.  All of it      *)
(* happens under a mutex of the type the bus is built with, other than the *)
(* first look of fireEvent() at the length of the list.  The MutexDummy of *)
(* the default bus excludes nobody.                                        *)
(*                                                                         *)
(* A callback may use the bus that calls it: a thread has a stack of calls *)
(* under way, the innermost last.                                          *)
(***************************************************************************)
EXTENDS Naturals, Sequences, FiniteSets

CONSTANTS Threads, Nobody,
          Subs,         \* subscription objects
          Events,
          mEventId,     \* the event of each subscription
          Uses,         \* the buses there are, and what is done with them
          MaxDepth      \* bound: calls under way in a thread

Operations == {"subscribe", "unsubscribe", "fire"}

ASSUME BusAssumption ==
    /\ Nobody \notin Threads
    /\ mEventId \in [Subs -> Events] /\ IsFiniteSet(Subs)
    /\ \A u \in Uses : 
          /\ u.excludes \in BOOLEAN        \* with a Mutex, not a MutexDummy
          /\ u.callers \subseteq Threads   \* the threads that call it
          /\ ~u.excludes => Cardinality(u.callers) = 1
          /\ u.reenters \subseteq Operations  \* what callbacks do with it
    /\ MaxDepth \in Nat \ {0}

VARIABLES use,          \* one of Uses, throughout
          mEvents,      \* event |-> its subscriptions, in the order of the buffer
          holder,       \* the thread that has locked mMutex
          life,         \* what each subscription object is going through
          calls         \* the stack of each thread

vars == <<use, mEvents, holder, life, calls>>

(***************************************************************************)
(* "none"      the object does not exist                                   *)
(* "coming"    its constructor runs                                        *)
(* "there"     it exists                                                   *)
(* "unlisted"  it exists, but the bus had no memory for it                 *)
(* "going"     its destructor runs                                         *)
(***************************************************************************)
Life == {"none", "coming", "there", "unlisted", "going"}

Listed(e) == {mEvents[e][k] : k \in DOMAIN mEvents[e]}

(***************************************************************************)
(* A call under way: `at' is "wait" until it has the lock, then, for a     *)
(* fireEvent(), "loop", and "call" inside a callback.  What has been heard *)
(* of a dispatch is recorded: the subscriptions that were called, those    *)
(* that were there when it began and still are, whether any was called     *)
(* twice and whether any left after the loop had begun.                    *)
(***************************************************************************)
NewCall(op, e, s) ==
    [op |-> op, event |-> e, sub |-> s, at |-> "wait", i |-> 0,
     heard |-> {}, due |-> IF op = "fire" THEN Listed(e) ELSE {},
     twice |-> FALSE, disturbed |-> FALSE]

Busy(t) == calls[t] # <<>>
Top(t) == calls[t][Len(calls[t])]
TopIs(t, op, at) == Busy(t) /\ Top(t).op = op /\ Top(t).at = at

Enter(t, c) == calls' = [calls EXCEPT ![t] = Append(@, c)]
Continue(t, c) == calls' = [calls EXCEPT ![t][Len(calls[t])] = c]
Leave(t) == calls' = [calls EXCEPT ![t] = SubSeq(@, 1, Len(@) - 1)]

\* The client calls the bus, or a callback does.
Calls(t, op) ==
    \/ ~Busy(t) /\ t \in use.callers
    \/ /\ Busy(t) /\ Top(t).at = "call"
       /\ op \in use.reenters /\ Len(calls[t]) < MaxDepth

Init ==
    /\ use \in Uses
    /\ mEvents = [e \in Events |-> <<>>]
    /\ holder = Nobody
    /\ life = [s \in Subs |-> "none"]
    /\ calls = [t \in Threads |-> <<>>]
-----------------------------------------------------------------------------
\* Defect: the mutex lets everybody in.
MayLockAlways(t) == TRUE

\* Defect: the mutex is recursive.
MayLockAgain(t) == use.excludes => holder \in {Nobody, t}

\* Lock lock(mMutex) gets through.
MayLock(t) == use.excludes => holder = Nobody

\* Subscription(): addSubscriber() is called.
Subscribe(t, s) ==
    /\ Calls(t, "subscribe")
    /\ life[s] = "none"
    /\ life' = [life EXCEPT ![s] = "coming"]
    /\ Enter(t, NewCall("subscribe", mEventId[s], s))
    /\ UNCHANGED <<mEvents, holder>>

\* The subscription is pushed, if there is memory; nobody looks at that.
Add(t) ==
    LET s == Top(t).sub IN
    /\ TopIs(t, "subscribe", "wait") /\ MayLock(t)
    /\ \/ /\ mEvents' = [mEvents EXCEPT ![mEventId[s]] = Append(@, s)]
          /\ life' = [life EXCEPT ![s] = "there"]
       \/ /\ life' = [life EXCEPT ![s] = "unlisted"]
          /\ UNCHANGED mEvents
    /\ Leave(t)
    /\ UNCHANGED holder

\* ~Subscription(): removeSubscriber() is called.
Unsubscribe(t, s) ==
    /\ Calls(t, "unsubscribe")
    /\ life[s] \in {"there", "unlisted"}
    /\ life' = [life EXCEPT ![s] = "going"]
    /\ Enter(t, NewCall("unsubscribe", mEventId[s], s))
    /\ UNCHANGED <<mEvents, holder>>

\* Defect: the last one goes, whichever is to go.
WithoutLast(list, s) == SubSeq(list, 1, Len(list) - 1)

\* HeapBuffer::remove(object): the last one fills the gap.
Without(list, s) ==
    IF \A k \in DOMAIN list : list[k] # s THEN list
    ELSE LET gap == CHOOSE k \in DOMAIN list :
                      list[k] = s /\ \A j \in 1 .. k - 1 : list[j] # s
         IN  [k \in 1 .. Len(list) - 1 |-> IF k = gap THEN list[Len(list)] ELSE list[k]]

\* A dispatch c when s leaves.
Missing(c, s) ==
    [c EXCEPT !.heard = @ \ {s}, !.due = @ \ {s},
              !.disturbed = @ \/ (c.event = mEventId[s] /\ c.at # "wait")]

Remove(t) ==
    LET s == Top(t).sub IN
    /\ TopIs(t, "unsubscribe", "wait") /\ MayLock(t)
    /\ mEvents' = [mEvents EXCEPT ![mEventId[s]] = Without(@, s)]
    /\ life' = [life EXCEPT ![s] = "none"]
    /\ calls' = [u \in Threads |->
                   [k \in 1 .. Len(calls[u]) - (IF u = t THEN 1 ELSE 0) |->
                      Missing(calls[u][k], s)]]
    /\ UNCHANGED holder
-----------------------------------------------------------------------------
\* fireEvent() when the list is not empty: "don't even wait for lock"
\* otherwise.
Fire(t, e) ==
    /\ Calls(t, "fire")
    /\ mEvents[e] # <<>>
    /\ Enter(t, NewCall("fire", e, Nobody))
    /\ UNCHANGED <<mEvents, holder, life>>

Begin(t) ==
    /\ TopIs(t, "fire", "wait") /\ MayLock(t)
    /\ Continue(t, [Top(t) EXCEPT !.at = "loop"])
    /\ holder' = IF use.excludes THEN t ELSE Nobody
    /\ UNCHANGED <<mEvents, life>>

Subscribers(t) == mEvents[Top(t).event]

\* The next callback is called.
Dispatch(t) ==
    LET s == Subscribers(t)[Top(t).i + 1] IN
    /\ TopIs(t, "fire", "loop")
    /\ Top(t).i < Len(Subscribers(t))
    /\ Continue(t, [Top(t) EXCEPT !.at = "call",
                                  !.heard = @ \cup {s},
                                  !.twice = @ \/ s \in Top(t).heard])
    /\ UNCHANGED <<mEvents, holder, life>>

\* Defects: the index stays where it is, or moves by two.
ReturnStays(t) ==
    /\ TopIs(t, "fire", "call")
    /\ Continue(t, [Top(t) EXCEPT !.at = "loop"])
    /\ UNCHANGED <<mEvents, holder, life>>

ReturnSkips(t) ==
    /\ TopIs(t, "fire", "call")
    /\ Continue(t, [Top(t) EXCEPT !.at = "loop", !.i = @ + 2])
    /\ UNCHANGED <<mEvents, holder, life>>

\* It returns.
Return(t) ==
    /\ TopIs(t, "fire", "call")
    /\ Continue(t, [Top(t) EXCEPT !.at = "loop", !.i = @ + 1])
    /\ UNCHANGED <<mEvents, holder, life>>

Ended(t) == TopIs(t, "fire", "loop") /\ Top(t).i >= Len(Subscribers(t))

\* The loop is over and the lock is released.
End(t) ==
    /\ Ended(t)
    /\ Leave(t)
    /\ holder' = Nobody
    /\ UNCHANGED <<mEvents, life>>

\* What a thread inside the bus does on its own.
Runs(t) == Add(t) \/ Remove(t) \/ Begin(t) \/ Dispatch(t) \/ End(t)

Step(t) ==
    \/ \E s \in Subs : Subscribe(t, s) \/ Unsubscribe(t, s)
    \/ \E e \in Events : Fire(t, e)
    \/ Runs(t) \/ Return(t)

Next == \E t \in Threads : Step(t) /\ UNCHANGED use

(***************************************************************************)
(* A thread inside the bus keeps running, unless it waits for the lock;    *)
(* callbacks, at whatever depth, return after a while.                     *)
(***************************************************************************)
Returns(d) == \E t \in Threads : Len(calls[t]) = d /\ Return(t)

Fairness == 
    /\ \A t \in Threads : WF_vars(Runs(t) /\ UNCHANGED use)
    /\ \A d \in 1 .. MaxDepth : SF_vars(Returns(d) /\ UNCHANGED use)

Spec == Init /\ [][Next]_vars /\ Fairness
-----------------------------------------------------------------------------
Dispatches == UNION {{calls[t][k] : k \in DOMAIN calls[t]} : t \in Threads}

TypeOK ==
    /\ \A e \in Events : Listed(e) \subseteq Subs
    /\ holder \in Threads \cup {Nobody}
    /\ life \in [Subs -> Life]
    /\ \A t \in Threads : Len(calls[t]) <= MaxDepth
    /\ \A c \in Dispatches : c.i <= Cardinality(Subs)

(***************************************************************************)
(* The list of an event never holds a pointer to a destroyed subscription, *)
(* nor one pointer twice, and a subscription that got into it stays there  *)
(* until it is destroyed: also when a callback of the event destroys       *)
(* itself or another one.                                                  *)
(***************************************************************************)
ListsAreLive == TypeOK /\ \A e \in Events :
    /\ Listed(e) \subseteq {s \in Subs : mEventId[s] = e /\ life[s] \in {"there", "going"}}
    /\ {s \in Subs : mEventId[s] = e /\ life[s] = "there"} \subseteq Listed(e)
    /\ Cardinality(Listed(e)) = Len(mEvents[e])

(***************************************************************************)
(* One fireEvent() never calls a subscription twice, whatever callbacks    *)
(* do to the list it walks.                                                *)
(***************************************************************************)
HeardAtMostOnce == \A c \in Dispatches : ~c.twice

(***************************************************************************)
(* Every subscription that was there when fireEvent() was called, and      *)
(* still is, has been called when it returns; the unlocked look at the     *)
(* length loses nobody.  This does not hold for a dispatch in which        *)
(* somebody left: the last subscription moves to the gap, which the loop   *)
(* may have passed.                                                        *)
(***************************************************************************)
NobodyMissed ==
    \A t \in Threads : Ended(t) => Top(t).due \subseteq Top(t).heard \/ Top(t).disturbed

(***************************************************************************)
(* With a Mutex, and callbacks that do not use the bus, the list does not  *)
(* change under a dispatch: nobody leaves it, and two dispatches are never *)
(* in their loops at once.                                                 *)
(***************************************************************************)
Looping(t) == Busy(t) /\ Top(t).at # "wait"
Aloof == use.excludes /\ use.reenters = {}
DispatchAlone ==
    Aloof =>
      /\ \A t, u \in Threads : Looping(t) /\ Looping(u) => t = u
      /\ \A c \in Dispatches : ~c.disturbed

(***************************************************************************)
(* A dispatch that has the lock ends, and so do all calls callbacks have   *)
(* made from it, if subscribing comes to an end: as long as callbacks go   *)
(* on to subscribe new objects the loop may have more and more before it.  *)
(* A bus with a Mutex needs callbacks that leave it alone for that.        *)
(***************************************************************************)
SubscribingStops == <>[][\A s \in Subs : life'[s] = "coming" => life[s] = "coming"]_vars

DispatchEnds ==
    SubscribingStops =>
      \A t \in Threads : 
        (Busy(t) /\ calls[t][1].at # "wait" /\ (use.excludes => Aloof)) ~> ~Busy(t)

(***************************************************************************)
(* A callback that uses a bus with a Mutex waits for its own thread, and   *)
(* the bus is dead from then on: no list ever changes again, nobody that   *)
(* has called the bus, from whichever thread, ever returns.                *)
(***************************************************************************)
WaitsForItself(t) == Busy(t) /\ Top(t).at = "wait" /\ holder = t
BusDies ==
    [][(\E t \in Threads : WaitsForItself(t)) =>
          /\ UNCHANGED <<mEvents, holder>>
          /\ \A t \in Threads : Len(calls[t]) <= Len(calls'[t])]_vars
=============================================================================
