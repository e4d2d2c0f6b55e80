-------------------------- MODULE GnssSearchProofs --------------------------
(***************************************************************************)
(* Theorems of GnssSearch, for every set of calls that may fail and every  *)
(* lag of the state machine: its types, that a search has its timeout,     *)
(* that the timeout is put off a limited number of times, and that no      *)
(* handler arms it once the search is over.                                *)
(***************************************************************************)
EXTENDS GnssSearch, SequenceTheorems, TLAPS

-----------------------------------------------------------------------------
(***************************************************************************)
(* The inductive invariant.                                                *)
(***************************************************************************)

(* What is left of a call: a search is started, or it has been left.       *)
Starting ==
    {<<>>, <<"arm">>, <<"running", "arm">>, <<"start", "running", "arm">>,
     <<"cancel", "start", "running", "arm">>,
     <<"reset", "cancel", "start", "running", "arm">>}

Stopping == {<<>>, <<"clear">>, <<"cancel", "clear">>, <<"stop", "cancel", "clear">>}

CallInv == call \in IF sm.searching THEN Starting ELSE Stopping

(* What may still arm the timeout of a search that has been left: the      *)
(* exit was overtaken, or the service runs on.                             *)
Excused == late \/ (gnss.running /\ call = <<>>)

CallbackInv == ~sm.searching /\ callback # "none" => Excused

Inv == TypeOK /\ CallInv /\ SearchIsTimed /\ TimerEndsWithSearch /\ CallbackInv

-----------------------------------------------------------------------------
(***************************************************************************)
(* The queue of the work items.                                            *)
(***************************************************************************)

LEMMA AppendToQueue ==
    ASSUME NEW q \in Seq(Items), IsInjective(q), NEW i \in Items, i \notin Range(q)
    PROVE  /\ Append(q, i) \in Seq(Items) /\ IsInjective(Append(q, i))
           /\ Range(Append(q, i)) = Range(q) \union {i}
<1>1. /\ Append(q, i) \in Seq(Items) /\ Len(q) \in Nat
      /\ DOMAIN q = 1..Len(q) /\ DOMAIN Append(q, i) = 1..(Len(q) + 1)
      /\ \A k \in 1..Len(q) : Append(q, i)[k] = q[k]
      /\ Append(q, i)[Len(q) + 1] = i
  OBVIOUS
<1>2. \A k \in 1..Len(q) : q[k] # i
  BY <1>1 DEF Range
<1>3. IsInjective(Append(q, i))
  BY <1>1, <1>2 DEF IsInjective
<1>4. Range(Append(q, i)) = Range(q) \union {i}
  BY <1>1 DEF Range
<1>5. QED
  BY <1>1, <1>3, <1>4

LEMMA TakeFromQueue ==
    ASSUME NEW q \in Seq(Items), IsInjective(q), q # <<>>
    PROVE  /\ Tail(q) \in Seq(Items) /\ IsInjective(Tail(q))
           /\ Range(Tail(q)) = Range(q) \ {Head(q)}
<1>1. /\ Tail(q) \in Seq(Items) /\ Len(q) \in Nat \ {0}
      /\ DOMAIN q = 1..Len(q) /\ DOMAIN Tail(q) = 1..(Len(q) - 1)
      /\ \A k \in 1..(Len(q) - 1) : Tail(q)[k] = q[k + 1]
      /\ Head(q) = q[1]
  OBVIOUS
<1>2. IsInjective(Tail(q))
  BY <1>1 DEF IsInjective
<1>3. \A k \in 2..Len(q) : k - 1 \in 1..(Len(q) - 1) /\ q[k] = Tail(q)[k - 1] /\ q[k] # q[1]
  BY <1>1 DEF IsInjective
<1>4. ASSUME NEW k \in 1..(Len(q) - 1) PROVE Tail(q)[k] \in Range(q) \ {Head(q)}
  <2>1. k + 1 \in 2..Len(q) /\ k + 1 \in DOMAIN q /\ Tail(q)[k] = q[k + 1]
    BY <1>1
  <2>2. q[k + 1] # q[1]
    BY <1>3, <2>1
  <2>3. QED
    BY <1>1, <2>1, <2>2 DEF Range
<1>5. ASSUME NEW k \in 1..Len(q), q[k] # q[1] PROVE q[k] \in Range(Tail(q))
  <2>1. k - 1 \in DOMAIN Tail(q) /\ q[k] = Tail(q)[k - 1]
    BY <1>1, <1>3, <1>5
  <2>2. QED
    BY <2>1 DEF Range
<1>6. Range(Tail(q)) = Range(q) \ {Head(q)}
  BY <1>1, <1>4, <1>5 DEF Range
<1>7. QED
  BY <1>1, <1>2, <1>6

LEMMA RemoveFromQueue ==
    ASSUME NEW q \in Seq(Items), IsInjective(q), NEW i \in Items
    PROVE  /\ RemoveFirst(q, i) \in Seq(Items) /\ IsInjective(RemoveFirst(q, i))
           /\ Range(RemoveFirst(q, i)) = Range(q) \ {i}
<1>1. Len(q) \in Nat /\ DOMAIN q = 1..Len(q) /\ \A k \in 1..Len(q) : q[k] \in Items
  OBVIOUS
<1>2. CASE ~\E k \in 1..Len(q) : q[k] = i
  <2>1. RemoveFirst(q, i) = q
    BY <1>2 DEF RemoveFirst
  <2>2. i \notin Range(q)
    BY <1>1, <1>2 DEF Range
  <2>3. QED
    BY <2>1, <2>2
<1>3. CASE \E k \in 1..Len(q) : q[k] = i
  <2>1. PICK n \in 1..Len(q) : q[n] = i
    BY <1>3
  <2>2. {k \in 1..Len(q) : q[k] = i} = {n}
    BY <1>1, <2>1 DEF IsInjective
  <2>3. Min({n}) = n
    BY <2>1 DEF Min
  <2>4. SelectInSeq(q, LAMBDA v : v = i) = n
    BY <2>2, <2>3 DEF SelectInSeq
  <2> DEFINE r == RemoveAt(q, n)
  <2>5. RemoveFirst(q, i) = r
    BY <1>3, <2>4 DEF RemoveFirst
  <2>6. r = SubSeq(q, 1, n - 1) \o SubSeq(q, n + 1, Len(q))
    BY DEF RemoveAt
  <2> HIDE DEF r
  <2> DEFINE front == SubSeq(q, 1, n - 1)
             rest == SubSeq(q, n + 1, Len(q))
  <2>7. /\ front \in Seq(Items) /\ Len(front) = n - 1
        /\ \A k \in 1..(n - 1) : front[k] = q[k]
    <3>1. n - 1 \in Int /\ \A k \in 1..(n - 1) : q[k] \in Items
      BY <1>1, <2>1
    <3>2. /\ front \in Seq(Items)
          /\ Len(front) = IF 1 <= n - 1 THEN (n - 1) - 1 + 1 ELSE 0
          /\ \A k \in 1..((n - 1) - 1 + 1) : front[k] = q[1 + k - 1]
      BY <3>1, SubSeqProperties
    <3>3. QED
      BY <2>1, <3>2
  <2>8. /\ rest \in Seq(Items) /\ Len(rest) = Len(q) - n
        /\ \A k \in 1..(Len(q) - n) : rest[k] = q[n + k]
    <3>1. n + 1 \in Int /\ Len(q) \in Int /\ \A k \in (n + 1)..Len(q) : q[k] \in Items
      BY <1>1, <2>1
    <3>2. /\ rest \in Seq(Items)
          /\ Len(rest) = IF n + 1 <= Len(q) THEN Len(q) - (n + 1) + 1 ELSE 0
          /\ \A k \in 1..(Len(q) - (n + 1) + 1) : rest[k] = q[n + 1 + k - 1]
      BY <3>1, SubSeqProperties
    <3> HIDE DEF rest
    <3>3. Len(q) - (n + 1) + 1 = Len(q) - n
      BY <1>1, <2>1
    <3>4. Len(rest) = Len(q) - n
      <4>1. Len(rest) = IF n + 1 <= Len(q) THEN Len(q) - (n + 1) + 1 ELSE 0
        BY <3>2
      <4>2. n \in Int /\ Len(q) \in Int /\ n <= Len(q)
        BY <1>1, <2>1
      <4>3. QED
        BY <4>1, <4>2
    <3>5. ASSUME NEW k \in 1..(Len(q) - n) PROVE rest[k] = q[n + k]
      <4>1. n + 1 + k - 1 = n + k
        BY <2>1
      <4>2. QED
        BY <3>2, <3>3, <4>1
    <3>6. QED
      BY <3>2, <3>4, <3>5
  <2> HIDE DEF front, rest
  <2>9. /\ r \in Seq(Items) /\ Len(r) = Len(q) - 1
        /\ \A k \in 1..(Len(q) - 1) : r[k] = IF k <= n - 1 THEN front[k] ELSE rest[k - (n - 1)]
    <3>1. r = front \o rest
      BY <2>6 DEF front, rest
    <3>2. /\ r \in Seq(Items) /\ Len(r) = Len(front) + Len(rest)
          /\ \A k \in 1..(Len(front) + Len(rest)) :
                 r[k] = IF k <= Len(front) THEN front[k] ELSE rest[k - Len(front)]
      BY <2>7, <2>8, <3>1, ConcatProperties
    <3>3. QED
      BY <1>1, <2>1, <2>7, <2>8, <3>2
  <2>9a. DOMAIN r = 1..(Len(q) - 1)
    BY <1>1, <2>9
  <2>10. ASSUME NEW k \in 1..(Len(q) - 1)
         PROVE  r[k] = IF k < n THEN q[k] ELSE q[k + 1]
    <3>1. CASE k < n
      <4>1. k \in 1..(n - 1)
        BY <2>1, <3>1
      <4>2. QED
        BY <2>1, <2>7, <2>9, <3>1, <4>1
    <3>2. CASE k >= n
      <4>1. k - (n - 1) \in 1..(Len(q) - n) /\ n + (k - (n - 1)) = k + 1
        BY <1>1, <2>1, <3>2
      <4>2. rest[k - (n - 1)] = q[k + 1]
        BY <2>8, <4>1
      <4>3. QED
        BY <2>1, <2>9, <3>2, <4>2
    <3>3. QED
      BY <2>1, <3>1, <3>2
  <2>11. IsInjective(r)
    <3>1. ASSUME NEW a \in 1..(Len(q) - 1), NEW b \in 1..(Len(q) - 1), r[a] = r[b]
          PROVE  a = b
      <4>1. (IF a < n THEN a ELSE a + 1) = (IF b < n THEN b ELSE b + 1)
        BY <1>1, <2>1, <2>10, <3>1 DEF IsInjective
      <4>2. QED
        BY <2>1, <4>1
    <3>2. QED
      BY <2>9a, <3>1 DEF IsInjective
  <2>12. ASSUME NEW k \in 1..(Len(q) - 1) PROVE r[k] \in Range(q) \ {i}
    <3>1. PICK j \in 1..Len(q) : j # n /\ r[k] = q[j]
      <4>1. CASE k < n
        BY <1>1, <2>1, <2>10, <4>1
      <4>2. CASE k >= n
        <5>1. k + 1 \in 1..Len(q) /\ k + 1 # n /\ r[k] = q[k + 1]
          BY <1>1, <2>1, <2>10, <4>2
        <5>2. QED
          BY <5>1
      <4>3. QED
        BY <2>1, <4>1, <4>2
    <3>2. QED
      BY <1>1, <2>1, <3>1 DEF Range, IsInjective
  <2>13. ASSUME NEW k \in 1..Len(q), q[k] # i PROVE q[k] \in Range(r)
    <3>1. CASE k < n
      BY <1>1, <2>1, <2>9a, <2>10, <3>1 DEF Range
    <3>2. CASE k > n
      <4>1. k - 1 \in 1..(Len(q) - 1) /\ r[k - 1] = q[k]
        BY <1>1, <2>1, <2>10, <3>2
      <4>2. QED
        BY <2>9a, <4>1 DEF Range
    <3>3. QED
      BY <2>1, <2>13, <3>1, <3>2
  <2>14. Range(r) = Range(q) \ {i}
    BY <1>1, <2>9a, <2>12, <2>13 DEF Range
  <2>15. QED
    BY <2>5, <2>9, <2>11, <2>14
<1>4. QED
  BY <1>2, <1>3

-----------------------------------------------------------------------------
(***************************************************************************)
(* What the kernel's calls do to the work items, and to the timeout.       *)
(***************************************************************************)

WorkItems == {w \in [delayed : SUBSET (Items \ {"pvt"}), queue : Seq(Items)] :
                  IsInjective(w.queue)}

Pending(w) == "timeout" \in w.delayed \union Range(w.queue)

LEMMA DelayedWork ==
    ASSUME NEW w \in WorkItems, NEW i \in Items \ {"pvt"}
    PROVE  /\ Delayed(w, i) \in WorkItems
           /\ Pending(Delayed(w, i)) <=> Pending(w) \/ i = "timeout"
BY DEF Delayed, WorkItems, Pending

LEMMA SubmittedWork ==
    ASSUME NEW w \in WorkItems, NEW i \in Items
    PROVE  /\ Submitted(w, i) \in WorkItems
           /\ Pending(Submitted(w, i)) <=> Pending(w) \/ i = "timeout"
<1>1. CASE i \in Range(w.queue) \/ (i = "request" /\ request = "cancelled")
  BY <1>1 DEF Submitted, WorkItems, Pending
<1>2. CASE ~(i \in Range(w.queue) \/ (i = "request" /\ request = "cancelled"))
  <2>1. Submitted(w, i) = [delayed |-> w.delayed \ {i}, queue |-> Append(w.queue, i)]
    BY <1>2 DEF Submitted
  <2>2. w.queue \in Seq(Items) /\ IsInjective(w.queue)
    BY DEF WorkItems
  <2>3. /\ Append(w.queue, i) \in Seq(Items) /\ IsInjective(Append(w.queue, i))
        /\ Range(Append(w.queue, i)) = Range(w.queue) \union {i}
    BY <1>2, <2>2, AppendToQueue
  <2>4. /\ Submitted(w, i).delayed = w.delayed \ {i}
        /\ Submitted(w, i).queue = Append(w.queue, i)
    BY <2>1
  <2>5. w.delayed \ {i} \in SUBSET (Items \ {"pvt"})
    BY DEF WorkItems
  <2>6. Submitted(w, i) \in WorkItems
    <3>1. Submitted(w, i) \in [delayed : SUBSET (Items \ {"pvt"}), queue : Seq(Items)]
      BY <2>1, <2>3, <2>5
    <3>2. IsInjective(Submitted(w, i).queue)
      BY <2>3, <2>4
    <3>3. QED
      BY <3>1, <3>2 DEF WorkItems
  <2>7. Pending(Submitted(w, i)) <=> Pending(w) \/ i = "timeout"
    BY <2>3, <2>4 DEF Pending
  <2>8. QED
    BY <2>6, <2>7
<1>3. QED
  BY <1>1, <1>2

LEMMA CancelledWork ==
    ASSUME NEW w \in WorkItems, NEW i \in Items
    PROVE  /\ Cancelled(w, i) \in WorkItems
           /\ Pending(Cancelled(w, i)) <=> Pending(w) /\ i # "timeout"
<1>1. w.queue \in Seq(Items) /\ IsInjective(w.queue)
  BY DEF WorkItems
<1>2. /\ RemoveFirst(w.queue, i) \in Seq(Items) /\ IsInjective(RemoveFirst(w.queue, i))
      /\ Range(RemoveFirst(w.queue, i)) = Range(w.queue) \ {i}
  BY <1>1, RemoveFromQueue
<1>3. QED
  BY <1>2 DEF Cancelled, WorkItems, Pending

LEMMA AssistanceCancelledWork ==
    ASSUME NEW w \in WorkItems
    PROVE  /\ AssistanceCancelled(w) \in WorkItems
           /\ Pending(AssistanceCancelled(w)) <=> Pending(w)
<1>1. "request" \in Items /\ "monitor" \in Items
  BY DEF Items
<1>2. /\ Cancelled(w, "request") \in WorkItems
      /\ Pending(Cancelled(w, "request")) <=> Pending(w)
  BY <1>1, CancelledWork
<1>3. QED
  BY <1>1, <1>2, CancelledWork DEF AssistanceCancelled

LEMMA TakenWork ==
    ASSUME TypeOK, NEW i, Takes(i)
    PROVE  /\ work \in WorkItems /\ Taken \in WorkItems
           /\ Pending(Taken) => Pending(work)
           /\ i # "timeout" /\ Pending(work) => Pending(Taken)
           /\ i = "timeout" => (Pending(Taken) <=> "timeout" \in work.delayed)
<1>1. /\ work \in WorkItems /\ work.queue \in Seq(Items) /\ IsInjective(work.queue)
      /\ work.queue # <<>> /\ Head(work.queue) = i
  BY DEF TypeOK, Takes, WorkItems
<1>2. /\ Tail(work.queue) \in Seq(Items) /\ IsInjective(Tail(work.queue))
      /\ Range(Tail(work.queue)) = Range(work.queue) \ {i}
  BY <1>1, TakeFromQueue
<1>3. QED
  BY <1>1, <1>2 DEF Taken, WorkItems, Pending

-----------------------------------------------------------------------------
(***************************************************************************)
(* The parts of a step.                                                    *)
(***************************************************************************)

(* An event that is posted is in the inbox.                                *)
LEMMA PostedEvent ==
    ASSUME TypeOK, NEW e \in {"FIX", "TIMEOUT"}, Posts(e)
    PROVE  /\ inbox' \in Seq({"FIX", "TIMEOUT"}) /\ Len(inbox') <= MaxInbox
           /\ inbox' # <<>>
<1>1. /\ inbox \in Seq({"FIX", "TIMEOUT"}) /\ Len(inbox) < MaxInbox /\ MaxInbox \in Nat
      /\ inbox' = Append(inbox, e)
  BY GnssSearchAssumption DEF TypeOK, Posts
<1>2. /\ inbox' \in Seq({"FIX", "TIMEOUT"}) /\ Len(inbox') = Len(inbox) + 1
      /\ Len(inbox) \in Nat
  BY <1>1
<1>3. QED
  BY <1>1, <1>2

(* ...and one that is taken is not.                                        *)
LEMMA TakenEvent ==
    ASSUME TypeOK, inbox # <<>>
    PROVE  Tail(inbox) \in Seq({"FIX", "TIMEOUT"}) /\ Len(Tail(inbox)) <= MaxInbox
<1>1. /\ inbox \in Seq({"FIX", "TIMEOUT"}) /\ Len(inbox) <= MaxInbox /\ MaxInbox \in Nat
      /\ Len(inbox) \in Nat
  BY GnssSearchAssumption DEF TypeOK
<1>2. Tail(inbox) \in Seq({"FIX", "TIMEOUT"}) /\ Len(Tail(inbox)) = Len(inbox) - 1
  BY <1>1, HeadTailProperties
<1>3. QED
  BY <1>1, <1>2

Steps == {"reset", "cancel", "start", "running", "arm", "stop", "clear"}

(* Every call is a sequence of steps, and one with a step left is not over.*)
LEMMA CallLiterals ==
    /\ <<"arm">> \in Seq(Steps) /\ <<"arm">> # <<>>
    /\ <<"running", "arm">> \in Seq(Steps) /\ <<"running", "arm">> # <<>>
    /\ <<"start", "running", "arm">> \in Seq(Steps) /\ <<"start", "running", "arm">> # <<>>
    /\ <<"cancel", "start", "running", "arm">> \in Seq(Steps) /\ <<"cancel", "start", "running", "arm">> # <<>>
    /\ <<"reset", "cancel", "start", "running", "arm">> \in Seq(Steps) /\ <<"reset", "cancel", "start", "running", "arm">> # <<>>
    /\ <<"clear">> \in Seq(Steps) /\ <<"clear">> # <<>>
    /\ <<"cancel", "clear">> \in Seq(Steps) /\ <<"cancel", "clear">> # <<>>
    /\ <<"stop", "cancel", "clear">> \in Seq(Steps) /\ <<"stop", "cancel", "clear">> # <<>>
BY DEF Steps

LEMMA CallTypes == ASSUME NEW c \in Starting \union Stopping PROVE c \in Seq(Steps)
<1>1. <<>> \in Seq(Steps)
  OBVIOUS
<1>2. QED
  BY <1>1, CallLiterals, Zenon DEF Starting, Stopping

(* A call advances along its steps; only "arm" ends the start of a search. *)
LEMMA CallAdvances ==
    ASSUME CallInv, call # <<>>
    PROVE  /\ Tail(call) \in IF sm.searching THEN Starting ELSE Stopping
           /\ sm.searching /\ Tail(call) = <<>> => Head(call) = "arm"
           /\ Head(call) = "arm" => sm.searching
<1>1. CASE sm.searching
  <2>1. call \in Starting
    BY <1>1 DEF CallInv
  <2>2. CASE call = <<"arm">>
    <3>1. Tail(call) = <<>> /\ Head(call) = "arm"
      BY <2>2
    <3>2. Tail(call) \in Starting
      BY <3>1, Zenon DEF Starting
    <3>3. QED
      BY <1>1, <3>1, <3>2
  <2>3. CASE call = <<"running", "arm">>
    <3>1. Tail(call) = <<"arm">> /\ Head(call) = "running"
      BY <2>3
    <3>2. Tail(call) \in Starting
      BY <3>1, Zenon DEF Starting
    <3>3. QED
      BY <1>1, <3>1, <3>2, CallLiterals
  <2>4. CASE call = <<"start", "running", "arm">>
    <3>1. Tail(call) = <<"running", "arm">> /\ Head(call) = "start"
      BY <2>4
    <3>2. Tail(call) \in Starting
      BY <3>1, Zenon DEF Starting
    <3>3. QED
      BY <1>1, <3>1, <3>2, CallLiterals
  <2>5. CASE call = <<"cancel", "start", "running", "arm">>
    <3>1. Tail(call) = <<"start", "running", "arm">> /\ Head(call) = "cancel"
      BY <2>5
    <3>2. Tail(call) \in Starting
      BY <3>1, Zenon DEF Starting
    <3>3. QED
      BY <1>1, <3>1, <3>2, CallLiterals
  <2>6. CASE call = <<"reset", "cancel", "start", "running", "arm">>
    <3>1. Tail(call) = <<"cancel", "start", "running", "arm">> /\ Head(call) = "reset"
      BY <2>6
    <3>2. Tail(call) \in Starting
      BY <3>1, Zenon DEF Starting
    <3>3. QED
      BY <1>1, <3>1, <3>2, CallLiterals
  <2>7. QED
    BY <2>1, <2>2, <2>3, <2>4, <2>5, <2>6 DEF Starting
<1>2. CASE ~sm.searching
  <2>1. call \in Stopping
    BY <1>2 DEF CallInv
  <2>2. CASE call = <<"clear">>
    <3>1. Tail(call) = <<>> /\ Head(call) = "clear"
      BY <2>2
    <3>2. Tail(call) \in Stopping
      BY <3>1, Zenon DEF Stopping
    <3>3. QED
      BY <1>2, <3>1, <3>2
  <2>3. CASE call = <<"cancel", "clear">>
    <3>1. Tail(call) = <<"clear">> /\ Head(call) = "cancel"
      BY <2>3
    <3>2. Tail(call) \in Stopping
      BY <3>1, Zenon DEF Stopping
    <3>3. QED
      BY <1>2, <3>1, <3>2, CallLiterals
  <2>4. CASE call = <<"stop", "cancel", "clear">>
    <3>1. Tail(call) = <<"cancel", "clear">> /\ Head(call) = "stop"
      BY <2>4
    <3>2. Tail(call) \in Stopping
      BY <3>1, Zenon DEF Stopping
    <3>3. QED
      BY <1>2, <3>1, <3>2, CallLiterals
  <2>5. QED
    BY <2>1, <2>2, <2>3, <2>4 DEF Stopping
<1>3. QED
  BY <1>1, <1>2

(* The timeout is armed, and it is known whether for a search.             *)
LEMMA TimeoutArmed ==
    ASSUME TypeOK, NEW w \in WorkItems, ArmsTimeout(w)
    PROVE  /\ work' \in WorkItems /\ Pending(work)' /\ late' \in BOOLEAN
           /\ late => late'
           /\ late' \/ sm.searching \/ call = <<>>
<1>1. work' = Delayed(w, "timeout") /\ late' = (late \/ (~sm.searching /\ call # <<>>))
  BY DEF ArmsTimeout, Leaving
<1>2. "timeout" \in Items \ {"pvt"}
  BY DEF Items
<1>3. Delayed(w, "timeout") \in WorkItems /\ Pending(Delayed(w, "timeout"))
  BY <1>2, DelayedWork
<1>4. work' \in WorkItems /\ Pending(work)'
  BY <1>1, <1>3 DEF Pending
<1>5. QED
  BY <1>1, <1>4 DEF TypeOK

(* The invariant after a step of anyone but the state machine.             *)
LEMMA OtherContext ==
    ASSUME Inv, sm' = sm, call' = call, modemOn' = modemOn,
           gnss' \in Flags, gnss'.running = gnss.running,
           work' \in WorkItems, late' \in BOOLEAN,
           request' \in {"none", "blocked", "cancelled"},
           callback' \in {"none", "checked", "marked"},
           inbox' = inbox \/ Posts("FIX") \/ Posts("TIMEOUT"),
           Pending(work) => Pending(work)' \/ inbox' # inbox,
           Pending(work)' => Pending(work) \/ sm.searching \/ Excused',
           callback' # "none" => callback # "none" \/ sm.searching \/ Excused',
           late => late' \/ (callback' = "none" /\ ~Pending(work)')
    PROVE  Inv'
<1>1. /\ inbox' \in Seq({"FIX", "TIMEOUT"}) /\ Len(inbox') <= MaxInbox
      /\ inbox' = inbox \/ inbox' # <<>>
  BY PostedEvent DEF Inv, TypeOK
<1>2. TypeOK'
  BY <1>1 DEF Inv, TypeOK, WorkItems
<1>3. CallInv'
  BY DEF Inv, CallInv
<1>4. SearchIsTimed' /\ TimerEndsWithSearch' /\ CallbackInv'
  BY <1>1 DEF Inv, SearchIsTimed, TimerEndsWithSearch, CallbackInv, Excused,
     TimeoutPending, Pending
<1>5. QED
  BY <1>2, <1>3, <1>4 DEF Inv

(* The types of what a step of another context may leave alone.            *)
LEMMA Unchanged ==
    ASSUME Inv
    PROVE  /\ gnss \in Flags /\ work \in WorkItems /\ late \in BOOLEAN
           /\ request \in {"none", "blocked", "cancelled"}
           /\ callback \in {"none", "checked", "marked"}
BY DEF Inv, TypeOK, WorkItems

(* A handler that saw the service running may arm the timeout.             *)
LEMMA ArmedByRunning ==
    ASSUME Inv, NEW w \in WorkItems, ArmsTimeout(w), gnss.running,
           gnss'.running = gnss.running, call' = call
    PROVE  /\ work' \in WorkItems /\ late' \in BOOLEAN /\ (late => late')
           /\ Pending(work)' /\ (sm.searching \/ Excused')
<1>1. /\ work' \in WorkItems /\ Pending(work)' /\ late' \in BOOLEAN
      /\ late => late'
      /\ late' \/ sm.searching \/ call = <<>>
  BY TimeoutArmed DEF Inv
<1>2. QED
  BY <1>1 DEF Excused

-----------------------------------------------------------------------------
(***************************************************************************)
(* The invariant is inductive: interrupts, delays and the cloud's thread.  *)
(***************************************************************************)

LEMMA DelayStep == ASSUME Inv, NEW i \in Items, DelayExpires(i) PROVE Inv'
<1>1. /\ i \in work.delayed /\ work' = Submitted(work, i)
      /\ UNCHANGED <<sm, call, inbox, gnss, modemOn, request, callback, late>>
  BY DEF DelayExpires
<1>2. i = "timeout" => Pending(work)
  BY <1>1 DEF Pending
<1>3. work' \in WorkItems /\ (Pending(work)' <=> Pending(work))
  BY <1>1, <1>2, Unchanged, SubmittedWork DEF Pending
<1>4. QED
  BY <1>1, <1>3, Unchanged, OtherContext

LEMMA ModemStep == ASSUME Inv, PvtEvent \/ AgnssRequested PROVE Inv'
<1>1. "pvt" \in Items /\ "request" \in Items
  BY DEF Items
<1>2. CASE PvtEvent
  <2>1. /\ work' = Submitted(work, "pvt")
        /\ UNCHANGED <<sm, call, inbox, gnss, modemOn, request, callback, late>>
    BY <1>2 DEF PvtEvent
  <2>2. work' \in WorkItems /\ (Pending(work)' <=> Pending(work))
    BY <1>1, <2>1, Unchanged, SubmittedWork DEF Pending
  <2>3. QED
    BY <2>1, <2>2, Unchanged, OtherContext
<1>3. CASE AgnssRequested
  <2>1. /\ work' \in {Submitted(work, "request"), work}
        /\ gnss' = [gnss EXCEPT !.reqReceived = TRUE]
        /\ UNCHANGED <<sm, call, inbox, modemOn, request, callback, late>>
    BY <1>3 DEF AgnssRequested
  <2>2. work' \in WorkItems /\ (Pending(work)' <=> Pending(work))
    <3>1. /\ Submitted(work, "request") \in WorkItems
          /\ Pending(Submitted(work, "request")) <=> Pending(work)
      BY <1>1, Unchanged, SubmittedWork
    <3>2. QED
      BY <2>1, <3>1, Unchanged DEF Pending
  <2>3. gnss' \in Flags /\ gnss'.running = gnss.running
    BY <2>1, Unchanged DEF Flags
  <2>4. QED
    BY <2>1, <2>2, <2>3, Unchanged, OtherContext
<1>4. QED
  BY <1>2, <1>3

LEMMA CallbackStep == ASSUME Inv, CallbackChecks \/ CallbackMarks \/ CallbackArms PROVE Inv'
<1>1. UNCHANGED <<sm, call, inbox, modemOn, request>>
  BY DEF CallbackChecks, CallbackMarks, CallbackArms, CloudThreadRuns
<1>2. callback' \in {"none", "checked", "marked"}
  BY DEF CallbackChecks, CallbackMarks, CallbackArms
<1>3. gnss' \in Flags /\ gnss'.running = gnss.running
  BY Unchanged DEF CallbackChecks, CallbackMarks, CallbackArms, Marked, Flags
<1>4. CASE CallbackChecks
  <2>1. gnss.running /\ work' = work /\ late' = (late \/ (~sm.searching /\ call # <<>>))
    BY <1>4 DEF CallbackChecks, Leaving
  <2>2. late' \in BOOLEAN /\ (late => late') /\ (sm.searching \/ Excused')
    BY <1>1, <1>3, <2>1, Unchanged DEF Excused
  <2>3. QED
    BY <1>1, <1>2, <1>3, <2>1, <2>2, Unchanged, OtherContext DEF Pending
<1>5. CASE CallbackMarks
  <2>1. callback # "none" /\ UNCHANGED <<work, late>>
    BY <1>5 DEF CallbackMarks
  <2>2. QED
    BY <1>1, <1>2, <1>3, <2>1, Unchanged, OtherContext DEF Pending
<1>6. CASE CallbackArms
  <2>1. callback # "none" /\ callback' = "none" /\ ArmsTimeout(work)
    BY <1>6 DEF CallbackArms
  <2>2. /\ work' \in WorkItems /\ Pending(work)' /\ late' \in BOOLEAN /\ (late => late')
        /\ late' \/ sm.searching \/ call = <<>>
    BY <2>1, Unchanged, TimeoutArmed DEF Inv
  <2>3. sm.searching \/ Excused'
    BY <1>1, <1>3, <2>1, <2>2 DEF Inv, CallbackInv, Excused
  <2>4. QED
    BY <1>1, <1>2, <1>3, <2>1, <2>2, <2>3, Unchanged, OtherContext
<1>7. QED
  BY <1>4, <1>5, <1>6

-----------------------------------------------------------------------------
(***************************************************************************)
(* The work queue.                                                         *)
(***************************************************************************)

LEMMA PvtStep == ASSUME Inv, PvtIgnored \/ PvtFix \/ PvtUnreadable PROVE Inv'
<1>1. Takes("pvt") /\ UNCHANGED <<sm, call, modemOn, callback, request, late>>
  BY DEF PvtIgnored, PvtFix, PvtUnreadable, Takes
<1>2. Taken \in WorkItems /\ (Pending(Taken) <=> Pending(work))
  BY <1>1, TakenWork DEF Inv
<1>3. CASE PvtIgnored
  <2>1. work' = Taken /\ UNCHANGED <<inbox, gnss>>
    BY <1>3 DEF PvtIgnored
  <2>2. Pending(work)' <=> Pending(work)
    BY <1>2, <2>1 DEF Pending
  <2>3. QED
    BY <1>1, <1>2, <2>1, <2>2, Unchanged, OtherContext
<1>4. CASE PvtFix
  <2>1. /\ gnss' = [gnss EXCEPT !.fixPublished = TRUE]
        /\ work' = Cancelled(Taken, "timeout") /\ Posts("FIX")
    BY <1>4 DEF PvtFix
  <2>2. gnss' \in Flags /\ gnss'.running = gnss.running
    BY <2>1, Unchanged DEF Flags
  <2>3. work' \in WorkItems /\ ~Pending(work)'
    <3>1. "timeout" \in Items
      BY DEF Items
    <3>2. Cancelled(Taken, "timeout") \in WorkItems /\ ~Pending(Cancelled(Taken, "timeout"))
      BY <1>2, <3>1, CancelledWork
    <3>3. QED
      BY <2>1, <3>2 DEF Pending
  <2>4. inbox' # inbox
    BY <2>1 DEF Posts, Inv, TypeOK
  <2>5. QED
    BY <1>1, <2>1, <2>2, <2>3, <2>4, Unchanged, OtherContext
<1>5. CASE PvtUnreadable
  <2>1. work' = Taken /\ Posts("TIMEOUT") /\ UNCHANGED gnss
    BY <1>5 DEF PvtUnreadable
  <2>2. Pending(work)' <=> Pending(work)
    BY <1>2, <2>1 DEF Pending
  <2>3. QED
    BY <1>1, <1>2, <2>1, <2>2, Unchanged, OtherContext
<1>6. QED
  BY <1>3, <1>4, <1>5

(* The timeout is taken: it is armed again, or its event is posted.        *)
LEMMA TimeoutStep == ASSUME Inv, ExtendForRequest \/ TimesOut PROVE Inv'
<1>1. Takes("timeout") /\ UNCHANGED <<sm, call, modemOn, callback, request>>
  BY DEF ExtendForRequest, TimesOut, Takes
<1>2. Taken \in WorkItems /\ (Pending(Taken) => Pending(work))
  BY <1>1, TakenWork DEF Inv
<1>3. CASE ExtendForRequest
  <2>1. /\ gnss' = [gnss EXCEPT !.extended = TRUE] /\ ArmsTimeout(Taken) /\ UNCHANGED inbox
        /\ gnss.running
    BY <1>3 DEF ExtendForRequest, MayExtend
  <2>2. gnss' \in Flags /\ gnss'.running = gnss.running
    BY <2>1, Unchanged DEF Flags
  <2>3. QED
    BY <1>1, <1>2, <2>1, <2>2, Unchanged, ArmedByRunning, OtherContext
<1>4. CASE TimesOut
  <2>1. /\ work' = Taken /\ Posts("TIMEOUT") /\ UNCHANGED gnss
        /\ late' = (late /\ (callback # "none" \/ "timeout" \in work.delayed))
    BY <1>4 DEF TimesOut
  <2>1a. late' \in BOOLEAN /\ (late => late' \/ (callback = "none" /\ ~Pending(work)'))
    BY <1>1, <2>1, TakenWork, Unchanged DEF Inv, Pending
  <2>2. Pending(work)' => Pending(work)
    BY <1>2, <2>1 DEF Pending
  <2>3. inbox' # inbox
    BY <2>1 DEF Posts, Inv, TypeOK
  <2>4. QED
    BY <1>1, <1>2, <2>1, <2>1a, <2>2, <2>3, Unchanged, OtherContext
<1>5. QED
  BY <1>3, <1>4

(* The request is taken, or returns from the cloud library, with the items *)
(* w left; it is sent, given up, tried again, or assistance is given up.   *)
LEMMA RequestOutcome ==
    ASSUME Inv, NEW w \in WorkItems, Pending(w) <=> Pending(work),
           UNCHANGED <<sm, call, inbox, modemOn, callback>>,
           request' \in {"none", "blocked", "cancelled"},
           \/ work' = w /\ UNCHANGED <<gnss, late>>
           \/ TriesAgain(w)
           \/ FallsBack(w)
           \/ /\ gnss' = [gnss EXCEPT !.sent = TRUE]
              /\ work' = Delayed(w, "monitor") /\ UNCHANGED late
    PROVE  Inv'
<1>1. "request" \in Items \ {"pvt"} /\ "monitor" \in Items \ {"pvt"}
  BY DEF Items
<1>2. CASE work' = w /\ UNCHANGED <<gnss, late>>
  <2>1. Pending(work)' <=> Pending(work)
    BY <1>2 DEF Pending
  <2>2. QED
    BY <1>2, <2>1, Unchanged, OtherContext
<1>3. CASE TriesAgain(w)
  <2>1. work' = Delayed(w, "request") /\ UNCHANGED <<gnss, late>>
    BY <1>3 DEF TriesAgain
  <2>2. Delayed(w, "request") \in WorkItems /\ (Pending(Delayed(w, "request")) <=> Pending(w))
    BY <1>1, DelayedWork
  <2>3. work' \in WorkItems /\ (Pending(work)' <=> Pending(work))
    BY <2>1, <2>2 DEF Pending
  <2>4. QED
    BY <2>1, <2>3, Unchanged, OtherContext
<1>4. CASE FallsBack(w)
  <2>1. CASE gnss.running
    <3>1. /\ gnss' = [gnss EXCEPT !.assisted = FALSE, !.sent = FALSE, !.ready = FALSE,
                                  !.extended = FALSE]
          /\ ArmsTimeout(AssistanceCancelled(w))
      BY <1>4, <2>1 DEF FallsBack
    <3>2. gnss' \in Flags /\ gnss'.running = gnss.running
      BY <3>1, Unchanged DEF Flags
    <3>3. AssistanceCancelled(w) \in WorkItems
      BY AssistanceCancelledWork
    <3>4. QED
      BY <2>1, <3>1, <3>2, <3>3, Unchanged, ArmedByRunning, OtherContext
  <2>2. CASE ~gnss.running
    <3>1. work' = w /\ UNCHANGED <<gnss, late>>
      BY <1>4, <2>2 DEF FallsBack
    <3>2. QED
      BY <1>2, <3>1
  <2>3. QED
    BY <2>1, <2>2
<1>5. CASE /\ gnss' = [gnss EXCEPT !.sent = TRUE]
           /\ work' = Delayed(w, "monitor") /\ UNCHANGED late
  <2>1. gnss' \in Flags /\ gnss'.running = gnss.running
    BY <1>5, Unchanged DEF Flags
  <2>2. Delayed(w, "monitor") \in WorkItems /\ (Pending(Delayed(w, "monitor")) <=> Pending(w))
    BY <1>1, DelayedWork
  <2>3. work' \in WorkItems /\ (Pending(work)' <=> Pending(work))
    BY <1>5, <2>2 DEF Pending
  <2>4. QED
    BY <1>5, <2>1, <2>3, Unchanged, OtherContext
<1>6. QED
  BY <1>2, <1>3, <1>4, <1>5

LEMMA RequestStep ==
    ASSUME Inv, RequestBegins \/ RequestSent \/ RequestFails \/ RequestFallsBack
    PROVE  Inv'
<1>1. ASSUME Takes("request") PROVE Taken \in WorkItems /\ (Pending(Taken) <=> Pending(work))
  BY <1>1, TakenWork DEF Inv
<1>2. CASE RequestBegins
  <2>1. /\ Takes("request") /\ UNCHANGED <<sm, call, inbox, modemOn, callback>>
        /\ request' \in {"none", "blocked", "cancelled"}
        /\ (work' = Taken /\ UNCHANGED <<gnss, late>>) \/ TriesAgain(Taken)
    BY <1>2, Unchanged DEF RequestBegins, Takes
  <2>2. QED
    BY <1>1, <2>1, RequestOutcome
<1>3. CASE RequestSent
  <2>1. /\ UNCHANGED <<sm, call, inbox, modemOn, callback>> /\ request' = "none"
        /\ gnss' = [gnss EXCEPT !.sent = TRUE]
        /\ work' = Delayed(work, "monitor") /\ UNCHANGED late
    BY <1>3 DEF RequestSent, Returns
  <2>2. QED
    BY <2>1, Unchanged, RequestOutcome
<1>4. CASE RequestFails
  <2>1. /\ UNCHANGED <<sm, call, inbox, modemOn, callback>> /\ request' = "none"
        /\ TriesAgain(work) \/ UNCHANGED <<work, gnss, late>>
    BY <1>4 DEF RequestFails, Returns
  <2>2. QED
    BY <2>1, Unchanged, RequestOutcome
<1>5. CASE RequestFallsBack
  <2>1. CASE Takes("request") /\ FallsBack(Taken) /\ UNCHANGED <<inbox, request>>
    <3>1. UNCHANGED <<sm, call, modemOn, callback>>
      BY <2>1 DEF Takes
    <3>2. QED
      BY <1>1, <2>1, <3>1, Unchanged, RequestOutcome
  <2>2. CASE Returns /\ FallsBack(work)
    <3>1. UNCHANGED <<sm, call, inbox, modemOn, callback>> /\ request' = "none"
      BY <2>2 DEF Returns
    <3>2. QED
      BY <2>2, <3>1, Unchanged, RequestOutcome
  <2>3. QED
    BY <1>5, <2>1, <2>2 DEF RequestFallsBack
<1>6. QED
  BY <1>2, <1>3, <1>4, <1>5

LEMMA MonitorStep == ASSUME Inv, MonitorRuns PROVE Inv'
<1>1. Takes("monitor") /\ UNCHANGED <<sm, call, modemOn, callback, inbox, request>>
  BY DEF MonitorRuns, Takes
<1>2. Taken \in WorkItems /\ (Pending(Taken) <=> Pending(work))
  BY <1>1, TakenWork DEF Inv
<1>3. CASE work' = Taken /\ UNCHANGED <<gnss, late>>
  BY <1>1, <1>2, <1>3, Unchanged, RequestOutcome
<1>4. CASE work' = Delayed(Taken, "monitor") /\ UNCHANGED <<gnss, late>>
  <2>1. "monitor" \in Items \ {"pvt"}
    BY DEF Items
  <2>2. /\ Delayed(Taken, "monitor") \in WorkItems
        /\ Pending(Delayed(Taken, "monitor")) <=> Pending(Taken)
    BY <1>2, <2>1, DelayedWork
  <2>3. work' \in WorkItems /\ (Pending(work)' <=> Pending(work))
    BY <1>2, <1>4, <2>2 DEF Pending
  <2>4. QED
    BY <1>1, <1>4, <2>3, Unchanged, OtherContext
<1>5. CASE gnss' = Marked /\ ArmsTimeout(Taken) /\ gnss.running
  <2>1. gnss' \in Flags /\ gnss'.running = gnss.running
    BY <1>5, Unchanged DEF Marked, Flags
  <2>2. QED
    BY <1>1, <1>2, <1>5, <2>1, Unchanged, ArmedByRunning, OtherContext
<1>6. QED
  BY <1>3, <1>4, <1>5 DEF MonitorRuns

-----------------------------------------------------------------------------
(***************************************************************************)
(* The state machine.                                                      *)
(***************************************************************************)

(* The types of its call and of its inbox, from what they may be.          *)
LEMMA StateMachineTypes ==
    ASSUME Inv, CallInv',
           sm' \in [searching : BOOLEAN, required : BOOLEAN, extendOnce : BOOLEAN,
                    refused : BOOLEAN],
           inbox' = inbox \/ Posts("TIMEOUT") \/ (inbox # <<>> /\ inbox' = Tail(inbox)),
           gnss' \in Flags, modemOn' \in BOOLEAN, work' \in WorkItems,
           request' \in {"none", "blocked", "cancelled"},
           UNCHANGED callback, late' \in BOOLEAN
    PROVE  TypeOK'
<1>1. call' \in Seq(Steps)
  BY CallTypes DEF CallInv
<1>2. inbox' \in Seq({"FIX", "TIMEOUT"}) /\ Len(inbox') <= MaxInbox
  BY PostedEvent, TakenEvent DEF Inv, TypeOK
<1>3. QED
  BY <1>1, <1>2 DEF Inv, TypeOK, WorkItems, Steps

(* A step of a call in the middle, which leaves the timeout alone.         *)
LEMMA CallStep ==
    ASSUME Inv, NEW s, SmStep(s), s # "arm",
           call' = Tail(call), UNCHANGED inbox,
           gnss' \in Flags, modemOn' \in BOOLEAN, work' \in WorkItems,
           request' \in {"none", "blocked", "cancelled"},
           Pending(work)' => Pending(work)
    PROVE  Inv'
<1>1. call # <<>> /\ Head(call) = s /\ UNCHANGED <<sm, callback, late>>
  BY DEF SmStep
<1>2. /\ Tail(call) \in IF sm.searching THEN Starting ELSE Stopping
      /\ ~(sm.searching /\ Tail(call) = <<>>)
  BY <1>1, CallAdvances DEF Inv
<1>3. CallInv'
  BY <1>1, <1>2 DEF CallInv
<1>4. TypeOK'
  BY <1>1, <1>3, Unchanged, StateMachineTypes DEF Inv, TypeOK
<1>5. SearchIsTimed' /\ TimerEndsWithSearch' /\ CallbackInv'
  BY <1>1, <1>2 DEF Inv, SearchIsTimed, TimerEndsWithSearch, CallbackInv, Excused,
     TimeoutPending, Pending
<1>6. QED
  BY <1>3, <1>4, <1>5 DEF Inv

(* A search starts: nothing is promised until the timeout is armed, or it  *)
(* has been refused.                                                       *)
LEMMA AcquireStep == ASSUME Inv, NEW r \in BOOLEAN, Acquire(r) PROVE Inv'
<1>1. /\ sm' = [searching |-> TRUE, required |-> r, extendOnce |-> r,
                refused |-> gnss.running]
      /\ gnss' = [gnss EXCEPT !.fixPublished = @ /\ r]
      /\ UNCHANGED <<inbox, modemOn, work, request, callback, late>>
  BY DEF Acquire
<1>2. gnss' \in Flags /\ gnss.running \in BOOLEAN
  BY <1>1, Unchanged DEF Flags
<1>3. \/ gnss.running /\ call' = <<>>
      \/ call' = <<"start", "running", "arm">>
      \/ call' = <<"reset", "cancel", "start", "running", "arm">>
  <2> DEFINE s == <<"reset", "cancel">>
             t == <<"start", "running", "arm">>
             st == <<"reset", "cancel", "start", "running", "arm">>
  <2>1. <<>> \o t = t /\ s \o t = st
    <3>1. s \in Seq(Steps) /\ t \in Seq(Steps) /\ st \in Seq(Steps)
      BY DEF Steps
    <3>2. Len(s) = 2 /\ Len(t) = 3 /\ Len(st) = 5
      OBVIOUS
    <3>3. /\ s \o t \in Seq(Steps) /\ Len(s \o t) = Len(s) + Len(t)
          /\ \A i \in 1..(Len(s) + Len(t)) :
                 (s \o t)[i] = IF i <= Len(s) THEN s[i] ELSE t[i - Len(s)]
      BY <3>1, ConcatProperties
    <3>4. \A i \in 1..5 : st[i] = IF i <= 2 THEN s[i] ELSE t[i - 2]
      OBVIOUS
    <3>5. Len(s \o t) = Len(st) /\ \A i \in 1..Len(st) : (s \o t)[i] = st[i]
      BY <3>2, <3>3, <3>4
    <3>6. s \o t = st
      BY <3>1, <3>3, <3>5, SeqEqual
    <3>7. <<>> \o t = t
      BY <3>1, ConcatEmptySeq
    <3>8. QED
      BY <3>6, <3>7
  <2>2. call' = IF gnss.running THEN <<>>
                ELSE (IF r THEN <<>> ELSE <<"reset", "cancel">>)
                         \o <<"start", "running", "arm">>
    BY DEF Acquire
  <2>3. CASE gnss.running
    BY <2>2, <2>3
  <2>4. CASE ~gnss.running /\ r
    BY <2>1, <2>2, <2>4
  <2>5. CASE ~gnss.running /\ ~r
    BY <2>1, <2>2, <2>5
  <2>6. QED
    BY <2>3, <2>4, <2>5
<1>4. sm'.searching /\ sm'.refused = gnss.running
  BY <1>1
<1>5. CallInv'
  BY <1>3, <1>4, Zenon DEF CallInv, Starting
<1>6. TypeOK'
  BY <1>1, <1>2, <1>5, Unchanged, StateMachineTypes DEF Inv, TypeOK
<1>7. SearchIsTimed' /\ TimerEndsWithSearch' /\ CallbackInv'
  BY <1>3, <1>4, CallLiterals, Zenon DEF SearchIsTimed, TimerEndsWithSearch, CallbackInv, Excused
<1>8. QED
  BY <1>5, <1>6, <1>7 DEF Inv

LEMMA StartSteps ==
    ASSUME Inv, ResetAssistance \/ CancelAssistance \/ SetRunning PROVE Inv'
<1>1. CASE ResetAssistance
  <2>1. /\ SmStep("reset") /\ call' = Tail(call)
        /\ gnss' = [gnss EXCEPT !.ready = FALSE, !.reqReceived = FALSE, !.sent = FALSE,
                                !.extended = FALSE, !.assisted = TRUE]
        /\ UNCHANGED <<inbox, modemOn, work, request>>
    BY <1>1 DEF ResetAssistance, StepDone
  <2>2. gnss' \in Flags /\ gnss'.running = gnss.running
    BY <2>1, Unchanged DEF Flags
  <2>3. QED
    BY <2>1, <2>2, Unchanged, CallStep DEF Inv, TypeOK, Pending
<1>2. CASE CancelAssistance
  <2>1. /\ SmStep("cancel") /\ call' = Tail(call) /\ work' = AssistanceCancelled(work)
        /\ request' = RequestCancelled /\ UNCHANGED <<inbox, gnss, modemOn>>
    BY <1>2 DEF CancelAssistance, StepDone
  <2>2. request' \in {"none", "blocked", "cancelled"}
    BY <2>1 DEF RequestCancelled
  <2>3. work' \in WorkItems /\ (Pending(work)' <=> Pending(work))
    BY <2>1, Unchanged, AssistanceCancelledWork DEF Pending
  <2>4. QED
    BY <2>1, <2>2, <2>3, Unchanged, CallStep DEF Inv, TypeOK
<1>3. CASE SetRunning
  <2>1. /\ SmStep("running") /\ call' = Tail(call)
        /\ gnss' = [gnss EXCEPT !.running = TRUE]
        /\ UNCHANGED <<inbox, modemOn, work, request>>
    BY <1>3 DEF SetRunning, StepDone
  <2>2. gnss' \in Flags
    BY <2>1, Unchanged DEF Flags
  <2>3. QED
    BY <2>1, <2>2, Unchanged, CallStep DEF Inv, TypeOK, Pending
<1>4. QED
  BY <1>1, <1>2, <1>3

(* A start the modem refuses posts EVT_TIMEOUT itself.                     *)
LEMMA StartModemStep == ASSUME Inv, StartModem PROVE Inv'
<1>1. SmStep("start") /\ UNCHANGED <<gnss, work, request>>
  BY DEF StartModem
<1>2. CASE modemOn' = TRUE /\ call' = Tail(call) /\ UNCHANGED inbox
  BY <1>1, <1>2, Unchanged, CallStep DEF Pending
<1>3. CASE Posts("TIMEOUT") /\ call' = <<>> /\ UNCHANGED modemOn
  <2>1. UNCHANGED <<sm, callback, late>>
    BY <1>1 DEF SmStep
  <2>2. CallInv'
    BY <1>3, <2>1 DEF CallInv, Starting, Stopping
  <2>3. TypeOK'
    BY <1>1, <1>3, <2>1, <2>2, Unchanged, StateMachineTypes DEF Inv, TypeOK
  <2>4. inbox' # <<>>
    BY <1>3, PostedEvent DEF Inv
  <2>5. SearchIsTimed' /\ TimerEndsWithSearch' /\ CallbackInv'
    BY <1>1, <2>1, <2>4 DEF Inv, SearchIsTimed, TimerEndsWithSearch, CallbackInv, Excused,
       TimeoutPending, SmStep
  <2>6. QED
    BY <2>2, <2>3, <2>5 DEF Inv
<1>4. QED
  BY <1>2, <1>3 DEF StartModem, StepDone

LEMMA ArmStep == ASSUME Inv, ArmTimeout PROVE Inv'
<1>1. /\ SmStep("arm") /\ call' = Tail(call) /\ work' = Delayed(work, "timeout")
      /\ UNCHANGED <<inbox, gnss, modemOn, request>>
  BY DEF ArmTimeout, StepDone
<1>2. call # <<>> /\ Head(call) = "arm" /\ UNCHANGED <<sm, callback, late>>
  BY <1>1 DEF SmStep
<1>3. sm.searching /\ Tail(call) \in IF sm.searching THEN Starting ELSE Stopping
  BY <1>2, CallAdvances DEF Inv
<1>4. CallInv'
  BY <1>1, <1>2, <1>3 DEF CallInv
<1>5. "timeout" \in Items \ {"pvt"}
  BY DEF Items
<1>6. work' \in WorkItems /\ Pending(work)'
  BY <1>1, <1>5, Unchanged, DelayedWork DEF Pending
<1>7. TypeOK'
  BY <1>1, <1>2, <1>4, <1>6, Unchanged, StateMachineTypes DEF Inv, TypeOK
<1>8. SearchIsTimed' /\ TimerEndsWithSearch' /\ CallbackInv'
  BY <1>2, <1>3, <1>6 DEF SearchIsTimed, TimerEndsWithSearch, CallbackInv, Excused,
     TimeoutPending, Pending
<1>9. QED
  BY <1>4, <1>7, <1>8 DEF Inv

LEMMA ExtendStep == ASSUME Inv, ExtendSearch PROVE Inv'
<1>1. /\ sm.searching /\ call = <<>> /\ inbox # <<>> /\ inbox' = Tail(inbox)
      /\ sm' = [sm EXCEPT !.extendOnce = FALSE] /\ work' = Delayed(work, "timeout")
      /\ UNCHANGED <<call, gnss, modemOn, request, callback, late>>
  BY DEF ExtendSearch
<1>2. /\ sm' \in [searching : BOOLEAN, required : BOOLEAN, extendOnce : BOOLEAN,
                  refused : BOOLEAN]
      /\ sm'.searching
  BY <1>1 DEF Inv, TypeOK
<1>3. CallInv'
  BY <1>1, <1>2 DEF CallInv, Starting
<1>4. "timeout" \in Items \ {"pvt"}
  BY DEF Items
<1>5. work' \in WorkItems /\ Pending(work)'
  BY <1>1, <1>4, Unchanged, DelayedWork DEF Pending
<1>6. TypeOK'
  BY <1>1, <1>2, <1>3, <1>5, Unchanged, StateMachineTypes DEF Inv, TypeOK
<1>7. SearchIsTimed' /\ TimerEndsWithSearch' /\ CallbackInv'
  BY <1>2, <1>5 DEF SearchIsTimed, TimerEndsWithSearch, CallbackInv, Excused,
     TimeoutPending, Pending
<1>8. QED
  BY <1>3, <1>6, <1>7 DEF Inv

(* Leaving a search disarms its timeout first.                             *)
LEMMA LeaveStep == ASSUME Inv, Answered \/ Abandoned PROVE Inv'
<1>1. /\ sm' = Elsewhere /\ call' = <<"stop", "cancel", "clear">>
      /\ work' = Cancelled(work, "timeout") /\ late' = (callback # "none")
      /\ UNCHANGED <<gnss, modemOn, request, callback>>
      /\ inbox' = inbox \/ (inbox # <<>> /\ inbox' = Tail(inbox))
  BY DEF Answered, Abandoned, LeaveSearch
<1>2. /\ sm' \in [searching : BOOLEAN, required : BOOLEAN, extendOnce : BOOLEAN,
                  refused : BOOLEAN]
      /\ ~sm'.searching
  BY <1>1 DEF Elsewhere
<1>3. CallInv'
  BY <1>1, <1>2 DEF CallInv, Stopping
<1>4. "timeout" \in Items
  BY DEF Items
<1>5. work' \in WorkItems /\ ~Pending(work)'
  BY <1>1, <1>4, Unchanged, CancelledWork DEF Pending
<1>6. TypeOK'
  BY <1>1, <1>2, <1>3, <1>5, Unchanged, StateMachineTypes DEF Inv, TypeOK
<1>7. SearchIsTimed' /\ TimerEndsWithSearch' /\ CallbackInv'
  BY <1>1, <1>2, <1>5 DEF SearchIsTimed, TimerEndsWithSearch, CallbackInv, Excused,
     TimeoutPending, Pending
<1>8. QED
  BY <1>3, <1>6, <1>7 DEF Inv

(* The service is stopped, or refuses and leaves everything as it is.      *)
LEMMA StopSteps == ASSUME Inv, StopModem \/ ClearFlags PROVE Inv'
<1>1. CASE ClearFlags
  <2>1. /\ SmStep("clear") /\ call' = Tail(call)
        /\ gnss' = [gnss EXCEPT !.running = FALSE, !.ready = FALSE, !.sent = FALSE,
                                !.extended = FALSE, !.assisted = FALSE]
        /\ UNCHANGED <<inbox, modemOn, work, request>>
    BY <1>1 DEF ClearFlags, StepDone
  <2>2. gnss' \in Flags
    BY <2>1, Unchanged DEF Flags
  <2>3. QED
    BY <2>1, <2>2, Unchanged, CallStep DEF Inv, TypeOK, Pending
<1>2. CASE StopModem
  <2>1. SmStep("stop") /\ UNCHANGED <<inbox, gnss, work, request>>
    BY <1>2 DEF StopModem
  <2>2. CASE modemOn' = FALSE /\ call' = Tail(call)
    BY <2>1, <2>2, Unchanged, CallStep DEF Pending
  <2>3. CASE call' = <<>> /\ UNCHANGED modemOn
    <3>1. ~sm.searching
      <4>1. call # <<>> /\ Head(call) = "stop"
        BY <2>1 DEF SmStep
      <4>2. call \in IF sm.searching THEN Starting ELSE Stopping
        BY DEF Inv, CallInv
      <4>3. \A c \in Starting : c # <<>> => Head(c) # "stop"
        BY DEF Starting
      <4>4. QED
        BY <4>1, <4>2, <4>3
    <3>2. UNCHANGED <<sm, callback, late>>
      BY <2>1 DEF SmStep
    <3>3. CallInv'
      BY <2>3, <3>1, <3>2 DEF CallInv, Stopping
    <3>4. TypeOK'
      BY <2>1, <2>3, <3>2, <3>3, Unchanged, StateMachineTypes DEF Inv, TypeOK
    <3>5. SearchIsTimed' /\ TimerEndsWithSearch' /\ CallbackInv'
      BY <2>1, <3>1, <3>2 DEF Inv, SearchIsTimed, TimerEndsWithSearch, CallbackInv, Excused,
         TimeoutPending, SmStep
    <3>6. QED
      BY <3>3, <3>4, <3>5 DEF Inv
  <2>4. QED
    BY <1>2, <2>2, <2>3 DEF StopModem, StepDone
<1>3. QED
  BY <1>1, <1>2

LEMMA StrayStep == ASSUME Inv, StrayEvent PROVE Inv'
<1>1. /\ ~sm.searching /\ inbox # <<>> /\ inbox' = Tail(inbox)
      /\ UNCHANGED <<sm, call, gnss, modemOn, work, request, callback, late>>
  BY DEF StrayEvent
<1>2. CallInv'
  BY <1>1 DEF Inv, CallInv
<1>3. TypeOK'
  BY <1>1, <1>2, Unchanged, StateMachineTypes DEF Inv, TypeOK
<1>4. SearchIsTimed' /\ TimerEndsWithSearch' /\ CallbackInv'
  BY <1>1 DEF Inv, SearchIsTimed, TimerEndsWithSearch, CallbackInv, Excused, TimeoutPending
<1>5. QED
  BY <1>2, <1>3, <1>4 DEF Inv

-----------------------------------------------------------------------------
(***************************************************************************)
(* The timeout is put off a limited number of times.                       *)
(***************************************************************************)

Sparing == PutOffsLeft' <= PutOffsLeft /\ (PutsOff => PutOffsLeft' < PutOffsLeft)

LEMMA PutOffsType == PutOffsLeft \in Nat /\ PutOffsLeft' \in Nat
BY DEF PutOffsLeft, Count

(* What has no part in the count puts nothing off.                         *)
LEMMA NothingPutOff ==
    ASSUME ~PutsOff, UNCHANGED <<sm, request, callback>>,
           gnss'.assisted = gnss.assisted, gnss'.extended = gnss.extended,
           gnss'.ready = gnss.ready
    PROVE  Sparing
<1>1. PutOffsLeft' = PutOffsLeft
  BY DEF PutOffsLeft
<1>2. QED
  BY <1>1, PutOffsType DEF Sparing

(* To submit an item is not to take one.                                   *)
LEMMA SubmittedIsNotTaken ==
    ASSUME Inv, NEW i \in Items, inbox' = inbox,
           work' = work \/ work' = Submitted(work, i)
    PROVE  ~PutsOff
<1>1. work.queue \in Seq(Items)
  BY DEF Inv, TypeOK
<1>2. work'.delayed \subseteq work.delayed
  BY DEF Submitted
<1>3. work'.queue = work.queue \/ work'.queue = Append(work.queue, i)
  BY DEF Submitted
<1>4. ASSUME work.queue # <<>> PROVE work'.queue # Tail(work.queue)
  <2>1. Len(Tail(work.queue)) = Len(work.queue) - 1 /\ Len(work.queue) \in Nat
    BY <1>1, <1>4, HeadTailProperties
  <2>2. Len(Append(work.queue, i)) = Len(work.queue) + 1
    BY <1>1
  <2>3. work.queue # Tail(work.queue)
    <3>1. Len(Tail(work.queue)) # Len(work.queue)
      BY <2>1
    <3>2. QED
      BY <3>1
  <2>4. Append(work.queue, i) # Tail(work.queue)
    BY <2>1, <2>2
  <2>5. QED
    BY <1>3, <2>3, <2>4
<1>5. inbox \in Seq({"FIX", "TIMEOUT"})
  BY DEF Inv, TypeOK
<1>6. QED
  BY <1>2, <1>4, <1>5 DEF PutsOff

(* A handler of another item that does not arm the timeout.                *)
LEMMA OtherItemTaken ==
    ASSUME Inv, work.queue # <<>>, Head(work.queue) # "timeout",
           "timeout" \notin work'.delayed \ work.delayed,
           inbox' = inbox \/ Posts("FIX") \/ Posts("TIMEOUT")
    PROVE  ~PutsOff
<1>1. Len(inbox') >= Len(inbox) /\ Len(inbox') \in Nat /\ Len(inbox) \in Nat
  BY DEF Inv, TypeOK, Posts
<1>2. QED
  BY <1>1 DEF PutsOff

LEMMA InboxKept ==
    ASSUME Inv, inbox' = inbox
    PROVE  ~(Len(inbox') < Len(inbox))
BY DEF Inv, TypeOK

LEMMA DelaysAnother ==
    ASSUME Inv, NEW i \in Items, i # "timeout",
           work' \in {Taken, Delayed(Taken, i), work, Delayed(work, i)}
    PROVE  "timeout" \notin work'.delayed \ work.delayed
<1>1. Taken.delayed = work.delayed
  BY DEF Taken, Inv, TypeOK
<1>2. Delayed(work, i).delayed = work.delayed \union {i}
  BY DEF Delayed, Inv, TypeOK
<1>3. Delayed(Taken, i).delayed = work.delayed \union {i}
  BY DEF Delayed, Taken, Inv, TypeOK
<1>4. QED
  BY <1>1, <1>2, <1>3

LEMMA SubmitSpares ==
    ASSUME Inv, PvtEvent \/ AgnssRequested \/ \E i \in Items : DelayExpires(i)
    PROVE  Sparing
<1>1. /\ UNCHANGED <<sm, request, callback, inbox>>
      /\ gnss' = gnss \/ gnss' = [gnss EXCEPT !.reqReceived = TRUE]
      /\ \E i \in Items : work' = work \/ work' = Submitted(work, i)
  BY DEF PvtEvent, AgnssRequested, DelayExpires, Items
<1>2. /\ gnss'.assisted = gnss.assisted /\ gnss'.extended = gnss.extended
      /\ gnss'.ready = gnss.ready
  BY <1>1 DEF Inv, TypeOK, Flags
<1>3. ~PutsOff
  BY <1>1, SubmittedIsNotTaken
<1>4. QED
  BY <1>1, <1>2, <1>3, NothingPutOff

LEMMA PvtSpares == ASSUME Inv, PvtIgnored \/ PvtFix \/ PvtUnreadable PROVE Sparing
<1>1. /\ UNCHANGED <<sm, request, callback>>
      /\ work.queue # <<>> /\ Head(work.queue) = "pvt"
      /\ inbox' = inbox \/ Posts("FIX") \/ Posts("TIMEOUT")
      /\ gnss' = gnss \/ gnss' = [gnss EXCEPT !.fixPublished = TRUE]
      /\ work' = Taken \/ work' = Cancelled(Taken, "timeout")
  BY DEF PvtIgnored, PvtFix, PvtUnreadable, Takes
<1>2. /\ gnss'.assisted = gnss.assisted /\ gnss'.extended = gnss.extended
      /\ gnss'.ready = gnss.ready
  BY <1>1 DEF Inv, TypeOK, Flags
<1>3. "timeout" \notin work'.delayed \ work.delayed
  BY <1>1 DEF Taken, Cancelled, Inv, TypeOK
<1>4. QED
  BY <1>1, <1>2, <1>3, OtherItemTaken, NothingPutOff

(* The timeout's handler posts it, or extends the search once.             *)
LEMMA TimeoutSpares == ASSUME Inv, ExtendForRequest \/ TimesOut PROVE Sparing
<1>1. CASE TimesOut
  <2>1. /\ UNCHANGED <<sm, request, callback, gnss>> /\ Posts("TIMEOUT")
        /\ work' = Taken
    BY <1>1 DEF TimesOut, Takes
  <2>2. inbox' # inbox /\ ~(Len(inbox') < Len(inbox))
    BY <2>1 DEF Inv, TypeOK, Posts
  <2>3. work'.delayed = work.delayed
    BY <2>1 DEF Taken, Inv, TypeOK
  <2>4. ~PutsOff
    BY <2>2, <2>3 DEF PutsOff
  <2>5. QED
    BY <2>1, <2>4, NothingPutOff
<1>2. CASE ExtendForRequest
  <2>1. /\ UNCHANGED <<sm, request, callback>> /\ gnss.assisted /\ ~gnss.extended
        /\ gnss' = [gnss EXCEPT !.extended = TRUE]
    BY <1>2 DEF ExtendForRequest, Takes, MayExtend
  <2>2. gnss'.assisted = gnss.assisted /\ gnss'.extended /\ gnss'.ready = gnss.ready
    BY <2>1 DEF Inv, TypeOK, Flags
  <2>3. PutOffsLeft' < PutOffsLeft
    BY <2>1, <2>2 DEF PutOffsLeft, Count
  <2>4. QED
    BY <2>3, PutOffsType DEF Sparing
<1>3. QED
  BY <1>1, <1>2

(* A fall back takes a request or the assistance with it, although it lets *)
(* data be new again.                                                      *)
LEMMA FallBackSpares ==
    ASSUME Inv, NEW w, FallsBack(w), UNCHANGED <<sm, callback>>,
           gnss.assisted \/ request # "none", request' = "none",
           ~gnss.running => ~PutsOff
    PROVE  Sparing
<1>1. CASE gnss.running
  <2>1. gnss' = [gnss EXCEPT !.assisted = FALSE, !.sent = FALSE, !.ready = FALSE,
                             !.extended = FALSE]
    BY <1>1 DEF FallsBack
  <2>2. ~gnss'.assisted /\ ~gnss'.ready
    BY <2>1 DEF Inv, TypeOK, Flags
  <2>3. PutOffsLeft' < PutOffsLeft
    BY <2>2 DEF PutOffsLeft, Count
  <2>4. QED
    BY <2>3, PutOffsType DEF Sparing
<1>2. CASE ~gnss.running
  <2>1. gnss' = gnss
    BY <1>2 DEF FallsBack
  <2>2. PutOffsLeft' <= PutOffsLeft
    BY <2>1 DEF PutOffsLeft, Count
  <2>3. QED
    BY <1>2, <2>2 DEF Sparing
<1>3. QED
  BY <1>1, <1>2

LEMMA RequestSpares ==
    ASSUME Inv, RequestBegins \/ RequestSent \/ RequestFails \/ RequestFallsBack
    PROVE  Sparing
<1>1. CASE RequestBegins
  <2>1. /\ UNCHANGED <<sm, callback, inbox, gnss>>
        /\ work.queue # <<>> /\ Head(work.queue) = "request" /\ request = "none"
        /\ request' = request \/ (request' = "blocked" /\ gnss.assisted)
        /\ work' = Taken \/ work' = Delayed(Taken, "request")
    BY <1>1 DEF RequestBegins, Takes, TriesAgain
  <2>2. "timeout" \notin work'.delayed \ work.delayed
    BY <2>1, DelaysAnother DEF Items
  <2>3. ~PutsOff
    BY <2>1, <2>2, OtherItemTaken
  <2>4. PutOffsLeft' <= PutOffsLeft
    BY <2>1 DEF PutOffsLeft, Count
  <2>5. QED
    BY <2>3, <2>4 DEF Sparing
<1>2. CASE RequestSent \/ (RequestFails /\ (TriesAgain(work) \/ UNCHANGED <<work, gnss, late>>))
  <2>1. /\ UNCHANGED <<sm, callback, inbox>> /\ request # "none" /\ request' = "none"
        /\ gnss' = gnss \/ gnss' = [gnss EXCEPT !.sent = TRUE]
        /\ \/ work' = work \/ work' = Delayed(work, "request")
           \/ work' = Delayed(work, "monitor")
    BY <1>2 DEF RequestSent, RequestFails, Returns, TriesAgain
  <2>2. work'.queue = work.queue /\ "timeout" \notin work'.delayed \ work.delayed
    BY <2>1 DEF Delayed, Inv, TypeOK
  <2>3. work.queue # <<>> => work.queue # Tail(work.queue)
    <3>1. work.queue \in Seq(Items)
      BY DEF Inv, TypeOK
    <3>2. ASSUME work.queue # <<>> PROVE Len(Tail(work.queue)) # Len(work.queue)
      BY <3>1, <3>2, HeadTailProperties
    <3>3. QED
      BY <3>2
  <2>4. ~PutsOff
    BY <2>1, <2>2, <2>3, InboxKept DEF PutsOff
  <2>5. /\ gnss'.assisted = gnss.assisted /\ gnss'.extended = gnss.extended
        /\ gnss'.ready = gnss.ready
    BY <2>1 DEF Inv, TypeOK, Flags
  <2>6. PutOffsLeft' <= PutOffsLeft
    BY <2>1, <2>5 DEF PutOffsLeft, Count
  <2>7. QED
    BY <2>4, <2>6 DEF Sparing
<1>3. CASE RequestFallsBack
  <2>1. CASE Takes("request") /\ gnss.assisted /\ FallsBack(Taken)
               /\ UNCHANGED <<inbox, request>>
    <3>1. /\ UNCHANGED <<sm, callback>> /\ request = "none" /\ request' = "none"
          /\ work.queue # <<>> /\ Head(work.queue) = "request"
      BY <2>1 DEF Takes
    <3>2. ~gnss.running => ~PutsOff
      <4>1. ASSUME ~gnss.running PROVE work' = Taken
        BY <2>1, <4>1 DEF FallsBack
      <4>2. ASSUME ~gnss.running PROVE "timeout" \notin work'.delayed \ work.delayed
        BY <4>1, <4>2 DEF Taken, Inv, TypeOK
      <4>3. QED
        BY <2>1, <3>1, <4>2, OtherItemTaken
    <3>3. QED
      BY <2>1, <3>1, <3>2, FallBackSpares
  <2>2. CASE Returns /\ "request" \in Refusals /\ FallsBack(work)
    <3>1. /\ UNCHANGED <<sm, callback, inbox>> /\ request # "none" /\ request' = "none"
      BY <2>2 DEF Returns
    <3>2. ~gnss.running => ~PutsOff
      <4>1. ASSUME ~gnss.running PROVE work' = work
        BY <2>2, <4>1 DEF FallsBack
      <4>2. "pvt" \in Items
        BY DEF Items
      <4>3. QED
        BY <3>1, <4>1, <4>2, SubmittedIsNotTaken
    <3>3. QED
      BY <2>2, <3>1, <3>2, FallBackSpares
  <2>3. QED
    BY <1>3, <2>1, <2>2 DEF RequestFallsBack
<1>4. QED
  BY <1>1, <1>2, <1>3 DEF RequestFails

LEMMA MarkedFlags ==
    ASSUME Inv
    PROVE  ~Marked.assisted /\ Marked.ready /\ ~Marked.extended
BY DEF Inv, TypeOK, Flags, Marked

LEMMA MonitorSpares == ASSUME Inv, MonitorRuns PROVE Sparing
<1>1. /\ UNCHANGED <<sm, callback, inbox, request>>
      /\ work.queue # <<>> /\ Head(work.queue) = "monitor"
      /\ \/ gnss' = gnss /\ (work' = Taken \/ work' = Delayed(Taken, "monitor"))
         \/ gnss.assisted /\ gnss' = Marked /\ ~gnss.ready
  BY DEF MonitorRuns, Takes
<1>2. CASE gnss' = gnss /\ (work' = Taken \/ work' = Delayed(Taken, "monitor"))
  <2>1. "timeout" \notin work'.delayed \ work.delayed
    BY <1>2, DelaysAnother DEF Items
  <2>2. QED
    BY <1>1, <1>2, <2>1, OtherItemTaken, NothingPutOff
<1>3. CASE gnss.assisted /\ gnss' = Marked /\ ~gnss.ready
  <2>1. request = "none" \/ request # "none"
    OBVIOUS
  <2>2. PutOffsLeft' < PutOffsLeft
    BY <1>1, <1>3, MarkedFlags DEF PutOffsLeft, Count, MonitorRuns, Takes
  <2>3. QED
    BY <2>2, PutOffsType DEF Sparing
<1>4. QED
  BY <1>1, <1>2, <1>3

(* Data counts once: it is checked, marked, and only then armed for.       *)
LEMMA CallbackSpares ==
    ASSUME Inv, CallbackChecks \/ CallbackMarks \/ CallbackArms
    PROVE  Sparing
<1>1. /\ UNCHANGED <<sm, inbox, request>>
  BY DEF CallbackChecks, CallbackMarks, CallbackArms, CloudThreadRuns
<1>2. CASE CallbackArms
  <2>1. gnss' = gnss /\ callback = "marked" /\ callback' = "none"
    BY <1>2 DEF CallbackArms
  <2>2. PutOffsLeft' < PutOffsLeft
    BY <1>1, <2>1 DEF PutOffsLeft, Count
  <2>3. QED
    BY <2>2, PutOffsType DEF Sparing
<1>3. CASE CallbackChecks \/ CallbackMarks
  <2>1. work' = work
    BY <1>3 DEF CallbackChecks, CallbackMarks
  <2>2. "pvt" \in Items
    BY DEF Items
  <2>3. ~PutsOff
    BY <1>1, <2>1, <2>2, SubmittedIsNotTaken
  <2>4. PutOffsLeft' <= PutOffsLeft
    <3>1. CASE CallbackChecks
      BY <1>1, <3>1 DEF CallbackChecks, PutOffsLeft, Count
    <3>2. CASE CallbackMarks
      BY <1>1, <3>2, MarkedFlags DEF CallbackMarks, PutOffsLeft, Count
    <3>3. QED
      BY <1>3, <3>1, <3>2
  <2>5. QED
    BY <2>3, <2>4 DEF Sparing
<1>4. QED
  BY <1>2, <1>3

(* A search for NTN is extended once.                                      *)
LEMMA ExtendSpares == ASSUME Inv, ExtendSearch PROVE Sparing
<1>1. /\ sm.extendOnce /\ sm' = [sm EXCEPT !.extendOnce = FALSE]
      /\ UNCHANGED <<gnss, request, callback>>
  BY DEF ExtendSearch
<1>2. ~sm'.extendOnce
  BY <1>1 DEF Inv, TypeOK
<1>3. PutOffsLeft' < PutOffsLeft
  BY <1>1, <1>2 DEF PutOffsLeft, Count
<1>4. QED
  BY <1>3, PutOffsType DEF Sparing

LEMMA PutOffStep ==
    ASSUME Inv, [Next]_vars, InSearch, InSearch'
    PROVE  Sparing
<1>1. sm.searching /\ call = <<>> /\ sm'.searching /\ call' = <<>>
  BY DEF InSearch
<1>2. CASE StateMachine
  <2>1. ExtendSearch
    BY <1>1, <1>2 DEF StateMachine, ResetAssistance, CancelAssistance, StartModem,
       SetRunning, ArmTimeout, StopModem, ClearFlags, SmStep, Answered, LeaveSearch,
       Elsewhere, StrayEvent
  <2>2. QED
    BY <2>1, ExtendSpares
<1>3. CASE Abandoned \/ \E r \in BOOLEAN : Acquire(r)
  BY <1>1, <1>3 DEF Abandoned, LeaveSearch, Elsewhere, Acquire
<1>4. CASE WorkQueue
  BY <1>4, PvtSpares, TimeoutSpares, RequestSpares, MonitorSpares DEF WorkQueue
<1>5. CASE PvtEvent \/ AgnssRequested \/ \E i \in Items : DelayExpires(i)
  BY <1>5, SubmitSpares
<1>6. CASE CallbackChecks \/ CallbackMarks \/ CallbackArms
  BY <1>6, CallbackSpares
<1>7. CASE UNCHANGED vars
  <2>1. UNCHANGED <<sm, gnss, request, callback, inbox, work>>
    BY <1>7 DEF vars
  <2>2. "pvt" \in Items
    BY DEF Items
  <2>3. ~PutsOff
    BY <2>1, <2>2, SubmittedIsNotTaken
  <2>4. QED
    BY <2>1, <2>3, NothingPutOff
<1>8. QED
  BY <1>2, <1>3, <1>4, <1>5, <1>6, <1>7 DEF Next

-----------------------------------------------------------------------------
(***************************************************************************)
(* The theorems.                                                           *)
(***************************************************************************)

LEMMA InvInit == ASSUME Init PROVE Inv
<1>1. /\ inbox \in Seq({"FIX", "TIMEOUT"}) /\ Len(inbox) <= MaxInbox
      /\ call \in Seq(Steps)
  BY GnssSearchAssumption DEF Init
<1>2. work = [delayed |-> {}, queue |-> <<>>]
  BY DEF Init
<1>3. <<>> \in Seq(Items) /\ IsInjective(<<>>) /\ Range(<<>>) = {}
  BY DEF IsInjective, Range
<1>4. /\ work \in [delayed : SUBSET (Items \ {"pvt"}), queue : Seq(Items)]
      /\ work.queue = <<>> /\ work.delayed = {}
  BY <1>2, <1>3
<1>5. sm = Elsewhere /\ ~sm.searching
  BY DEF Init, Elsewhere
<1>6. TypeOK
  BY <1>1, <1>3, <1>4 DEF Init, TypeOK, Flags, Elsewhere, Steps
<1>7. CallInv
  BY <1>5 DEF Init, CallInv, Stopping
<1>8. SearchIsTimed /\ TimerEndsWithSearch /\ CallbackInv
  BY <1>3, <1>4, <1>5 DEF Init, SearchIsTimed, TimerEndsWithSearch, CallbackInv, Excused,
     TimeoutPending
<1>9. QED
  BY <1>6, <1>7, <1>8 DEF Inv

LEMMA InvStep == ASSUME Inv, [Next]_vars PROVE Inv'
<1>1. CASE StateMachine
  BY <1>1, StartSteps, StartModemStep, ArmStep, ExtendStep, LeaveStep, StopSteps, StrayStep
     DEF StateMachine
<1>2. CASE WorkQueue
  BY <1>2, PvtStep, TimeoutStep, RequestStep, MonitorStep DEF WorkQueue
<1>3. ASSUME NEW r \in BOOLEAN, Acquire(r) PROVE Inv'
  BY <1>3, AcquireStep
<1>4. CASE Abandoned
  BY <1>4, LeaveStep
<1>5. CASE PvtEvent \/ AgnssRequested
  BY <1>5, ModemStep
<1>6. ASSUME NEW i \in Items, DelayExpires(i) PROVE Inv'
  BY <1>6, DelayStep
<1>7. CASE CallbackChecks \/ CallbackMarks \/ CallbackArms
  BY <1>7, CallbackStep
<1>8. CASE UNCHANGED vars
  <2>1. UNCHANGED <<sm, call, inbox, gnss, modemOn, work, request, callback, late>>
    BY <1>8 DEF vars
  <2>2. QED
    BY <2>1, Unchanged, OtherContext DEF Pending
<1>9. QED
  BY <1>1, <1>2, <1>3, <1>4, <1>5, <1>6, <1>7, <1>8 DEF Next

LEMMA InvAlways == Spec => []Inv
<1>1. Init => Inv
  BY InvInit
<1>2. Inv /\ [Next]_vars => Inv'
  BY InvStep
<1>3. QED
  BY <1>1, <1>2, PTL DEF Spec

(* The flags, the queue of the work items, in which none is twice, and the *)
(* events stay within their types (gnss_service.c).                        *)
THEOREM TypeCorrect == Spec => []TypeOK
<1>1. Inv => TypeOK
  BY DEF Inv
<1>2. QED
  BY <1>1, InvAlways, PTL

(* A search that has not been answered has its timeout, whichever of fix,  *)
(* extension, fallback and assistance has cancelled or replaced it, unless *)
(* it was refused (gnss_timeout_work_handler, gnss_mark_agnss_ready).      *)
THEOREM SearchTimed == Spec => []SearchIsTimed
<1>1. Inv => SearchIsTimed
  BY DEF Inv
<1>2. QED
  BY <1>1, InvAlways, PTL

(* Once a search has been left, no handler arms its timeout again, but     *)
(* assistance that was past its check before the flags were cleared, and   *)
(* the handlers of a service the modem refused to stop (gnss_acquire_exit, *)
(* gnss_service_stop, gnss_fallback_to_standalone).                        *)
THEOREM TimerEnds == Spec => []TimerEndsWithSearch
<1>1. Inv => TimerEndsWithSearch
  BY DEF Inv
<1>2. QED
  BY <1>1, InvAlways, PTL

(* The timeout of a search is put off at most PutOffsLeft times, a number  *)
(* no step of the search raises                                            *)
(* (gnss_timeout_work_handler, gnss_fallback_to_standalone,                *)
(* gnss_notify_agnss_ready, gnss_acquire_run).                             *)
THEOREM PutOffsLimited == Spec => PutOffsAreLimited
<1>1. Inv /\ [Next]_vars =>
         [InSearch /\ InSearch' =>
            PutOffsLeft' <= PutOffsLeft /\ (PutsOff => PutOffsLeft' < PutOffsLeft)]_vars
  BY PutOffStep DEF Sparing
<1>2. QED
  BY <1>1, InvAlways, PTL DEF Spec, PutOffsAreLimited
=============================================================================
