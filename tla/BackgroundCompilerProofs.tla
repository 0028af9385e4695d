------------------------ MODULE BackgroundCompilerProofs ------------------------
(***************************************************************************)
(* For any number of requests, whichever of them cannot be emitted or make *)
(* the worker panic: none is lost, answers keep the order of the requests, *)
(* a request is turned away only after the owner or the worker is gone,    *)
(* and the thread with its two channels is the service of CompileService.  *)
(***************************************************************************)
EXTENDS BackgroundCompiler, SequenceTheorems, TLAPS

(* What is waiting, in hand and answered, as relations between neighbours: *)
(* the form of InOrder that a step can be seen to preserve.                *)
Increasing(s) == \A i, j \in 1 .. Len(s) : i < j => s[i] < s[j]
Below(s, n)   == \A i \in 1 .. Len(s) : s[i] < n

Ordered ==
  /\ Increasing(sent) /\ Increasing(requests)
  /\ \A i \in 1 .. Len(requests) : Below(sent, requests[i])
  /\ job # 0 => /\ Below(sent, job)
                /\ \A i \in 1 .. Len(requests) : job < requests[i]

(* Nobody handles a number that was not given out.                         *)
Issued ==
  /\ rejected \subseteq 1 .. enqueued
  /\ job <= enqueued
  /\ Below(requests, enqueued + 1) /\ Below(sent, enqueued + 1)
  /\ failed \subseteq 1 .. enqueued

(* How the worker ends: it holds nothing then; regularly only when one of  *)
(* its channels was closed; and before the join returns.                   *)
Endings ==
  /\ Ended => requests = <<>>
  /\ worker = "done" => owner # "using" \/ ~ listening
  /\ owner = "dropped" => Ended

(* The inductive invariant. *)
IInv == /\ TypeOK /\ Ordered /\ Issued /\ Endings
        /\ Followed /\ FailedApart /\ RejectedOnlyWhenGone

USE RequestsAssumption
-----------------------------------------------------------------------------
(* What the two ends of a channel do to its order and its members.         *)

LEMMA AppendOrder ==
  ASSUME NEW s \in Seq(Request), NEW r \in Request, Below(s, r)
  PROVE  /\ Append(s, r) \in Seq(Request)
         /\ Increasing(s) => Increasing(Append(s, r))
         /\ \A n \in Nat : Below(s, n) /\ r < n => Below(Append(s, r), n)
         /\ \A n \in Nat : Below(Append(s, r), n) => Below(s, n)
         /\ Elems(Append(s, r)) = Elems(s) \cup {r}
         /\ Len(Append(s, r)) = Len(s) + 1
         /\ \A i \in 1 .. Len(s) + 1 :
              Append(s, r)[i] = IF i = Len(s) + 1 THEN r ELSE s[i]
<1> DEFINE t == Append(s, r)
<1>1. /\ t \in Seq(Request) /\ Len(t) = Len(s) + 1 /\ Len(s) \in Nat
      /\ DOMAIN t = 1 .. Len(s) + 1 /\ DOMAIN s = 1 .. Len(s)
      /\ \A i \in 1 .. Len(s) + 1 : t[i] = IF i = Len(s) + 1 THEN r ELSE s[i]
  BY AppendProperties, LenProperties
<1>2. \A i \in 1 .. Len(s) : s[i] \in Nat
  BY ElementOfSeq DEF Request
<1> HIDE DEF t
<1>3. Increasing(s) => Increasing(t)
  <2>1. SUFFICES ASSUME Increasing(s), NEW i \in 1 .. Len(t), NEW j \in 1 .. Len(t),
                        i < j
                 PROVE  t[i] < t[j]
    BY DEF Increasing
  <2>2. i \in 1 .. Len(s) /\ t[i] = s[i]
    BY <1>1, <2>1
  <2>3. CASE j = Len(s) + 1
    BY <1>1, <2>2, <2>3 DEF Below
  <2>4. CASE j \in 1 .. Len(s)
    BY <1>1, <2>1, <2>2, <2>4 DEF Increasing
  <2> QED BY <1>1, <2>3, <2>4
<1>4. \A n \in Nat : Below(s, n) /\ r < n => Below(t, n)
  <2>1. SUFFICES ASSUME NEW n \in Nat, Below(s, n), r < n, NEW i \in 1 .. Len(t)
                 PROVE  t[i] < n
    BY DEF Below
  <2> QED BY <1>1, <2>1 DEF Below
<1>5. \A n \in Nat : Below(t, n) => Below(s, n)
  BY <1>1 DEF Below
<1>6. Elems(t) = Elems(s) \cup {r}
  <2>1. Elems(t) \subseteq Elems(s) \cup {r}
    BY <1>1 DEF Elems
  <2>2. Elems(s) \subseteq Elems(t)
    BY <1>1 DEF Elems
  <2>3. r \in Elems(t)
    <3>1. Len(s) + 1 \in 1 .. Len(s) + 1
      BY <1>1
    <3> QED BY <1>1, <3>1 DEF Elems
  <2> QED BY <2>1, <2>2, <2>3
<1> QED BY <1>1, <1>3, <1>4, <1>5, <1>6 DEF t

LEMMA TailOrder ==
  ASSUME NEW s \in Seq(Request), s # <<>>
  PROVE  /\ Head(s) \in Request /\ Tail(s) \in Seq(Request)
         /\ Head(s) = s[1] /\ 1 \in 1 .. Len(s)
         /\ Increasing(s) => /\ Increasing(Tail(s))
                             /\ \A i \in 1 .. Len(Tail(s)) : Head(s) < Tail(s)[i]
         /\ \A n \in Nat : Below(s, n) => Below(Tail(s), n)
         /\ \A i \in 1 .. Len(Tail(s)) : \E j \in 1 .. Len(s) : Tail(s)[i] = s[j]
         /\ Elems(s) = {Head(s)} \cup Elems(Tail(s))
<1> DEFINE t == Tail(s)
<1>1. /\ t \in Seq(Request) /\ Len(s) \in Nat \ {0} /\ Len(t) = Len(s) - 1
      /\ DOMAIN t = 1 .. Len(s) - 1 /\ DOMAIN s = 1 .. Len(s)
      /\ \A i \in 1 .. Len(s) - 1 : t[i] = s[i + 1]
  BY HeadTailProperties, LenProperties, EmptySeq
<1>2. \A i \in 1 .. Len(s) : s[i] \in Nat
  BY ElementOfSeq DEF Request
<1>3. Head(s) = s[1] /\ Head(s) \in Request /\ 1 \in 1 .. Len(s)
  BY <1>1, HeadTailProperties
<1> HIDE DEF t
<1>4. \A i \in 1 .. Len(s) - 1 : i + 1 \in 1 .. Len(s)
  BY <1>1
<1>5. Increasing(s) => Increasing(t) /\ \A i \in 1 .. Len(t) : s[1] < t[i]
  <2>1. SUFFICES ASSUME Increasing(s)
                 PROVE  Increasing(t) /\ \A i \in 1 .. Len(t) : s[1] < t[i]
    OBVIOUS
  <2>2. \A i \in 1 .. Len(t) : s[1] < t[i]
    <3>1. \A i \in 1 .. Len(t) : 1 < i + 1 /\ i + 1 \in 1 .. Len(s) /\ t[i] = s[i + 1]
      BY <1>1
    <3> QED BY <1>3, <2>1, <3>1 DEF Increasing
  <2>3. ASSUME NEW i \in 1 .. Len(t), NEW j \in 1 .. Len(t), i < j
        PROVE  t[i] < t[j]
    <3>1. i + 1 < j + 1 /\ i + 1 \in 1 .. Len(s) /\ j + 1 \in 1 .. Len(s)
      BY <1>1, <2>3
    <3>2. t[i] = s[i + 1] /\ t[j] = s[j + 1]
      BY <1>1
    <3> QED BY <2>1, <3>1, <3>2 DEF Increasing
  <2> QED BY <2>2, <2>3 DEF Increasing
<1>6. \A n \in Nat : Below(s, n) => Below(t, n)
  BY <1>1, <1>2, <1>4 DEF Below
<1>7. \A i \in 1 .. Len(t) : \E j \in 1 .. Len(s) : t[i] = s[j]
  BY <1>1, <1>4
<1>8. Elems(s) = {s[1]} \cup Elems(t)
  <2>1. \A i \in 1 .. Len(s) : i = 1 \/ i - 1 \in 1 .. Len(s) - 1
    BY <1>1
  <2>2. \A i \in 1 .. Len(s) : i # 1 => i - 1 \in DOMAIN t /\ s[i] = t[i - 1]
    BY <1>1, <2>1
  <2>3. Elems(s) \subseteq {s[1]} \cup Elems(t)
    <3>1. \A i \in 1 .. Len(s) : s[i] = s[1] \/ s[i] \in Elems(t)
      BY <2>2 DEF Elems
    <3> QED BY <1>1, <3>1 DEF Elems
  <2>4. {s[1]} \cup Elems(t) \subseteq Elems(s)
    BY <1>1, <1>3, <1>4 DEF Elems
  <2> QED BY <2>3, <2>4
<1> QED BY <1>1, <1>3, <1>5, <1>6, <1>7, <1>8 DEF t

LEMMA ElemsOfEmpty == Elems(<<>>) = {} /\ \A n : Elems(<<n>>) = {n}
BY DEF Elems

LEMMA InHandElems == Elems(InHand) = IF job = 0 THEN {} ELSE {job}
BY ElemsOfEmpty DEF InHand

(* An empty channel is in any order. *)
LEMMA EmptyOrder ==
  <<>> \in Seq(Request) /\ Increasing(<<>>) /\ \A n : Below(<<>>, n)
BY EmptySeq DEF Increasing, Below
-----------------------------------------------------------------------------
LEMMA InitIInv == Init => IInv
<1> SUFFICES ASSUME Init PROVE IInv
  OBVIOUS
<1> USE DEF Init
<1>1. TypeOK
  BY EmptyOrder DEF TypeOK
<1>2. Ordered /\ Issued
  BY EmptyOrder DEF Ordered, Issued
<1>3. Endings /\ RejectedOnlyWhenGone
  BY DEF Endings, Ended, RejectedOnlyWhenGone
<1>4. Followed /\ FailedApart
  BY ElemsOfEmpty, InHandElems DEF Followed, FailedApart
<1> QED BY <1>1, <1>2, <1>3, <1>4 DEF IInv

(* A number just given out comes after all the others. *)
LEMMA EnqueueIInv == IInv /\ Enqueue => IInv'
<1> SUFFICES ASSUME IInv, Enqueue PROVE IInv'
  OBVIOUS
<1> DEFINE r == enqueued + 1
<1>1. /\ r \in Request /\ r \in Nat /\ enqueued \in Nat /\ enqueued' = r
      /\ r \in 0 .. MaxRequests
  BY DEF Enqueue, IInv, TypeOK, Request
<1>2. UNCHANGED <<owner, worker, job, results, listening, sent, failed>>
  BY DEF Enqueue
<1>3. 1 .. r = (1 .. enqueued) \cup {r} /\ r \notin 1 .. enqueued
  BY <1>1
<1>4. requests \in Seq(Request) /\ sent \in Seq(Request) /\ job \in Nat
      /\ rejected \subseteq Request
  BY DEF IInv, TypeOK, Request
<1>5. Below(requests, r) /\ Below(sent, r) /\ job < r /\ r \notin rejected
      /\ rejected \subseteq 1 .. r /\ failed \subseteq 1 .. r /\ r \notin failed
  BY <1>1, <1>3, <1>4 DEF IInv, Issued
<1>6. Below(requests, r + 1) /\ Below(sent, r + 1) /\ job <= r
  <2>1. \A i \in 1 .. Len(requests) : requests[i] \in Nat
    BY <1>4, ElementOfSeq DEF Request
  <2>2. \A i \in 1 .. Len(sent) : sent[i] \in Nat
    BY <1>4, ElementOfSeq DEF Request
  <2> QED BY <1>1, <1>4, <1>5, <2>1, <2>2 DEF Below
<1>7. owner = "using"
  BY DEF Enqueue
<1> HIDE DEF r
<1>8. CASE Ended /\ rejected' = rejected \cup {r} /\ UNCHANGED requests
  <2>1. ~ listening \/ worker = "panicked"
    BY <1>7, <1>8 DEF IInv, Endings, Ended
  <2>2. TypeOK'
    BY <1>1, <1>2, <1>4, <1>8 DEF IInv, TypeOK
  <2>3. Ordered'
    BY <1>2, <1>8 DEF IInv, Ordered, Below, Increasing
  <2>4. Issued'
    BY <1>1, <1>2, <1>3, <1>5, <1>6, <1>8 DEF Issued, Below
  <2>5. Endings'
    BY <1>2, <1>8 DEF IInv, Endings, Ended
  <2>6. Followed' /\ RejectedOnlyWhenGone'
    BY <1>2, <2>1 DEF Followed, RejectedOnlyWhenGone
  <2>7. FailedApart'
    BY <1>2, <1>8 DEF IInv, FailedApart, InHand, Elems
  <2> QED BY <2>7, <2>2, <2>3, <2>4, <2>5, <2>6 DEF IInv
<1>9. CASE ~ Ended /\ requests' = Append(requests, r) /\ UNCHANGED rejected
  <2>1. /\ requests' \in Seq(Request)
        /\ Increasing(requests) => Increasing(requests')
        /\ Below(requests', r + 1)
        /\ Elems(requests') = Elems(requests) \cup {r}
        /\ Len(requests') = Len(requests) + 1 /\ Len(requests) \in Nat
        /\ \A i \in 1 .. Len(requests') :
             requests'[i] = r \/ (i \in 1 .. Len(requests) /\ requests'[i] = requests[i])
    BY <1>1, <1>4, <1>5, <1>6, <1>9, AppendOrder, LenProperties
  <2>2. TypeOK'
    BY <1>1, <1>2, <1>9, <2>1 DEF IInv, TypeOK
  <2>3. Ordered'
    <3>1. /\ Increasing(sent)' /\ Increasing(requests)'
          /\ job' # 0 => Below(sent, job)'
      BY <1>2, <2>1 DEF IInv, Ordered, Below, Increasing
    <3>2. \A i \in 1 .. Len(requests') : Below(sent, requests'[i])
      BY <1>5, <2>1 DEF IInv, Ordered
    <3>3. job # 0 => \A i \in 1 .. Len(requests') : job < requests'[i]
      BY <1>5, <2>1 DEF IInv, Ordered
    <3> QED BY <1>2, <3>1, <3>2, <3>3 DEF Ordered, Below
  <2>4. Issued'
    BY <1>1, <1>2, <1>5, <1>6, <1>9, <2>1 DEF Issued, Below
  <2>5. Endings'
    BY <1>2, <1>9 DEF IInv, Endings, Ended
  <2>6. Followed'
    <3>1. (1 .. enqueued') \ rejected' = ((1 .. enqueued) \ rejected) \cup {r}
      BY <1>1, <1>3, <1>5, <1>9
    <3>2. InHand' = InHand
      BY <1>2 DEF InHand
    <3> QED BY <1>2, <2>1, <3>1, <3>2 DEF IInv, Followed
  <2>7. RejectedOnlyWhenGone'
    BY <1>2, <1>9 DEF IInv, RejectedOnlyWhenGone
  <2>8. FailedApart'
    <3>1. Elems(InHand)' = Elems(InHand) /\ Elems(sent)' = Elems(sent)
          /\ Elems(requests)' = Elems(requests')
      BY <1>2 DEF InHand, Elems
    <3> QED BY <1>2, <1>5, <2>1, <3>1 DEF IInv, FailedApart
  <2> QED BY <2>8, <2>2, <2>3, <2>4, <2>5, <2>6, <2>7 DEF IInv
<1> QED BY <1>8, <1>9 DEF Enqueue, r

(* What the owner does with the results and with its ends of the channels  *)
(* leaves the requests and their fates alone.                              *)
LEMMA OwnerIInv ==
  IInv /\ (TakeResult \/ DropReceiver \/ DropCompiler \/ Joined) => IInv'
<1> SUFFICES ASSUME IInv, TakeResult \/ DropReceiver \/ DropCompiler \/ Joined
             PROVE  IInv'
  OBVIOUS
<1> USE DEF TakeResult, DropReceiver, DropCompiler, Joined
<1>1. UNCHANGED <<enqueued, rejected, requests, worker, job, sent, failed>>
  OBVIOUS
<1>2. TypeOK'
  <2>1. results' \in Seq(Request)
    BY TailOrder, EmptyOrder DEF IInv, TypeOK
  <2>2. owner' \in {"using", "joining", "dropped"} /\ listening' \in BOOLEAN
    BY DEF IInv, TypeOK
  <2> QED BY <1>1, <2>1, <2>2 DEF IInv, TypeOK
<1>3. Ordered' /\ Issued'
  BY <1>1 DEF IInv, Ordered, Issued, Below, Increasing
<1>4. listening' => listening
  BY DEF IInv, TypeOK
<1>5. Endings'
  BY <1>1 DEF IInv, TypeOK, Endings, Ended
<1>6. Followed' /\ FailedApart'
  BY <1>1, <1>4 DEF IInv, Followed, FailedApart, InHand, Elems
<1>7. RejectedOnlyWhenGone'
  BY <1>1, <1>4 DEF IInv, RejectedOnlyWhenGone
<1> QED BY <1>2, <1>3, <1>5, <1>6, <1>7 DEF IInv

(* The head of the queue comes before the rest and after the answers. *)
LEMMA ReceiveIInv == IInv /\ Receive => IInv'
<1> SUFFICES ASSUME IInv, Receive PROVE IInv'
  OBVIOUS
<1>1. UNCHANGED <<owner, enqueued, rejected, results, listening, sent, failed>>
      /\ worker = "recv" /\ worker' = "emit"
      /\ job' = Head(requests) /\ requests' = Tail(requests)
  BY DEF Receive
<1>2. requests \in Seq(Request) /\ requests # <<>> /\ enqueued \in Nat
  BY DEF IInv, TypeOK, Receive
<1>3. /\ job' \in Request /\ requests' \in Seq(Request)
      /\ job' = requests[1] /\ 1 \in 1 .. Len(requests)
      /\ Increasing(requests')
      /\ \A i \in 1 .. Len(requests') : job' < requests'[i]
      /\ Below(requests', enqueued + 1)
      /\ \A i \in 1 .. Len(requests') :
           \E j \in 1 .. Len(requests) : requests'[i] = requests[j]
      /\ Elems(requests) = {job'} \cup Elems(requests')
  BY <1>1, <1>2, TailOrder DEF IInv, Ordered, Issued
<1>4. TypeOK'
  BY <1>1, <1>3 DEF IInv, TypeOK, Request
<1>5. Ordered'
  <2>1. Below(sent, job') /\ \A i \in 1 .. Len(requests') : Below(sent, requests'[i])
    BY <1>3 DEF IInv, Ordered
  <2> QED BY <1>1, <1>3, <2>1 DEF IInv, Ordered, Below, Increasing
<1>6. Issued'
  <2>1. job' <= enqueued
    BY <1>2, <1>3 DEF IInv, Issued, Below, Request
  <2> QED BY <1>1, <1>3, <2>1 DEF IInv, Issued, Below
<1>7. Endings'
  BY <1>1 DEF IInv, Endings, Ended
<1>8. Followed' /\ FailedApart'
  <2>1. job = 0 /\ job' # 0
    BY <1>1, <1>3 DEF IInv, TypeOK, Request
  <2>2. Elems(InHand) = {} /\ Elems(InHand)' = {job'}
    <3>1. InHand = <<>> /\ InHand' = <<job'>>
      BY <2>1 DEF InHand
    <3>2. Elems(InHand)' = Elems(InHand')
      BY DEF Elems
    <3> QED BY <3>1, <3>2, ElemsOfEmpty
  <2>3. Elems(requests)' = Elems(requests') /\ Elems(sent)' = Elems(sent)
    BY <1>1 DEF Elems
  <2> QED BY <1>1, <1>3, <2>2, <2>3 DEF IInv, Followed, FailedApart
<1>9. RejectedOnlyWhenGone'
  BY <1>1 DEF IInv, RejectedOnlyWhenGone
<1> QED BY <1>4, <1>5, <1>6, <1>7, <1>8, <1>9 DEF IInv

LEMMA ReceiveClosedIInv == IInv /\ ReceiveClosed => IInv'
<1> SUFFICES ASSUME IInv, ReceiveClosed PROVE IInv'
  OBVIOUS
<1> USE DEF ReceiveClosed
<1>1. TypeOK'
  BY DEF IInv, TypeOK
<1>2. Ordered' /\ Issued'
  BY DEF IInv, Ordered, Issued, Below, Increasing
<1>3. Endings'
  BY DEF IInv, Endings, Ended
<1>4. Followed' /\ FailedApart'
  BY DEF IInv, Followed, FailedApart, InHand, Elems
<1>5. RejectedOnlyWhenGone'
  BY DEF IInv, RejectedOnlyWhenGone
<1> QED BY <1>1, <1>2, <1>3, <1>4, <1>5 DEF IInv

(* A request that cannot be compiled moves to failed. *)
LEMMA SkipIInv == IInv /\ job # 0 /\ Skip => IInv'
<1> SUFFICES ASSUME IInv, job # 0, Skip PROVE IInv'
  OBVIOUS
<1> USE DEF Skip
<1>1. TypeOK'
  BY DEF IInv, TypeOK
<1>2. Ordered'
  BY DEF IInv, Ordered, Below, Increasing
<1>3. Issued'
  <2>1. job \in 1 .. enqueued
    BY DEF IInv, TypeOK, Issued, Request
  <2>2. failed' \subseteq 1 .. enqueued
    BY <2>1 DEF IInv, Issued
  <2> QED BY <2>2 DEF IInv, TypeOK, Issued, Below
<1>4. worker \notin {"done", "panicked"}
  BY DEF IInv, TypeOK
<1>5. Endings'
  BY <1>4 DEF IInv, Endings, Ended
<1>6. Followed' /\ FailedApart'
  <2>1. InHand' = <<>> /\ Elems(InHand)' = Elems(InHand')
    BY DEF InHand, Elems
  <2>2. Elems(InHand)' = {} /\ Elems(InHand) = {job}
    BY <2>1, ElemsOfEmpty, InHandElems
  <2>3. Elems(requests)' = Elems(requests) /\ Elems(sent)' = Elems(sent)
    BY DEF Elems
  <2>4. job \notin Elems(requests) /\ job \notin Elems(sent)
    <3>1. /\ requests \in Seq(Request) /\ sent \in Seq(Request) /\ job \in Nat
          /\ DOMAIN requests = 1 .. Len(requests) /\ DOMAIN sent = 1 .. Len(sent)
      BY LenProperties DEF IInv, TypeOK, Request
    <3>2. \A i \in 1 .. Len(requests) : job < requests[i]
      BY DEF IInv, Ordered
    <3>3. \A i \in 1 .. Len(sent) : sent[i] < job
      BY DEF IInv, Ordered, Below
    <3> QED BY <3>1, <3>2, <3>3 DEF Elems
  <2>5. Followed'
    BY <1>4, <2>2, <2>3 DEF IInv, Followed
  <2>6. FailedApart'
    BY <2>2, <2>3, <2>4 DEF IInv, FailedApart
  <2> QED BY <2>5, <2>6
<1>7. RejectedOnlyWhenGone'
  BY <1>4 DEF IInv, RejectedOnlyWhenGone
<1> QED BY <1>1, <1>2, <1>3, <1>5, <1>6, <1>7 DEF IInv

LEMMA PanicIInv == IInv /\ Panic => IInv'
<1> SUFFICES ASSUME IInv, Panic PROVE IInv'
  OBVIOUS
<1> USE DEF Panic
<1>1. TypeOK'
  BY EmptyOrder DEF IInv, TypeOK
<1>2. Ordered'
  <2>1. Len(<<>>) = 0
    OBVIOUS
  <2> QED BY <2>1 DEF IInv, Ordered, Below, Increasing
<1>3. Issued'
  BY EmptyOrder DEF IInv, TypeOK, Issued, Below
<1>4. Endings' /\ Followed' /\ RejectedOnlyWhenGone'
  BY DEF IInv, Endings, Ended, Followed, RejectedOnlyWhenGone
<1>5. FailedApart'
  <2>1. InHand' = <<>> /\ requests' = <<>>
    BY DEF InHand
  <2>2. Elems(InHand)' = {} /\ Elems(requests)' = {} /\ Elems(sent)' = Elems(sent)
    BY <2>1, ElemsOfEmpty DEF Elems
  <2> QED BY <2>2 DEF IInv, FailedApart
<1> QED BY <1>5, <1>1, <1>2, <1>3, <1>4 DEF IInv

LEMMA EmitIInv == IInv /\ Emit => IInv'
<1> SUFFICES ASSUME IInv, Emit PROVE IInv'
  OBVIOUS
<1>1. job # 0
  BY DEF IInv, TypeOK, Emit
<1>2. CASE Panic
  BY <1>2, PanicIInv
<1>3. CASE Skip
  BY <1>1, <1>3, SkipIInv
<1>4. CASE /\ worker = "emit" /\ worker' = "map"
           /\ UNCHANGED <<owner, enqueued, rejected, requests, job, results,
                          listening, sent, failed>>
  <2>1. TypeOK'
    BY <1>4 DEF IInv, TypeOK
  <2>2. Ordered' /\ Issued'
    BY <1>4 DEF IInv, Ordered, Issued, Below, Increasing
  <2>3. Endings' /\ Followed' /\ FailedApart' /\ RejectedOnlyWhenGone'
    BY <1>4 DEF IInv, Endings, Ended, Followed, FailedApart, RejectedOnlyWhenGone,
               InHand, Elems
  <2> QED BY <2>1, <2>2, <2>3 DEF IInv
<1> QED BY <1>2, <1>3, <1>4 DEF Emit

LEMMA MapCodeIInv == IInv /\ MapCode => IInv'
<1> SUFFICES ASSUME IInv, MapCode PROVE IInv'
  OBVIOUS
<1>1. job # 0
  BY DEF IInv, TypeOK, MapCode
<1>2. CASE Skip
  BY <1>1, <1>2, SkipIInv
<1>3. CASE /\ worker = "map" /\ worker' = "send"
           /\ UNCHANGED <<owner, enqueued, rejected, requests, job, results,
                          listening, sent, failed>>
  <2>1. TypeOK'
    BY <1>3 DEF IInv, TypeOK
  <2>2. Ordered' /\ Issued'
    BY <1>3 DEF IInv, Ordered, Issued, Below, Increasing
  <2>3. Endings' /\ Followed' /\ FailedApart' /\ RejectedOnlyWhenGone'
    BY <1>3 DEF IInv, Endings, Ended, Followed, FailedApart, RejectedOnlyWhenGone,
               InHand, Elems
  <2> QED BY <2>1, <2>2, <2>3 DEF IInv
<1> QED BY <1>2, <1>3 DEF MapCode

(* An answer comes after the answers so far and before all that waits. *)
LEMMA SendIInv == IInv /\ Send => IInv'
<1> SUFFICES ASSUME IInv, Send PROVE IInv'
  OBVIOUS
<1>1. /\ UNCHANGED <<owner, enqueued, rejected, listening, failed>>
      /\ worker = "send" /\ job' = 0
      /\ job \in Request /\ job # 0 /\ enqueued \in Nat /\ listening \in BOOLEAN
      /\ sent \in Seq(Request) /\ results \in Seq(Request)
  BY DEF IInv, TypeOK, Send
<1>2. InHand' = <<>> /\ Elems(InHand)' = {} /\ Elems(InHand) = {job}
  <2>1. InHand' = <<>> /\ Elems(InHand)' = Elems(InHand')
    BY <1>1 DEF InHand, Elems
  <2> QED BY <1>1, <2>1, ElemsOfEmpty, InHandElems
<1>3. CASE /\ listening /\ worker' = "recv" /\ UNCHANGED requests
           /\ results' = Append(results, job) /\ sent' = Append(sent, job)
  <2>1. /\ sent' \in Seq(Request) /\ results' \in Seq(Request)
        /\ Increasing(sent')
        /\ \A n \in Nat : Below(sent, n) /\ job < n => Below(sent', n)
        /\ Elems(sent') = Elems(sent) \cup {job}
    BY <1>1, <1>3, AppendOrder, AppendProperties DEF IInv, Ordered
  <2>2. TypeOK'
    BY <1>1, <1>3, <2>1 DEF IInv, TypeOK
  <2>3. Ordered'
    <3>1. \A i \in 1 .. Len(requests) : requests[i] \in Nat
      BY ElementOfSeq DEF IInv, TypeOK, Request
    <3>2. \A i \in 1 .. Len(requests) : Below(sent', requests[i])
      BY <1>1, <2>1, <3>1 DEF IInv, Ordered
    <3> QED BY <1>1, <1>3, <2>1, <3>2 DEF IInv, Ordered, Below, Increasing
  <2>4. Issued'
    <3>1. Below(sent', enqueued + 1)
      BY <1>1, <2>1 DEF IInv, Issued, Request
    <3> QED BY <1>1, <1>3, <3>1 DEF IInv, Issued, Below
  <2>5. Endings' /\ RejectedOnlyWhenGone'
    BY <1>1, <1>3 DEF IInv, Endings, Ended, RejectedOnlyWhenGone
  <2>6. Followed' /\ FailedApart'
    <3>1. Elems(sent)' = Elems(sent') /\ Elems(requests)' = Elems(requests)
      BY <1>3 DEF Elems
    <3> QED BY <1>1, <1>2, <1>3, <2>1, <3>1 DEF IInv, Followed, FailedApart
  <2> QED BY <2>2, <2>3, <2>4, <2>5, <2>6 DEF IInv
<1>4. CASE /\ ~ listening /\ worker' = "done" /\ requests' = <<>>
           /\ UNCHANGED <<results, sent>>
  <2>1. TypeOK'
    BY <1>1, <1>4, EmptyOrder DEF IInv, TypeOK
  <2>2. Ordered'
    <3>1. Len(<<>>) = 0
      OBVIOUS
    <3> QED BY <1>1, <1>4, <3>1 DEF IInv, Ordered, Below, Increasing
  <2>3. Issued'
    BY <1>1, <1>4, EmptyOrder DEF IInv, Issued, Below
  <2>4. Endings' /\ RejectedOnlyWhenGone' /\ Followed'
    BY <1>1, <1>4 DEF IInv, Endings, Ended, RejectedOnlyWhenGone, Followed
  <2>5. FailedApart'
    <3>1. /\ Elems(requests)' = {} /\ Elems(InHand)' = {}
          /\ Elems(sent)' = Elems(sent)
      BY <1>2, <1>4, ElemsOfEmpty DEF Elems
    <3> QED BY <1>1, <3>1 DEF IInv, FailedApart
  <2> QED BY <2>5, <2>1, <2>2, <2>3, <2>4 DEF IInv
<1> QED BY <1>3, <1>4 DEF Send

LEMMA StepIInv == IInv /\ [Next]_bvars => IInv'
<1> SUFFICES ASSUME IInv, [Next]_bvars PROVE IInv'
  OBVIOUS
<1>1. CASE UNCHANGED bvars
  <2> USE <1>1 DEF bvars
  <2>1. TypeOK'
    BY DEF IInv, TypeOK
  <2>2. Ordered' /\ Issued'
    BY DEF IInv, Ordered, Issued, Below, Increasing
  <2>3. Endings' /\ Followed' /\ FailedApart' /\ RejectedOnlyWhenGone'
    BY DEF IInv, Endings, Ended, Followed, FailedApart, RejectedOnlyWhenGone,
               InHand, Elems
  <2> QED BY <2>1, <2>2, <2>3 DEF IInv
<1>2. CASE Enqueue
  BY <1>2, EnqueueIInv
<1>3. CASE TakeResult \/ DropReceiver \/ DropCompiler \/ Joined
  BY <1>3, OwnerIInv
<1>4. CASE Receive
  BY <1>4, ReceiveIInv
<1>5. CASE ReceiveClosed
  BY <1>5, ReceiveClosedIInv
<1>6. CASE Emit
  BY <1>6, EmitIInv
<1>7. CASE MapCode
  BY <1>7, MapCodeIInv
<1>8. CASE Send
  BY <1>8, SendIInv
<1> QED BY <1>1, <1>2, <1>3, <1>4, <1>5, <1>6, <1>7, <1>8 DEF Next, Worker

LEMMA Invariance == Spec => []IInv
BY InitIInv, StepIInv, PTL DEF Spec
-----------------------------------------------------------------------------
(* Two increasing sequences, the first below the second, in one.           *)
LEMMA ConcatOrder ==
  ASSUME NEW s \in Seq(Request), NEW t \in Seq(Request),
         Increasing(s), Increasing(t),
         \A i \in 1 .. Len(t) : Below(s, t[i])
  PROVE  /\ s \o t \in Seq(Request) /\ Increasing(s \o t)
         /\ \A n \in Nat : Below(s, n) /\ Below(t, n) => Below(s \o t, n)
<1> DEFINE u == s \o t
<1>1. /\ u \in Seq(Request) /\ Len(u) = Len(s) + Len(t)
      /\ Len(s) \in Nat /\ Len(t) \in Nat
      /\ \A i \in 1 .. Len(u) :
           u[i] = IF i <= Len(s) THEN s[i] ELSE t[i - Len(s)]
  BY ConcatProperties, LenProperties
<1> HIDE DEF u
<1>2. \A i \in 1 .. Len(u) :
        \/ i \in 1 .. Len(s) /\ u[i] = s[i]
        \/ i > Len(s) /\ i - Len(s) \in 1 .. Len(t) /\ u[i] = t[i - Len(s)]
  BY <1>1
<1>3. ASSUME NEW i \in 1 .. Len(u), NEW j \in 1 .. Len(u), i < j
      PROVE  u[i] < u[j]
  <2>1. CASE j \in 1 .. Len(s)
    <3>1. i \in 1 .. Len(s) /\ u[i] = s[i] /\ u[j] = s[j]
      BY <1>1, <1>3, <2>1
    <3> QED BY <1>3, <2>1, <3>1 DEF Increasing
  <2>2. CASE i \in 1 .. Len(s) /\ j > Len(s)
    <3>1. u[i] = s[i] /\ j - Len(s) \in 1 .. Len(t) /\ u[j] = t[j - Len(s)]
      BY <1>1, <2>2
    <3> QED BY <2>2, <3>1 DEF Below
  <2>3. CASE i > Len(s) /\ j > Len(s)
    <3>1. /\ i - Len(s) \in 1 .. Len(t) /\ u[i] = t[i - Len(s)]
          /\ j - Len(s) \in 1 .. Len(t) /\ u[j] = t[j - Len(s)]
          /\ i - Len(s) < j - Len(s)
      BY <1>1, <1>2, <1>3, <2>3
    <3> QED BY <3>1 DEF Increasing
  <2> QED BY <1>1, <1>3, <2>1, <2>2, <2>3
<1>4. \A n \in Nat : Below(s, n) /\ Below(t, n) => Below(u, n)
  BY <1>2 DEF Below
<1>5. Increasing(u)
  BY <1>3 DEF Increasing
<1> QED BY <1>1, <1>4, <1>5 DEF u

LEMMA OrderedInOrder == TypeOK /\ Ordered => InOrder
<1> SUFFICES ASSUME TypeOK, Ordered PROVE InOrder
  OBVIOUS
<1> DEFINE front == sent \o InHand
<1>1. /\ sent \in Seq(Request) /\ requests \in Seq(Request)
      /\ InHand \in Seq(Request) /\ Increasing(InHand)
      /\ \A i \in 1 .. Len(InHand) : Below(sent, InHand[i])
      /\ \A i \in 1 .. Len(requests) : Below(InHand, requests[i])
  <2>1. CASE job = 0
    <3>1. InHand = <<>> /\ Len(<<>>) = 0
      BY <2>1 DEF InHand
    <3> QED BY <3>1, EmptyOrder DEF TypeOK
  <2>2. CASE job # 0
    <3>1. /\ InHand = <<job>> /\ Len(InHand) = 1 /\ InHand[1] = job
          /\ job \in Request /\ InHand \in Seq(Request)
      BY <2>2 DEF InHand, TypeOK
    <3> HIDE DEF InHand
    <3>2. Below(sent, job) /\ \A i \in 1 .. Len(requests) : job < requests[i]
      BY <2>2 DEF Ordered
    <3>3. Increasing(InHand)
      BY <3>1 DEF Increasing
    <3> QED BY <3>1, <3>2, <3>3 DEF TypeOK, Below
  <2> QED BY <2>1, <2>2
<1>2. front \in Seq(Request) /\ Increasing(front)
      /\ \A n \in Nat : Below(sent, n) /\ Below(InHand, n) => Below(front, n)
  BY <1>1, ConcatOrder DEF Ordered
<1>3. \A i \in 1 .. Len(requests) : Below(front, requests[i])
  <2>1. \A i \in 1 .. Len(requests) : requests[i] \in Nat
    BY <1>1, ElementOfSeq DEF Request
  <2> QED BY <1>1, <1>2, <2>1 DEF Ordered
<1> HIDE DEF front
<1>4. front \o requests \in Seq(Request) /\ Increasing(front \o requests)
  BY <1>1, <1>2, <1>3, ConcatOrder DEF Ordered
<1>5. DOMAIN (front \o requests) = 1 .. Len(front \o requests)
  BY <1>4, LenProperties
<1> QED BY <1>4, <1>5 DEF InOrder, Increasing, front

(* The two ends of the two channels keep their types. *)
THEOREM TypeCorrect == Spec => []TypeOK
BY Invariance, PTL DEF IInv

(* While somebody listens and the worker has not panicked, each accepted   *)
(* request waits, is in hand, is answered or has failed; one that failed   *)
(* is not answered, in hand or waiting, whoever is gone.                   *)
THEOREM NothingLost == Spec => []NoneLost
<1>1. IInv => NoneLost
  BY DEF IInv, NoneLost
<1> QED BY <1>1, Invariance, PTL

(* Requests are answered in the order of the enqueue calls, each at most   *)
(* once, whatever fails in between.                                        *)
THEOREM AnswersInOrder == Spec => []InOrder
<1>1. IInv => InOrder
  BY OrderedInOrder DEF IInv
<1> QED BY <1>1, Invariance, PTL

(* enqueue returns Err only once the results have no Receiver or the       *)
(* worker has panicked.                                                    *)
THEOREM RejectionsExplained == Spec => []RejectedOnlyWhenGone
BY Invariance, PTL DEF IInv

(* Drop returns with every accepted request decided. *)
THEOREM DropDrains == Spec => []Drained
<1>1. IInv => Drained
  <2> SUFFICES ASSUME IInv, owner = "dropped", listening, worker # "panicked"
               PROVE  (1 .. enqueued) \ rejected = Elems(sent) \cup failed
    BY DEF Drained
  <2>1. requests = <<>> /\ job = 0
    BY DEF IInv, TypeOK, Endings, Ended
  <2> QED BY <2>1, ElemsOfEmpty, InHandElems DEF IInv, Followed
<1> QED BY <1>1, Invariance, PTL
-----------------------------------------------------------------------------
(* The thread and its channels implement the service.                      *)

(* The queue of the service, with and without a request in hand. *)
LEMMA PendingOf ==
  ASSUME NEW s \in Seq(Request), NEW r \in Request, NEW e \in Request
  PROVE  /\ <<>> \o s = s
         /\ Head(<<r>> \o s) = r /\ Tail(<<r>> \o s) = s /\ <<r>> \o s # <<>>
         /\ <<r>> \o Append(s, e) = Append(<<r>> \o s, e)
         /\ s # <<>> => <<Head(s)>> \o Tail(s) = s
<1> DEFINE u == <<r>> \o s
<1>1. /\ <<r>> \in Seq(Request) /\ Len(<<r>>) = 1 /\ <<r>>[1] = r
      /\ Len(s) \in Nat /\ <<e>> \in Seq(Request)
  BY LenProperties
<1>2. /\ u \in Seq(Request) /\ Len(u) = Len(s) + 1 /\ u[1] = r
      /\ \A i \in 1 .. Len(s) : u[i + 1] = s[i]
  BY <1>1, ConcatProperties, ElementOfSeq
<1>3. u # <<>>
  BY <1>1, <1>2
<1>4. Tail(u) = s
  BY <1>2, <1>3, HeadTailProperties, SeqEqual
<1>5. <<r>> \o Append(s, e) = Append(u, e)
  BY <1>1, <1>2, AppendIsConcat, ConcatAssociative
<1>6. s # <<>> => <<Head(s)>> \o Tail(s) = s
  <2> SUFFICES ASSUME s # <<>> PROVE <<Head(s)>> \o Tail(s) = s
    OBVIOUS
  <2> DEFINE h == <<Head(s)>>
  <2>1. h \in Seq(Request) /\ Len(h) = 1 /\ h[1] = s[1]
    BY HeadTailProperties
  <2>2. Tail(s) \in Seq(Request) /\ Len(Tail(s)) = Len(s) - 1
        /\ \A i \in 1 .. Len(s) - 1 : Tail(s)[i] = s[i + 1]
    BY HeadTailProperties
  <2> HIDE DEF h
  <2>3. h \o Tail(s) \in Seq(Request) /\ Len(h \o Tail(s)) = Len(s)
        /\ \A i \in 1 .. Len(s) : (h \o Tail(s))[i] = s[i]
    BY <1>1, <2>1, <2>2, ConcatProperties
  <2>4. h \o Tail(s) = s
    BY <2>3, SeqEqual
  <2> QED BY <2>4 DEF h
<1> QED BY <1>2, <1>3, <1>4, <1>5, <1>6, ConcatEmptySeq

LEMMA ServiceInit == Init => S!Init
BY EmptyOrder, ConcatEmptySeq DEF Init, S!Init, InHand

LEMMA ServiceStep == IInv /\ [Next]_bvars => [S!Next]_(S!svars)
<1> SUFFICES ASSUME IInv, [Next]_bvars PROVE S!Next \/ UNCHANGED S!svars
  OBVIOUS
<1> USE DEF S!svars
<1>0. /\ requests \in Seq(Request) /\ results \in Seq(Request)
      /\ job \in Request \cup {0} /\ listening \in BOOLEAN
  BY DEF IInv, TypeOK
<1>1. CASE UNCHANGED bvars
  BY <1>1 DEF bvars, InHand
<1>2. CASE Enqueue
  <2>1. CASE Ended
    BY <1>2, <2>1 DEF Enqueue, InHand
  <2>2. CASE ~ Ended
    <3> DEFINE r == enqueued + 1
    <3>1. /\ r \in Request /\ requests' = Append(requests, r)
          /\ UNCHANGED <<owner, worker, job, results, listening>>
          /\ owner = "using" /\ worker # "panicked"
      BY <1>2, <2>2 DEF Enqueue, Ended, Request, IInv, TypeOK
    <3> HIDE DEF r
    <3>2. InHand' \o requests' = Append(InHand \o requests, r)
      <4>1. requests' \in Seq(Request)
        BY <1>0, <3>1, AppendProperties
      <4> QED BY <1>0, <3>1, <4>1, PendingOf DEF InHand
    <3>3. S!Accept(r)
      BY <3>1, <3>2 DEF S!Accept
    <3> QED BY <3>1, <3>3 DEF S!Next
  <2> QED BY <2>1, <2>2
<1>3. CASE TakeResult
  BY <1>3 DEF TakeResult, InHand, S!Take, S!Next
<1>4. CASE DropReceiver
  BY <1>4 DEF DropReceiver, InHand, S!StopListening, S!Next
<1>5. CASE DropCompiler
  BY <1>5 DEF DropCompiler, InHand, S!Close, S!Next
<1>6. CASE Joined
  BY <1>6 DEF Joined, InHand
<1>7. CASE Receive
  <2>1. InHand = <<>> /\ InHand' = <<Head(requests)>> /\ requests # <<>>
        /\ requests' = Tail(requests)
    BY <1>0, <1>7, TailOrder DEF Receive, InHand, IInv, TypeOK, Request
  <2>2. InHand' \o requests' = InHand \o requests
    BY <1>0, <2>1, PendingOf, TailOrder
  <2> QED BY <1>7, <2>2 DEF Receive
<1>8. CASE ReceiveClosed
  BY <1>8 DEF ReceiveClosed, InHand
<1>9. ASSUME job # 0, Skip, worker # "panicked" PROVE S!Next
  <2>1. InHand = <<job>> /\ InHand' = <<>> /\ UNCHANGED <<requests, results>>
    BY <1>9 DEF Skip, InHand
  <2>2. InHand \o requests # <<>>
        /\ InHand' \o requests' = Tail(InHand \o requests)
    BY <1>0, <1>9, <2>1, PendingOf
  <2>3. S!Decide
    BY <1>9, <2>1, <2>2 DEF Skip, S!Decide
  <2> QED BY <2>3 DEF S!Next
<1>10. CASE Emit
  <2>1. job # 0 /\ worker # "panicked"
    BY <1>10 DEF Emit, IInv, TypeOK
  <2>2. CASE Panic
    <3>1. InHand = <<job>> /\ InHand' = <<>> /\ requests' = <<>> /\ <<>> \in Seq(Request)
      BY <2>1, <2>2, EmptyOrder DEF Panic, InHand
    <3>2. InHand \o requests # <<>> /\ InHand' \o requests' = <<>>
      BY <1>0, <2>1, <3>1, PendingOf
    <3>3. S!Crash
      BY <2>1, <2>2, <3>2 DEF Panic, S!Crash
    <3> QED BY <3>3 DEF S!Next
  <2>3. CASE Skip
    BY <1>9, <2>1, <2>3
  <2>4. CASE /\ worker' = "map"
             /\ UNCHANGED <<owner, requests, job, results, listening>>
    BY <2>1, <2>4 DEF InHand
  <2> QED BY <1>10, <2>2, <2>3, <2>4 DEF Emit
<1>11. CASE MapCode
  <2>1. job # 0 /\ worker # "panicked"
    BY <1>11 DEF MapCode, IInv, TypeOK
  <2>2. CASE Skip
    BY <1>9, <2>1, <2>2
  <2>3. CASE /\ worker' = "send"
             /\ UNCHANGED <<owner, requests, job, results, listening>>
    BY <2>1, <2>3 DEF InHand
  <2> QED BY <1>11, <2>2, <2>3 DEF MapCode
<1>12. CASE Send
  <2>1. /\ job \in Request /\ InHand = <<job>> /\ InHand' = <<>>
        /\ UNCHANGED <<owner, listening>> /\ worker = "send"
    BY <1>0, <1>12 DEF Send, InHand, IInv, TypeOK
  <2>2. Head(InHand \o requests) = job /\ Tail(InHand \o requests) = requests
        /\ InHand \o requests # <<>>
    BY <1>0, <2>1, PendingOf
  <2>3. CASE listening
    <3>1. requests' = requests /\ results' = Append(results, job) /\ worker' = "recv"
      BY <1>12, <2>3 DEF Send
    <3>2. InHand' \o requests' = requests
      BY <1>0, <2>1, <3>1, PendingOf
    <3>3. S!Decide
      BY <2>1, <2>2, <2>3, <3>1, <3>2 DEF S!Decide
    <3> QED BY <3>3 DEF S!Next
  <2>4. CASE ~ listening
    <3>1. requests' = <<>> /\ results' = results /\ worker' = "done" /\ <<>> \in Seq(Request)
      BY <1>12, <2>4, EmptyOrder DEF Send
    <3>2. InHand' \o requests' = <<>>
      BY <2>1, <3>1, PendingOf
    <3>3. S!GiveUp
      BY <2>1, <2>4, <3>1, <3>2 DEF S!GiveUp
    <3> QED BY <3>3 DEF S!Next
  <2> QED BY <1>0, <2>3, <2>4
<1> QED BY <1>1, <1>2, <1>3, <1>4, <1>5, <1>6, <1>7, <1>8, <1>10, <1>11, <1>12
        DEF Next, Worker

(* The worker thread between its two channels is the compile service, its  *)
(* panics included.  (That it keeps deciding needs fairness: model-checked *)
(* as ImplementsService.)                                                  *)
THEOREM Refinement == Spec => S!Spec
BY Invariance, ServiceInit, ServiceStep, PTL DEF Spec, S!Spec
-----------------------------------------------------------------------------
(* The work that is left to the worker: four steps a request, fewer for    *)
(* the one it has begun, and the end.                                      *)
WorkLeft ==
  4 * Len(requests) + CASE worker = "recv" -> 1
                        [] worker = "emit" -> 4
                        [] worker = "map"  -> 3
                        [] worker = "send" -> 2
                        [] Ended           -> 0

LEMMA WorkOf ==
  ASSUME TypeOK
  PROVE  /\ Len(requests) \in Nat
         /\ worker = "recv" => WorkLeft = 4 * Len(requests) + 1
         /\ worker = "emit" => WorkLeft = 4 * Len(requests) + 4
         /\ worker = "map"  => WorkLeft = 4 * Len(requests) + 3
         /\ worker = "send" => WorkLeft = 4 * Len(requests) + 2
         /\ Ended => WorkLeft = 4 * Len(requests)
<1>1. Len(requests) \in Nat
  BY LenProperties DEF TypeOK
<1> QED BY <1>1 DEF WorkLeft, Ended, TypeOK

LEMMA WorkType ==
  IInv => WorkLeft \in Nat /\ (WorkLeft = 0 => Ended)
BY WorkOf DEF IInv, TypeOK, Ended

(* Each step of the worker, successful or not, leaves it less to do. *)
LEMMA WorkDone == IInv /\ IInv' /\ Worker => WorkLeft' < WorkLeft
<1> SUFFICES ASSUME IInv, IInv', Worker PROVE WorkLeft' < WorkLeft
  OBVIOUS
<1>1. /\ Len(requests) \in Nat
      /\ worker = "recv" => WorkLeft = 4 * Len(requests) + 1
      /\ worker = "emit" => WorkLeft = 4 * Len(requests) + 4
      /\ worker = "map"  => WorkLeft = 4 * Len(requests) + 3
      /\ worker = "send" => WorkLeft = 4 * Len(requests) + 2
  BY WorkOf DEF IInv
<1>2. TypeOK'
  BY DEF IInv
<1>3. /\ Len(requests') \in Nat
      /\ worker' = "recv" => WorkLeft' = 4 * Len(requests') + 1
      /\ worker' = "emit" => WorkLeft' = 4 * Len(requests') + 4
      /\ worker' = "map"  => WorkLeft' = 4 * Len(requests') + 3
      /\ worker' = "send" => WorkLeft' = 4 * Len(requests') + 2
      /\ worker' \in {"done", "panicked"} => WorkLeft' = 4 * Len(requests')
  <2>1. Len(requests') \in Nat
    BY <1>2, LenProperties DEF TypeOK
  <2> QED BY <1>2, <2>1 DEF WorkLeft, Ended, TypeOK
<1>4. Len(<<>>) = 0
  OBVIOUS
<1>5. CASE Receive
  <2>1. Len(requests') = Len(requests) - 1 /\ Len(requests) > 0
    BY <1>1, <1>5, HeadTailProperties, EmptySeq DEF Receive, IInv, TypeOK
  <2> QED BY <1>1, <1>3, <1>5, <2>1 DEF Receive
<1>6. CASE ReceiveClosed
  BY <1>1, <1>3, <1>6 DEF ReceiveClosed
<1>7. CASE Emit
  BY <1>1, <1>3, <1>4, <1>7 DEF Emit, Panic, Skip
<1>8. CASE MapCode
  BY <1>1, <1>3, <1>8 DEF MapCode, Skip
<1>9. CASE Send
  BY <1>1, <1>3, <1>4, <1>9 DEF Send
<1> QED BY <1>5, <1>6, <1>7, <1>8, <1>9 DEF Worker

(* Once the drop has begun nobody gives the worker more to do: it does a   *)
(* step of what is left, or somebody else moves, and the join comes after  *)
(* all of it.                                                              *)
Finishing ==
  /\ owner' # "using"
  /\ WorkLeft' < WorkLeft \/ UNCHANGED <<requests, worker>>
  /\ owner' # owner => owner' = "dropped" /\ WorkLeft = 0

LEMMA FinishingStep ==
  IInv /\ IInv' /\ [Next]_bvars => [owner # "using" => Finishing]_bvars
<1> SUFFICES ASSUME IInv, IInv', Next, owner # "using" PROVE Finishing
  OBVIOUS
<1>1. CASE TakeResult \/ DropReceiver
  BY <1>1 DEF TakeResult, DropReceiver, Finishing
<1>2. CASE Joined
  <2>1. requests = <<>> /\ Len(<<>>) = 0
    BY <1>2 DEF Joined, IInv, Endings
  <2>2. WorkLeft = 0
    BY <1>2, <2>1, WorkOf DEF Joined, IInv
  <2> QED BY <1>2, <2>2 DEF Joined, Finishing
<1>3. CASE Worker
  <2>1. owner' = owner
    BY <1>3 DEF Worker, Receive, ReceiveClosed, Emit, Panic, Skip, MapCode, Send
  <2> QED BY <1>3, <2>1, WorkDone DEF Finishing
<1> QED BY <1>1, <1>2, <1>3 DEF Next, Enqueue, DropCompiler

(* The worker never takes a step for nothing, and a drop is a bounded      *)
(* number of its steps away from its end, whatever is queued and whatever  *)
(* fails (compiler.rs:46-47).                                              *)
THEOREM DropIsBounded ==
  Spec => /\ [](WorkLeft \in Nat /\ (WorkLeft = 0 => Ended))
          /\ [][Worker => WorkLeft' < WorkLeft]_bvars
          /\ [][owner # "using" => Finishing]_bvars
<1>1. IInv /\ IInv' /\ [Next]_bvars => [Worker => WorkLeft' < WorkLeft]_bvars
  BY WorkDone
<1> QED BY <1>1, Invariance, WorkType, FinishingStep, PTL DEF Spec
=============================================================================
