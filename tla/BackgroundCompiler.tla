------------------------- MODULE BackgroundCompiler -------------------------
(***************************************************************************)
(* jit/compiler.rs: a worker thread that compiles blocks, fed by one       *)
(* unbounded mpsc channel and answering on another.  The owner enqueues,   *)
(* takes results, may drop the Receiver of the results at any time, and    *)
(* may drop the BackgroundCompiler, which closes the request channel and   *)
(* joins the worker.                                                       *)
(*                                                                         *)
(* A request is the number of its enqueue call, so that two requests for   *)
(* one PC stay apart.  An mpsc receive takes what was sent before its      *)
(* senders were dropped; a send fails once the receiver is dropped, and    *)
(* what a dropped receiver had not received is lost.  A block built by hand*)
(* can make a pass panic (a flag-setting Orr, a register number 31).       *)
(*                                                                         *)
(* Assumed: a panic unwinds, as in the dev and test profiles and in crates *)
(* that depend on this one with a profile of their own.  The thread then   *)
(* ends, dropping both its ends of the channels.  The release profile sets *)
(* panic = "abort" (src/Cargo.toml:24): there the process ends with the    *)
(* panic, and nothing said here of what comes after one applies.           *)
(***************************************************************************)
EXTENDS Naturals, Sequences

CONSTANTS
  MaxRequests,   \* bound: calls of enqueue
  Unemittable,   \* the requests whose block emit_block refuses
  Panicking      \* those on whose block prepare_block or emit_block panics

ASSUME RequestsAssumption ==
  /\ MaxRequests \in Nat
  /\ Unemittable \subseteq 1 .. MaxRequests /\ Panicking \subseteq 1 .. MaxRequests

VARIABLES
  owner,      \* "using", "joining" (in Drop), "dropped"
  enqueued,   \* calls of enqueue so far
  rejected,   \* those of them that returned Err
  requests,   \* the request channel
  worker,     \* "recv", "emit", "map", "send", "done", "panicked"
  job,        \* the request in the worker's hands, 0 for none
  results,    \* the result channel
  listening,  \* is the Receiver of the results alive
  sent,       \* history: the requests answered, in order
  failed      \* history: the requests dropped for an error

bvars == <<owner, enqueued, rejected, requests, worker, job, results,
           listening, sent, failed>>

Request == 1 .. MaxRequests

Ended == worker \in {"done", "panicked"}

Init ==
  /\ owner = "using" /\ enqueued = 0 /\ rejected = {}
  /\ requests = <<>> /\ results = <<>>
  /\ worker = "recv" /\ job = 0
  /\ listening = TRUE
  /\ sent = <<>> /\ failed = {}
-----------------------------------------------------------------------------
(* The owner. *)

Enqueue ==
  /\ owner = "using" /\ enqueued < MaxRequests
  /\ enqueued' = enqueued + 1
  /\ IF Ended
     THEN rejected' = rejected \cup {enqueued + 1} /\ UNCHANGED requests
     ELSE requests' = Append(requests, enqueued + 1) /\ UNCHANGED rejected
  /\ UNCHANGED <<owner, worker, job, results, listening, sent, failed>>

TakeResult ==
  /\ listening /\ results # <<>>
  /\ results' = Tail(results)
  /\ UNCHANGED <<owner, enqueued, rejected, requests, worker, job, listening,
                 sent, failed>>

DropReceiver ==
  /\ listening
  /\ listening' = FALSE /\ results' = <<>>
  /\ UNCHANGED <<owner, enqueued, rejected, requests, worker, job, sent, failed>>

(* Drop: tx.take() closes the request channel, then join. *)
DropCompiler ==
  /\ owner = "using"
  /\ owner' = "joining"
  /\ UNCHANGED <<enqueued, rejected, requests, worker, job, results, listening,
                 sent, failed>>

(* A deliberately wrong Joined: waits for a regular end of the thread.     *)
Joined_Regular ==
  /\ owner = "joining" /\ worker = "done"
  /\ owner' = "dropped"
  /\ UNCHANGED <<enqueued, rejected, requests, worker, job, results, listening,
                 sent, failed>>

(* A panic of the thread is an Err of join, which is ignored. *)
Joined ==
  /\ owner = "joining" /\ Ended
  /\ owner' = "dropped"
  /\ UNCHANGED <<enqueued, rejected, requests, worker, job, results, listening,
                 sent, failed>>
-----------------------------------------------------------------------------
(* The worker. *)

Receive ==
  /\ worker = "recv" /\ requests # <<>>
  /\ job' = Head(requests)
  /\ requests' = Tail(requests)
  /\ worker' = "emit"
  /\ UNCHANGED <<owner, enqueued, rejected, results, listening, sent, failed>>

(* A deliberately wrong ReceiveClosed: a closed channel ends the worker at *)
(* once, what it still holds notwithstanding. *)
ReceiveClosed_NoDrain ==
  /\ worker = "recv" /\ owner # "using"
  /\ worker' = "done" /\ requests' = <<>>
  /\ UNCHANGED <<owner, enqueued, rejected, job, results, listening, sent, failed>>

(* A deliberately wrong ReceiveClosed: the owner's Sender is dropped with  *)
(* its fields, after the join, not before it. *)
ReceiveClosed_AfterJoin ==
  /\ worker = "recv" /\ requests = <<>> /\ owner = "dropped"
  /\ worker' = "done"
  /\ UNCHANGED <<owner, enqueued, rejected, requests, job, results, listening,
                 sent, failed>>

(* recv returns Err: no request left, and the sender is gone. *)
ReceiveClosed ==
  /\ worker = "recv" /\ requests = <<>> /\ owner # "using"
  /\ worker' = "done"
  /\ UNCHANGED <<owner, enqueued, rejected, requests, job, results, listening,
                 sent, failed>>

(* A deliberately wrong Skip: break instead of continue. *)
Skip_Break ==
  /\ failed' = failed \cup {job}
  /\ worker' = "done" /\ job' = 0 /\ requests' = <<>>
  /\ UNCHANGED <<owner, enqueued, rejected, results, listening, sent>>

(* A deliberately wrong Skip: the failed request is put back to try again. *)
Skip_Requeue ==
  /\ failed' = failed \cup {job}
  /\ worker' = "recv" /\ job' = 0 /\ requests' = Append(requests, job)
  /\ UNCHANGED <<owner, enqueued, rejected, results, listening, sent>>

(* else { continue }: the request is forgotten without a word. *)
Skip ==
  /\ failed' = failed \cup {job}
  /\ worker' = "recv" /\ job' = 0
  /\ UNCHANGED <<owner, enqueued, rejected, requests, results, listening, sent>>

(* The thread unwinds: the request and all behind it are lost.  (With      *)
(* panic = "abort" there is no state after this step.) *)
Panic ==
  /\ worker' = "panicked"
  /\ job' = 0 /\ requests' = <<>>
  /\ UNCHANGED <<owner, enqueued, rejected, results, listening, sent, failed>>

(* prepare_block and emit_block. *)
Emit ==
  /\ worker = "emit"
  /\ \/ job \in Panicking /\ Panic
     \/ job \in Unemittable \ Panicking /\ Skip
     \/ /\ job \notin Unemittable \cup Panicking
        /\ worker' = "map"
        /\ UNCHANGED <<owner, enqueued, rejected, requests, job, results,
                       listening, sent, failed>>

(* into_executable, whose mmap may fail. *)
MapCode ==
  /\ worker = "map"
  /\ \/ Skip
     \/ /\ worker' = "send"
        /\ UNCHANGED <<owner, enqueued, rejected, requests, job, results,
                       listening, sent, failed>>

(* A deliberately wrong Send: the job is not cleared from the worker.      *)
Send_Twice ==
  /\ worker = "send"
  /\ IF listening
     THEN /\ results' = Append(results, job)
          /\ sent' = Append(sent, job)
          /\ worker' \in {"recv", "send"}
          /\ UNCHANGED <<requests, job>>
     ELSE worker' = "done" /\ requests' = <<>> /\ job' = 0 /\ UNCHANGED <<results, sent>>
  /\ UNCHANGED <<owner, enqueued, rejected, listening, failed>>

(* A failed send breaks the loop; the worker's receiver goes with it.      *)
Send ==
  /\ worker = "send"
  /\ job' = 0
  /\ IF listening
     THEN /\ results' = Append(results, job)
          /\ sent' = Append(sent, job)
          /\ worker' = "recv"
          /\ UNCHANGED requests
     ELSE worker' = "done" /\ requests' = <<>> /\ UNCHANGED <<results, sent>>
  /\ UNCHANGED <<owner, enqueued, rejected, listening, failed>>

Worker == Receive \/ ReceiveClosed \/ Emit \/ MapCode \/ Send

Next ==
  \/ Enqueue \/ TakeResult \/ DropReceiver \/ DropCompiler \/ Joined
  \/ Worker

Spec == Init /\ [][Next]_bvars

(* The worker thread runs, and a join returns once its thread has ended.   *)
(* Nothing forces the owner to enqueue, to take results or to drop.        *)
FairSpec == Spec /\ WF_bvars(Worker) /\ WF_bvars(Joined)

TypeOK ==
  /\ owner \in {"using", "joining", "dropped"}
  /\ enqueued \in 0 .. MaxRequests /\ rejected \subseteq Request
  /\ requests \in Seq(Request) /\ results \in Seq(Request) /\ sent \in Seq(Request)
  /\ worker \in {"recv", "emit", "map", "send", "done", "panicked"}
  /\ job \in Request \cup {0} /\ (job # 0) = (worker \in {"emit", "map", "send"})
  /\ listening \in BOOLEAN /\ failed \subseteq Request
-----------------------------------------------------------------------------
Elems(s) == {s[i] : i \in DOMAIN s}
InHand == IF job = 0 THEN <<>> ELSE <<job>>

(* Accepted requests are somewhere: each waits, is in the worker's hands,  *)
(* has been answered or has failed, and nothing else does.                 *)
Followed ==
  listening /\ worker # "panicked" =>
    (1 .. enqueued) \ rejected =
      Elems(requests) \cup Elems(InHand) \cup Elems(sent) \cup failed

(* What has failed is nowhere else, whoever is gone. *)
FailedApart ==
  failed \cap (Elems(requests) \cup Elems(InHand) \cup Elems(sent)) = {}

(* Every enqueue that returned Ok is followed up: it waits, is in the      *)
(* worker's hands, has been answered or has failed; none is lost while     *)
(* somebody listens and the thread lives, across errors and shutdown, and  *)
(* none that failed is tried again or answered (compiler.rs:24-30).  With  *)
(* InOrder, which keeps the first three apart, it is in exactly one place. *)
NoneLost == Followed /\ FailedApart

(* Answers come in the order of the enqueue calls and never twice: what    *)
(* was answered, is in hand and waits are increasing numbers.              *)
InOrder ==
  LET line == sent \o InHand \o requests
  IN  \A i, j \in DOMAIN line : i < j => line[i] < line[j]

(* enqueue fails only after the owner gave up the results, or after a      *)
(* panic in the worker: never because of a block that cannot be compiled,  *)
(* or of a full queue (compiler.rs:27-29, :38).                            *)
RejectedOnlyWhenGone == rejected # {} => ~ listening \/ worker = "panicked"

(* After the drop every accepted request has been decided: queued work is  *)
(* drained before join returns (compiler.rs:46-47).                        *)
Drained ==
  owner = "dropped" /\ listening /\ worker # "panicked" =>
    (1 .. enqueued) \ rejected = Elems(sent) \cup failed

(* The service it implements, in which a panic is the one way to fail.     *)
S == INSTANCE CompileService WITH
  pending <- InHand \o requests, answers <- results,
  open <- (owner = "using" /\ worker # "panicked"),
  healthy <- (worker # "panicked")
ImplementsService == S!FairSpec

(* Dropping the compiler always returns, whatever is queued (unbounded     *)
(* channels never block the worker) and also after a panic that unwound    *)
(* the worker, and does not panic itself (compiler.rs:46-47).              *)
DropReturns == (owner = "joining") ~> (owner = "dropped")
=============================================================================
