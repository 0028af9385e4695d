--------------------------- MODULE CompileService ---------------------------
(***************************************************************************)
(* What a background compiler promises: requests are decided one at a      *)
(* time, in the order they were accepted, each by one answer or by none;   *)
(* answers are taken in the same order; once the service is closed it      *)
(* accepts nothing more but still decides what it has accepted.  Only a    *)
(* client that has stopped listening can make it give up the rest; or it   *)
(* crashes over a request, once and for all, and what it has answered      *)
(* before can still be taken.                                              *)
(***************************************************************************)
EXTENDS Naturals, Sequences

CONSTANT Request

VARIABLES
  pending,    \* accepted requests not yet decided
  answers,    \* answers not yet taken
  open,       \* does the service accept requests
  listening,  \* does the client still want answers
  healthy     \* has the service not crashed

svars == <<pending, answers, open, listening, healthy>>

Init ==
  /\ pending = <<>> /\ answers = <<>>
  /\ open = TRUE /\ listening = TRUE /\ healthy = TRUE

Accept(r) ==
  /\ open
  /\ pending' = Append(pending, r)
  /\ UNCHANGED <<answers, open, listening, healthy>>

(* The first request is compiled, or cannot be. *)
Decide ==
  /\ pending # <<>>
  /\ pending' = Tail(pending)
  /\ answers' \in {answers} \cup
       (IF listening THEN {Append(answers, Head(pending))} ELSE {})
  /\ UNCHANGED <<open, listening, healthy>>

Take ==
  /\ answers # <<>>
  /\ answers' = Tail(answers)
  /\ UNCHANGED <<pending, open, listening, healthy>>

Close == open /\ open' = FALSE /\ UNCHANGED <<pending, answers, listening, healthy>>

StopListening ==
  /\ listening
  /\ listening' = FALSE /\ answers' = <<>>
  /\ UNCHANGED <<pending, open, healthy>>

GiveUp ==
  /\ ~ listening
  /\ pending' = <<>>
  /\ UNCHANGED <<answers, open, listening, healthy>>

Crash ==
  /\ healthy /\ pending # <<>>
  /\ healthy' = FALSE /\ open' = FALSE
  /\ pending' = <<>>
  /\ UNCHANGED <<answers, listening>>

Next ==
  \/ \E r \in Request : Accept(r)
  \/ Decide \/ Take \/ Close \/ StopListening \/ GiveUp \/ Crash

Spec == Init /\ [][Next]_svars

(* Every accepted request is decided in the end. *)
FairSpec == Spec /\ WF_svars(Decide \/ GiveUp)
=============================================================================
