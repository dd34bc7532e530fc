--------------------------- MODULE SigningService ---------------------------
(***************************************************************************)
(* What the application promises, without screens, buffers or settings: a  *)
(* service that decides one request at a time.  A request that needs the   *)
(* user is granted only after the user has seen all of it, and the grant   *)
(* is for that very request.  The one signature the service gives unasked  *)
(* is the payment of a swap session, once in the session.                  *)
(***************************************************************************)
CONSTANTS Request,        \* requests that need the user
          NoRequest,      \* nothing to decide
          Answer,         \* answers the host may get
          NoAnswer,       \* no answer, or a request not answered yet
          Granted(_),     \* the answer that grants a request
          IsSignature(_)  \* the answer carries a signature

VARIABLES running,  \* a session is on
          request,  \* the request awaiting the user's decision
          seen,     \* whether the user has seen all of it
          answer,   \* the last answer the host got
          owed      \* the session may still sign its payment

vars == <<running, request, seen, answer, owed>>

Init ==
    /\ running = FALSE
    /\ request = NoRequest
    /\ seen = FALSE
    /\ answer = NoAnswer
    /\ owed = FALSE

Start ==
    /\ ~running
    /\ running' = TRUE
    /\ owed' \in BOOLEAN
    /\ answer' = NoAnswer
    /\ UNCHANGED <<request, seen>>

(* A request reaches the user; a short one is seen at once.                *)
Ask ==
    /\ running
    /\ request = NoRequest
    /\ request' \in Request
    /\ seen' \in BOOLEAN
    /\ answer' = NoAnswer
    /\ UNCHANGED <<running, owed>>

SeeAll ==
    /\ request # NoRequest
    /\ seen' = TRUE
    /\ UNCHANGED <<running, request, answer, owed>>

(* Any answer settles the request, may end the session and may use up the  *)
(* session's payment.                                                      *)
Settle ==
    /\ running
    /\ request' = NoRequest
    /\ seen' = FALSE
    /\ running' \in BOOLEAN
    /\ owed' \in {owed, FALSE}

Grant ==
    /\ request # NoRequest
    /\ seen
    /\ answer' = Granted(request)
    /\ Settle

(* A refusal, an error, a setting, a public key that needs no review.      *)
Reply ==
    /\ answer' \in Answer
    /\ ~IsSignature(answer')
    /\ Settle

Pay ==
    /\ request = NoRequest
    /\ owed
    /\ answer' \in Answer
    /\ owed' = FALSE
    /\ Settle

(* Unplugged, powered off or left: the request is lost.                    *)
Interrupt ==
    /\ answer' \in {answer, NoAnswer}
    /\ Settle

Next == Start \/ Ask \/ SeeAll \/ Grant \/ Reply \/ Pay \/ Interrupt

Spec == Init /\ [][Next]_vars
=============================================================================
