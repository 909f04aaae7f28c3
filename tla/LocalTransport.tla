--------------------------- MODULE LocalTransport ---------------------------
(***************************************************************************)
(* One message of the local API client: posted, posted again once if the   *)
(* box answers 401, and turned into data or into one of the exceptions the *)
(* callers tell apart.  Encryption and the JSON envelope are left out: a   *)
(* body that cannot be read is the answer "unreadable".                    *)
(***************************************************************************)

\* What one post can bring back: a readable answer, HTTP 401 or 412, another
\* status or a body that is no answer, or a ClientError.
Answers == {"data", "unauthorized", "notready", "unreadable", "lost"}

\* What the caller of _async_send_local_message sees.
Outcomes == {"data", "FirewallaAuthError", "FirewallaLocalRuntimeNotReadyError",
             "FirewallaProtocolError", "FirewallaConnectionError"}

\* The status code and the body decide.
Classified(answer) ==
    [data         |-> "data",
     unauthorized |-> "FirewallaAuthError",
     notready     |-> "FirewallaLocalRuntimeNotReadyError",
     unreadable   |-> "FirewallaProtocolError",
     lost         |-> "FirewallaConnectionError"][answer]

\* The same envelope is posted a second time after a 401, and only then.
Outcome(first, second) ==
    IF first = "unauthorized" THEN Classified(second) ELSE Classified(first)

\* What a box answers to credentials it accepts, and to others.
AnswersOf(accepted) ==
    IF accepted THEN {"data", "unreadable", "lost"}
                ELSE {"unauthorized", "notready", "lost"}

\* The outcomes of one message, whichever answers its posts get.
OutcomesOf(accepted) ==
    {Outcome(first, second) : first, second \in AnswersOf(accepted)}
=============================================================================
