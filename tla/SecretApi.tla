----------------------------- MODULE SecretApi -----------------------------
(***************************************************************************)
(* lib/api.ts: what the browser makes of an answer of the service.  An     *)
(* answer is its HTTP status and the error code of its body; the body can  *)
(* be unreadable, and then only the status is left.  Wording is left out.  *)
(***************************************************************************)
EXTENDS Naturals

\* Error codes of the service that the page tells apart.
KeptCodes == {"SECRET_CONSUMED", "SECRET_EXPIRED", "SECRET_NOT_FOUND", "already_consumed",
              "not_found", "invalid_secret_id", "rate_limit_exceeded"}

NoCode == "none"

Answer(code, status) == [code |-> code, status |-> status]

\* Mutant: the catch-all for client errors comes first, and says gone.
NormalizedGone(code, status) ==
  IF code \in KeptCodes THEN code
  ELSE IF status \in 400..499 THEN "SECRET_CONSUMED" ELSE "server_error"

NormalizedCode(code, status) ==
  IF code \in KeptCodes
  THEN code
  ELSE CASE status \in {408, 504} -> "timeout_error"
         [] status = 410 -> "SECRET_CONSUMED"
         [] status = 404 -> "SECRET_NOT_FOUND"
         [] status = 429 -> "rate_limit_exceeded"
         [] status \in (400..499) \ {404, 408, 410, 429} -> "client_error"
         [] status >= 500 /\ status # 504 -> "server_error"
         [] OTHER -> "unknown_error"

\* The codes an error answer may end up as: its body is read, or lost.
ApiErrors(answer) ==
  {NormalizedCode(answer.code, answer.status), NormalizedCode(NoCode, answer.status)}

\* fetch gave no answer: aborted by the timer, or failed.
FetchErrors == {"timeout_error", "network_error"}

\* Answers that say nothing about the letter: a session that is not this
\* letter's, the limiter, the service or a proxy.
BusyAnswers == {Answer("invalid_request", 400), Answer("rate_limit_exceeded", 429),
                Answer("internal_error", 500), Answer(NoCode, 502), Answer(NoCode, 504)}

\* Mutant: a letter opened by somebody else is said to have dissolved.
VanishedErrorScene(code) ==
  CASE code \in {"SECRET_CONSUMED", "already_consumed"} -> "vanished"
    [] code = "SECRET_EXPIRED" -> "expired"
    [] OTHER -> "error"

\* The scene an error of an open leads to.
OpenErrorScene(code) ==
  CASE code \in {"SECRET_CONSUMED", "already_consumed"} -> "consumed"
    [] code = "SECRET_EXPIRED" -> "expired"
    [] OTHER -> "error"
=============================================================================
