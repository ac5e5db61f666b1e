------------------------- MODULE TokenVerification --------------------------
(***************************************************************************)
(* `verify_token`: an API token is checked at the endpoint for tokens of a  *)
(* Cloudflare account and, when that refuses it, at the one for personal    *)
(* tokens.                                                                  *)
(***************************************************************************)

\* What a verify endpoint may answer: 200 with an active or another status, 200
\* without success: true, 401 or 403, any other status, or nothing.
VerifyAnswers == {"active", "inactive", "unsuccessful", "unauthorised", "failed", "unreachable"}

\* `_verify_at` raises for all but the first.  The error's status is 200 for the
\* next two and None for the last: these are no refusals, and final.
Final == {"inactive", "unsuccessful", "unreachable"}

\* What API tokens are: of the account, of a person, or not valid any more.
Natures == {"account", "personal", "dead"}

\* The answers an endpoint for tokens of one nature has for a token of another
\* (external); it may always fail to answer properly.
AnswersFor(endpoint, nature) ==
    {"failed", "unsuccessful", "unreachable"}
      \cup IF nature = endpoint THEN {"active"}
           ELSE IF nature = "dead" THEN {"inactive", "unauthorised"} ELSE {"unauthorised"}

\* As if an error of the personal endpoint that is no 401 or 403 were let pass.
VerdictOfRefusals(account, personal) ==
    IF account = "active" \/ (account \notin Final /\ personal \notin {"unauthorised"} \cup Final)
      THEN "verified"
    ELSE IF account \in Final \/ personal = "unauthorised" THEN "account" ELSE "personal"

\* The outcome, given what each endpoint would answer: verified, or the endpoint
\* whose error is raised.
Verdict(account, personal) ==
    IF account = "active" \/ (account \notin Final /\ personal = "active") THEN "verified"
    ELSE IF account \in Final \/ personal = "unauthorised" THEN "account" ELSE "personal"
=============================================================================
