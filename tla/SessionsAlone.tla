----------------------------- MODULE SessionsAlone -----------------------------
(***************************************************************************)
(* Sessions with a history of whether requests have overlapped, to say     *)
(* what is kept as long as requests come one at a time.                    *)
(***************************************************************************)
EXTENDS Sessions

VARIABLE alone \* history: no request has taken a step while another was running

AloneInit == Init /\ alone = TRUE

AloneNext ==
  /\ Next
  /\ alone' = (alone /\ \A q, r \in Request :
                 pc[q] \in Running /\ pc'[r] # pc[r] => q = r)

AloneSpec == AloneInit /\ [][AloneNext]_<<vars, alone>>

\* README.md:16.  As long as requests come one at a time, a refresh token is
\* exchanged at most once, through crashes and lost answers.
SingleUseAlone == alone => SingleUse

\* As long as requests come one at a time, a login has at most one live token.
OneLivePerLoginAlone == alone => OneLivePerLogin
=============================================================================
