-------------------------------- MODULE SignIn --------------------------------
(***************************************************************************)
(* Signing in to Rivian from the settings page: the decisions              *)
(* (apps/web/src/lib/server/rivian-auth.ts), the half-made sign-in that    *)
(* waits for its one-time code in the memory of the pod (rivian-pending.ts), *)
(* the stored credential (packages/db/src/repo/rivian.ts), the client      *)
(* (packages/rivian/src/http.ts) and the page (settings/rivian).           *)
(*                                                                         *)
(* One subject is signed in to the application, with several tabs.  A      *)
(* request is a record that advances through the awaits of its handler; a  *)
(* tab that is reloaded stops waiting, and its request goes on.  Tokens    *)
(* that ask for a code are numbered as Rivian issues them.                 *)
(***************************************************************************)
EXTENDS Integers, Sequences, FiniteSets

CONSTANTS
  Tabs,
  Accounts,     \* emails that Rivian knows
  NoAccount,
  MaxRequests,  \* POSTs there can be (bound)
  MaxPods       \* pods there can be, one after another (bound)

ASSUME SignInAssumption == NoAccount \notin Accounts /\ {MaxRequests, MaxPods} \subseteq Nat

VARIABLES
  sealKey,      \* what RIVIAN_CREDENTIAL_PUBLIC_KEY holds
  pods,         \* pods so far
  codeTokens,   \* the tokens Rivian issued, whose they are and what became of them
  waiting,      \* the pending sign-in: none, or account, token and whether it is due
  credential,   \* the row: none, or the account it names and the account it opens
  posts,        \* the requests
  page,         \* what each tab shows
  unheard,      \* tokens Rivian accepted a code for in an answer that did not arrive
  signedOut     \* the last sign-out to finish had no other request beside it or after it

signInVars ==
  <<sealKey, pods, codeTokens, waiting, credential, posts, page, unheard, signedOut>>

\* A key that is absent answers as one that cannot seal does.
Keys == {"usable", "unusable"}
NoAttempt == [account |-> NoAccount, token |-> 0, due |-> FALSE]
NoRow == [account |-> NoAccount, opens |-> NoAccount]
Over == [kind |-> "none", at |-> "over", account |-> NoAccount, token |-> 0,
         alone |-> FALSE]

\* A page as it is loaded.
Loaded(account, code) ==
  [account |-> account, code |-> code, sent |-> FALSE, ended |-> FALSE, busy |-> 0]

SignInInit ==
  /\ sealKey \in Keys /\ pods = 1
  /\ codeTokens = <<>> /\ waiting = NoAttempt /\ credential = NoRow
  /\ posts = <<>> /\ page = [t \in Tabs |-> Loaded(NoAccount, FALSE)]
  /\ unheard = {} /\ signedOut = FALSE

UnderWay == {r \in DOMAIN posts : posts[r].at # "over"}
At(r, kind, step) == r \in UnderWay /\ posts[r].kind = kind /\ posts[r].at = step

\* The page's showCode.
ShowCode(t) == page[t].account = NoAccount /\ ~page[t].ended /\ (page[t].sent \/ page[t].code)

\* A tab posts, and is busy until it is answered; a sign-out under way is no longer alone.
Post(t, kind, step, attempt) ==
  /\ page[t].busy = 0 /\ Len(posts) < MaxRequests
  /\ posts' = Append([r \in DOMAIN posts |-> [posts[r] EXCEPT !.alone = FALSE]],
                     [kind |-> kind, at |-> step, account |-> attempt.account,
                      token |-> attempt.token, alone |-> kind = "logout" /\ UnderWay = {}])
  /\ page' = [page EXCEPT ![t].busy = Len(posts) + 1]

\* The request moves on to its next await.
Moves(r, step) == posts' = [posts EXCEPT ![r].at = step]

\* What an answer makes of the page: a code is asked for, the attempt has ended, or neither.
AsksForCode(p) == [p EXCEPT !.sent = TRUE, !.ended = FALSE]
Restarts(p) == [p EXCEPT !.ended = TRUE]
Answered(p, outcome) ==
  CASE outcome = "otp_required" -> AsksForCode(p)
    [] outcome = "restart" -> Restarts(p)
    [] OTHER -> p

\* The request is over, and the tab that waits for it, if one still does, is told.
Answers(r, outcome) ==
  /\ posts' = [posts EXCEPT ![r] = Over]
  /\ page' = [t \in Tabs |-> IF page[t].busy = r THEN [Answered(page[t], outcome) EXCEPT !.busy = 0]
                             ELSE page[t]]

-----------------------------------------------------------------------------
(* The half-made sign-in.                                                  *)

\* clearPendingOtp, whose ever it is by now.
Cleared == waiting' = NoAttempt

\* Ten minutes pass.
AttemptDue ==
  /\ waiting # NoAttempt /\ ~waiting.due
  /\ waiting' = [waiting EXCEPT !.due = TRUE]
  /\ UNCHANGED <<sealKey, pods, codeTokens, credential, posts, page, unheard, signedOut>>

\* getPendingOtp: nothing when it is due, and it is forgotten.
PendingOtp == IF waiting.due THEN NoAttempt ELSE waiting

\* The page's load: the row, and whether a sign-in waits for its code.
LoadsPage(t) ==
  /\ waiting' = PendingOtp
  /\ page' = [page EXCEPT ![t] = Loaded(credential.account, PendingOtp # NoAttempt)]
  /\ UNCHANGED <<sealKey, pods, codeTokens, credential, posts, unheard, signedOut>>

-----------------------------------------------------------------------------
(* Step one: email and password.                                           *)

\* The key is there and seals: asserted before Rivian is asked anything.
CanSeal == sealKey = "usable"

\* signIn; a key that cannot seal is answered at once and changes nothing.
SignsIn(t, a) ==
  /\ page[t].account = NoAccount /\ CanSeal
  /\ Post(t, "login", "asking", [NoAttempt EXCEPT !.account = a])
  /\ signedOut' = FALSE
  /\ UNCHANGED <<sealKey, pods, codeTokens, waiting, credential, unheard>>

\* Rivian opens a session, asks for a code, or refuses.
RivianLogin(r) ==
  /\ At(r, "login", "asking")
  /\ \/ Moves(r, "session") /\ UNCHANGED <<codeTokens, page>>
     \/ /\ codeTokens' = Append(codeTokens, [of |-> posts[r].account, is |-> "live"])
        /\ posts' = [posts EXCEPT ![r].at = "otp", ![r].token = Len(codeTokens) + 1]
        /\ UNCHANGED page
     \/ Answers(r, "other") /\ UNCHANGED codeTokens
  /\ UNCHANGED <<sealKey, pods, waiting, credential, unheard, signedOut>>

\* setPendingOtp: the attempt replaces what was there.
Parks(r) ==
  /\ At(r, "login", "otp")
  /\ waiting' = [account |-> posts[r].account, token |-> posts[r].token, due |-> FALSE]
  /\ Answers(r, "otp_required")
  /\ UNCHANGED <<sealKey, pods, codeTokens, credential, unheard, signedOut>>

\* A call that times out, whether Rivian acted on it or not.
NoAnswer(r) ==
  /\ r \in UnderWay /\ posts[r].at \in {"asking", "otp", "session", "refused", "ended"}
  /\ unheard' = IF At(r, "code", "session") THEN unheard \cup {posts[r].token} ELSE unheard
  /\ Answers(r, "other")
  /\ UNCHANGED <<sealKey, pods, codeTokens, waiting, credential, signedOut>>

-----------------------------------------------------------------------------
(* Step two: the code.                                                     *)

\* submitOtp: without an attempt the page is told to start again, and Rivian is not asked.
SubmitsCode(t) ==
  /\ ShowCode(t) /\ page[t].busy = 0 /\ CanSeal
  /\ waiting' = PendingOtp
  /\ IF PendingOtp = NoAttempt
     THEN page' = [page EXCEPT ![t] = Restarts(@)] /\ UNCHANGED <<posts, signedOut>>
     ELSE /\ Post(t, "code", "asking", waiting)
          /\ signedOut' = FALSE
  /\ UNCHANGED <<sealKey, pods, codeTokens, credential, unheard>>

\* Rivian accepts a right code once; a token that ended is told apart, or taken for a wrong code.
RivianCode(r) ==
  /\ At(r, "code", "asking")
  /\ LET was == codeTokens[posts[r].token].is IN
       \/ /\ was = "live" /\ Moves(r, "session")
          /\ codeTokens' = [codeTokens EXCEPT ![posts[r].token].is = "spent"]
       \/ /\ \/ was # "expired" /\ Moves(r, "refused")
             \/ was # "live" /\ Moves(r, "ended")
          /\ UNCHANGED codeTokens
  /\ UNCHANGED <<sealKey, pods, waiting, credential, page, unheard, signedOut>>

\* A wrong code leaves the attempt; OTP_TOKEN_EXPIRED ends it.
CodeRefused(r) ==
  /\ \/ At(r, "code", "refused") /\ Answers(r, "other") /\ UNCHANGED waiting
     \/ At(r, "code", "ended") /\ Answers(r, "restart") /\ Cleared
  /\ UNCHANGED <<sealKey, pods, codeTokens, credential, unheard, signedOut>>

\* Mutant: the attempt is kept once its code has been accepted.
SessionKept(r) ==
  /\ At(r, "login", "session") \/ At(r, "code", "session")
  /\ UNCHANGED waiting /\ Moves(r, "saving")
  /\ UNCHANGED <<sealKey, pods, codeTokens, credential, page, unheard, signedOut>>

\* A session came back: the attempt is forgotten before the session is sealed and saved.
SessionComes(r) ==
  /\ At(r, "login", "session") \/ At(r, "code", "session")
  /\ Cleared /\ Moves(r, "saving")
  /\ UNCHANGED <<sealKey, pods, codeTokens, credential, page, unheard, signedOut>>

\* The row it writes: the account that was asked for, and the session that came back.
Row(r) == [account |-> posts[r].account,
           opens |-> IF posts[r].token = 0 THEN posts[r].account ELSE codeTokens[posts[r].token].of]

\* sealAndSave.
Saves(r) ==
  /\ r \in UnderWay /\ posts[r].at = "saving"
  /\ credential' = Row(r) /\ Answers(r, "other")
  /\ UNCHANGED <<sealKey, pods, codeTokens, waiting, unheard, signedOut>>

-----------------------------------------------------------------------------
(* Signing out.                                                            *)

\* signOut: the attempt first, then the row.
SignsOut(t) ==
  /\ page[t].account # NoAccount
  /\ Post(t, "logout", "deleting", NoAttempt)
  /\ Cleared
  /\ UNCHANGED <<sealKey, pods, codeTokens, credential, unheard, signedOut>>

Deletes(r) ==
  /\ At(r, "logout", "deleting")
  /\ credential' = NoRow /\ signedOut' = posts[r].alone /\ Answers(r, "other")
  /\ UNCHANGED <<sealKey, pods, codeTokens, waiting, unheard>>

\* A write that fails is an error, whether it landed or not.
WriteFails(r) ==
  /\ r \in UnderWay /\ posts[r].at \in {"saving", "deleting"}
  /\ credential' \in {credential, IF posts[r].at = "saving" THEN Row(r) ELSE NoRow}
  /\ Answers(r, "other")
  /\ UNCHANGED <<sealKey, pods, codeTokens, waiting, unheard, signedOut>>

-----------------------------------------------------------------------------
(* Outside.                                                                *)

TokenExpires(k) ==
  /\ codeTokens[k].is = "live" /\ codeTokens' = [codeTokens EXCEPT ![k].is = "expired"]
  /\ UNCHANGED <<sealKey, pods, waiting, credential, posts, page, unheard, signedOut>>

\* A new pod, perhaps with another key: the memory is gone, and so are the requests.
PodReplaced ==
  /\ pods < MaxPods /\ pods' = pods + 1
  /\ sealKey' \in Keys /\ waiting' = NoAttempt
  /\ posts' = [r \in DOMAIN posts |-> Over]
  /\ page' = [t \in Tabs |-> [page[t] EXCEPT !.busy = 0]]
  /\ credential' \in {credential} \cup {Row(r) : r \in {q \in UnderWay : posts[q].at = "saving"}}
  /\ UNCHANGED <<codeTokens, unheard, signedOut>>

SignInNext ==
  \/ AttemptDue \/ PodReplaced
  \/ \E t \in Tabs : LoadsPage(t) \/ SubmitsCode(t) \/ SignsOut(t) \/ \E a \in Accounts : SignsIn(t, a)
  \/ \E r \in DOMAIN posts :
       \/ RivianLogin(r) \/ Parks(r) \/ NoAnswer(r) \/ RivianCode(r) \/ CodeRefused(r)
       \/ SessionComes(r) \/ Saves(r) \/ Deletes(r) \/ WriteFails(r)
  \/ \E k \in DOMAIN codeTokens : TokenExpires(k)

SignInSpec == SignInInit /\ [][SignInNext]_signInVars

-----------------------------------------------------------------------------
(* Properties.                                                             *)

\* The variables have the values the code gives them.
SignInTypes ==
  /\ sealKey \in Keys /\ pods \in 1..MaxPods
  /\ waiting.account \in Accounts \cup {NoAccount} /\ waiting.token \in 0..Len(codeTokens)
  /\ credential.account \in Accounts \cup {NoAccount}
  /\ \A r \in DOMAIN posts : posts[r].token \in 0..Len(codeTokens)
  /\ \A t \in Tabs : page[t].busy \in 0..Len(posts)
  /\ unheard \subseteq DOMAIN codeTokens

\* The row's account is the one its session opens (rivian-auth.ts:276), though attempts
\* replace one another while a code is on its way.
RowOpensItsAccount == credential.account = credential.opens

\* No session is obtained from Rivian that this pod cannot keep (rivian-auth.ts:163-177).
NothingSpentInVain ==
  CanSeal \/ \A r \in UnderWay : posts[r].at \notin {"session", "saving"}

\* An attempt whose token is spent is not kept (rivian-auth.ts:271-274) beyond the request
\* that spent it, unless the answer that said so was lost.
AttemptUnspent ==
  \A k \in DOMAIN codeTokens : waiting.token = k /\ codeTokens[k].is = "spent" =>
     k \in unheard \/ \E r \in UnderWay : posts[r].token = k /\ posts[r].at = "session"

\* A sign-out that no other request ran beside leaves neither a row nor an attempt
\* (rivian-auth.ts:280-286) until somebody signs in again.
SignedOutIsOut == signedOut => credential = NoRow /\ waiting = NoAttempt

SignInSound == RowOpensItsAccount /\ NothingSpentInVain /\ AttemptUnspent /\ SignedOutIsOut

=============================================================================
