------------------------------ MODULE Sessions ------------------------------
(***************************************************************************)
(* The sessions of one user: AuthService (login, refreshTokens, logout,    *)
(* resetPassword), the cookies that AuthController sets and clears, and    *)
(* the web client of lib/api.ts, which renews the cookies by itself.       *)
(*                                                                         *)
(* A browser has one cookie jar; each of its tabs runs its own copy of     *)
(* lib/api.ts, with one refreshPromise and several calls in flight.  One   *)
(* statement of the server that reads or writes the tables is one step.    *)
(* An answer acts when it arrives, and one may be lost.                    *)
(***************************************************************************)
EXTENDS Naturals, FiniteSets

CONSTANTS
  Browsers, TabIds, \* the tabs are Browsers \X TabIds
  Calls,            \* calls of a tab in flight at once
  Tokens,           \* rows the refresh_tokens table has room for
  NoToken,          \* an empty cookie, or a hash the table does not have
  Links,            \* password reset links the user may ask for
  MaxLogins,        \* bound on the logins
  MaxEnds           \* bound on the logouts and resets

ASSUME SessionAssumption ==
  /\ NoToken \notin Tokens
  /\ {MaxLogins, MaxEnds} \subseteq Nat

VARIABLES
  token,   \* the RefreshToken rows
  jar,     \* jar[b]: the cookie refreshToken of browser b
  call,    \* call[t][c]: what baseFetch does for call c of tab t
  refresh, \* refresh[t]: the refreshPromise of tab t, and its request
  link,    \* the PasswordResetToken rows, and the request that uses one
  logins,  \* logins so far: the login a token descends from
  ends,    \* logouts and resets so far that revoked the tokens of the user
  raced,   \* history: the logins that such an end did not stop any more
  crossed  \* history: the logins that lost the answer of a refresh, or that the replay
           \* of an older cookie ended

vars == <<token, jar, call, refresh, link, logins, ends, raced, crossed>>

Tabs == Browsers \X TabIds

\* born: how often the user had signed out everywhere when the password of its login
\* was checked.
Row(used, revoked, expired, login, born) ==
  [used |-> used, revoked |-> revoked, expired |-> expired, login |-> login, born |-> born]
NoRow == Row(FALSE, FALSE, FALSE, 0, 0)

Live(k) == token[k].used /\ ~token[k].revoked /\ ~token[k].expired

\* token: the row a login has inserted or a logout must look up; born: what a login
\* will write into its row.
CallOf(pc, kind, retried, tok, born) ==
  [pc |-> pc, kind |-> kind, retried |-> retried, token |-> tok, born |-> born]
NoCall == CallOf("idle", "data", FALSE, NoToken, 0)

RefreshOf(pc, tok) == [pc |-> pc, token |-> tok]
NoRefresh == RefreshOf("none", NoToken)

Init ==
  /\ token = [k \in Tokens |-> NoRow]
  /\ jar = [b \in Browsers |-> NoToken]
  /\ call = [t \in Tabs |-> [c \in Calls |-> NoCall]]
  /\ refresh = [t \in Tabs |-> NoRefresh]
  /\ link = [l \in Links |-> "free"]
  /\ logins = 0 /\ ends = 0 /\ raced = {} /\ crossed = {}

SetCall(t, c, r) == call' = [call EXCEPT ![t] = [@ EXCEPT ![c] = r]]
SetRefresh(t, r) == refresh' = [refresh EXCEPT ![t] = r]
SetRow(k, r) == token' = [token EXCEPT ![k] = r]
Revoked(row) == [row EXCEPT !.revoked = TRUE]

\* revokeAllUserTokens
RevokeAll == token' = [k \in Tokens |-> IF token[k].used THEN Revoked(token[k]) ELSE NoRow]

\* The same because the user ends the sessions.  A refresh that has found its token
\* valid goes on.
EndSessions ==
  /\ RevokeAll
  /\ ends' = ends + 1
  /\ raced' = raced \cup {token[refresh[t].token].login :
                           t \in {u \in Tabs : refresh[u].pc \in {"found", "rotated"}}}

-----------------------------------------------------------------------------
\* lib/api.ts: baseFetch and tryRefresh

LoggingIn == {s \in Tabs \X Calls : call[s[1]][s[2]].pc # "idle" /\ call[s[1]][s[2]].kind = "login"}

\* A request leaves with the cookies of the moment; nothing waits for another.
Send(t, c, kind) ==
  /\ call[t][c].pc = "idle"
  /\ kind = "login" => logins + Cardinality(LoggingIn) < MaxLogins
  /\ kind = "logout" => ends < MaxEnds
  /\ SetCall(t, c, CallOf("sent", kind, FALSE,
                          IF kind = "logout" THEN jar[t[1]] ELSE NoToken, 0))
  /\ UNCHANGED <<token, jar, refresh, link, logins, ends, raced, crossed>>

\* The access token lasts fifteen minutes, and may be past them whenever a request is
\* judged.
Served(t, c) ==
  /\ call[t][c].pc = "sent" /\ call[t][c].kind = "data"
  /\ SetCall(t, c, NoCall)
  /\ UNCHANGED <<token, jar, refresh, link, logins, ends, raced, crossed>>

\* Mutant: the retried call does not carry its header and is renewed again.
UnauthorizedAgain(t, c) ==
  /\ call[t][c].pc = "sent"
  /\ call[t][c].kind # "logout"
  /\ SetCall(t, c, [call[t][c] EXCEPT !.pc = "waiting"])
  /\ refresh' = IF refresh[t] # NoRefresh THEN refresh
                ELSE [refresh EXCEPT ![t] = RefreshOf("sent", jar[t[1]])]
  /\ UNCHANGED <<token, jar, link, logins, ends, raced, crossed>>

\* A 401, for want of an access token or of the right password: the call waits for the
\* refresh of its tab, which it starts if there is none.  A second one is returned.
Unauthorized(t, c) ==
  /\ call[t][c].pc = "sent"
  /\ call[t][c].kind # "logout"
  /\ IF call[t][c].retried
     THEN SetCall(t, c, NoCall) /\ UNCHANGED refresh
     ELSE /\ SetCall(t, c, [call[t][c] EXCEPT !.pc = "waiting"])
          /\ refresh' = IF refresh[t] # NoRefresh THEN refresh
                        ELSE [refresh EXCEPT ![t] = RefreshOf("sent", jar[t[1]])]
  /\ UNCHANGED <<token, jar, link, logins, ends, raced, crossed>>

\* The calls that waited for the refresh are sent again, or return their 401.
Resume(t, ok) ==
  call' = [call EXCEPT ![t] = [c \in Calls |->
             IF @[c].pc # "waiting" THEN @[c]
             ELSE IF ok THEN CallOf("sent", @[c].kind, TRUE, NoToken, 0) ELSE NoCall]]

\* Mutant: the answer of a refresh does not set its cookie.
RenewedSilently(t) ==
  /\ refresh[t].pc = "created"
  /\ SetRefresh(t, NoRefresh)
  /\ Resume(t, TRUE)
  /\ UNCHANGED <<token, jar, link, logins, ends, raced, crossed>>

Renewed(t) ==
  /\ refresh[t].pc = "created"
  /\ jar' = [jar EXCEPT ![t[1]] = refresh[t].token]
  /\ SetRefresh(t, NoRefresh)
  /\ Resume(t, TRUE)
  /\ UNCHANGED <<token, link, logins, ends, raced, crossed>>

NotRenewed(t) ==
  /\ refresh[t].pc = "failed"
  /\ SetRefresh(t, NoRefresh)
  /\ Resume(t, FALSE)
  /\ UNCHANGED <<token, jar, link, logins, ends, raced, crossed>>

\* fetch rejects: the catch of tryRefresh answers false, and the cookie stays the one
\* that was exchanged.
LoseRefresh(t) ==
  /\ refresh[t].pc = "created"
  /\ SetRefresh(t, NoRefresh)
  /\ Resume(t, FALSE)
  /\ crossed' = crossed \cup {token[refresh[t].token].login}
  /\ UNCHANGED <<token, jar, link, logins, ends, raced>>

-----------------------------------------------------------------------------
\* refreshTokens

\* Mutant: a revoked token is exchanged like any other.
RefreshFindRevoked(t) ==
  LET k == refresh[t].token
  IN  /\ refresh[t].pc = "sent"
      /\ \/ k = NoToken /\ SetRefresh(t, RefreshOf("failed", k))
         \/ k # NoToken /\ token[k].expired /\ SetRefresh(t, RefreshOf("lapsed", k))
         \/ k # NoToken /\ ~token[k].expired /\ SetRefresh(t, RefreshOf("found", k))
      /\ UNCHANGED <<token, jar, call, link, logins, ends, raced, crossed>>

\* findUnique by hash, with the ways it goes on.
RefreshFind(t) ==
  LET k == refresh[t].token
  IN  /\ refresh[t].pc = "sent"
      /\ \/ k = NoToken /\ SetRefresh(t, RefreshOf("failed", k))
         \/ k # NoToken /\ token[k].revoked /\ SetRefresh(t, RefreshOf("replayed", k))
         \/ k # NoToken /\ ~token[k].revoked /\ token[k].expired /\ SetRefresh(t, RefreshOf("lapsed", k))
         \/ k # NoToken /\ ~token[k].revoked /\ ~token[k].expired /\ SetRefresh(t, RefreshOf("found", k))
      /\ UNCHANGED <<token, jar, call, link, logins, ends, raced, crossed>>

\* The logins whose cookie came, or is about to come, after the one refresh t left with.
LaterLogins(t) ==
  {token[k].login : k \in {j \in Tokens :
     \/ jar[t[1]] = j /\ refresh[t].token # j
     \/ \E s \in LoggingIn : call[s[1]][s[2]].token = j}}

\* A revoked token is taken for a replay: every token of the user is revoked.
RefreshReplayed(t) ==
  /\ refresh[t].pc = "replayed"
  /\ RevokeAll
  /\ SetRefresh(t, RefreshOf("failed", NoToken))
  /\ crossed' = crossed \cup LaterLogins(t)
  /\ UNCHANGED <<jar, call, link, logins, ends, raced>>

RefreshLapsed(t) ==
  /\ refresh[t].pc = "lapsed"
  /\ SetRow(refresh[t].token, Revoked(token[refresh[t].token]))
  /\ SetRefresh(t, RefreshOf("failed", NoToken))
  /\ UNCHANGED <<jar, call, link, logins, ends, raced, crossed>>

\* Mutant: the old token is not revoked.
RotateNothing(t) ==
  /\ refresh[t].pc = "found"
  /\ SetRefresh(t, RefreshOf("rotated", refresh[t].token))
  /\ UNCHANGED <<token, jar, call, link, logins, ends, raced, crossed>>

\* Rotation: update of the old row ...
Rotate(t) ==
  /\ refresh[t].pc = "found"
  /\ SetRow(refresh[t].token, Revoked(token[refresh[t].token]))
  /\ SetRefresh(t, RefreshOf("rotated", refresh[t].token))
  /\ UNCHANGED <<jar, call, link, logins, ends, raced, crossed>>

\* createAuthPayload inserts a row; its cookies leave with the answer.
createAuthPayload(k, login, born) ==
  ~token[k].used /\ SetRow(k, Row(TRUE, FALSE, FALSE, login, born))

\* ... and insertion of the new one.
RefreshCreate(t) ==
  /\ refresh[t].pc = "rotated"
  /\ \E k \in Tokens :
       /\ createAuthPayload(k, token[refresh[t].token].login, token[refresh[t].token].born)
       /\ SetRefresh(t, RefreshOf("created", k))
  /\ UNCHANGED <<jar, call, link, logins, ends, raced, crossed>>

-----------------------------------------------------------------------------
\* login and logout

\* The user is read and the password compared.
LoginCheck(t, c) ==
  /\ call[t][c].pc = "sent" /\ call[t][c].kind = "login"
  /\ SetCall(t, c, CallOf("checked", "login", FALSE, NoToken, ends))
  /\ UNCHANGED <<token, jar, refresh, link, logins, ends, raced, crossed>>

\* The row is inserted; the answer sets the cookies.  A password that was changed
\* meanwhile is not compared again.
LoginCreate(t, c) ==
  /\ call[t][c].pc = "checked"
  /\ \E k \in Tokens :
       /\ createAuthPayload(k, logins + 1, call[t][c].born)
       /\ SetCall(t, c, CallOf("granted", "login", FALSE, k, 0))
  /\ logins' = logins + 1
  /\ raced' = IF call[t][c].born = ends THEN raced ELSE raced \cup {logins + 1}
  /\ UNCHANGED <<jar, refresh, link, ends, crossed>>

LoginAnswered(t, c) ==
  /\ call[t][c].pc = "granted" /\ call[t][c].kind = "login"
  /\ jar' = [jar EXCEPT ![t[1]] = call[t][c].token]
  /\ SetCall(t, c, NoCall)
  /\ UNCHANGED <<token, refresh, link, logins, ends, raced, crossed>>

\* logout: the row names the user, all of whose tokens are revoked.
LogoutRevoke(t, c) ==
  /\ call[t][c].pc = "sent" /\ call[t][c].kind = "logout"
  /\ IF call[t][c].token # NoToken THEN EndSessions
                                   ELSE UNCHANGED <<token, ends, raced>>
  /\ SetCall(t, c, CallOf("granted", "logout", FALSE, NoToken, 0))
  /\ UNCHANGED <<jar, refresh, link, logins, crossed>>

LogoutAnswered(t, c) ==
  /\ call[t][c].pc = "granted" /\ call[t][c].kind = "logout"
  /\ jar' = [jar EXCEPT ![t[1]] = NoToken]
  /\ SetCall(t, c, NoCall)
  /\ UNCHANGED <<token, refresh, link, logins, ends, raced, crossed>>

-----------------------------------------------------------------------------
\* requestPasswordReset and resetPassword, and the nightly purge of the tokens

RequestReset(l) ==
  /\ link[l] = "free" /\ ends < MaxEnds
  /\ link' = [link EXCEPT ![l] = "open"]
  /\ UNCHANGED <<token, jar, call, refresh, logins, ends, raced, crossed>>

\* findUnique of a link that is neither used nor past its fifteen minutes; then one
\* transaction: the password, the link and the tokens.  Nothing but another use of the
\* link comes between the two that would make a difference, and that is as good as a
\* second link.
ResetApply(l) ==
  /\ link[l] = "open" /\ ends < MaxEnds
  /\ link' = [link EXCEPT ![l] = "free"]
  /\ EndSessions
  /\ UNCHANGED <<jar, call, refresh, logins, crossed>>

LinkExpires(l) ==
  /\ link[l] = "open"
  /\ link' = [link EXCEPT ![l] = "free"]
  /\ UNCHANGED <<token, jar, call, refresh, logins, ends, raced, crossed>>

\* The token of a cookie that is not renewed for too long.  (Nobody notices the end of
\* one that no cookie holds.)
TokenExpires(k) ==
  /\ Live(k) /\ \E b \in Browsers : jar[b] = k
  /\ SetRow(k, [token[k] EXCEPT !.expired = TRUE])
  /\ UNCHANGED <<jar, call, refresh, link, logins, ends, raced, crossed>>

\* purgeExpiredTokens: thirty days later no cookie and no request names the row.
Purge ==
  /\ \E k \in Tokens :
       /\ token[k].used /\ ~Live(k)
       /\ \A b \in Browsers : jar[b] # k
       /\ \A t \in Tabs : refresh[t].token # k /\ \A c \in Calls : call[t][c].token # k
       /\ SetRow(k, NoRow)
  /\ UNCHANGED <<jar, call, refresh, link, logins, ends, raced, crossed>>

-----------------------------------------------------------------------------
RefreshStep(t) ==
  \/ RefreshFind(t) \/ RefreshReplayed(t) \/ RefreshLapsed(t) \/ Rotate(t) \/ RefreshCreate(t)
  \/ Renewed(t) \/ NotRenewed(t)

CallStep(t, c) ==
  \/ Served(t, c) \/ Unauthorized(t, c)
  \/ LoginCheck(t, c) \/ LoginCreate(t, c) \/ LoginAnswered(t, c)
  \/ LogoutRevoke(t, c) \/ LogoutAnswered(t, c)

Next ==
  \/ \E t \in Tabs :
       \/ RefreshStep(t) \/ LoseRefresh(t)
       \/ \E c \in Calls : CallStep(t, c) \/ \E kind \in {"data", "login", "logout"} : Send(t, c, kind)
  \/ \E l \in Links : RequestReset(l) \/ ResetApply(l) \/ LinkExpires(l)
  \/ \E k \in Tokens : TokenExpires(k)
  \/ Purge

Spec == Init /\ [][Next]_vars

\* Servers and clients go on with what they have begun, and the purge runs.  The table
\* of the database has no bound: a login that finds room in Tokens again and again
\* inserts its row.
FairSpec ==
  /\ Spec
  /\ \A t \in Tabs :
       /\ WF_vars(RefreshStep(t))
       /\ \A c \in Calls : WF_vars(CallStep(t, c)) /\ SF_vars(LoginCreate(t, c))
  /\ WF_vars(Purge)

-----------------------------------------------------------------------------
InFlight(b) ==
  \E t \in {b} \X TabIds :
    refresh[t] # NoRefresh \/ \E c \in Calls : call[t][c].pc # "idle"

\* While nothing of a browser is in flight, the token in its cookie can be exchanged,
\* unless the user has signed out or reset the password since, it is too old, or its
\* login is in crossed: however many calls of the page find the access token expired at
\* once, and whatever calls a login runs beside, none of their refreshes is taken for a
\* replay.  A login is crossed when the answer of one of its refreshes was lost, or when
\* a refresh was under way beside it with the cookie of a session that had been ended:
\* that replay revokes the new row as well.  (So with one tab: a second one, a page
\* reloaded while its refresh is under way, or another browser that comes back with such
\* a cookie sends a token that was revoked, and every token of the user is.)
SessionContinues ==
  \A b \in Browsers :
    LET k == jar[b]
    IN  /\ k # NoToken /\ ~InFlight(b)
        /\ token[k].born = ends /\ token[k].login \notin crossed
        => ~token[k].revoked \/ token[k].expired

\* Rotation: the tokens that descend from one login never leave two of them valid,
\* nor one valid when the other is about to be replaced.
OneLiveTokenPerLogin ==
  \A k1, k2 \in Tokens :
    Live(k1) /\ Live(k2) /\ token[k1].login = token[k2].login => k1 = k2

\* A logout or a reset ends every session for good: whatever cookie a browser still
\* holds and whichever answers are under way, a token that is valid descends from a
\* login whose password was checked after the last one.  (A login that was checked, or
\* a refresh that had found its token valid, at that very moment still issues the next
\* one, and only the session of that login goes on.)
EndedForGood == \A k \in Tokens : Live(k) => token[k].born = ends \/ token[k].login \in raced

\* A call of the web client returns: it is renewed and retried once, and a refresh
\* that fails, is refused or is lost does not leave it waiting.
EveryCallReturns ==
  \A t \in Tabs, c \in Calls : call[t][c].pc # "idle" ~> call[t][c].pc = "idle"

=============================================================================
